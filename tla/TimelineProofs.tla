--------------------------- MODULE TimelineProofs ----------------------------
(***************************************************************************)
(* Theorems about Timeline, for any number of rows, epochs and             *)
(* disturbances, any page size and any lapses: the type of its state       *)
(* (Shape), where what is on its way stands (Positions), what app and      *)
(* daemon know of the subscription (Links), and that what is held of an    *)
(* epoch never shrinks at its end. Pages and transcripts are made by folds *)
(* over rows; what such a fold yields is shown by induction over its       *)
(* steps, with the induction rule (Induction) derived from the well-       *)
(* foundedness of the natural numbers. The last parts are about the        *)
(* course, the line that the answers on their way and the requests form    *)
(* that wait to be answered, and say what the catch-up has to do with it   *)
(* (CatchesUp); TimelineCatchUpProofs rests on them.                       *)
(***************************************************************************)
EXTENDS Timeline, FiniteSetTheorems, WellFoundedInduction, TLAPS

-----------------------------------------------------------------------------
(* Induction, and the projection of rows: anchors, ranks, entries and the  *)
(* pages that are cut from them.                                           *)

\* A set of natural numbers with 0 that is closed under successors is all of
\* them.
LEMMA Induction ==
    ASSUME NEW S \in SUBSET Nat, 0 \in S, \A n \in S : n + 1 \in S
    PROVE  S = Nat
<1>1. SUFFICES ASSUME Nat \ S # {} PROVE FALSE
  OBVIOUS
<1>2. PICK x \in Nat \ S : \A y \in Nat \ S : ~ (<<y, x>> \in OpToRel(<, Nat))
  BY <1>1, NatLessThanWellFounded, WFMin
<1>3. \A y \in Nat \ S : ~ (y < x)
  BY <1>2 DEF OpToRel
<1>4. x # 0 /\ x - 1 \in Nat /\ x - 1 < x
  OBVIOUS
<1>5. x - 1 \in S
  BY <1>3, <1>4
<1> QED
  BY <1>4, <1>5

\* Min and Max of the community modules, of sets of naturals.
LEMMA LeastIs ==
    ASSUME NEW S \in SUBSET Nat, S # {}
    PROVE  Min(S) \in S /\ \A y \in S : Min(S) <= y
<1>1. PICK x \in S : \A y \in S : ~ (<<y, x>> \in OpToRel(<, Nat))
  BY NatLessThanWellFounded, WFMin
<1>2. \A y \in S : y \in Nat /\ x \in Nat /\ ~ (y < x)
  BY <1>1 DEF OpToRel
<1>3. \A y \in S : x <= y
  BY <1>2
<1> QED
  BY <1>3 DEF Min

LEMMA GreatestIs ==
    ASSUME NEW S \in SUBSET Nat, S # {}, NEW n \in Nat, \A y \in S : y <= n
    PROVE  Max(S) \in S /\ \A y \in S : Max(S) >= y
<1> DEFINE T == {m \in Nat : \A y \in S : y <= m}
<1>1. n \in T /\ T \in SUBSET Nat
  OBVIOUS
<1>2. PICK x \in T : \A y \in T : ~ (<<y, x>> \in OpToRel(<, Nat))
  BY <1>1, NatLessThanWellFounded, WFMin
<1>3. \A y \in T : y \in Nat /\ x \in Nat /\ ~ (y < x)
  BY <1>2 DEF OpToRel
<1>4. x \in S
  <2>1. SUFFICES ASSUME x \notin S PROVE FALSE
    OBVIOUS
  <2>2. \A y \in S : y \in Nat /\ x \in Nat /\ y <= x /\ y # x
    BY <2>1
  <2>3. \A y \in S : y <= x - 1 /\ x # 0
    BY <2>2
  <2>4. x - 1 \in T
    <3>1. PICK y \in S : TRUE
      OBVIOUS
    <3>2. x - 1 \in Nat
      BY <2>3, <2>2, <3>1
    <3> QED
      BY <2>3, <3>2
  <2> QED
    BY <1>1, <1>3, <2>4
<1> QED
  BY <1>4 DEF Max

-----------------------------------------------------------------------------
Histories ==
  {rs \in Seq(Nat \ {0}) : \A s \in DOMAIN rs : rs[s] <= s /\ rs[rs[s]] = rs[s]}

LEMMA AnchorTypes ==
    ASSUME NEW rs \in Histories
    PROVE  /\ DOMAIN rs = 1 .. Len(rs) /\ Len(rs) \in Nat
           /\ \A s \in DOMAIN rs : rs[s] \in Anchors(rs)
           /\ \A a \in Anchors(rs) : /\ a \in 1 .. Len(rs) /\ rs[a] = a
                                     /\ a \in Sources(rs, a)
                                     /\ \A s \in Sources(rs, a) : s \in 1 .. Len(rs) /\ a <= s
<1>1. rs \in Seq(Nat \ {0}) /\ \A s \in DOMAIN rs : rs[s] <= s /\ rs[rs[s]] = rs[s]
  BY DEF Histories
<1>2. DOMAIN rs = 1 .. Len(rs) /\ Len(rs) \in Nat /\ \A s \in DOMAIN rs : rs[s] \in Nat \ {0}
  BY <1>1
<1>3. \A s \in DOMAIN rs : rs[s] \in DOMAIN rs
  BY <1>1, <1>2
<1> QED
  BY <1>1, <1>2, <1>3 DEF Anchors, Sources

\* An entry ends with the last row of its item.
LEMMA EntryIs ==
    ASSUME NEW rs \in Histories, NEW a \in Anchors(rs)
    PROVE  /\ Entry(rs, a).anchor = a
           /\ Entry(rs, a).end \in Sources(rs, a)
           /\ \A s \in Sources(rs, a) : s <= Entry(rs, a).end
           /\ Entry(rs, a).end \in a .. Len(rs)
<1> DEFINE S == Sources(rs, a)
<1>1. /\ S \in SUBSET Nat /\ S # {}
      /\ Len(rs) \in Nat /\ a \in Nat
      /\ \A s \in S : s \in 1 .. Len(rs) /\ a <= s
      /\ \A s \in S : s <= Len(rs)
  BY AnchorTypes
<1>2. Max(S) \in S /\ \A s \in S : Max(S) >= s
  <2> HIDE DEF S
  <2> QED
    BY <1>1, GreatestIs
<1>3. Entry(rs, a) = [anchor |-> a, end |-> Max(S)]
  BY DEF Entry
<1> HIDE DEF S
<1>4. Entry(rs, a).end = Max(S) /\ Entry(rs, a).anchor = a
  BY <1>3
<1>5. \A s \in S : s <= Max(S)
  BY <1>1, <1>2
<1> QED
  BY <1>1, <1>2, <1>4, <1>5 DEF S

\* The numbers of a finite set in order: the i-th has i - 1 of them below it.
Rank(at, a) == Cardinality({b \in at : b < a})

LEMMA Ranked ==
    ASSUME NEW n \in Nat, NEW at \in SUBSET (1 .. n)
    PROVE  /\ IsFiniteSet(at) /\ Cardinality(at) \in Nat
           /\ \A i \in 1 .. Cardinality(at) : \E a \in at : Rank(at, a) = i - 1
           /\ \A a \in at : Rank(at, a) \in 0 .. Cardinality(at) - 1
           /\ \A a, c \in at : a < c => Rank(at, a) < Rank(at, c)
<1> DEFINE below(a) == {b \in at : b < a}
           size == Cardinality(at)
           f == [a \in at |-> Rank(at, a)]
<1>r. \A a : Rank(at, a) = Cardinality(below(a))
  BY DEF Rank
<1>1. IsFiniteSet(at) /\ size \in Nat
  <2>1. IsFiniteSet(1 .. n)
    BY FS_Interval
  <2> QED
    BY <2>1, FS_Subset, FS_CardinalityType
<1>2. \A a \in at : a \in Nat
  <2>1. \A a \in at : a \in 1 .. n
    OBVIOUS
  <2>2. \A a \in 1 .. n : a \in Nat
    OBVIOUS
  <2> QED
    BY <2>1, <2>2
<1>b. /\ \A a \in at : below(a) \in SUBSET at /\ a \notin below(a)
      /\ \A a, c \in at : a < c => below(a) \in SUBSET below(c) /\ a \in below(c)
  <2>1. \A a \in at : below(a) \in SUBSET at /\ a \notin below(a)
    BY <1>2
  <2>2. ASSUME NEW a \in at, NEW c \in at, a < c
        PROVE  below(a) \in SUBSET below(c) /\ a \in below(c)
    <3>1. \A b \in at : b < a => b < c
      BY <1>2, <2>2
    <3> QED
      BY <2>2, <3>1
  <2> QED
    BY <2>1, <2>2
<1> HIDE DEF below, size
<1>3. ASSUME NEW a \in at
      PROVE  IsFiniteSet(below(a)) /\ Rank(at, a) \in 0 .. size - 1
  <2>1. below(a) \in SUBSET at /\ a \notin below(a)
    BY <1>b
  <2>2. IsFiniteSet(below(a)) /\ Cardinality(below(a)) \in Nat
    BY <1>1, <2>1, FS_Subset, FS_CardinalityType
  <2>3. Cardinality(below(a)) <= size /\ (Cardinality(below(a)) = size => below(a) = at)
    BY <1>1, <2>1, FS_Subset DEF size
  <2>4. Cardinality(below(a)) # size
    BY <2>1, <2>3
  <2> QED
    BY <1>1, <1>r, <2>2, <2>3, <2>4
<1>4. ASSUME NEW a \in at, NEW c \in at, a < c
      PROVE  Rank(at, a) < Rank(at, c)
  <2>1. below(a) \in SUBSET below(c) /\ a \in below(c) /\ a \notin below(a)
    BY <1>b, <1>4
  <2>2. IsFiniteSet(below(c)) /\ Rank(at, c) \in 0 .. size - 1 /\ Rank(at, a) \in 0 .. size - 1
    BY <1>3
  <2>3. Rank(at, a) <= Rank(at, c) /\ (Rank(at, a) = Rank(at, c) => below(a) = below(c))
    BY <2>1, <2>2, <1>r, FS_Subset
  <2>4. Rank(at, a) # Rank(at, c)
    BY <2>1, <2>3
  <2>5. Rank(at, a) \in Nat /\ Rank(at, c) \in Nat
    BY <1>1, <2>2
  <2> QED
    BY <2>3, <2>4, <2>5
<1>5. \A a, c \in at : Rank(at, a) = Rank(at, c) => a = c
  <2>1. SUFFICES ASSUME NEW a \in at, NEW c \in at, a # c PROVE Rank(at, a) # Rank(at, c)
    OBVIOUS
  <2>2. a < c \/ c < a
    BY <1>2, <2>1
  <2>3. Rank(at, a) \in 0 .. size - 1 /\ Rank(at, c) \in 0 .. size - 1
    BY <1>3
  <2>4. Rank(at, a) \in Nat /\ Rank(at, c) \in Nat
    BY <1>1, <2>3
  <2>5. CASE a < c
    BY <1>4, <2>4, <2>5
  <2>6. CASE c < a
    BY <1>4, <2>4, <2>6
  <2> QED
    BY <2>2, <2>5, <2>6
<1>6. f \in Surjection(at, 0 .. size - 1)
  <2>1. IsFiniteSet(0 .. size - 1) /\ Cardinality(0 .. size - 1) = size
    <3>1. 0 \in Int /\ size - 1 \in Int
      BY <1>1
    <3>2. IsFiniteSet(0 .. size - 1) /\ Cardinality(0 .. size - 1) = IF 0 <= size - 1 THEN (size - 1) - 0 + 1 ELSE 0
      BY <3>1, FS_Interval
    <3> QED
      BY <1>1, <3>2
  <2>2. f \in Injection(at, 0 .. size - 1)
    BY <1>3, <1>5 DEF Injection, IsInjective
  <2> HIDE DEF f
  <2> QED
    BY <1>1, <2>1, <2>2, FS_Injection DEF size
<1>7. ASSUME NEW i \in 1 .. size
      PROVE  \E a \in at : Rank(at, a) = i - 1
  <2>1. i - 1 \in 0 .. size - 1
    BY <1>1
  <2> QED
    BY <1>6, <2>1 DEF Surjection
<1> QED
  BY <1>1, <1>3, <1>4, <1>7 DEF size

\* The k-th of them.
Nth(at, k) == CHOOSE a \in at : Rank(at, a) = k - 1

LEMMA NthAre ==
    ASSUME NEW n \in Nat, NEW at \in SUBSET (1 .. n)
    PROVE  /\ Cardinality(at) \in Nat
           /\ \A k \in 1 .. Cardinality(at) : Nth(at, k) \in at
           /\ \A k, l \in 1 .. Cardinality(at) : k < l => Nth(at, k) < Nth(at, l)
           /\ \A i \in at : \E k \in 1 .. Cardinality(at) : Nth(at, k) = i
<1> DEFINE size == Cardinality(at)
<1>1. /\ size \in Nat
      /\ \A i \in 1 .. size : \E a \in at : Rank(at, a) = i - 1
      /\ \A a \in at : Rank(at, a) \in 0 .. size - 1
      /\ \A a, c \in at : a < c => Rank(at, a) < Rank(at, c)
  BY Ranked
<1>3. ASSUME NEW k \in 1 .. size
      PROVE  Nth(at, k) \in at /\ Rank(at, Nth(at, k)) = k - 1
  BY <1>1 DEF Nth
<1>n. \A a \in at : a \in Nat
  <2>1. \A a \in at : a \in 1 .. n
    OBVIOUS
  <2>2. \A a \in 1 .. n : a \in Nat
    OBVIOUS
  <2> QED
    BY <2>1, <2>2
<1> HIDE DEF size
<1>k. \A k \in 1 .. size : k \in Nat
  BY <1>1
<1>i. \A a \in at : Rank(at, a) \in Nat
  <2>1. \A j \in 0 .. size - 1 : j \in Nat
    BY <1>1
  <2> QED
    BY <1>1, <2>1
<1>4. ASSUME NEW k \in 1 .. size, NEW l \in 1 .. size, k < l
      PROVE  Nth(at, k) < Nth(at, l)
  <2>1. Rank(at, Nth(at, k)) = k - 1 /\ Rank(at, Nth(at, l)) = l - 1 /\ Nth(at, k) \in at /\ Nth(at, l) \in at
    BY <1>3
  <2>2. Nth(at, l) < Nth(at, k) => Rank(at, Nth(at, l)) < Rank(at, Nth(at, k))
    BY <1>1, <2>1
  <2>3. k \in Nat /\ l \in Nat /\ Nth(at, k) \in Nat /\ Nth(at, l) \in Nat
    BY <1>k, <1>n, <2>1
  <2>4. ~ (Nth(at, l) < Nth(at, k)) /\ Nth(at, k) # Nth(at, l)
    BY <2>1, <2>2, <2>3, <1>4
  <2> QED
    BY <2>3, <2>4
<1>5. ASSUME NEW i \in at
      PROVE  \E k \in 1 .. size : Nth(at, k) = i
  <2> DEFINE k == Rank(at, i) + 1
  <2>1. Rank(at, i) \in 0 .. size - 1 /\ k \in 1 .. size /\ k - 1 = Rank(at, i)
    BY <1>1
  <2>2. Nth(at, k) \in at /\ Rank(at, Nth(at, k)) = Rank(at, i)
    BY <1>3, <2>1
  <2>3. Rank(at, i) \in Nat /\ Nth(at, k) \in Nat /\ i \in Nat
    BY <1>i, <1>n, <2>2
  <2>4. ~ (Nth(at, k) < i) /\ ~ (i < Nth(at, k))
    <3>1. Nth(at, k) < i => Rank(at, Nth(at, k)) < Rank(at, i)
      BY <1>1, <2>2
    <3>2. i < Nth(at, k) => Rank(at, i) < Rank(at, Nth(at, k))
      BY <1>1, <2>2
    <3> QED
      BY <3>1, <3>2, <2>2, <2>3
  <2> HIDE DEF k
  <2> QED
    BY <2>1, <2>3, <2>4
<1> QED
  BY <1>1, <1>3, <1>4, <1>5 DEF size

\* The elements of a sequence at some of its positions: each of them once, in
\* their order.
LEMMA OnlyAre ==
    ASSUME NEW s, NEW n \in Nat, NEW at \in SUBSET (1 .. n)
    PROVE  /\ Cardinality(at) \in Nat
           /\ Len(Only(s, at)) = Cardinality(at) /\ DOMAIN Only(s, at) = 1 .. Cardinality(at)
           /\ Only(s, at) = [k \in 1 .. Cardinality(at) |-> s[Nth(at, k)]]
           /\ \A k \in 1 .. Cardinality(at) : Only(s, at)[k] = s[Nth(at, k)]
<1> DEFINE size == Cardinality(at)
           only == [k \in 1 .. size |-> s[Nth(at, k)]]
<1>1. size \in Nat
  BY NthAre
<1>2. Only(s, at) = only
  BY DEF Only, Nth, Rank
<1>3. Len(only) = size /\ DOMAIN only = 1 .. size /\ \A k \in 1 .. size : only[k] = s[Nth(at, k)]
  <2> HIDE DEF size
  <2> QED
    BY <1>1
<1> QED
  BY <1>1, <1>2, <1>3

\* es has the entries of the anchors at, each of them once, in display order.
Lists(es, rs, at) ==
  /\ Len(es) \in Nat /\ DOMAIN es = 1 .. Len(es)
  /\ es = [k \in 1 .. Len(es) |-> es[k]]
  /\ \A k \in 1 .. Len(es) : es[k].anchor \in at /\ es[k] = Entry(rs, es[k].anchor)
  /\ \A k, l \in 1 .. Len(es) : k < l => es[k].anchor < es[l].anchor
  /\ \A a \in at : \E k \in 1 .. Len(es) : es[k].anchor = a

LEMMA EntriesAre ==
    ASSUME NEW rs \in Histories, NEW at \in SUBSET Anchors(rs)
    PROVE  /\ Lists(EntriesOf(rs, at), rs, at)
           /\ Len(EntriesOf(rs, at)) = Cardinality(at)
<1> DEFINE size == Cardinality(at)
           all == [k \in 1 .. size |-> Entry(rs, Nth(at, k))]
<1>0. at \in SUBSET (1 .. Len(rs)) /\ Len(rs) \in Nat
  BY AnchorTypes
<1>1. /\ size \in Nat
      /\ \A k \in 1 .. size : Nth(at, k) \in at
      /\ \A k, l \in 1 .. size : k < l => Nth(at, k) < Nth(at, l)
      /\ \A i \in at : \E k \in 1 .. size : Nth(at, k) = i
  BY <1>0, NthAre
<1>2. EntriesOf(rs, at) = all
  BY DEF EntriesOf, Nth, Rank
<1>3. \A k \in 1 .. size : Entry(rs, Nth(at, k)).anchor = Nth(at, k)
  BY <1>1, EntryIs
<1>4. size = Cardinality(at)
  OBVIOUS
<1> HIDE DEF size
<1>5. Len(all) = size /\ DOMAIN all = 1 .. size /\ all = [k \in 1 .. size |-> all[k]]
  BY <1>1
<1>6. \A k \in 1 .. size : all[k] = Entry(rs, Nth(at, k)) /\ all[k].anchor = Nth(at, k)
  BY <1>3
<1> HIDE DEF all
<1>7. Lists(all, rs, at)
  BY <1>1, <1>5, <1>6 DEF Lists
<1> QED
  BY <1>2, <1>4, <1>5, <1>7

\* The search for the first entry of a tail ends, and what it finds is the first
\* of entries that all end before it.
LEMMA TailStart ==
    ASSUME NEW base \in Nat \ {0}, NEW all,
           NEW n \in Nat, base <= n,
           \A k \in 1 .. n : all[k].anchor \in Nat /\ all[k].end \in Nat,
           NEW from,
           from = CHOOSE f : f = [i \in 1 .. base |->
                     IF i = base THEN base
                     ELSE IF all[i].end >= all[f[i + 1]].anchor THEN i ELSE f[i + 1]]
    PROVE  /\ from[1] \in 1 .. base
           /\ \A i \in 1 .. from[1] - 1 : all[i].end < all[from[1]].anchor
<1> DEFINE at(f, i) == IF i = base THEN base
                       ELSE IF all[i].end >= all[f[i + 1]].anchor THEN i ELSE f[i + 1]
           P == {k \in Nat : k < base => \E f : f = [i \in base - k .. base |-> at(f, i)]}
<1>1. P = Nat
  <2>1. 0 \in P
    <3>1. [i \in base .. base |-> base] = [i \in base - 0 .. base |-> at([j \in base .. base |-> base], i)]
      OBVIOUS
    <3> QED
      BY <3>1
  <2>2. ASSUME NEW k \in P PROVE k + 1 \in P
    <3>1. SUFFICES ASSUME k + 1 < base
                   PROVE \E f : f = [i \in base - (k + 1) .. base |-> at(f, i)]
      OBVIOUS
    <3>2. PICK f : f = [i \in base - k .. base |-> at(f, i)]
      BY <3>1
    <3> DEFINE low == base - (k + 1)
               g == [i \in low .. base |-> IF i = low THEN at(f, low) ELSE f[i]]
    <3>3. /\ low \in Nat /\ low + 1 = base - k /\ k \in Nat /\ low < base
          /\ \A i \in low .. base : i \in Nat /\ (i # low => i \in base - k .. base /\ i > low)
          /\ \A i \in low .. base : i # base => i + 1 \in base - k .. base /\ i + 1 \in low .. base /\ i + 1 # low
      BY <3>1
    <3>4. \A i \in low .. base : i # base => g[i + 1] = f[i + 1]
      BY <3>3
    <3>5. \A i \in low .. base : at(g, i) = at(f, i)
      <4> HIDE DEF g
      <4> QED
        BY <3>4
    <3>6. \A i \in base - k .. base : f[i] = at(f, i)
      BY <3>2
    <3>7. \A i \in low .. base : g[i] = at(g, i)
      <4> TAKE i \in low .. base
      <4>1. at(g, i) = at(f, i)
        BY <3>5
      <4>2. CASE i = low
        <5> HIDE DEF at, low
        <5> QED
          BY <4>1, <4>2
      <4>3. CASE i # low
        <5>1. f[i] = at(f, i)
          BY <3>3, <3>6, <4>3
        <5> HIDE DEF at, low
        <5> QED
          BY <4>1, <4>3, <5>1
      <4> QED
        BY <4>2, <4>3
    <3>8. g = [i \in low .. base |-> at(g, i)]
      <4> HIDE DEF at, low
      <4> QED
        BY <3>7
    <3> QED
      BY <3>8
  <2> HIDE DEF P
  <2>3. P \in SUBSET Nat
    BY DEF P
  <2> QED
    BY <2>1, <2>2, <2>3, Induction
<1>2. \E f : f = [i \in 1 .. base |-> at(f, i)]
  <2>1. base - 1 \in P /\ base - (base - 1) = 1 /\ base - 1 < base
    <3> HIDE DEF P
    <3>1. base - 1 \in Nat /\ base - (base - 1) = 1 /\ base - 1 < base
      OBVIOUS
    <3> QED
      BY <1>1, <3>1
  <2> QED
    BY <2>1
<1>3. from = [i \in 1 .. base |-> at(from, i)]
  BY <1>2
<1>4. \A i \in 1 .. base : from[i] = at(from, i)
  BY <1>3
<1> DEFINE Q == {k \in Nat : k < base => from[base - k] \in base - k .. base}
<1>5. Q = Nat
  <2>1. 0 \in Q
    BY <1>4
  <2>2. ASSUME NEW k \in Q PROVE k + 1 \in Q
    <3>1. SUFFICES ASSUME k + 1 < base
                   PROVE from[base - (k + 1)] \in base - (k + 1) .. base
      OBVIOUS
    <3> DEFINE low == base - (k + 1)
    <3>2. low \in 1 .. base /\ low # base /\ low + 1 = base - k /\ low \in Nat
      BY <3>1
    <3>3. from[low + 1] \in low + 1 .. base
      BY <3>1, <3>2
    <3>4. from[low] = low \/ from[low] = from[low + 1]
      BY <1>4, <3>2
    <3> HIDE DEF low
    <3>5. from[low] \in low .. base
      BY <3>2, <3>3, <3>4
    <3> QED
      BY <3>5 DEF low
  <2> HIDE DEF Q
  <2>3. Q \in SUBSET Nat
    BY DEF Q
  <2> QED
    BY <2>1, <2>2, <2>3, Induction
<1>6. \A i \in 1 .. base : from[i] \in i .. base
  <2> TAKE i \in 1 .. base
  <2>1. base - i \in Q /\ base - (base - i) = i /\ base - i < base
    <3> HIDE DEF Q
    <3> QED
      BY <1>5
  <2> QED
    BY <2>1
<1> DEFINE start == from[1]
           R == {k \in Nat : k + 1 <= start => from[k + 1] = start}
<1>7. start \in 1 .. base
  BY <1>6
<1>8. R = Nat
  <2>1. 0 \in R
    BY <1>7
  <2>2. ASSUME NEW k \in R PROVE k + 1 \in R
    <3>1. SUFFICES ASSUME (k + 1) + 1 <= start PROVE from[(k + 1) + 1] = start
      OBVIOUS
    <3>2. k + 1 \in 1 .. base /\ k + 1 # start /\ k + 1 # base /\ from[k + 1] = start
      BY <1>7, <3>1
    <3> HIDE DEF start
    <3> QED
      BY <1>4, <3>2
  <2> HIDE DEF R
  <2>3. R \in SUBSET Nat
    BY DEF R
  <2> QED
    BY <2>1, <2>2, <2>3, Induction
<1>9. ASSUME NEW i \in 1 .. start - 1 PROVE all[i].end < all[start].anchor
  <2>1. i - 1 \in R /\ i \in R /\ (i - 1) + 1 = i
    <3> HIDE DEF R, start
    <3> QED
      BY <1>7, <1>8
  <2>2. from[i] = start /\ from[i + 1] = start /\ i \in 1 .. base /\ i # start /\ i # base
    BY <1>7, <2>1
  <2>3. ~ (all[i].end >= all[start].anchor)
    <3>1. from[i] = at(from, i)
      BY <1>4, <2>2
    <3>2. i = start \/ i = base \/ ~ (all[i].end >= all[from[i + 1]].anchor)
      BY <2>2, <3>1
    <3> HIDE DEF at, start
    <3> QED
      BY <2>2, <3>2
  <2>4. i \in 1 .. n /\ start \in 1 .. n
    BY <1>7, <2>2
  <2>5. all[i].end \in Nat /\ all[start].anchor \in Nat
    BY <2>4
  <2> HIDE DEF start
  <2> QED
    BY <2>3, <2>5
<1> QED
  BY <1>7, <1>9

\* A tail ends with the last row, and holds every item that started at its start
\* or later, and no other; none of the others has a row beyond its start.
TailShape(rs, p) ==
  /\ rs = <<>> => p.entries = <<>> /\ p.start = 0 /\ p.end = 0 /\ p.older = FALSE /\ p.newer = FALSE
  /\ rs # <<>> =>
       /\ p.end = Len(rs) /\ p.newer = FALSE /\ p.older \in BOOLEAN
       /\ p.start \in Anchors(rs) /\ (p.start > 1 => p.older)
       /\ Lists(p.entries, rs, {a \in Anchors(rs) : a >= p.start})
       /\ \A s \in DOMAIN rs : rs[s] < p.start => s < p.start

LEMMA TailIs ==
    ASSUME NEW rs \in Histories, NEW limit \in Nat \ {0}
    PROVE  TailShape(rs, TailPage(rs, limit))
<1> DEFINE all == EntriesOf(rs, Anchors(rs))
           n == Len(all)
           base == IF n > limit THEN n - limit + 1 ELSE 1
           from == CHOOSE f : f = [i \in 1 .. base |->
                     IF i = base THEN base
                     ELSE IF all[i].end >= all[f[i + 1]].anchor THEN i ELSE f[i + 1]]
           start == from[1]
           p == TailPage(rs, limit)
<1>1. CASE rs = <<>>
  BY <1>1 DEF TailPage, TailShape, NoEntries
<1>2. CASE rs # <<>>
  <2>1. Lists(all, rs, Anchors(rs))
    BY EntriesAre
  <2>2. p = [entries |-> SubSeq(all, start, n), start |-> all[start].anchor,
             end |-> Len(rs), older |-> start > 1, newer |-> FALSE]
    BY <1>2 DEF TailPage
  <2>3. /\ DOMAIN rs = 1 .. Len(rs) /\ Len(rs) \in Nat /\ Len(rs) # 0
        /\ \A s \in DOMAIN rs : rs[s] \in Anchors(rs)
        /\ \A a \in Anchors(rs) : a \in 1 .. Len(rs) /\ a \in Nat /\ rs[a] = a
    <3>1. Len(rs) # 0
      BY <1>2 DEF Histories
    <3> QED
      BY <3>1, AnchorTypes
  <2>4. 1 \in Anchors(rs)
    <3>1. 1 \in DOMAIN rs /\ rs[1] <= 1
      BY <2>3 DEF Histories
    <3>2. rs[1] \in Anchors(rs) /\ rs[1] \in 1 .. Len(rs)
      BY <2>3, <3>1
    <3>3. rs[1] = 1
      BY <2>3, <3>1, <3>2
    <3> QED
      BY <3>2, <3>3
  <2> HIDE DEF all
  <2>5. /\ n \in Nat /\ DOMAIN all = 1 .. n
        /\ \A k \in 1 .. n : all[k].anchor \in Anchors(rs) /\ all[k] = Entry(rs, all[k].anchor)
        /\ \A k, l \in 1 .. n : k < l => all[k].anchor < all[l].anchor
        /\ \A a \in Anchors(rs) : \E k \in 1 .. n : all[k].anchor = a
        /\ all = [k \in 1 .. n |-> all[k]]
    BY <2>1 DEF Lists
  <2>6. \A k \in 1 .. n : all[k].anchor \in Nat /\ all[k].end \in Nat
    <3> TAKE k \in 1 .. n
    <3>1. all[k].anchor \in Anchors(rs) /\ all[k] = Entry(rs, all[k].anchor)
      BY <2>5
    <3>2. Entry(rs, all[k].anchor).end \in all[k].anchor .. Len(rs)
      BY <3>1, EntryIs
    <3> QED
      BY <2>3, <3>1, <3>2
  <2>7. n # 0 /\ base \in Nat \ {0} /\ base <= n
    <3>1. \E k \in 1 .. n : TRUE
      BY <2>4, <2>5
    <3> QED
      BY <2>5, <3>1
  <2>8. start \in 1 .. base /\ \A i \in 1 .. start - 1 : all[i].end < all[start].anchor
    <3> HIDE DEF base, n
    <3> QED
      BY <2>5, <2>6, <2>7, TailStart
  <2> HIDE DEF base, from
  <2>9. start \in 1 .. n /\ start \in Nat
    BY <2>5, <2>7, <2>8
  <2> HIDE DEF start
  <2> DEFINE head == all[start].anchor
             es == SubSeq(all, start, n)
             at == {a \in Anchors(rs) : a >= head}
  <2>10. head \in Anchors(rs) /\ head \in Nat
    BY <2>3, <2>5, <2>9
  <2>11. p.entries = es /\ p.start = head /\ p.end = Len(rs) /\ p.newer = FALSE
        /\ p.older \in BOOLEAN /\ (start > 1 => p.older)
    <3> DEFINE old == start > 1
    <3>1. p = [entries |-> es, start |-> head, end |-> Len(rs), older |-> old, newer |-> FALSE]
      BY <2>2
    <3>2. old \in BOOLEAN /\ (start > 1 => old)
      OBVIOUS
    <3> HIDE DEF p, es, head, old
    <3>3. p.older = old
      BY <3>1
    <3>4. p.entries = es /\ p.start = head /\ p.end = Len(rs) /\ p.newer = FALSE
      BY <3>1
    <3> QED
      BY <3>2, <3>3, <3>4
  <2>12. head > 1 => start > 1
    <3>1. PICK k \in 1 .. n : all[k].anchor = 1
      BY <2>4, <2>5
    <3>2. start = 1 /\ k # 1 => all[1].anchor < 1
      BY <2>5, <2>9, <3>1
    <3>3. start = 1 /\ k # 1 => FALSE
      <4>1. all[1].anchor \in 1 .. Len(rs) \/ start # 1
        BY <2>3, <2>5, <2>9
      <4> QED
        BY <2>3, <3>2, <4>1
    <3>4. start = 1 => head = 1
      BY <3>1, <3>3
    <3> QED
      BY <2>9, <3>4
  <2>13. Lists(es, rs, at)
    <3> DEFINE m == n - start + 1
    <3>1. m \in Nat /\ \A k \in 1 .. m : start + k - 1 \in 1 .. n /\ start + k - 1 >= start /\ k \in Nat
      BY <2>5, <2>9
    <3>2. es = [k \in 1 .. m |-> all[start + k - 1]]
      BY <2>5, <2>9
    <3> HIDE DEF m
    <3>3. Len(es) = m /\ DOMAIN es = 1 .. m /\ es = [k \in 1 .. m |-> es[k]]
      BY <3>1, <3>2
    <3>4. \A k \in 1 .. m : es[k] = all[start + k - 1]
      BY <3>2
    <3> HIDE DEF es
    <3>5. ASSUME NEW k \in 1 .. m PROVE es[k].anchor \in at /\ es[k] = Entry(rs, es[k].anchor)
      <4> DEFINE j == start + k - 1
      <4>0. j \in 1 .. n /\ j >= start
        BY <3>1
      <4>1. j \in 1 .. n /\ (start = j \/ start < j)
        <5> HIDE DEF j, n
        <5> QED
          BY <2>9, <4>0
      <4>2. es[k].anchor \in Anchors(rs) /\ es[k] = Entry(rs, es[k].anchor)
        BY <2>5, <3>4, <4>1
      <4>3. es[k].anchor \in Nat
        BY <2>3, <4>2
      <4>4. start < start + k - 1 => head < es[k].anchor
        BY <2>5, <2>9, <3>4, <4>1
      <4>5. start = start + k - 1 => head = es[k].anchor
        BY <3>4
      <4> HIDE DEF head
      <4>6. es[k].anchor >= head
        BY <2>10, <4>1, <4>3, <4>4, <4>5
      <4> QED
        BY <4>2, <4>6
    <3>6. ASSUME NEW k \in 1 .. m, NEW l \in 1 .. m, k < l PROVE es[k].anchor < es[l].anchor
      <4>1. start + k - 1 \in 1 .. n /\ start + l - 1 \in 1 .. n /\ start + k - 1 < start + l - 1
        BY <2>9, <3>1, <3>6
      <4> QED
        BY <2>5, <3>4, <4>1
    <3>7. ASSUME NEW a \in at PROVE \E k \in 1 .. m : es[k].anchor = a
      <4>1. PICK j \in 1 .. n : all[j].anchor = a
        BY <2>5
      <4>2. a >= head /\ a \in Nat
        BY <2>3
      <4>3. j < start => all[j].anchor < head
        BY <2>5, <2>9
      <4> HIDE DEF head
      <4>4. ~ (j < start)
        BY <2>10, <4>1, <4>2, <4>3
      <4>5. j - start + 1 \in 1 .. m /\ start + (j - start + 1) - 1 = j
        BY <2>5, <2>9, <4>4 DEF m
      <4> QED
        BY <3>4, <4>1, <4>5
    <3> HIDE DEF at
    <3> QED
      BY <3>1, <3>3, <3>5, <3>6, <3>7 DEF Lists
  <2>14. \A s \in DOMAIN rs : rs[s] < head => s < head
    <3> TAKE s \in DOMAIN rs
    <3> HAVE rs[s] < head
    <3>1. rs[s] \in Anchors(rs) /\ s \in Sources(rs, rs[s])
      BY <2>3 DEF Sources
    <3>2. PICK j \in 1 .. n : all[j].anchor = rs[s]
      BY <2>5, <3>1
    <3>3. j # start /\ (start < j => head < rs[s])
      <4>1. j # start
        BY <2>3, <2>10, <3>1, <3>2
      <4>2. start < j => head < all[j].anchor
        BY <2>5, <2>9
      <4> QED
        BY <3>2, <4>1, <4>2
    <3>4. j < start
      <4>1. rs[s] \in Nat
        BY <2>3, <3>1
      <4> HIDE DEF head
      <4>2. ~ (start < j)
        BY <2>10, <3>3, <4>1
      <4> QED
        BY <2>9, <3>3, <4>2
    <3>5. all[j].end < head
      <4>1. j \in 1 .. start - 1
        BY <2>9, <3>4
      <4> QED
        BY <2>8, <4>1
    <3>6. all[j] = Entry(rs, rs[s]) /\ s <= Entry(rs, rs[s]).end
      BY <2>5, <3>1, <3>2, EntryIs
    <3>7. s \in Nat /\ all[j].end \in Nat
      BY <2>3, <2>6
    <3> HIDE DEF head
    <3>8. s <= all[j].end
      BY <3>6
    <3> QED
      BY <2>10, <3>5, <3>7, <3>8
  <2> HIDE DEF head, es, p
  <2>15. {a \in Anchors(rs) : a >= p.start} = at
    BY <2>11
  <2> HIDE DEF at
  <2>16. TailShape(rs, p)
    <3>1. p.older \in BOOLEAN /\ (p.start > 1 => p.older)
      BY <2>11, <2>12
    <3>2. Lists(p.entries, rs, {a \in Anchors(rs) : a >= p.start})
      BY <2>11, <2>13, <2>15
    <3>3. p.end = Len(rs) /\ p.newer = FALSE /\ p.start = head
      BY <2>11
    <3> QED
      BY <1>2, <2>10, <2>14, <3>1, <3>2, <3>3 DEF TailShape
  <2> QED
    BY <2>16 DEF p
<1> QED
  BY <1>1, <1>2

\* A page after a cursor starts with the next row and claims rows whose items
\* it holds; all of its items have a row among them.
AfterShape(rs, cursor, p) ==
  /\ cursor >= Len(rs) => p.start = 0 /\ p.end = 0 /\ p.newer = FALSE /\ p.entries = <<>>
  /\ cursor < Len(rs) =>
       /\ p.start = cursor + 1 /\ p.end \in p.start .. Len(rs)
       /\ p.newer \in BOOLEAN /\ (p.newer <=> p.end < Len(rs))
       /\ \E at \in SUBSET Anchors(rs) :
            /\ Lists(p.entries, rs, at)
            /\ \A s \in p.start .. p.end : rs[s] \in at
            /\ \A a \in at : \E s \in p.start .. p.end : rs[s] = a
  /\ p.older \in BOOLEAN

LEMMA AfterIs ==
    ASSUME NEW rs \in Histories, NEW cursor \in Nat, NEW limit \in Nat \ {0}
    PROVE  AfterShape(rs, cursor, AfterPage(rs, cursor, limit))
<1> DEFINE later(a) == {s \in Sources(rs, a) : s > cursor}
           first(a) == Min(later(a))
           eligible == {rs[s] : s \in {t \in DOMAIN rs : t > cursor}}
           sooner(a) == {b \in eligible : first(b) < first(a)}
           chosen == {a \in eligible : Cardinality(sooner(a)) < limit}
           covered == {n \in (cursor + 1) .. Len(rs) :
                         \A s \in (cursor + 1) .. n : rs[s] \in chosen}
           end == Max(covered)
           p == AfterPage(rs, cursor, limit)
<1>0. /\ DOMAIN rs = 1 .. Len(rs) /\ Len(rs) \in Nat
      /\ \A s \in DOMAIN rs : rs[s] \in Anchors(rs)
      /\ \A a \in Anchors(rs) : a \in 1 .. Len(rs) /\ a \in Nat /\ rs[a] = a
  BY AnchorTypes
<1>1. CASE cursor >= Len(rs)
  <2>1. eligible = {}
    BY <1>0, <1>1
  <2>2. p = NoEntries(cursor > 0, FALSE)
    BY <2>1 DEF AfterPage
  <2> DEFINE old == cursor > 0
  <2>3. p = [entries |-> <<>>, start |-> 0, end |-> 0, older |-> old, newer |-> FALSE] /\ old \in BOOLEAN
    BY <2>2 DEF NoEntries
  <2> HIDE DEF old, p
  <2>4. p.start = 0 /\ p.end = 0 /\ p.newer = FALSE /\ p.entries = <<>> /\ p.older \in BOOLEAN
    BY <2>3
  <2>5. ~ (cursor < Len(rs))
    BY <1>0, <1>1
  <2>6. AfterShape(rs, cursor, p)
    BY <1>1, <2>4, <2>5 DEF AfterShape
  <2> QED
    BY <2>6 DEF p
<1>2. CASE cursor < Len(rs)
  <2>1. ASSUME NEW s \in cursor + 1 .. Len(rs)
        PROVE  s \in DOMAIN rs /\ s \in Nat /\ s > cursor /\ rs[s] \in eligible /\ s \in later(rs[s])
    <3>1. s \in DOMAIN rs /\ s \in Nat /\ s > cursor
      BY <1>0
    <3> QED
      BY <3>1 DEF Sources
  <2>2. ASSUME NEW a \in eligible
        PROVE  /\ a \in Anchors(rs)
               /\ first(a) \in cursor + 1 .. Len(rs) /\ rs[first(a)] = a
               /\ \A s \in later(a) : first(a) <= s
    <3>1. PICK s \in DOMAIN rs : s > cursor /\ rs[s] = a
      OBVIOUS
    <3>2. s \in later(a) /\ \A t \in later(a) : t \in cursor + 1 .. Len(rs) /\ rs[t] = a
      BY <1>0, <3>1 DEF Sources
    <3>3. later(a) \in SUBSET Nat /\ later(a) # {}
      BY <3>2
    <3> HIDE DEF later
    <3>4. first(a) \in later(a) /\ \A t \in later(a) : first(a) <= t
      BY <3>3, LeastIs
    <3> QED
      BY <1>0, <3>1, <3>2, <3>4
  <2>3. rs[cursor + 1] \in eligible /\ cursor + 1 \in cursor + 1 .. Len(rs)
    <3>1. cursor + 1 \in cursor + 1 .. Len(rs)
      BY <1>0, <1>2
    <3> QED
      BY <2>1, <3>1
  <2>4. p = [entries |-> EntriesOf(rs, chosen), start |-> cursor + 1, end |-> end,
             older |-> cursor > 0, newer |-> end < Len(rs)]
    <3>1. eligible # {}
      BY <2>3
    <3> QED
      BY <3>1 DEF AfterPage
  <2> HIDE DEF eligible, later
  <2>5. IsFiniteSet(eligible) /\ \A a : sooner(a) \in SUBSET eligible
    <3>1. eligible \in SUBSET (1 .. Len(rs))
      BY <1>0, <2>2
    <3>2. IsFiniteSet(1 .. Len(rs))
      BY <1>0, FS_Interval
    <3> QED
      BY <3>1, <3>2, FS_Subset
  <2> HIDE DEF first
  <2>6. ASSUME NEW a \in eligible, NEW b \in eligible, first(a) <= first(b)
        PROVE  b \in chosen => a \in chosen
    <3>1. first(a) \in Nat /\ first(b) \in Nat /\ \A c \in eligible : first(c) \in Nat
      BY <2>2
    <3>2. sooner(a) \in SUBSET sooner(b)
      BY <2>6, <3>1
    <3> HIDE DEF sooner
    <3>3. /\ IsFiniteSet(sooner(b)) /\ IsFiniteSet(sooner(a))
          /\ Cardinality(sooner(a)) <= Cardinality(sooner(b))
          /\ Cardinality(sooner(a)) \in Nat /\ Cardinality(sooner(b)) \in Nat
      BY <2>5, <3>2, FS_Subset, FS_CardinalityType
    <3>4. Cardinality(sooner(b)) < limit => Cardinality(sooner(a)) < limit
      BY <3>3
    <3> QED
      BY <3>4
  <2>7. rs[cursor + 1] \in chosen
    <3>1. first(rs[cursor + 1]) <= cursor + 1
      <4>1. cursor + 1 \in later(rs[cursor + 1])
        BY <2>1, <2>3
      <4> QED
        BY <2>2, <2>3, <4>1
    <3>2. sooner(rs[cursor + 1]) = {}
      <4>1. ASSUME NEW b \in eligible PROVE ~ (first(b) < first(rs[cursor + 1]))
        <5>1. first(b) \in cursor + 1 .. Len(rs) /\ first(rs[cursor + 1]) \in cursor + 1 .. Len(rs)
          BY <2>2, <2>3
        <5> QED
          BY <1>0, <3>1, <5>1
      <4> QED
        BY <4>1
    <3>3. Cardinality(sooner(rs[cursor + 1])) = 0
      BY <3>2, FS_EmptySet
    <3> HIDE DEF sooner
    <3> QED
      BY <2>3, <3>3
  <2>8. chosen \in SUBSET eligible
    OBVIOUS
  <2> HIDE DEF chosen
  <2>9. /\ covered \in SUBSET Nat /\ cursor + 1 \in covered
        /\ \A n \in covered : n <= Len(rs)
    <3>1. cursor + 1 \in covered
      <4>1. \A s \in cursor + 1 .. cursor + 1 : s = cursor + 1
        OBVIOUS
      <4> QED
        BY <2>3, <2>7, <4>1
    <3>2. \A n \in covered : n \in Nat /\ n <= Len(rs)
      BY <1>0
    <3> HIDE DEF covered
    <3> QED
      BY <3>1, <3>2
  <2>10. end \in covered /\ \A n \in covered : end >= n
    <3> HIDE DEF covered
    <3> QED
      BY <1>0, <2>9, GreatestIs
  <2> HIDE DEF end
  <2>11. /\ end \in cursor + 1 .. Len(rs) /\ end \in Nat
         /\ \A s \in cursor + 1 .. end : rs[s] \in chosen
         /\ end < Len(rs) => rs[end + 1] \notin chosen
    <3>1. end \in cursor + 1 .. Len(rs) /\ \A s \in cursor + 1 .. end : rs[s] \in chosen
      BY <2>10
    <3>2. end < Len(rs) => rs[end + 1] \notin chosen
      <4>1. SUFFICES ASSUME end < Len(rs), rs[end + 1] \in chosen PROVE FALSE
        OBVIOUS
      <4>2. end + 1 \in cursor + 1 .. Len(rs)
        BY <1>0, <3>1, <4>1
      <4>3. \A s \in cursor + 1 .. end + 1 : s = end + 1 \/ s \in cursor + 1 .. end
        BY <3>1
      <4>4. end + 1 \in covered
        BY <3>1, <4>1, <4>2, <4>3
      <4> HIDE DEF covered
      <4> QED
        BY <2>10, <3>1, <4>4
    <3> QED
      BY <1>0, <3>1, <3>2
  <2> HIDE DEF covered
  <2>12. ASSUME NEW a \in chosen PROVE first(a) \in cursor + 1 .. end /\ rs[first(a)] = a
    <3>1. a \in eligible /\ first(a) \in cursor + 1 .. Len(rs) /\ rs[first(a)] = a
      BY <2>2, <2>8
    <3>2. ASSUME end < Len(rs) PROVE first(a) <= end
      <4> DEFINE b == rs[end + 1]
      <4>1. end + 1 \in cursor + 1 .. Len(rs)
        BY <1>0, <2>11, <3>2
      <4>2. b \in eligible /\ end + 1 \in later(b) /\ b \notin chosen
        BY <2>1, <2>11, <3>2, <4>1
      <4>3. ~ (first(b) <= first(a))
        BY <2>6, <3>1, <4>2
      <4>4. first(b) <= end + 1 /\ first(b) \in cursor + 1 .. Len(rs)
        BY <2>2, <4>2
      <4> HIDE DEF b
      <4> QED
        BY <1>0, <2>11, <3>1, <4>3, <4>4
    <3> QED
      BY <1>0, <2>11, <3>1, <3>2
  <2>13. chosen \in SUBSET Anchors(rs)
    BY <2>2, <2>8
  <2>14. Lists(EntriesOf(rs, chosen), rs, chosen)
    BY <2>13, EntriesAre
  <2> DEFINE old == cursor > 0
             new == end < Len(rs)
             es == EntriesOf(rs, chosen)
  <2>15. /\ p = [entries |-> es, start |-> cursor + 1, end |-> end, older |-> old, newer |-> new]
         /\ old \in BOOLEAN /\ new \in BOOLEAN /\ (new <=> end < Len(rs))
    BY <2>4
  <2> HIDE DEF p, old, new
  <2>16. Lists(es, rs, chosen)
    BY <2>14
  <2> HIDE DEF es
  <2>17. p.entries = es /\ p.start = cursor + 1 /\ p.end = end /\ p.older = old
    BY <2>15
  <2>18. p.newer = new
    BY <2>15
  <2>19. ~ (cursor >= Len(rs))
    BY <1>0, <1>2
  <2>20. \A a \in chosen : \E s \in cursor + 1 .. end : rs[s] = a
    BY <2>12
  <2>21. \E at \in SUBSET Anchors(rs) :
            /\ Lists(p.entries, rs, at)
            /\ \A s \in p.start .. p.end : rs[s] \in at
            /\ \A a \in at : \E s \in p.start .. p.end : rs[s] = a
    BY <2>11, <2>13, <2>16, <2>17, <2>20
  <2>22. AfterShape(rs, cursor, p)
    <3>1. p.newer \in BOOLEAN /\ (p.newer <=> p.end < Len(rs)) /\ p.older \in BOOLEAN
      BY <2>15, <2>17, <2>18
    <3>2. p.start = cursor + 1 /\ p.end \in p.start .. Len(rs)
      BY <2>11, <2>17
    <3> QED
      BY <2>19, <2>21, <3>1, <3>2 DEF AfterShape
  <2> QED
    BY <2>22 DEF p
<1> QED
  BY <1>0, <1>1, <1>2

\* A page before a cursor holds the items that started from its start to its
\* end.
BeforeShape(rs, p) ==
  /\ p.end \in 0 .. Len(rs)
  /\ p.older \in BOOLEAN /\ p.newer \in BOOLEAN
  /\ p.end = 0 => p.start = 0 /\ p.entries = <<>>
  /\ p.end # 0 =>
       /\ p.start \in Anchors(rs) /\ p.start \in 1 .. p.end
       /\ p.start > 1 => p.older
       /\ Lists(p.entries, rs, {a \in Anchors(rs) : a >= p.start /\ a <= p.end})

LEMMA BeforeIs ==
    ASSUME NEW rs \in Histories, NEW cursor \in Nat \ {0}, NEW limit \in Nat \ {0}
    PROVE  BeforeShape(rs, BeforePage(rs, cursor, limit))
<1> DEFINE end == IF cursor > Len(rs) THEN Len(rs) ELSE cursor - 1
           eligible == {a \in Anchors(rs) : a <= end}
           over(a) == {b \in eligible : b > a}
           chosen == {a \in eligible : Cardinality(over(a)) < limit}
           p == BeforePage(rs, cursor, limit)
<1>0. /\ DOMAIN rs = 1 .. Len(rs) /\ Len(rs) \in Nat
      /\ \A s \in DOMAIN rs : rs[s] \in Anchors(rs)
      /\ \A a \in Anchors(rs) : a \in 1 .. Len(rs) /\ a \in Nat /\ rs[a] = a
  BY AnchorTypes
<1>1. end \in 0 .. Len(rs) /\ end \in Nat
  BY <1>0
<1>2. p = IF end = 0 THEN NoEntries(FALSE, end < Len(rs))
          ELSE [entries |-> EntriesOf(rs, chosen), start |-> Min(chosen), end |-> end,
                older |-> chosen # eligible, newer |-> end < Len(rs)]
  BY DEF BeforePage
<1> HIDE DEF end
<1> DEFINE new == end < Len(rs)
<1>3. CASE end = 0
  <2>1. p = [entries |-> <<>>, start |-> 0, end |-> 0, older |-> FALSE, newer |-> new] /\ new \in BOOLEAN
    BY <1>2, <1>3 DEF NoEntries
  <2> HIDE DEF p, new
  <2>2. p.start = 0 /\ p.end = 0 /\ p.older \in BOOLEAN /\ p.entries = <<>> /\ p.newer \in BOOLEAN
    BY <2>1
  <2>3. BeforeShape(rs, p)
    BY <1>0, <2>2 DEF BeforeShape
  <2> QED
    BY <2>3 DEF p
<1>4. CASE end # 0
  <2>1. 1 \in eligible
    <3>1. 1 \in DOMAIN rs /\ rs[1] <= 1
      <4>1. 1 \in DOMAIN rs
        BY <1>0, <1>1, <1>4
      <4> QED
        BY <4>1 DEF Histories
    <3>2. rs[1] \in Anchors(rs) /\ rs[1] \in 1 .. Len(rs)
      BY <1>0, <3>1
    <3>3. rs[1] = 1 /\ 1 <= end
      BY <1>0, <1>1, <1>4, <3>1, <3>2
    <3> QED
      BY <3>2, <3>3
  <2>2. IsFiniteSet(eligible) /\ \A a : over(a) \in SUBSET eligible
    <3>1. eligible \in SUBSET (1 .. Len(rs))
      BY <1>0
    <3>2. IsFiniteSet(1 .. Len(rs))
      BY <1>0, FS_Interval
    <3> HIDE DEF eligible
    <3> QED
      BY <3>1, <3>2, FS_Subset
  <2>3. \A a \in eligible : a \in Nat /\ a <= end /\ a \in Anchors(rs) /\ a \in 1 .. end
    BY <1>0, <1>1
  <2>3a. \A a \in Anchors(rs) : a <= end => a \in eligible
    OBVIOUS
  <2> HIDE DEF eligible
  <2>4. ASSUME NEW a \in eligible, NEW b \in eligible, a <= b PROVE a \in chosen => b \in chosen
    <3>1. over(b) \in SUBSET over(a)
      <4>1. \A c \in eligible : c > b => c > a
        BY <2>3, <2>4
      <4> QED
        BY <4>1
    <3> HIDE DEF over
    <3>2. /\ Cardinality(over(b)) <= Cardinality(over(a))
          /\ Cardinality(over(a)) \in Nat /\ Cardinality(over(b)) \in Nat
      BY <2>2, <3>1, FS_Subset, FS_CardinalityType
    <3>3. Cardinality(over(a)) < limit => Cardinality(over(b)) < limit
      BY <3>2
    <3> QED
      BY <3>3
  <2>5. \E a \in eligible : a \in chosen
    <3>1. Max(eligible) \in eligible /\ \A y \in eligible : Max(eligible) >= y
      <4>1. eligible \in SUBSET Nat /\ eligible # {} /\ \A y \in eligible : y <= end
        BY <2>1, <2>3
      <4> QED
        BY <1>1, <4>1, GreatestIs
    <3> DEFINE top == Max(eligible)
    <3>2. over(top) = {}
      <4>1. \A y \in eligible : ~ (y > top)
        BY <2>3, <3>1
      <4> QED
        BY <4>1
    <3>3. Cardinality(over(top)) = 0
      BY <3>2, FS_EmptySet
    <3> HIDE DEF over
    <3> QED
      BY <3>1, <3>3
  <2>6. chosen \in SUBSET eligible
    OBVIOUS
  <2> HIDE DEF chosen
  <2> DEFINE start == Min(chosen)
             es == EntriesOf(rs, chosen)
             old == chosen # eligible
  <2>7. start \in chosen /\ \A a \in chosen : start <= a
    <3>1. chosen \in SUBSET Nat /\ chosen # {}
      BY <2>3, <2>5, <2>6
    <3> QED
      BY <3>1, LeastIs
  <2>8. Lists(es, rs, chosen)
    <3>1. chosen \in SUBSET Anchors(rs)
      BY <2>3, <2>6
    <3> QED
      BY <3>1, EntriesAre
  <2>9. p = [entries |-> es, start |-> start, end |-> end, older |-> old, newer |-> new]
    BY <1>2, <1>4
  <2>10. new \in BOOLEAN /\ old \in BOOLEAN
    OBVIOUS
  <2> HIDE DEF start, es, p, new
  <2>11. start > 1 => old
    <3>1. SUFFICES ASSUME start > 1 PROVE 1 \notin chosen
      BY <2>1
    <3>2. start \in Nat
      BY <2>3, <2>6, <2>7
    <3> QED
      BY <2>7, <3>1, <3>2
  <2> HIDE DEF old
  <2>12. p.entries = es /\ p.start = start /\ p.end = end /\ p.newer = new
    BY <2>9
  <2>13. p.older = old
    BY <2>9
  <2>14. {a \in Anchors(rs) : a >= start /\ a <= end} = chosen
    <3>1. ASSUME NEW a \in chosen PROVE a \in Anchors(rs) /\ a >= start /\ a <= end
      <4>1. a \in eligible /\ start \in eligible /\ start <= a
        BY <2>6, <2>7
      <4>2. a \in Nat /\ start \in Nat /\ a <= end /\ a \in Anchors(rs)
        BY <2>3, <4>1
      <4> QED
        BY <4>1, <4>2
    <3>2. ASSUME NEW a \in Anchors(rs), a >= start, a <= end PROVE a \in chosen
      <4>1. a \in eligible /\ start \in eligible
        BY <2>3a, <2>6, <2>7, <3>2
      <4>2. start <= a
        BY <2>3, <3>2, <4>1
      <4> QED
        BY <2>4, <2>7, <4>1, <4>2
    <3> QED
      BY <3>1, <3>2
  <2>15. start \in Anchors(rs) /\ start \in 1 .. end
    BY <2>3, <2>6, <2>7
  <2>16. BeforeShape(rs, p)
    <3>1. p.older \in BOOLEAN /\ p.newer \in BOOLEAN /\ (p.start > 1 => p.older)
      BY <2>10, <2>11, <2>12, <2>13 DEF new
    <3>2. Lists(p.entries, rs, {a \in Anchors(rs) : a >= p.start /\ a <= p.end})
      BY <2>8, <2>12, <2>14
    <3>3. p.end = end /\ p.start \in Anchors(rs) /\ p.start \in 1 .. p.end
      BY <2>12, <2>15
    <3> QED
      BY <1>1, <1>4, <3>1, <3>2, <3>3 DEF BeforeShape
  <2> QED
    BY <2>16 DEF p
<1> QED
  BY <1>3, <1>4

-----------------------------------------------------------------------------
(* Folds, by their steps; the items on screen.                             *)

\* The steps of merging xs into base one by one.
Merging(base, xs, n, run) ==
  /\ DOMAIN run = 0 .. n /\ run[0] = base
  /\ \A i \in 1 .. n : run[i] = Upsert(run[i - 1], xs[i])

LEMMA MergingExists ==
    ASSUME NEW base, NEW xs, NEW n \in Nat, DOMAIN xs = 1 .. n
    PROVE  \E run : Merging(base, xs, n, run) /\ Folded(Upsert, base, xs) = run[n]
<1> DEFINE step(g, s) == IF s = {} THEN base ELSE Upsert(g[s \ {Max(s)}], xs[Max(s)])
           iter == CHOOSE g : g = [s \in SUBSET (1 .. n) |-> step(g, s)]
           P == {k \in Nat : \E g : g = [s \in SUBSET (1 .. k) |-> step(g, s)]}
<1>0. Folded(Upsert, base, xs) = iter[1 .. n]
  <2>1. Folded(Upsert, base, xs)
        = LET it[s \in SUBSET DOMAIN xs] ==
                IF s = {} THEN base ELSE Upsert(it[s \ {Max(s)}], xs[Max(s)])
          IN  it[DOMAIN xs]
    BY DEF Folded, MapThenFoldSet
  <2> QED
    BY <2>1
<1>1. P = Nat
  <2>1. 0 \in P
    <3> DEFINE g == [s \in SUBSET (1 .. 0) |-> base]
    <3>1. g = [s \in SUBSET (1 .. 0) |-> step(g, s)]
      OBVIOUS
    <3> HIDE DEF g
    <3> QED
      BY <3>1
  <2>2. ASSUME NEW k \in P PROVE k + 1 \in P
    <3>1. PICK g : g = [s \in SUBSET (1 .. k) |-> step(g, s)]
      OBVIOUS
    <3>2. k \in Nat /\ k + 1 \in Nat /\ k + 1 \notin 1 .. k /\ 1 .. k \subseteq 1 .. k + 1
      OBVIOUS
    <3> DEFINE top(s) == Upsert(g[s \ {k + 1}], xs[k + 1])
               h == [s \in SUBSET (1 .. k + 1) |-> IF k + 1 \in s THEN top(s) ELSE g[s]]
    <3>3. \A s \in SUBSET (1 .. k) : h[s] = g[s] /\ g[s] = step(g, s)
      <4>1. \A s \in SUBSET (1 .. k) : s \in SUBSET (1 .. k + 1) /\ k + 1 \notin s
        BY <3>2
      <4>2. \A s \in SUBSET (1 .. k) : g[s] = step(g, s)
        BY <3>1
      <4> HIDE DEF top
      <4> QED
        BY <4>1, <4>2
    <3>4. \A s \in SUBSET (1 .. k + 1) : k + 1 \in s => h[s] = top(s)
      <4> HIDE DEF top
      <4> QED
        OBVIOUS
    <3>5. ASSUME NEW s \in SUBSET (1 .. k + 1) PROVE h[s] = step(h, s)
      <4> HIDE DEF h
      <4>1. CASE k + 1 \in s
        <5>1. Max(s) = k + 1
          <6>1. s \in SUBSET Nat /\ s # {} /\ \A y \in s : y \in Nat /\ y <= k + 1
            BY <3>2, <4>1
          <6>2. Max(s) \in s /\ \A y \in s : Max(s) >= y
            BY <3>2, <6>1, GreatestIs
          <6>3. Max(s) \in Nat /\ Max(s) <= k + 1 /\ Max(s) >= k + 1
            BY <4>1, <6>1, <6>2
          <6> QED
            BY <3>2, <6>3
        <5>2. s \ {k + 1} \in SUBSET (1 .. k)
          BY <3>2
        <5>3. h[s \ {k + 1}] = g[s \ {k + 1}] /\ h[s] = top(s) /\ s # {}
          BY <3>3, <3>4, <4>1, <5>2
        <5> QED
          BY <5>1, <5>3
      <4>2. CASE k + 1 \notin s
        <5>1. s \in SUBSET (1 .. k)
          BY <3>2, <4>2
        <5>2. h[s] = step(g, s)
          BY <3>3, <5>1
        <5>3. s \ {Max(s)} \in SUBSET (1 .. k)
          BY <5>1
        <5>4. h[s \ {Max(s)}] = g[s \ {Max(s)}]
          BY <3>3, <5>3
        <5> QED
          BY <5>2, <5>4
      <4> QED
        BY <4>1, <4>2
    <3>6. h = [s \in SUBSET (1 .. k + 1) |-> h[s]]
      <4> HIDE DEF top
      <4> QED
        OBVIOUS
    <3> HIDE DEF h
    <3>7. [s \in SUBSET (1 .. k + 1) |-> h[s]] = [s \in SUBSET (1 .. k + 1) |-> step(h, s)]
      <4> HIDE DEF step
      <4> QED
        BY <3>5
    <3>8. h = [s \in SUBSET (1 .. k + 1) |-> step(h, s)]
      <4> HIDE DEF step
      <4> QED
        BY <3>6, <3>7
    <3> QED
      BY <3>2, <3>8
  <2> HIDE DEF P
  <2>3. P \in SUBSET Nat
    BY DEF P
  <2> QED
    BY <2>1, <2>2, <2>3, Induction
<1>2. \E g : g = [s \in SUBSET (1 .. n) |-> step(g, s)]
  <2>1. n \in P
    <3> HIDE DEF P
    <3> QED
      BY <1>1
  <2> QED
    BY <2>1
<1>3. iter = [s \in SUBSET (1 .. n) |-> step(iter, s)]
  BY <1>2
<1> HIDE DEF iter
<1>4. \A s \in SUBSET (1 .. n) : iter[s] = step(iter, s)
  BY <1>3
<1> DEFINE run == [i \in 0 .. n |-> iter[1 .. i]]
<1>5. DOMAIN run = 0 .. n /\ \A i \in 0 .. n : run[i] = iter[1 .. i]
  OBVIOUS
<1> HIDE DEF run
<1>6. run[0] = base
  <2>1. 1 .. 0 = {} /\ {} \in SUBSET (1 .. n) /\ 0 \in 0 .. n
    OBVIOUS
  <2>2. iter[{}] = base
    BY <1>4, <2>1
  <2> QED
    BY <1>5, <2>1, <2>2
<1>7. ASSUME NEW i \in 1 .. n PROVE run[i] = Upsert(run[i - 1], xs[i])
  <2>1. /\ i \in Nat /\ i \in 0 .. n /\ i - 1 \in 0 .. n /\ 1 .. i \in SUBSET (1 .. n)
        /\ i \in 1 .. i /\ 1 .. i \in SUBSET Nat /\ \A y \in 1 .. i : y \in Nat /\ y <= i
    OBVIOUS
  <2>2. (1 .. i) \ {i} = 1 .. i - 1
    BY <2>1
  <2>3. Max(1 .. i) = i
    <3> DEFINE S == 1 .. i
    <3>1. S \in SUBSET Nat /\ i \in S /\ \A y \in S : y \in Nat /\ y <= i
      BY <2>1
    <3> HIDE DEF S
    <3>2. Max(S) \in S /\ \A y \in S : Max(S) >= y
      BY <2>1, <3>1, GreatestIs
    <3>3. Max(S) \in Nat /\ Max(S) <= i /\ Max(S) >= i
      BY <3>1, <3>2
    <3>4. Max(S) = i
      BY <2>1, <3>3
    <3> QED
      BY <3>4 DEF S
  <2>4. iter[1 .. i] = Upsert(iter[(1 .. i) \ {Max(1 .. i)}], xs[Max(1 .. i)])
    BY <1>4, <2>1
  <2> QED
    BY <1>5, <2>1, <2>2, <2>3, <2>4
<1>8. Merging(base, xs, n, run)
  BY <1>5, <1>6, <1>7 DEF Merging
<1>9. n \in 0 .. n
  OBVIOUS
<1>10. Folded(Upsert, base, xs) = run[n]
  BY <1>0, <1>5, <1>9
<1> QED
  BY <1>8, <1>10

\* The steps of applying the rows xs to base one by one.
Applying(base, xs, n, run) ==
  /\ DOMAIN run = 0 .. n /\ run[0] = base
  /\ \A i \in 1 .. n : run[i] = WithRow(run[i - 1], xs[i])

LEMMA ApplyingExists ==
    ASSUME NEW base, NEW xs, NEW n \in Nat, DOMAIN xs = 1 .. n
    PROVE  \E run : Applying(base, xs, n, run) /\ Folded(WithRow, base, xs) = run[n]
<1> DEFINE step(g, s) == IF s = {} THEN base ELSE WithRow(g[s \ {Max(s)}], xs[Max(s)])
           iter == CHOOSE g : g = [s \in SUBSET (1 .. n) |-> step(g, s)]
           P == {k \in Nat : \E g : g = [s \in SUBSET (1 .. k) |-> step(g, s)]}
<1>0. Folded(WithRow, base, xs) = iter[1 .. n]
  <2>1. Folded(WithRow, base, xs)
        = LET it[s \in SUBSET DOMAIN xs] ==
                IF s = {} THEN base ELSE WithRow(it[s \ {Max(s)}], xs[Max(s)])
          IN  it[DOMAIN xs]
    BY DEF Folded, MapThenFoldSet
  <2> QED
    BY <2>1
<1>1. P = Nat
  <2>1. 0 \in P
    <3> DEFINE g == [s \in SUBSET (1 .. 0) |-> base]
    <3>1. g = [s \in SUBSET (1 .. 0) |-> step(g, s)]
      OBVIOUS
    <3> HIDE DEF g
    <3> QED
      BY <3>1
  <2>2. ASSUME NEW k \in P PROVE k + 1 \in P
    <3>1. PICK g : g = [s \in SUBSET (1 .. k) |-> step(g, s)]
      OBVIOUS
    <3>2. k \in Nat /\ k + 1 \in Nat /\ k + 1 \notin 1 .. k /\ 1 .. k \subseteq 1 .. k + 1
      OBVIOUS
    <3> DEFINE top(s) == WithRow(g[s \ {k + 1}], xs[k + 1])
               h == [s \in SUBSET (1 .. k + 1) |-> IF k + 1 \in s THEN top(s) ELSE g[s]]
    <3>3. \A s \in SUBSET (1 .. k) : h[s] = g[s] /\ g[s] = step(g, s)
      <4>1. \A s \in SUBSET (1 .. k) : s \in SUBSET (1 .. k + 1) /\ k + 1 \notin s
        BY <3>2
      <4>2. \A s \in SUBSET (1 .. k) : g[s] = step(g, s)
        BY <3>1
      <4> HIDE DEF top
      <4> QED
        BY <4>1, <4>2
    <3>4. \A s \in SUBSET (1 .. k + 1) : k + 1 \in s => h[s] = top(s)
      <4> HIDE DEF top
      <4> QED
        OBVIOUS
    <3>5. ASSUME NEW s \in SUBSET (1 .. k + 1) PROVE h[s] = step(h, s)
      <4> HIDE DEF h
      <4>1. CASE k + 1 \in s
        <5>1. Max(s) = k + 1
          <6>1. s \in SUBSET Nat /\ s # {} /\ \A y \in s : y \in Nat /\ y <= k + 1
            BY <3>2, <4>1
          <6>2. Max(s) \in s /\ \A y \in s : Max(s) >= y
            BY <3>2, <6>1, GreatestIs
          <6>3. Max(s) \in Nat /\ Max(s) <= k + 1 /\ Max(s) >= k + 1
            BY <4>1, <6>1, <6>2
          <6> QED
            BY <3>2, <6>3
        <5>2. s \ {k + 1} \in SUBSET (1 .. k)
          BY <3>2
        <5>3. h[s \ {k + 1}] = g[s \ {k + 1}] /\ h[s] = top(s) /\ s # {}
          BY <3>3, <3>4, <4>1, <5>2
        <5> QED
          BY <5>1, <5>3
      <4>2. CASE k + 1 \notin s
        <5>1. s \in SUBSET (1 .. k)
          BY <3>2, <4>2
        <5>2. h[s] = step(g, s)
          BY <3>3, <5>1
        <5>3. s \ {Max(s)} \in SUBSET (1 .. k)
          BY <5>1
        <5>4. h[s \ {Max(s)}] = g[s \ {Max(s)}]
          BY <3>3, <5>3
        <5> QED
          BY <5>2, <5>4
      <4> QED
        BY <4>1, <4>2
    <3>6. h = [s \in SUBSET (1 .. k + 1) |-> h[s]]
      <4> HIDE DEF top
      <4> QED
        OBVIOUS
    <3> HIDE DEF h
    <3>7. [s \in SUBSET (1 .. k + 1) |-> h[s]] = [s \in SUBSET (1 .. k + 1) |-> step(h, s)]
      <4> HIDE DEF step
      <4> QED
        BY <3>5
    <3>8. h = [s \in SUBSET (1 .. k + 1) |-> step(h, s)]
      <4> HIDE DEF step
      <4> QED
        BY <3>6, <3>7
    <3> QED
      BY <3>2, <3>8
  <2> HIDE DEF P
  <2>3. P \in SUBSET Nat
    BY DEF P
  <2> QED
    BY <2>1, <2>2, <2>3, Induction
<1>2. \E g : g = [s \in SUBSET (1 .. n) |-> step(g, s)]
  <2>1. n \in P
    <3> HIDE DEF P
    <3> QED
      BY <1>1
  <2> QED
    BY <2>1
<1>3. iter = [s \in SUBSET (1 .. n) |-> step(iter, s)]
  BY <1>2
<1> HIDE DEF iter
<1>4. \A s \in SUBSET (1 .. n) : iter[s] = step(iter, s)
  BY <1>3
<1> DEFINE run == [i \in 0 .. n |-> iter[1 .. i]]
<1>5. DOMAIN run = 0 .. n /\ \A i \in 0 .. n : run[i] = iter[1 .. i]
  OBVIOUS
<1> HIDE DEF run
<1>6. run[0] = base
  <2>1. 1 .. 0 = {} /\ {} \in SUBSET (1 .. n) /\ 0 \in 0 .. n
    OBVIOUS
  <2>2. iter[{}] = base
    BY <1>4, <2>1
  <2> QED
    BY <1>5, <2>1, <2>2
<1>7. ASSUME NEW i \in 1 .. n PROVE run[i] = WithRow(run[i - 1], xs[i])
  <2>1. /\ i \in Nat /\ i \in 0 .. n /\ i - 1 \in 0 .. n /\ 1 .. i \in SUBSET (1 .. n)
        /\ i \in 1 .. i /\ 1 .. i \in SUBSET Nat /\ \A y \in 1 .. i : y \in Nat /\ y <= i
    OBVIOUS
  <2>2. (1 .. i) \ {i} = 1 .. i - 1
    BY <2>1
  <2>3. Max(1 .. i) = i
    <3> DEFINE S == 1 .. i
    <3>1. S \in SUBSET Nat /\ i \in S /\ \A y \in S : y \in Nat /\ y <= i
      BY <2>1
    <3> HIDE DEF S
    <3>2. Max(S) \in S /\ \A y \in S : Max(S) >= y
      BY <2>1, <3>1, GreatestIs
    <3>3. Max(S) \in Nat /\ Max(S) <= i /\ Max(S) >= i
      BY <3>1, <3>2
    <3>4. Max(S) = i
      BY <2>1, <3>3
    <3> QED
      BY <3>4 DEF S
  <2>4. iter[1 .. i] = WithRow(iter[(1 .. i) \ {Max(1 .. i)}], xs[Max(1 .. i)])
    BY <1>4, <2>1
  <2> QED
    BY <1>5, <2>1, <2>2, <2>3, <2>4
<1>8. Applying(base, xs, n, run)
  BY <1>5, <1>6, <1>7 DEF Applying
<1>9. n \in 0 .. n
  OBVIOUS
<1>10. Folded(WithRow, base, xs) = run[n]
  BY <1>0, <1>5, <1>9
<1> QED
  BY <1>8, <1>10

Chats == [synced : BOOLEAN, items : Seq(ShownItems), head : Seq(ShownItems),
          range : Ranges, older : BOOLEAN, newer : BOOLEAN]

LEMMA OnlyType ==
    ASSUME NEW S, NEW s \in Seq(S), NEW at \in SUBSET DOMAIN s
    PROVE  /\ Only(s, at) \in Seq(S)
           /\ \A k \in DOMAIN Only(s, at) : \E i \in at : Only(s, at)[k] = s[i]
           /\ \A i \in at : \E k \in DOMAIN Only(s, at) : Only(s, at)[k] = s[i]
<1> DEFINE w == Only(s, at)
<1>1. at \in SUBSET (1 .. Len(s)) /\ Len(s) \in Nat /\ \A i \in at : s[i] \in S
  OBVIOUS
<1> DEFINE size == Cardinality(at)
<1>2. /\ size \in Nat /\ Len(w) = size /\ DOMAIN w = 1 .. size
      /\ w = [k \in 1 .. size |-> s[Nth(at, k)]]
      /\ \A k \in 1 .. size : w[k] = s[Nth(at, k)]
  BY <1>1, OnlyAre
<1>n. /\ \A k \in 1 .. size : Nth(at, k) \in at
      /\ \A i \in at : \E k \in 1 .. size : Nth(at, k) = i
  BY <1>1, NthAre
<1> HIDE DEF w, size
<1>3. \A k \in 1 .. size : \E i \in at : w[k] = s[i]
  BY <1>2, <1>n
<1>4. \A i \in at : \E k \in 1 .. size : w[k] = s[i]
  BY <1>2, <1>n
<1>5. w \in Seq(S)
  <2>1. \A k \in 1 .. size : s[Nth(at, k)] \in S
    BY <1>1, <1>n
  <2> QED
    BY <1>2, <2>1
<1> QED
  BY <1>2, <1>3, <1>4, <1>5 DEF w

\* Where an item is merged is the first place that has it.
LEMMA PlaceIs ==
    ASSUME NEW items \in Seq(ShownItems), NEW x, Holds(items, x)
    PROVE  /\ Place(items, x) \in DOMAIN items
           /\ Same(items[Place(items, x)], x)
           /\ \A i \in DOMAIN items : Same(items[i], x) => Place(items, x) <= i
<1> DEFINE S == {i \in DOMAIN items : Same(items[i], x)}
<1>1. S \in SUBSET Nat /\ S # {}
  BY DEF Holds
<1>2. \A i \in S : i \in DOMAIN items /\ Same(items[i], x)
  OBVIOUS
<1>3. \A i \in DOMAIN items : Same(items[i], x) => i \in S
  OBVIOUS
<1> HIDE DEF S
<1>4. Min(S) \in S /\ \A y \in S : Min(S) <= y
  BY <1>1, LeastIs
<1>5. Place(items, x) = Min(S)
  BY DEF Place, S
<1> QED
  BY <1>2, <1>3, <1>4, <1>5

LEMMA ItemFields ==
    ASSUME NEW x \in ShownItems
    PROVE  /\ x.epoch \in 1 .. MaxEpoch /\ x.epoch \in Nat
           /\ x.anchor \in 1 .. MaxRows /\ x.anchor \in Nat
           /\ x.end \in 1 .. MaxRows /\ x.end \in Nat
           /\ x.late \in BOOLEAN
BY BoundsAssumption DEF ShownItems

\* Merging changes the end of the first item of the identity, or appends one.
LEMMA UpsertIs ==
    ASSUME NEW items \in Seq(ShownItems), NEW x \in ShownItems
    PROVE  /\ Upsert(items, x) \in Seq(ShownItems)
           /\ Holds(items, x) =>
                /\ Len(Upsert(items, x)) = Len(items)
                /\ Upsert(items, x)[Place(items, x)] = [items[Place(items, x)] EXCEPT !.end = x.end]
                /\ \A i \in DOMAIN items : i # Place(items, x) => Upsert(items, x)[i] = items[i]
           /\ ~ Holds(items, x) =>
                /\ Len(Upsert(items, x)) = Len(items) + 1
                /\ \A i \in DOMAIN items : Upsert(items, x)[i] = items[i]
                /\ LET y == Upsert(items, x)[Len(items) + 1]
                   IN  /\ y.epoch = x.epoch /\ y.anchor = x.anchor /\ y.end = x.end
                       /\ y.late \in BOOLEAN /\ (y.late <=> x.late \/ Late(items, x))
<1> DEFINE u == Upsert(items, x)
<1>1. CASE Holds(items, x)
  <2> DEFINE at == Place(items, x)
             y == [items[at] EXCEPT !.end = x.end]
  <2>1. at \in DOMAIN items
    BY <1>1, PlaceIs
  <2>2. u = [items EXCEPT ![at] = y]
    BY <1>1 DEF Upsert
  <2>3. items[at] \in ShownItems
    BY <2>1
  <2>4. y \in ShownItems
    BY <2>3 DEF ShownItems
  <2> HIDE DEF at, y, u
  <2>5. u \in Seq(ShownItems) /\ Len(u) = Len(items) /\ u[at] = y
        /\ \A i \in DOMAIN items : i # at => u[i] = items[i]
    BY <2>1, <2>2, <2>4
  <2> QED
    BY <1>1, <2>5 DEF at, y, u
<1>2. CASE ~ Holds(items, x)
  <2> DEFINE late == x.late \/ Late(items, x)
             y == [x EXCEPT !.late = late]
  <2>1. u = Append(items, y)
    BY <1>2 DEF Upsert
  <2>2. late \in BOOLEAN /\ (late <=> x.late \/ Late(items, x))
    BY DEF Late
  <2> HIDE DEF late
  <2>3. y \in ShownItems /\ y.epoch = x.epoch /\ y.anchor = x.anchor /\ y.end = x.end
    BY <2>2 DEF ShownItems
  <2>4. y.late = late
    BY DEF ShownItems
  <2> HIDE DEF y, u
  <2>5. u \in Seq(ShownItems) /\ Len(u) = Len(items) + 1 /\ u[Len(items) + 1] = y
        /\ \A i \in DOMAIN items : u[i] = items[i]
    BY <2>1, <2>3
  <2>6. y.late \in BOOLEAN /\ (y.late <=> x.late \/ Late(items, x))
    BY <2>2, <2>4
  <2> QED
    BY <1>2, <2>3, <2>5, <2>6 DEF u
<1> QED
  BY <1>1, <1>2

\* Items laid behind others, without those that are there already.
LEMMA FlushType ==
    ASSUME NEW items \in Seq(ShownItems), NEW head \in Seq(ShownItems)
    PROVE  Flush(items, head) \in Seq(ShownItems)
<1> DEFINE at == {i \in DOMAIN head : ~ Holds(items, head[i])}
<1>1. Only(head, at) \in Seq(ShownItems)
  <2>1. at \in SUBSET DOMAIN head
    OBVIOUS
  <2> HIDE DEF at
  <2> QED
    BY <2>1, OnlyType
<1> QED
  BY <1>1 DEF Flush

LEMMA MergedType ==
    ASSUME NEW items \in Seq(ShownItems), NEW us \in Seq(ShownItems)
    PROVE  Folded(Upsert, items, us) \in Seq(ShownItems)
<1> DEFINE n == Len(us)
<1>1. n \in Nat /\ DOMAIN us = 1 .. n /\ \A i \in 1 .. n : us[i] \in ShownItems
  OBVIOUS
<1> HIDE DEF n
<1>2. PICK run : Merging(items, us, n, run) /\ Folded(Upsert, items, us) = run[n]
  BY <1>1, MergingExists
<1> DEFINE P == {k \in Nat : k <= n => run[k] \in Seq(ShownItems)}
<1>3. P = Nat
  <2>1. 0 \in P
    BY <1>2 DEF Merging
  <2>2. ASSUME NEW k \in P PROVE k + 1 \in P
    <3>1. SUFFICES ASSUME k + 1 <= n PROVE run[k + 1] \in Seq(ShownItems)
      OBVIOUS
    <3>2. k + 1 \in 1 .. n /\ (k + 1) - 1 = k /\ run[k] \in Seq(ShownItems)
      BY <1>1, <3>1
    <3>3. run[k + 1] = Upsert(run[k], us[k + 1])
      BY <1>2, <3>2 DEF Merging
    <3>4. us[k + 1] \in ShownItems
      BY <1>1, <3>2
    <3> QED
      BY <3>2, <3>3, <3>4, UpsertIs
  <2> HIDE DEF P
  <2>3. P \in SUBSET Nat
    BY DEF P
  <2> QED
    BY <2>1, <2>2, <2>3, Induction
<1>4. n \in P
  <2> HIDE DEF P
  <2> QED
    BY <1>1, <1>3
<1> QED
  BY <1>1, <1>2, <1>4

LEMMA ChatFields ==
    ASSUME NEW c \in Chats
    PROVE  /\ c.synced \in BOOLEAN /\ c.items \in Seq(ShownItems) /\ c.head \in Seq(ShownItems)
           /\ c.range \in Ranges /\ c.older \in BOOLEAN /\ c.newer \in BOOLEAN
           /\ c = [synced |-> c.synced, items |-> c.items, head |-> c.head, range |-> c.range,
                   older |-> c.older, newer |-> c.newer]
BY DEF Chats

LEMMA RangeFields ==
    ASSUME NEW r \in Ranges
    PROVE  /\ r.epoch \in Nat /\ r.start \in Nat /\ r.end \in Nat
           /\ r # NoRange => /\ r.epoch \in 1 .. MaxEpoch /\ r.start \in 1 .. MaxRows
                             /\ r.end \in 1 .. MaxRows
                             /\ r = [epoch |-> r.epoch, start |-> r.start, end |-> r.end]
           /\ r.epoch # 0 <=> r # NoRange
           /\ r.end # 0 <=> r # NoRange
BY BoundsAssumption DEF Ranges, NoRange

LEMMA RowFields ==
    ASSUME NEW r \in Rows
    PROVE  /\ r.epoch \in 1 .. MaxEpoch /\ r.epoch \in Nat
           /\ r.seq \in 1 .. MaxRows /\ r.seq \in Nat
           /\ r.anchor \in 1 .. MaxRows /\ r.anchor \in Nat
           /\ RowItem(r) \in ShownItems
           /\ RowItem(r).epoch = r.epoch /\ RowItem(r).anchor = r.anchor
           /\ RowItem(r).end = r.seq /\ RowItem(r).late = FALSE
BY BoundsAssumption DEF Rows, RowItem, ShownItems

\* The range of a synced chat after a row.
RangeWith(range, r) ==
  IF Classify(range, r) \in {"init", "restart"}
  THEN [epoch |-> r.epoch, start |-> r.seq, end |-> r.seq]
  ELSE IF Classify(range, r) = "accept" THEN [range EXCEPT !.end = r.seq] ELSE range

LEMMA RangeWithIs ==
    ASSUME NEW range \in Ranges, NEW r \in Rows
    PROVE  /\ RangeWith(range, r) \in Ranges
           /\ range = NoRange => RangeWith(range, r) # NoRange
           /\ \/ RangeWith(range, r) = range
              \/ /\ RangeWith(range, r) # NoRange
                 /\ RangeWith(range, r).epoch = r.epoch /\ RangeWith(range, r).end = r.seq
                 /\ \/ RangeWith(range, r).start = r.seq
                    \/ /\ RangeWith(range, r).start = range.start /\ range # NoRange
                       /\ range.end < r.seq
<1> DEFINE new == [epoch |-> r.epoch, start |-> r.seq, end |-> r.seq]
           longer == [range EXCEPT !.end = r.seq]
<1>0. /\ r.epoch \in 1 .. MaxEpoch /\ r.seq \in 1 .. MaxRows /\ r.epoch # 0 /\ 0 \notin 1 .. MaxEpoch
  <2>1. r.epoch \in 1 .. MaxEpoch /\ r.seq \in 1 .. MaxRows
    BY RowFields
  <2> QED
    BY <2>1, BoundsAssumption
<1>1. new \in Ranges /\ new # NoRange
  BY <1>0 DEF Ranges, NoRange
<1>2. range # NoRange => longer \in Ranges /\ longer # NoRange /\ longer.start = range.start
                         /\ longer.end = r.seq /\ longer.epoch = range.epoch
  <2>1. SUFFICES ASSUME range # NoRange
                 PROVE longer \in Ranges /\ longer # NoRange /\ longer.start = range.start
                       /\ longer.end = r.seq /\ longer.epoch = range.epoch
    OBVIOUS
  <2>2. /\ range.epoch \in 1 .. MaxEpoch /\ range.start \in 1 .. MaxRows
        /\ range = [epoch |-> range.epoch, start |-> range.start, end |-> range.end]
    BY <2>1, RangeFields
  <2>3. longer = [epoch |-> range.epoch, start |-> range.start, end |-> r.seq]
    BY <2>2
  <2> QED
    BY <1>0, <2>2, <2>3 DEF Ranges, NoRange
<1>3. Classify(range, r) = "accept" => range # NoRange /\ range.epoch = r.epoch /\ r.seq = range.end + 1
  BY DEF Classify
<1>4. range = NoRange => Classify(range, r) = "init"
  BY DEF Classify
<1>5. range.end \in Nat /\ r.seq \in Nat
  BY RangeFields, RowFields
<1>6. new.epoch = r.epoch /\ new.start = r.seq /\ new.end = r.seq
  OBVIOUS
<1> HIDE DEF new, longer
<1>7. CASE Classify(range, r) \in {"init", "restart"}
  <2>1. RangeWith(range, r) = new
    BY <1>7 DEF RangeWith, new
  <2> QED
    BY <1>1, <1>6, <2>1
<1>8. CASE Classify(range, r) = "accept"
  <2>1. RangeWith(range, r) = longer
    BY <1>8 DEF RangeWith, longer
  <2> QED
    BY <1>2, <1>3, <1>5, <1>8, <2>1
<1>9. CASE Classify(range, r) \notin {"init", "restart", "accept"}
  <2>1. RangeWith(range, r) = range
    BY <1>9 DEF RangeWith
  <2> QED
    BY <1>4, <1>9, <2>1
<1> QED
  BY <1>7, <1>8, <1>9

\* A row changes the items, the head and the range, of an unsynced chat the
\* head alone.
LEMMA WithRowIs ==
    ASSUME NEW c \in Chats, NEW r \in Rows
    PROVE  /\ WithRow(c, r) \in Chats
           /\ WithRow(c, r).synced = c.synced /\ WithRow(c, r).older = c.older
           /\ WithRow(c, r).newer = c.newer
           /\ ~ c.synced => /\ WithRow(c, r).range = c.range /\ WithRow(c, r).items = c.items
                            /\ WithRow(c, r).head = Upsert(c.head, [RowItem(r) EXCEPT !.late = Late(c.items, RowItem(r))])
           /\ c.synced =>
                /\ WithRow(c, r).range = RangeWith(c.range, r)
                /\ Classify(c.range, r) \notin {"init", "accept", "restart"} => WithRow(c, r) = c
                /\ Classify(c.range, r) \in {"init", "accept"} =>
                     /\ WithRow(c, r).items = Upsert(Flush(c.items, c.head), RowItem(r))
                     /\ WithRow(c, r).head = <<>>
                /\ Classify(c.range, r) = "restart" =>
                     /\ WithRow(c, r).items = Upsert(Flush(<<>>, <<>>), RowItem(r))
                     /\ WithRow(c, r).head = <<>>
<1> DEFINE x == RowItem(r)
           overlay == [x EXCEPT !.late = Late(c.items, x)]
           new == [epoch |-> r.epoch, start |-> r.seq, end |-> r.seq]
           grown(items, head, range) ==
             [c EXCEPT !.items = Upsert(Flush(items, head), x), !.head = <<>>, !.range = range]
           d == WithRow(c, r)
           decision == Classify(c.range, r)
<1>1. c.items \in Seq(ShownItems) /\ c.head \in Seq(ShownItems) /\ c.range \in Ranges
      /\ c.synced \in BOOLEAN
  BY ChatFields
<1>2. x \in ShownItems
  BY RowFields
<1>3. overlay \in ShownItems
  <2>1. Late(c.items, x) \in BOOLEAN
    BY DEF Late
  <2> QED
    BY <1>2, <2>1 DEF ShownItems
<1>4. \A s, h \in Seq(ShownItems) : Upsert(Flush(s, h), x) \in Seq(ShownItems)
  BY <1>2, FlushType, UpsertIs
<1>5. RangeWith(c.range, r) \in Ranges
  BY <1>1, RangeWithIs
<1>6. ASSUME NEW s \in Seq(ShownItems), NEW h \in Seq(ShownItems), NEW range \in Ranges
      PROVE  /\ grown(s, h, range) \in Chats /\ grown(s, h, range).synced = c.synced
             /\ grown(s, h, range).older = c.older /\ grown(s, h, range).newer = c.newer
             /\ grown(s, h, range).range = range /\ grown(s, h, range).head = <<>>
             /\ grown(s, h, range).items = Upsert(Flush(s, h), x)
  <2>1. Upsert(Flush(s, h), x) \in Seq(ShownItems) /\ <<>> \in Seq(ShownItems)
    BY <1>4
  <2> DEFINE u == Upsert(Flush(s, h), x)
  <2> HIDE DEF u
  <2>2. u \in Seq(ShownItems)
    BY <2>1 DEF u
  <2>3. grown(s, h, range) = [c EXCEPT !.items = u, !.head = <<>>, !.range = range]
    BY DEF u
  <2> HIDE DEF grown
  <2>4. /\ grown(s, h, range) \in Chats /\ grown(s, h, range).synced = c.synced
        /\ grown(s, h, range).older = c.older /\ grown(s, h, range).newer = c.newer
        /\ grown(s, h, range).range = range /\ grown(s, h, range).head = <<>>
        /\ grown(s, h, range).items = u
    BY <2>1, <2>2, <2>3 DEF Chats
  <2> QED
    BY <2>4 DEF u
<1>7. CASE ~ c.synced
  <2>1. d = [c EXCEPT !.head = Upsert(@, overlay)]
    BY <1>7 DEF WithRow
  <2>2. Upsert(c.head, overlay) \in Seq(ShownItems)
    BY <1>1, <1>3, UpsertIs
  <2> DEFINE u == Upsert(c.head, overlay)
  <2>3. d = [c EXCEPT !.head = u] /\ u \in Seq(ShownItems)
    BY <2>1, <2>2
  <2> HIDE DEF d, u
  <2>4. /\ d \in Chats /\ d.synced = c.synced /\ d.older = c.older /\ d.newer = c.newer
        /\ d.range = c.range /\ d.items = c.items /\ d.head = u
    BY <2>3 DEF Chats
  <2> QED
    BY <1>7, <2>4 DEF d, u
<1>8. CASE c.synced
  <2>1. CASE decision = "init"
    <3>1. d = grown(c.items, c.head, new)
      BY <1>8, <2>1 DEF WithRow
    <3>2. RangeWith(c.range, r) = new
      BY <2>1 DEF RangeWith
    <3> HIDE DEF grown, new, d
    <3>3. /\ d \in Chats /\ d.synced = c.synced /\ d.older = c.older /\ d.newer = c.newer
          /\ d.range = new /\ d.items = Upsert(Flush(c.items, c.head), x) /\ d.head = <<>>
      BY <1>1, <1>5, <1>6, <3>1, <3>2
    <3> QED
      BY <1>8, <2>1, <3>2, <3>3 DEF d
  <2>2. CASE decision = "accept"
    <3> DEFINE longer == [c.range EXCEPT !.end = r.seq]
    <3>1. d = grown(c.items, c.head, longer)
      BY <1>8, <2>2 DEF WithRow
    <3>2. RangeWith(c.range, r) = longer
      BY <2>2 DEF RangeWith
    <3> HIDE DEF grown, longer, d
    <3>3. /\ d \in Chats /\ d.synced = c.synced /\ d.older = c.older /\ d.newer = c.newer
          /\ d.range = longer /\ d.items = Upsert(Flush(c.items, c.head), x) /\ d.head = <<>>
      BY <1>1, <1>5, <1>6, <3>1, <3>2
    <3> QED
      BY <1>8, <2>2, <3>2, <3>3 DEF d
  <2>3. CASE decision = "restart"
    <3>1. d = grown(<<>>, <<>>, new)
      BY <1>8, <2>3 DEF WithRow
    <3>2. RangeWith(c.range, r) = new
      BY <2>3 DEF RangeWith
    <3>0. <<>> \in Seq(ShownItems)
      OBVIOUS
    <3> HIDE DEF grown, new, d
    <3>3. /\ d \in Chats /\ d.synced = c.synced /\ d.older = c.older /\ d.newer = c.newer
          /\ d.range = new /\ d.items = Upsert(Flush(<<>>, <<>>), x) /\ d.head = <<>>
      BY <1>5, <1>6, <3>0, <3>1, <3>2
    <3> QED
      BY <1>8, <2>3, <3>2, <3>3 DEF d
  <2>4. CASE decision \notin {"init", "accept", "restart"}
    <3>1. d = c
      BY <1>8, <2>4 DEF WithRow
    <3>2. RangeWith(c.range, r) = c.range
      BY <2>4 DEF RangeWith
    <3> QED
      BY <1>8, <2>4, <3>1, <3>2
  <2> QED
    BY <2>1, <2>2, <2>3, <2>4
<1> QED
  BY <1>1, <1>7, <1>8

\* Every step of a queue of rows leaves a chat that differs in items, head and
\* range only, and whose range ends where it did or at one of the rows so far.
LEMMA ApplyingKeeps ==
    ASSUME NEW c \in Chats, NEW rs \in Seq(Rows), NEW n, n = Len(rs),
           NEW run, Applying(c, rs, n, run), NEW k \in 0 .. n
    PROVE  /\ run[k] \in Chats
           /\ run[k].synced = c.synced /\ run[k].older = c.older /\ run[k].newer = c.newer
           /\ ~ c.synced => run[k].range = c.range /\ run[k].items = c.items
           /\ c.range # NoRange => run[k].range # NoRange
           /\ \/ run[k].range = c.range
              \/ run[k].range # NoRange /\ \E i \in 1 .. k : /\ run[k].range.epoch = rs[i].epoch
                                                             /\ run[k].range.end = rs[i].seq
           /\ (c.range # NoRange => c.range.start <= c.range.end)
              => (run[k].range # NoRange => run[k].range.start <= run[k].range.end)
<1> DEFINE Good(j) ==
           /\ run[j] \in Chats
           /\ run[j].synced = c.synced /\ run[j].older = c.older /\ run[j].newer = c.newer
           /\ ~ c.synced => run[j].range = c.range /\ run[j].items = c.items
           /\ c.range # NoRange => run[j].range # NoRange
           /\ \/ run[j].range = c.range
              \/ run[j].range # NoRange /\ \E i \in 1 .. j : /\ run[j].range.epoch = rs[i].epoch
                                                             /\ run[j].range.end = rs[i].seq
           /\ (c.range # NoRange => c.range.start <= c.range.end)
              => (run[j].range # NoRange => run[j].range.start <= run[j].range.end)
           P == {j \in Nat : j <= n => Good(j)}
<1>1. n \in Nat /\ DOMAIN rs = 1 .. n /\ \A i \in 1 .. n : rs[i] \in Rows
  OBVIOUS
<1>2. 0 \in P
  <2>1. run[0] = c
    BY DEF Applying
  <2> QED
    BY <2>1
<1>3. ASSUME NEW j \in P PROVE j + 1 \in P
  <2>1. j \in Nat /\ j + 1 \in Nat
    OBVIOUS
  <2>2. SUFFICES ASSUME j + 1 <= n PROVE Good(j + 1)
    BY <2>1
  <2>3. j <= n /\ j + 1 \in 1 .. n /\ (j + 1) - 1 = j
    BY <1>1, <2>1, <2>2
  <2>4. Good(j)
    BY <2>3
  <2> DEFINE d == run[j]
             r == rs[j + 1]
             e == run[j + 1]
  <2>5. e = WithRow(d, r) /\ r \in Rows
    BY <1>1, <2>3 DEF Applying
  <2>6. d \in Chats /\ d.range \in Ranges /\ e \in Chats /\ e.range \in Ranges
    BY <2>4, <2>5, WithRowIs, ChatFields
  <2>7. /\ e.synced = d.synced /\ e.older = d.older /\ e.newer = d.newer
        /\ ~ d.synced => e.range = d.range /\ e.items = d.items
        /\ d.synced => e.range = RangeWith(d.range, r)
    <3>1. d \in Chats /\ r \in Rows
      BY <2>5, <2>6
    <3> HIDE DEF d, r, e
    <3>2. /\ WithRow(d, r).synced = d.synced /\ WithRow(d, r).older = d.older
          /\ WithRow(d, r).newer = d.newer
      BY <3>1, WithRowIs
    <3>3. /\ ~ d.synced => WithRow(d, r).range = d.range /\ WithRow(d, r).items = d.items
          /\ d.synced => WithRow(d, r).range = RangeWith(d.range, r)
      BY <3>1, WithRowIs
    <3> QED
      BY <2>5, <3>2, <3>3
  <2>8. \/ e.range = d.range
        \/ /\ e.range # NoRange /\ e.range.epoch = r.epoch /\ e.range.end = r.seq
           /\ e.range.start = r.seq \/ (e.range.start = d.range.start /\ d.range # NoRange /\ d.range.end < r.seq)
    <3>1. d.range \in Ranges /\ r \in Rows /\ d.synced \in BOOLEAN
      BY <2>5, <2>6, ChatFields
    <3> HIDE DEF d, r, e
    <3>2. d.synced => e.range = RangeWith(d.range, r)
      BY <2>7
    <3>3. ~ d.synced => e.range = d.range
      BY <2>7
    <3>4. CASE d.synced
      BY <3>1, <3>2, <3>4, RangeWithIs
    <3>5. CASE ~ d.synced
      BY <3>3, <3>5
    <3> QED
      BY <3>4, <3>5
  <2>9. \A i \in 1 .. j : i \in 1 .. j + 1
    BY <2>1
  <2>10. j + 1 \in 1 .. j + 1
    BY <2>1
  <2>11. r.seq \in Nat /\ d.range.start \in Nat /\ d.range.end \in Nat
    BY <2>5, <2>6, RowFields, RangeFields
  <2> HIDE DEF d, e, r
  <2>12. \/ e.range = c.range
         \/ e.range # NoRange /\ \E i \in 1 .. j + 1 : /\ e.range.epoch = rs[i].epoch
                                                       /\ e.range.end = rs[i].seq
    <3>1. CASE e.range = d.range
      BY <2>4, <2>9, <3>1 DEF d
    <3>2. CASE e.range # d.range
      BY <2>8, <2>10, <3>2 DEF r
    <3> QED
      BY <3>1, <3>2
  <2>13. (c.range # NoRange => c.range.start <= c.range.end)
              => (e.range # NoRange => e.range.start <= e.range.end)
    <3>1. (c.range # NoRange => c.range.start <= c.range.end)
              => (d.range # NoRange => d.range.start <= d.range.end)
      BY <2>4 DEF d
    <3> QED
      BY <2>8, <2>11, <3>1
  <2>14. c.range # NoRange => e.range # NoRange
    BY <2>4, <2>8 DEF d
  <2>15. /\ e.synced = c.synced /\ e.older = c.older /\ e.newer = c.newer
         /\ ~ c.synced => e.range = c.range /\ e.items = c.items
    BY <2>4, <2>7 DEF d
  <2> QED
    BY <2>6, <2>12, <2>13, <2>14, <2>15 DEF e
<1>4. P = Nat
  <2>1. P \in SUBSET Nat
    OBVIOUS
  <2> HIDE DEF P
  <2> QED
    BY <1>2, <1>3, <2>1, Induction
<1>5. k \in P /\ k <= n
  <2> HIDE DEF P
  <2> QED
    BY <1>1, <1>4
<1> QED
  BY <1>5

-----------------------------------------------------------------------------
(* Pages, and what they do to what is held.                                *)

Entries == [anchor : 1 .. MaxRows, end : 1 .. MaxRows]
Pages == [dir : {"tail", "after", "before"}, epoch : 1 .. MaxEpoch, reset : BOOLEAN,
          max : 0 .. MaxRows, entries : Seq(Entries), start : 0 .. MaxRows, end : 0 .. MaxRows,
          older : BOOLEAN, newer : BOOLEAN]
Stores == [items : Seq(ShownItems), range : Ranges, older : BOOLEAN]

\* A page has rows or none.
Whole(p) == IF p.start = 0 THEN p.end = 0 /\ p.entries = <<>> ELSE p.end # 0 /\ p.entries # <<>>

LEMMA PageFields ==
    ASSUME NEW p \in Pages
    PROVE  /\ p.dir \in {"tail", "after", "before"} /\ p.epoch \in 1 .. MaxEpoch /\ p.epoch \in Nat
           /\ p.epoch # 0
           /\ p.reset \in BOOLEAN /\ p.max \in 0 .. MaxRows /\ p.max \in Nat
           /\ p.entries \in Seq(Entries)
           /\ p.start \in 0 .. MaxRows /\ p.start \in Nat /\ p.end \in 0 .. MaxRows /\ p.end \in Nat
           /\ p.older \in BOOLEAN /\ p.newer \in BOOLEAN
BY BoundsAssumption DEF Pages

LEMMA ItemsOfType ==
    ASSUME NEW p \in Pages
    PROVE  /\ ItemsOf(p) \in Seq(ShownItems)
           /\ Len(ItemsOf(p)) = Len(p.entries)
           /\ \A i \in DOMAIN p.entries : /\ ItemsOf(p)[i].epoch = p.epoch
                                          /\ ItemsOf(p)[i].anchor = p.entries[i].anchor
                                          /\ ItemsOf(p)[i].end = p.entries[i].end
                                          /\ ItemsOf(p)[i].late = FALSE
<1> DEFINE n == Len(p.entries)
           x(i) == [epoch |-> p.epoch, anchor |-> p.entries[i].anchor, end |-> p.entries[i].end,
                    late |-> FALSE]
<1>1. p.entries \in Seq(Entries) /\ p.epoch \in 1 .. MaxEpoch
  BY PageFields
<1>2. n \in Nat /\ DOMAIN p.entries = 1 .. n /\ \A i \in 1 .. n : p.entries[i] \in Entries
  BY <1>1
<1>3. \A i \in 1 .. n : x(i) \in ShownItems
  BY <1>1, <1>2 DEF ShownItems, Entries
<1>4. ItemsOf(p) = [i \in 1 .. n |-> x(i)]
  BY <1>2 DEF ItemsOf
<1>5. \A i \in 1 .. n : /\ x(i).epoch = p.epoch /\ x(i).anchor = p.entries[i].anchor
                        /\ x(i).end = p.entries[i].end /\ x(i).late = FALSE
  OBVIOUS
<1> HIDE DEF x, n
<1>6. ItemsOf(p) \in Seq(ShownItems) /\ Len(ItemsOf(p)) = n
  BY <1>2, <1>3, <1>4
<1>7. \A i \in 1 .. n : ItemsOf(p)[i] = x(i)
  BY <1>4
<1> QED
  BY <1>2, <1>5, <1>6, <1>7 DEF n

LEMMA MergedNone ==
    ASSUME NEW items
    PROVE  Folded(Upsert, items, <<>>) = items
<1> DEFINE n == 0
           xs == <<>>
<1>1. n \in Nat /\ DOMAIN xs = 1 .. n
  OBVIOUS
<1>2. n = 0 /\ xs = <<>>
  OBVIOUS
<1> HIDE DEF n, xs
<1>3. PICK run : Merging(items, xs, n, run) /\ Folded(Upsert, items, xs) = run[n]
  BY <1>1, MergingExists
<1> QED
  BY <1>2, <1>3 DEF Merging

LEMMA OnlyOfNone ==
    ASSUME NEW S, NEW s \in Seq(S)
    PROVE  Only(s, {}) = <<>>
<1>1. Only(s, {}) \in Seq(S) /\ \A k \in DOMAIN Only(s, {}) : \E i \in {} : Only(s, {})[k] = s[i]
  BY OnlyType
<1> DEFINE w == Only(s, {})
<1> HIDE DEF w
<1>2. w \in Seq(S) /\ DOMAIN w = {}
  BY <1>1 DEF w
<1>3. w = <<>>
  BY <1>2
<1> QED
  BY <1>3 DEF w

\* Replacing what is held leaves all but items and head.
LEMMA CanonicalIs ==
    ASSUME NEW c \in Chats, NEW items \in Seq(ShownItems), NEW coverage, NEW continuity \in BOOLEAN,
           NEW d, d = WithCanonical(c, items, coverage, continuity)
    PROVE  /\ d \in Chats
           /\ d.synced = c.synced /\ d.range = c.range /\ d.older = c.older /\ d.newer = c.newer
           /\ ~ continuity \/ c.head = <<>> => d.items = items /\ d.head = <<>>
<1> DEFINE at == {i \in DOMAIN c.head : ~ Covered(c.head[i], coverage)}
           kept == IF continuity THEN Only(c.head, at) ELSE <<>>
           ins == {i \in DOMAIN kept : Holds(items, kept[i])}
           outs == {i \in DOMAIN kept : ~ Holds(items, kept[i])}
           merged == Only(kept, ins)
           beyond == Only(kept, outs)
           is == Folded(Upsert, items, merged)
           hs == [i \in DOMAIN beyond |-> [beyond[i] EXCEPT !.late = @ \/ Late(items, beyond[i])]]
<1>1. c.head \in Seq(ShownItems) /\ c.items \in Seq(ShownItems)
  BY ChatFields
<1>2. at \in SUBSET DOMAIN c.head /\ ins \in SUBSET DOMAIN kept /\ outs \in SUBSET DOMAIN kept
  OBVIOUS
<1>3. (c.head = <<>> => at = {}) /\ (kept = <<>> => ins = {} /\ outs = {})
  <2>1. \A s : s = <<>> => DOMAIN s = {}
    OBVIOUS
  <2>2. c.head = <<>> => at = {}
    BY <2>1
  <2> HIDE DEF kept
  <2>3. kept = <<>> => ins = {} /\ outs = {}
    BY <2>1
  <2> QED
    BY <2>2, <2>3
<1>4. d = [c EXCEPT !.items = is, !.head = hs]
  BY DEF WithCanonical
<1> HIDE DEF at
<1>5. kept \in Seq(ShownItems)
  <2>1. Only(c.head, at) \in Seq(ShownItems)
    BY <1>1, <1>2, OnlyType
  <2> QED
    BY <2>1
<1>6. ~ continuity \/ c.head = <<>> => kept = <<>>
  <2>1. c.head = <<>> => Only(c.head, at) = <<>>
    BY <1>1, <1>3, OnlyOfNone
  <2> QED
    BY <2>1
<1> HIDE DEF kept, ins, outs
<1>7. merged \in Seq(ShownItems) /\ beyond \in Seq(ShownItems)
  BY <1>2, <1>5, OnlyType
<1>8. kept = <<>> => merged = <<>> /\ beyond = <<>>
  BY <1>3, <1>5, OnlyOfNone
<1> HIDE DEF merged, beyond
<1>9. is \in Seq(ShownItems) /\ (merged = <<>> => is = items)
  BY <1>7, MergedType, MergedNone
<1>10. hs \in Seq(ShownItems) /\ (beyond = <<>> => hs = <<>>)
  <2> DEFINE n == Len(beyond)
             late(i) == beyond[i].late \/ Late(items, beyond[i])
             x(i) == [beyond[i] EXCEPT !.late = late(i)]
  <2>1. n \in Nat /\ DOMAIN beyond = 1 .. n /\ \A i \in 1 .. n : beyond[i] \in ShownItems
    BY <1>7
  <2>2. \A i \in 1 .. n : late(i) \in BOOLEAN
    BY DEF Late
  <2>3. hs = [i \in 1 .. n |-> x(i)]
    BY <2>1
  <2> HIDE DEF late
  <2>4. \A i \in 1 .. n : x(i) \in ShownItems
    BY <2>1, <2>2 DEF ShownItems
  <2>5. beyond = <<>> => n = 0
    OBVIOUS
  <2> HIDE DEF n, x, hs
  <2> QED
    BY <2>1, <2>3, <2>4, <2>5
<1> HIDE DEF is, hs
<1>11. /\ d \in Chats /\ d.synced = c.synced /\ d.range = c.range /\ d.older = c.older
       /\ d.newer = c.newer /\ d.items = is /\ d.head = hs
  BY <1>4, <1>9, <1>10 DEF Chats
<1>12. ~ continuity \/ c.head = <<>> => d.items = items /\ d.head = <<>>
  BY <1>6, <1>8, <1>9, <1>10, <1>11
<1> QED
  BY <1>11, <1>12

LEMMA PaintedIs ==
    ASSUME NEW c \in Chats, NEW s \in Stores
    PROVE  /\ Painted(c, s) \in Chats
           /\ Painted(c, s).synced = c.synced
           /\ Painted(c, s).range = s.range /\ Painted(c, s).older = s.older
           /\ Painted(c, s).newer = FALSE
           /\ c.head = <<>> => Painted(c, s).items = s.items /\ Painted(c, s).head = <<>>
<1> DEFINE coverage == IF s.range # NoRange THEN s.range
                  ELSE [epoch |-> IF c.head = <<>> THEN 0 ELSE c.head[1].epoch,
                        start |-> 0, end |-> 0]
           b == WithCanonical(c, s.items, coverage, TRUE)
           d == Painted(c, s)
<1>1. d = [b EXCEPT !.range = s.range, !.older = s.older, !.newer = FALSE]
  BY DEF Painted
<1>2. s.items \in Seq(ShownItems) /\ s.range \in Ranges /\ s.older \in BOOLEAN
  BY DEF Stores
<1> HIDE DEF coverage
<1>3. b \in Chats /\ b.synced = c.synced /\ (c.head = <<>> => b.items = s.items /\ b.head = <<>>)
  <2> DEFINE yes == TRUE
             e == WithCanonical(c, s.items, coverage, yes)
  <2>1. yes \in BOOLEAN /\ e = b
    OBVIOUS
  <2> HIDE DEF yes
  <2>3. e = WithCanonical(c, s.items, coverage, yes)
    OBVIOUS
  <2> HIDE DEF e, b
  <2>2. e \in Chats /\ e.synced = c.synced
        /\ (~ yes \/ c.head = <<>> => e.items = s.items /\ e.head = <<>>)
    BY <1>2, <2>1, <2>3, CanonicalIs
  <2> QED
    BY <2>1, <2>2
<1> HIDE DEF b, d
<1>4. /\ d \in Chats /\ d.synced = b.synced /\ d.range = s.range /\ d.older = s.older
      /\ d.newer = FALSE /\ d.items = b.items /\ d.head = b.head
  BY <1>1, <1>2, <1>3 DEF Chats
<1> QED
  BY <1>3, <1>4 DEF d

PageRange(p) == IF p.start # 0 THEN [epoch |-> p.epoch, start |-> p.start, end |-> p.end]
                ELSE NoRange

LEMMA PageRangeIs ==
    ASSUME NEW p \in Pages, Whole(p)
    PROVE  /\ PageRange(p) \in Ranges
           /\ p.start # 0 => PageRange(p) # NoRange
           /\ p.start # 0 => PageRange(p).epoch = p.epoch /\ PageRange(p).start = p.start
                             /\ PageRange(p).end = p.end
<1>1. CASE p.start # 0
  <2>1. p.epoch \in 1 .. MaxEpoch /\ p.start \in 1 .. MaxRows /\ p.end \in 1 .. MaxRows /\ p.epoch # 0
    BY <1>1, PageFields, BoundsAssumption DEF Whole
  <2> QED
    BY <1>1, <2>1 DEF PageRange, Ranges, NoRange
<1>2. CASE p.start = 0
  BY <1>2 DEF PageRange, Ranges
<1> QED
  BY <1>1, <1>2

Units(p, cur, onlyNews) ==
  Only(ItemsOf(p), {i \in DOMAIN ItemsOf(p) : onlyNews => ItemsOf(p)[i].end > cur.end})

ForwardRange(p, cur) ==
  IF cur = NoRange THEN [epoch |-> p.epoch, start |-> p.start, end |-> p.end]
  ELSE [cur EXCEPT !.end = p.end]

LEMMA ForwardRangeIs ==
    ASSUME NEW p \in Pages, Whole(p), NEW cur \in Ranges, p.start # 0
    PROVE  /\ ForwardRange(p, cur) \in Ranges /\ ForwardRange(p, cur) # NoRange
           /\ ForwardRange(p, cur).end = p.end
           /\ cur = NoRange => ForwardRange(p, cur).epoch = p.epoch
                               /\ ForwardRange(p, cur).start = p.start
           /\ cur # NoRange => ForwardRange(p, cur).epoch = cur.epoch
                               /\ ForwardRange(p, cur).start = cur.start
<1>1. CASE cur = NoRange
  <2>1. ForwardRange(p, cur) = PageRange(p)
    BY <1>1 DEF ForwardRange, PageRange
  <2> QED
    BY <1>1, <2>1, PageRangeIs
<1>2. CASE cur # NoRange
  <2>1. /\ cur.epoch \in 1 .. MaxEpoch /\ cur.start \in 1 .. MaxRows /\ p.end \in 1 .. MaxRows
        /\ cur.epoch # 0
        /\ cur = [epoch |-> cur.epoch, start |-> cur.start, end |-> cur.end]
    BY <1>2, PageFields, RangeFields, BoundsAssumption DEF Whole
  <2>2. ForwardRange(p, cur) = [epoch |-> cur.epoch, start |-> cur.start, end |-> p.end]
    BY <1>2, <2>1 DEF ForwardRange
  <2> QED
    BY <1>2, <2>1, <2>2 DEF Ranges, NoRange
<1> QED
  BY <1>1, <1>2

\* A page after the range either adds its units, or leaves the items as they are.
LEMMA ForwardIs ==
    ASSUME NEW c \in Chats, NEW p \in Pages, Whole(p), NEW cur \in Ranges,
           NEW onlyNews \in BOOLEAN, NEW d, d = Forward(c, p, cur, onlyNews)
    PROVE  /\ d \in Chats /\ d.synced = c.synced /\ d.older = c.older /\ d.newer = c.newer
           /\ Units(p, cur, onlyNews) \in Seq(ShownItems)
           /\ \/ /\ Units(p, cur, onlyNews) = <<>> \/ ~ AcceptsForward(p, cur)
                 /\ d.range = cur /\ d.items = c.items /\ d.head = c.head
              \/ /\ Units(p, cur, onlyNews) # <<>> /\ AcceptsForward(p, cur)
                 /\ d.range = ForwardRange(p, cur) /\ d.head = <<>>
                 /\ d.items = Folded(Upsert, Flush(c.items, c.head), Units(p, cur, onlyNews))
<1> DEFINE us == Units(p, cur, onlyNews)
           is == Folded(Upsert, Flush(c.items, c.head), us)
<1>1. us \in Seq(ShownItems)
  <2> DEFINE at == {i \in DOMAIN ItemsOf(p) : onlyNews => ItemsOf(p)[i].end > cur.end}
  <2>1. ItemsOf(p) \in Seq(ShownItems) /\ at \in SUBSET DOMAIN ItemsOf(p)
    BY ItemsOfType
  <2>2. us = Only(ItemsOf(p), at)
    BY DEF Units
  <2> HIDE DEF at, us
  <2> QED
    BY <2>1, <2>2, OnlyType
<1>2. is \in Seq(ShownItems)
  BY <1>1, FlushType, MergedType, ChatFields
<1>3. CASE us = <<>> \/ ~ AcceptsForward(p, cur)
  <2>1. d = [c EXCEPT !.range = cur]
    BY <1>3 DEF Forward, Units
  <2> HIDE DEF us, is
  <2>2. /\ d \in Chats /\ d.synced = c.synced /\ d.older = c.older /\ d.newer = c.newer
        /\ d.range = cur /\ d.items = c.items /\ d.head = c.head
    BY <2>1 DEF Chats
  <2> QED
    BY <1>1, <1>3, <2>2 DEF us
<1>4. CASE ~ (us = <<>> \/ ~ AcceptsForward(p, cur))
  <2> DEFINE range == ForwardRange(p, cur)
  <2>1. d = [c EXCEPT !.items = is, !.head = <<>>, !.range = range]
    BY <1>4 DEF Forward, Units, ForwardRange
  <2>2. p.start # 0
    BY <1>4 DEF AcceptsForward
  <2>3. range \in Ranges /\ <<>> \in Seq(ShownItems)
    BY <2>2, ForwardRangeIs
  <2> HIDE DEF us, is, range
  <2>4. /\ d \in Chats /\ d.synced = c.synced /\ d.older = c.older /\ d.newer = c.newer
        /\ d.range = range /\ d.items = is /\ d.head = <<>>
    BY <1>2, <2>1, <2>3 DEF Chats
  <2> QED
    BY <1>1, <1>4, <2>4 DEF us, is, range
<1> QED
  BY <1>3, <1>4

LEMMA OlderIs ==
    ASSUME NEW c \in Chats, NEW p \in Pages, Whole(p), NEW cur \in Ranges,
           NEW d, d = Older(c, p, cur)
    PROVE  /\ d \in Chats /\ d.synced = c.synced /\ d.newer = c.newer /\ d.head = c.head
           /\ \/ /\ ~ AcceptsOlder(p, cur)
                 /\ d.range = cur /\ d.items = c.items /\ d.older = c.older
              \/ /\ AcceptsOlder(p, cur)
                 /\ d.range # NoRange /\ d.range.epoch = cur.epoch /\ d.range.end = cur.end
                 /\ d.range.start = p.start /\ d.older = p.older
<1> DEFINE mine(x) == x.epoch = p.epoch
           before  == Only(c.items, {i \in DOMAIN c.items : mine(c.items[i]) /\ c.items[i].end < p.start})
           rest    == Only(c.items, {i \in DOMAIN c.items : ~ mine(c.items[i]) \/ c.items[i].end > p.end})
           page    == ItemsOf(p)
           last    == page[Len(page)]
           is == before \o
                       (IF rest # <<>> /\ Same(last, rest[1])
                        THEN SubSeq(page, 1, Len(page) - 1) \o <<[last EXCEPT !.end = rest[1].end]>> \o Tail(rest)
                        ELSE page \o rest)
           range == [cur EXCEPT !.start = p.start]
<1>0. c.items \in Seq(ShownItems)
  BY ChatFields
<1>1. CASE ~ AcceptsOlder(p, cur)
  <2>1. d = [c EXCEPT !.range = cur]
    BY <1>1 DEF Older
  <2>2. /\ d \in Chats /\ d.synced = c.synced /\ d.older = c.older /\ d.newer = c.newer
        /\ d.range = cur /\ d.items = c.items /\ d.head = c.head
    BY <2>1 DEF Chats
  <2> QED
    BY <1>1, <2>2
<1>2. CASE AcceptsOlder(p, cur)
  <2>1. d = [c EXCEPT !.items = is, !.range = range, !.older = p.older]
    BY <1>2 DEF Older
  <2>2. cur # NoRange /\ p.start # 0
    BY <1>2 DEF AcceptsOlder
  <2>3. page \in Seq(ShownItems) /\ page # <<>>
    <3>1. p.entries # <<>> /\ p.entries \in Seq(Entries)
      BY <2>2, PageFields DEF Whole
    <3>2. page \in Seq(ShownItems) /\ Len(page) = Len(p.entries)
      BY ItemsOfType
    <3> HIDE DEF page
    <3> QED
      BY <3>1, <3>2
  <2>4. before \in Seq(ShownItems) /\ rest \in Seq(ShownItems)
    BY <1>0, OnlyType
  <2> HIDE DEF before, rest, page
  <2>5. last \in ShownItems
    BY <2>3
  <2>6. is \in Seq(ShownItems)
    <3>1. CASE rest # <<>> /\ Same(last, rest[1])
      <4> DEFINE y == [last EXCEPT !.end = rest[1].end]
      <4>1. rest[1] \in ShownItems /\ Tail(rest) \in Seq(ShownItems)
        BY <2>4, <3>1
      <4>2. y \in ShownItems
        BY <2>5, <4>1 DEF ShownItems
      <4>3. SubSeq(page, 1, Len(page) - 1) \in Seq(ShownItems)
        BY <2>3
      <4> HIDE DEF y, last
      <4>4. SubSeq(page, 1, Len(page) - 1) \o <<y>> \o Tail(rest) \in Seq(ShownItems)
        BY <4>1, <4>2, <4>3
      <4> QED
        BY <2>4, <3>1, <4>4 DEF y
    <3>2. CASE ~ (rest # <<>> /\ Same(last, rest[1]))
      <4> HIDE DEF last
      <4> QED
        BY <2>3, <2>4, <3>2
    <3> QED
      BY <3>1, <3>2
  <2>7. range \in Ranges /\ range # NoRange /\ range.epoch = cur.epoch /\ range.end = cur.end
        /\ range.start = p.start
    <3>1. /\ cur.epoch \in 1 .. MaxEpoch /\ cur.end \in 1 .. MaxRows /\ p.start \in 1 .. MaxRows
          /\ cur.epoch # 0
          /\ cur = [epoch |-> cur.epoch, start |-> cur.start, end |-> cur.end]
      BY <2>2, PageFields, RangeFields, BoundsAssumption
    <3>2. range = [epoch |-> cur.epoch, start |-> p.start, end |-> cur.end]
      BY <3>1
    <3> QED
      BY <3>1, <3>2 DEF Ranges, NoRange
  <2> HIDE DEF is, range
  <2>8. p.older \in BOOLEAN
    BY PageFields
  <2>9. /\ d \in Chats /\ d.synced = c.synced /\ d.older = p.older /\ d.newer = c.newer
        /\ d.range = range /\ d.items = is /\ d.head = c.head
    BY <2>1, <2>6, <2>7, <2>8 DEF Chats
  <2> QED
    BY <1>2, <2>7, <2>9
<1> QED
  BY <1>1, <1>2

LEMMA ReplacedIs ==
    ASSUME NEW c \in Chats, NEW p \in Pages, Whole(p), NEW continuity \in BOOLEAN,
           NEW d, d = Replaced(c, p, continuity)
    PROVE  /\ d \in Chats /\ d.synced = c.synced /\ d.newer = c.newer
           /\ d.range = PageRange(p) /\ d.older = p.older
           /\ ~ continuity \/ c.head = <<>> => d.items = ItemsOf(p) /\ d.head = <<>>
<1> DEFINE coverage == [epoch |-> p.epoch, start |-> p.start, end |-> p.end]
           b == WithCanonical(c, ItemsOf(p), coverage, continuity)
           range == PageRange(p)
<1>1. d = [b EXCEPT !.range = range, !.older = p.older]
  BY DEF Replaced, PageRange
<1>2. ItemsOf(p) \in Seq(ShownItems) /\ p.older \in BOOLEAN /\ range \in Ranges
  BY ItemsOfType, PageFields, PageRangeIs
<1>3. b = WithCanonical(c, ItemsOf(p), coverage, continuity)
  OBVIOUS
<1> HIDE DEF coverage, b, range
<1>4. /\ b \in Chats /\ b.synced = c.synced /\ b.newer = c.newer
      /\ ~ continuity \/ c.head = <<>> => b.items = ItemsOf(p) /\ b.head = <<>>
  BY <1>2, <1>3, CanonicalIs
<1>5. /\ d \in Chats /\ d.synced = b.synced /\ d.older = p.older /\ d.newer = b.newer
      /\ d.range = range /\ d.items = b.items /\ d.head = b.head
  BY <1>1, <1>2, <1>4 DEF Chats
<1> QED
  BY <1>4, <1>5 DEF range

\* A queue of rows leaves a chat that differs in items, head and range only,
\* and whose range ends where it did or at one of the rows.
LEMMA WithRowsIs ==
    ASSUME NEW c \in Chats, NEW rs \in Seq(Rows), NEW d, d = WithRows(c, rs)
    PROVE  /\ d \in Chats /\ d.synced = c.synced /\ d.older = c.older /\ d.newer = c.newer
           /\ ~ c.synced => d.range = c.range /\ d.items = c.items
           /\ c.synced /\ c.newer => d = c
           /\ c.range # NoRange => d.range # NoRange
           /\ \/ d.range = c.range
              \/ d.range # NoRange /\ \E i \in DOMAIN rs : /\ d.range.epoch = rs[i].epoch
                                                           /\ d.range.end = rs[i].seq
           /\ (c.range # NoRange => c.range.start <= c.range.end)
              => (d.range # NoRange => d.range.start <= d.range.end)
           /\ rs = <<>> => d = c
           /\ c.synced /\ ~ c.newer /\ rs # <<>> => d.range # NoRange
           /\ RowsLeaveGap(c, rs) => c.synced /\ ~ c.newer /\ rs # <<>> /\ d.range # NoRange
<1> DEFINE n == Len(rs)
<1>0. RowsLeaveGap(c, rs) => c.synced /\ ~ c.newer /\ rs # <<>>
  <2>1. \A s : s = <<>> => DOMAIN s = {}
    OBVIOUS
  <2> QED
    BY <2>1 DEF RowsLeaveGap
<1>1. n \in Nat /\ DOMAIN rs = 1 .. n /\ n \in 0 .. n /\ (rs = <<>> <=> n = 0) /\ n = Len(rs)
  OBVIOUS
<1> HIDE DEF n
<1>2. CASE c.synced /\ c.newer
  <2>1. d = c
    BY <1>2 DEF WithRows
  <2> QED
    BY <1>0, <1>2, <2>1
<1>3. CASE ~ (c.synced /\ c.newer)
  <2>1. d = Folded(WithRow, c, rs)
    BY <1>3 DEF WithRows
  <2>2. PICK run : Applying(c, rs, n, run) /\ d = run[n]
    BY <1>1, <2>1, ApplyingExists
  <2>3. /\ run[n] \in Chats
        /\ run[n].synced = c.synced /\ run[n].older = c.older /\ run[n].newer = c.newer
        /\ ~ c.synced => run[n].range = c.range /\ run[n].items = c.items
        /\ c.range # NoRange => run[n].range # NoRange
        /\ \/ run[n].range = c.range
           \/ run[n].range # NoRange /\ \E i \in 1 .. n : /\ run[n].range.epoch = rs[i].epoch
                                                          /\ run[n].range.end = rs[i].seq
        /\ (c.range # NoRange => c.range.start <= c.range.end)
              => (run[n].range # NoRange => run[n].range.start <= run[n].range.end)
    BY <1>1, <2>2, ApplyingKeeps
  <2>4. n = 0 => d = c
    BY <2>2 DEF Applying
  <2>5. c.synced /\ n # 0 => d.range # NoRange
    <3>1. SUFFICES ASSUME c.synced, n # 0 PROVE d.range # NoRange
      OBVIOUS
    <3> DEFINE e == run[n - 1]
               r == rs[n]
    <3>2. n \in 1 .. n /\ n - 1 \in 0 .. n
      BY <1>1, <3>1
    <3>3. e \in Chats /\ e.synced = c.synced
      BY <1>1, <2>2, <3>2, ApplyingKeeps
    <3>4. d = WithRow(e, r) /\ r \in Rows
      BY <1>1, <2>2, <3>2 DEF Applying
    <3> HIDE DEF e, r
    <3>5. d.range = RangeWith(e.range, r) /\ e.range \in Ranges
      <4>1. e.synced
        BY <3>1, <3>3
      <4>2. e.range \in Ranges
        BY <3>3, ChatFields
      <4>3. WithRow(e, r).range = RangeWith(e.range, r)
        BY <3>3, <3>4, <4>1, WithRowIs
      <4> QED
        BY <3>4, <4>2, <4>3
    <3>6. RangeWith(e.range, r) # NoRange
      BY <3>4, <3>5, RangeWithIs
    <3> QED
      BY <3>5, <3>6
  <2>6. c.synced => ~ c.newer
    BY <1>3
  <2> QED
    BY <1>0, <1>1, <2>2, <2>3, <2>4, <2>5, <2>6
<1> QED
  BY <1>2, <1>3

\* What becomes of the range when a page arrives.
PageTaken(p, cur, reset, boot) ==
  LET policy == TailPolicy(p, cur, reset, boot)
  IN  /\ policy \in {"incremental", "append"} /\ p.dir # "before"
      /\ Units(p, cur, policy = "append") # <<>> /\ AcceptsForward(p, cur)

RangeWithPage(range, p, cur, reset, boot) ==
  LET policy == TailPolicy(p, cur, reset, boot)
  IN  IF policy = "discard" THEN range
      ELSE IF policy = "replace" THEN PageRange(p)
      ELSE IF p.dir = "before"
      THEN IF AcceptsOlder(p, cur) THEN [cur EXCEPT !.start = p.start] ELSE cur
      ELSE IF PageTaken(p, cur, reset, boot) THEN ForwardRange(p, cur) ELSE cur

LEMMA TailPolicyIs ==
    ASSUME NEW p, NEW cur, NEW reset \in BOOLEAN, NEW boot \in BOOLEAN
    PROVE  /\ TailPolicy(p, cur, reset, boot) \in {"replace", "incremental", "discard", "append"}
           /\ TailPolicy(p, cur, reset, boot) \in {"discard", "append"} => p.dir = "tail" /\ cur # NoRange
           /\ (reset \/ boot) => TailPolicy(p, cur, reset, boot) = "replace"
           /\ ~ (reset \/ boot) /\ p.dir # "tail" => TailPolicy(p, cur, reset, boot) = "incremental"
BY DEF TailPolicy

LEMMA WithPageIs ==
    ASSUME NEW c \in Chats, NEW p \in Pages, Whole(p), NEW cur \in Ranges,
           NEW reset \in BOOLEAN, NEW boot \in BOOLEAN,
           NEW d, d = WithPage(c, p, cur, reset, boot),
           NEW policy, policy = TailPolicy(p, cur, reset, boot)
    PROVE  /\ d \in Chats
           /\ d.range = RangeWithPage(c.range, p, cur, reset, boot)
           /\ p.dir = "before" => d.synced = c.synced /\ d.newer = c.newer
           /\ p.dir # "before" =>
                /\ d.newer = p.newer
                /\ c.synced => d.synced
                /\ policy = "discard" => d.synced = c.synced
                /\ policy # "discard" /\ (p.dir = "tail" \/ ~ p.newer) => d.synced
                /\ p.dir # "tail" /\ p.newer => d.synced = c.synced
           /\ policy = "discard" => d.items = c.items /\ d.head = c.head /\ d.older = c.older
           /\ policy = "replace" =>
                /\ d.older = p.older
                /\ ~ Continues(p, cur, reset, boot) \/ c.head = <<>> => d.items = ItemsOf(p) /\ d.head = <<>>
           /\ policy \in {"incremental", "append"} /\ p.dir # "before" =>
                /\ d.older = c.older
                /\ Units(p, cur, policy = "append") \in Seq(ShownItems)
                /\ ~ PageTaken(p, cur, reset, boot) => d.items = c.items /\ d.head = c.head
                /\ PageTaken(p, cur, reset, boot) =>
                     /\ d.head = <<>>
                     /\ d.items = Folded(Upsert, Flush(c.items, c.head), Units(p, cur, policy = "append"))
           /\ policy = "incremental" /\ p.dir = "before" =>
                \E o : /\ o = Older(c, p, cur)
                       /\ d.older = o.older /\ d.items = o.items /\ d.head = o.head
<1> DEFINE shown == IF policy = "discard" THEN c
                ELSE IF policy = "replace" THEN Replaced(c, p, Continues(p, cur, reset, boot))
                ELSE IF p.dir = "before" THEN Older(c, p, cur)
                ELSE Forward(c, p, cur, policy = "append")
           synced == c.synced \/ (policy # "discard" /\ (p.dir = "tail" \/ ~ p.newer))
<1>0. d = IF p.dir = "before" THEN shown ELSE [shown EXCEPT !.newer = p.newer, !.synced = synced]
  BY DEF WithPage
<1>p. /\ p.newer \in BOOLEAN /\ c.synced \in BOOLEAN
      /\ policy \in {"replace", "incremental", "discard", "append"}
      /\ policy \in {"discard", "append"} => p.dir = "tail"
  <2>1. p.newer \in BOOLEAN /\ c.synced \in BOOLEAN
    BY PageFields, ChatFields
  <2>2. /\ policy \in {"replace", "incremental", "discard", "append"}
        /\ policy \in {"discard", "append"} => p.dir = "tail"
    BY TailPolicyIs
  <2> QED
    BY <2>1, <2>2
<1>1. /\ shown \in Chats
      /\ shown.range = RangeWithPage(c.range, p, cur, reset, boot)
      /\ shown.synced = c.synced /\ shown.newer = c.newer
      /\ policy = "discard" => shown.items = c.items /\ shown.head = c.head /\ shown.older = c.older
      /\ policy = "replace" =>
           /\ shown.older = p.older
           /\ ~ Continues(p, cur, reset, boot) \/ c.head = <<>> => shown.items = ItemsOf(p) /\ shown.head = <<>>
      /\ policy \in {"incremental", "append"} /\ p.dir # "before" =>
           /\ shown.older = c.older
           /\ Units(p, cur, policy = "append") \in Seq(ShownItems)
           /\ ~ PageTaken(p, cur, reset, boot) => shown.items = c.items /\ shown.head = c.head
           /\ PageTaken(p, cur, reset, boot) =>
                /\ shown.head = <<>>
                /\ shown.items = Folded(Upsert, Flush(c.items, c.head), Units(p, cur, policy = "append"))
      /\ policy = "incremental" /\ p.dir = "before" => shown = Older(c, p, cur)
  <2>1. CASE policy = "discard"
    <3>1. shown = c /\ policy # "replace" /\ policy \notin {"incremental", "append"}
      BY <2>1
    <3>2. RangeWithPage(c.range, p, cur, reset, boot) = c.range
      BY <2>1 DEF RangeWithPage
    <3> HIDE DEF shown
    <3> QED
      BY <2>1, <3>1, <3>2
  <2>2. CASE policy = "replace"
    <3> DEFINE cont == Continues(p, cur, reset, boot)
    <3>1. shown = Replaced(c, p, cont) /\ policy # "discard" /\ policy \notin {"incremental", "append"}
      BY <2>2
    <3>2. RangeWithPage(c.range, p, cur, reset, boot) = PageRange(p)
      BY <2>2 DEF RangeWithPage
    <3>3. cont \in BOOLEAN
      BY DEF Continues
    <3> HIDE DEF shown, cont
    <3>4. /\ shown \in Chats /\ shown.synced = c.synced /\ shown.newer = c.newer
          /\ shown.range = PageRange(p) /\ shown.older = p.older
          /\ ~ cont \/ c.head = <<>> => shown.items = ItemsOf(p) /\ shown.head = <<>>
      BY <3>1, <3>3, ReplacedIs
    <3> QED
      BY <2>2, <3>1, <3>2, <3>4 DEF cont
  <2>3. CASE policy \in {"incremental", "append"} /\ p.dir = "before"
    <3>1. shown = Older(c, p, cur) /\ policy # "discard" /\ policy # "replace"
      BY <2>3
    <3>2. /\ shown \in Chats /\ shown.synced = c.synced /\ shown.newer = c.newer
          /\ ~ AcceptsOlder(p, cur) => shown.range = cur
      BY <3>1, OlderIs
    <3>3. AcceptsOlder(p, cur) => shown.range = [cur EXCEPT !.start = p.start]
      <4>1. AcceptsOlder(p, cur) => Older(c, p, cur).range = [cur EXCEPT !.start = p.start]
        BY DEF Older, Chats
      <4> QED
        BY <3>1, <4>1
    <3>4. shown.range = RangeWithPage(c.range, p, cur, reset, boot)
      <4> HIDE DEF shown
      <4> QED
        BY <2>3, <3>1, <3>2, <3>3 DEF RangeWithPage
    <3> HIDE DEF shown
    <3> QED
      BY <2>3, <3>1, <3>2, <3>4
  <2>4. CASE policy \in {"incremental", "append"} /\ p.dir # "before"
    <3> DEFINE new == policy = "append"
               us == Units(p, cur, new)
    <3>1. shown = Forward(c, p, cur, new) /\ policy # "discard" /\ policy # "replace"
      BY <2>4
    <3>2. new \in BOOLEAN
      OBVIOUS
    <3>t. PageTaken(p, cur, reset, boot) <=> us # <<>> /\ AcceptsForward(p, cur)
      BY <2>4 DEF PageTaken
    <3>u. us = Units(p, cur, policy = "append")
      OBVIOUS
    <3>w. us = Units(p, cur, new)
      OBVIOUS
    <3> HIDE DEF shown, new, us
    <3>3. /\ shown \in Chats /\ shown.synced = c.synced /\ shown.older = c.older /\ shown.newer = c.newer
          /\ us \in Seq(ShownItems)
          /\ \/ /\ us = <<>> \/ ~ AcceptsForward(p, cur)
                /\ shown.range = cur /\ shown.items = c.items /\ shown.head = c.head
             \/ /\ us # <<>> /\ AcceptsForward(p, cur)
                /\ shown.range = ForwardRange(p, cur) /\ shown.head = <<>>
                /\ shown.items = Folded(Upsert, Flush(c.items, c.head), us)
      BY <3>1, <3>2, <3>w, ForwardIs
    <3>4. shown.range = RangeWithPage(c.range, p, cur, reset, boot)
      BY <2>4, <3>1, <3>3, <3>t DEF RangeWithPage
    <3> QED
      BY <2>4, <3>1, <3>3, <3>4, <3>t, <3>u
  <2> QED
    BY <1>p, <2>1, <2>2, <2>3, <2>4
<1>s. /\ synced \in BOOLEAN /\ (c.synced => synced)
      /\ (policy = "discard" => synced = c.synced)
      /\ (policy # "discard" /\ (p.dir = "tail" \/ ~ p.newer) => synced)
      /\ (p.dir # "tail" /\ p.newer => synced = c.synced)
  BY <1>p
<1> HIDE DEF shown, synced
<1>2. CASE p.dir = "before"
  <2>1. d = shown
    BY <1>0, <1>2
  <2>2. policy = "incremental" /\ p.dir = "before" =>
                \E o : /\ o = Older(c, p, cur)
                       /\ d.older = o.older /\ d.items = o.items /\ d.head = o.head
    BY <1>1, <2>1
  <2> QED
    BY <1>1, <1>2, <2>1, <2>2
<1>3. CASE p.dir # "before"
  <2>1. d = [shown EXCEPT !.newer = p.newer, !.synced = synced]
    BY <1>0, <1>3
  <2>2. /\ d \in Chats /\ d.synced = synced /\ d.newer = p.newer /\ d.range = shown.range
        /\ d.older = shown.older /\ d.items = shown.items /\ d.head = shown.head
    BY <1>1, <1>p, <1>s, <2>1 DEF Chats
  <2> QED
    BY <1>1, <1>s, <1>3, <2>2
<1> QED
  BY <1>2, <1>3

-----------------------------------------------------------------------------
(* Messages and requests.                                                  *)

CatchUps == {NoReq, TailReq} \cup [dir : {"after"}, epoch : 1 .. MaxEpoch, seq : 1 .. MaxRows]
Reqs == Requests \ {NoReq}
Syncs == [status : {"none", "running", "complete", "error"}, req : CatchUps, await : CatchUps,
          fallback : BOOLEAN, latest : BOOLEAN, pending : CatchUps, loaded : BOOLEAN]
Inits == {"none", "tail", "after"}

FetchMsgs == [kind : {"fetch"}, req : Reqs, fresh : BOOLEAN]
SubscribeMsgs == [kind : {"subscribe"}, open : BOOLEAN]
RowMsgs == [kind : {"row"}, row : Rows]
NoticeMsgs == [kind : {"notice"}]
PageMsgs == [kind : {"page"}, req : Reqs, fresh : BOOLEAN, page : Pages]
FailMsgs == [kind : {"fail"}, req : Reqs, fresh : BOOLEAN]
SubscribedMsgs == [kind : {"subscribed"}, open : BOOLEAN]
Inbound == FetchMsgs \cup SubscribeMsgs
Outbound == RowMsgs \cup NoticeMsgs \cup PageMsgs \cup FailMsgs \cup SubscribedMsgs

Asks(m) == m.kind \in {"fetch", "page", "fail"}

\* The same message, but for who else waits for the answer.
Alike(m, n) ==
  /\ m.kind = n.kind
  /\ Asks(n) => m.req = n.req
  /\ n.kind = "page" => m.page = n.page
  /\ ~ Asks(n) => m = n

AllAlike(ms, ns) == /\ Len(ms) = Len(ns) /\ DOMAIN ms = DOMAIN ns
                    /\ \A i \in DOMAIN ns : Alike(ms[i], ns[i])

LEMMA InboundFields ==
    ASSUME NEW m \in Inbound
    PROVE  /\ m.kind \in {"fetch", "subscribe"}
           /\ m.kind = "fetch" => m \in FetchMsgs /\ m.req \in Reqs /\ m.fresh \in BOOLEAN
           /\ m.kind = "subscribe" => m \in SubscribeMsgs /\ m.open \in BOOLEAN
BY DEF Inbound, FetchMsgs, SubscribeMsgs

LEMMA OutboundFields ==
    ASSUME NEW m \in Outbound
    PROVE  /\ m.kind \in {"row", "notice", "page", "fail", "subscribed"}
           /\ m.kind = "row" => m \in RowMsgs /\ m.row \in Rows
           /\ m.kind = "notice" => m \in NoticeMsgs
           /\ m.kind = "page" => m \in PageMsgs /\ m.req \in Reqs /\ m.fresh \in BOOLEAN /\ m.page \in Pages
           /\ m.kind = "fail" => m \in FailMsgs /\ m.req \in Reqs /\ m.fresh \in BOOLEAN
           /\ m.kind = "subscribed" => m \in SubscribedMsgs /\ m.open \in BOOLEAN
<1>1. m.kind \in {"row", "notice", "page", "fail", "subscribed"}
  BY DEF Outbound, RowMsgs, NoticeMsgs, PageMsgs, FailMsgs, SubscribedMsgs
<1>2. m.kind = "row" => m \in RowMsgs /\ m.row \in Rows
  BY DEF Outbound, RowMsgs, NoticeMsgs, PageMsgs, FailMsgs, SubscribedMsgs
<1>3. m.kind = "notice" => m \in NoticeMsgs
  BY DEF Outbound, RowMsgs, NoticeMsgs, PageMsgs, FailMsgs, SubscribedMsgs
<1>4. m.kind = "page" => m \in PageMsgs /\ m.req \in Reqs /\ m.fresh \in BOOLEAN /\ m.page \in Pages
  BY DEF Outbound, RowMsgs, NoticeMsgs, PageMsgs, FailMsgs, SubscribedMsgs
<1>5. m.kind = "fail" => m \in FailMsgs /\ m.req \in Reqs /\ m.fresh \in BOOLEAN
  BY DEF Outbound, RowMsgs, NoticeMsgs, PageMsgs, FailMsgs, SubscribedMsgs
<1>6. m.kind = "subscribed" => m \in SubscribedMsgs /\ m.open \in BOOLEAN
  BY DEF Outbound, RowMsgs, NoticeMsgs, PageMsgs, FailMsgs, SubscribedMsgs
<1> QED
  BY <1>1, <1>2, <1>3, <1>4, <1>5, <1>6

\* Sharing an answer changes no more than who waits for it.
LEMMA SharedInbound ==
    ASSUME NEW m \in Inbound, Asks(m), NEW fresh \in BOOLEAN,
           NEW n, n = [m EXCEPT !.fresh = @ \/ fresh]
    PROVE  n \in Inbound /\ Alike(n, m)
<1> DEFINE b == m.fresh \/ fresh
<1>1. m.kind = "fetch" /\ m \in FetchMsgs /\ m.fresh \in BOOLEAN
  BY InboundFields DEF Asks
<1>2. b \in BOOLEAN /\ n = [m EXCEPT !.fresh = b]
  OBVIOUS
<1> HIDE DEF b
<1>3. n \in FetchMsgs /\ n.kind = m.kind /\ n.req = m.req
  BY <1>1, <1>2 DEF FetchMsgs
<1> QED
  BY <1>1, <1>3 DEF Inbound, Alike, Asks

LEMMA SharedOutbound ==
    ASSUME NEW m \in Outbound, Asks(m), NEW fresh \in BOOLEAN,
           NEW n, n = [m EXCEPT !.fresh = @ \/ fresh]
    PROVE  n \in Outbound /\ Alike(n, m)
<1> DEFINE b == m.fresh \/ fresh
<1>1. m.kind \in {"page", "fail"} /\ m.fresh \in BOOLEAN
      /\ (m.kind = "page" => m \in PageMsgs) /\ (m.kind = "fail" => m \in FailMsgs)
  BY OutboundFields DEF Asks
<1>2. b \in BOOLEAN /\ n = [m EXCEPT !.fresh = b]
  OBVIOUS
<1> HIDE DEF b
<1>3. CASE m.kind = "page"
  <2>1. n \in PageMsgs /\ n.kind = m.kind /\ n.req = m.req /\ n.page = m.page
    BY <1>1, <1>2, <1>3 DEF PageMsgs
  <2> QED
    BY <1>3, <2>1 DEF Outbound, Alike, Asks
<1>4. CASE m.kind = "fail"
  <2>1. n \in FailMsgs /\ n.kind = m.kind /\ n.req = m.req
    BY <1>1, <1>2, <1>4 DEF FailMsgs
  <2> QED
    BY <1>4, <2>1 DEF Outbound, Alike, Asks
<1> QED
  BY <1>1, <1>3, <1>4

LEMMA AlikeItself ==
    ASSUME NEW m
    PROVE  Alike(m, m)
BY DEF Alike

LEMMA AskedIs ==
    ASSUME NEW S \in {Inbound, Outbound}, NEW ms \in Seq(S), NEW req, NEW fresh \in BOOLEAN
    PROVE  Asked(ms, req, fresh) \in Seq(S) /\ AllAlike(Asked(ms, req, fresh), ms)
<1> DEFINE n == Len(ms)
           x(i) == IF ms[i].kind \in {"fetch", "page", "fail"} /\ ms[i].req = req
                   THEN [ms[i] EXCEPT !.fresh = @ \/ fresh] ELSE ms[i]
           a == Asked(ms, req, fresh)
<1>1. n \in Nat /\ DOMAIN ms = 1 .. n /\ n = Len(ms) /\ \A i \in 1 .. n : ms[i] \in S
  OBVIOUS
<1>2. a = [i \in 1 .. n |-> x(i)]
  BY <1>1 DEF Asked
<1>3. ASSUME NEW i \in 1 .. n PROVE x(i) \in S /\ Alike(x(i), ms[i])
  <2>1. ms[i] \in S
    BY <1>1
  <2>2. CASE Asks(ms[i]) /\ ms[i].req = req
    <3>1. x(i) = [ms[i] EXCEPT !.fresh = @ \/ fresh]
      BY <2>2 DEF Asks
    <3> HIDE DEF x
    <3>2. CASE S = Inbound
      BY <2>1, <2>2, <3>1, <3>2, SharedInbound
    <3>3. CASE S = Outbound
      BY <2>1, <2>2, <3>1, <3>3, SharedOutbound
    <3> QED
      BY <3>2, <3>3
  <2>3. CASE ~ (Asks(ms[i]) /\ ms[i].req = req)
    <3>1. x(i) = ms[i]
      BY <2>3 DEF Asks
    <3> HIDE DEF x
    <3> QED
      BY <2>1, <3>1, AlikeItself
  <2> QED
    BY <2>2, <2>3
<1> HIDE DEF x, n, a
<1>4. a \in Seq(S) /\ Len(a) = n /\ DOMAIN a = 1 .. n
  BY <1>1, <1>2, <1>3
<1>5. \A i \in 1 .. n : Alike(a[i], ms[i])
  BY <1>2, <1>3
<1> QED
  BY <1>1, <1>4, <1>5 DEF AllAlike, a

LEMMA AllAlikeItself ==
    ASSUME NEW ms
    PROVE  AllAlike(ms, ms)
BY AlikeItself DEF AllAlike

\* A request is sent unless it is in flight.
LEMMA IssueIs ==
    ASSUME NEW box \in Seq(Inbound), NEW ws \in Seq(Outbound), NEW req \in Requests,
           NEW initialize \in BOOLEAN, NEW before \in Inits,
           initialize => req.dir # "before",
           Issue(req, initialize, before, box, ws)
    PROVE  /\ inbox' \in Seq(Inbound) /\ wire' \in Seq(Outbound) /\ init' \in Inits
           /\ AllAlike(wire', ws)
           /\ \/ /\ AllAlike(inbox', box)
                 /\ req = NoReq \/ InFlight(box, req) \/ InFlight(ws, req)
              \/ /\ req # NoReq /\ ~ InFlight(box, req) /\ ~ InFlight(ws, req)
                 /\ Len(inbox') = Len(box) + 1 /\ DOMAIN inbox' = 1 .. Len(box) + 1
                 /\ \A i \in DOMAIN box : inbox'[i] = box[i]
                 /\ inbox'[Len(box) + 1].kind = "fetch" /\ inbox'[Len(box) + 1].req = req
           /\ req = NoReq => inbox' = box /\ wire' = ws /\ init' = before
           /\ ~ initialize => init' = before
           /\ initialize /\ req # NoReq => init' # "none"
           /\ before # "none" => init' = before
<1> DEFINE fresh == initialize /\ req # NoReq
           m == [kind |-> "fetch", req |-> req, fresh |-> fresh]
<1>1. /\ inbox' = IF req = NoReq THEN box
                  ELSE IF InFlight(box, req) \/ InFlight(ws, req) THEN Asked(box, req, fresh)
                  ELSE Append(box, m)
      /\ wire'  = IF req = NoReq THEN ws ELSE Asked(ws, req, fresh)
      /\ init'  = IF fresh /\ before = "none" THEN req.dir ELSE before
  BY DEF Issue, Sent
<1>2. fresh \in BOOLEAN
  OBVIOUS
<1>3. init' \in Inits /\ (fresh => init' # "none") /\ (~ fresh => init' = before)
      /\ (before # "none" => init' = before)
  <2>1. fresh => req.dir \in {"tail", "after"}
    BY DEF Requests, NoReq, TailReq
  <2> HIDE DEF fresh, m
  <2>2. CASE fresh /\ before = "none"
    <3>1. init' = req.dir
      BY <1>1, <2>2
    <3> QED
      BY <2>1, <2>2, <3>1 DEF Inits
  <2>3. CASE ~ (fresh /\ before = "none")
    <3>1. init' = before
      BY <1>1, <2>3
    <3> QED
      BY <2>3, <3>1
  <2> QED
    BY <2>2, <2>3
<1>4. (req = NoReq => ~ fresh) /\ (~ initialize => ~ fresh) /\ (initialize /\ req # NoReq => fresh)
  OBVIOUS
<1>5. req # NoReq => m \in Inbound /\ m.kind = "fetch" /\ m.req = req
  BY DEF Inbound, FetchMsgs, Reqs
<1> HIDE DEF fresh, m
<1>6. wire' \in Seq(Outbound) /\ AllAlike(wire', ws)
  <2>1. Asked(ws, req, fresh) \in Seq(Outbound) /\ AllAlike(Asked(ws, req, fresh), ws)
    BY <1>2, AskedIs
  <2> QED
    BY <1>1, <2>1, AllAlikeItself
<1>7. CASE req = NoReq
  BY <1>1, <1>3, <1>4, <1>6, <1>7, AllAlikeItself
<1>8. CASE req # NoReq /\ (InFlight(box, req) \/ InFlight(ws, req))
  <2>1. Asked(box, req, fresh) \in Seq(Inbound) /\ AllAlike(Asked(box, req, fresh), box)
    BY <1>2, AskedIs
  <2>2. inbox' = Asked(box, req, fresh)
    BY <1>1, <1>8
  <2> QED
    BY <1>3, <1>4, <1>6, <1>8, <2>1, <2>2
<1>9. CASE req # NoReq /\ ~ InFlight(box, req) /\ ~ InFlight(ws, req)
  <2>1. inbox' = Append(box, m)
    BY <1>1, <1>9
  <2>2. /\ inbox' \in Seq(Inbound) /\ Len(inbox') = Len(box) + 1 /\ DOMAIN inbox' = 1 .. Len(box) + 1
        /\ \A i \in DOMAIN box : inbox'[i] = box[i]
        /\ inbox'[Len(box) + 1] = m
    BY <1>5, <1>9, <2>1
  <2> QED
    BY <1>3, <1>4, <1>5, <1>6, <1>9, <2>2
<1> QED
  BY <1>7, <1>8, <1>9

-----------------------------------------------------------------------------
(* The catch-up: its starts, its continuation, its failure, as relations   *)
(* that say when each of their outcomes comes about.                       *)

LEMMA CatchUpFields ==
    ASSUME NEW req \in CatchUps
    PROVE  /\ req \in Requests /\ req.dir \in {"none", "tail", "after"}
           /\ (req = NoReq <=> req.dir = "none") /\ (req = TailReq <=> req.dir = "tail")
           /\ req.dir = "after" => /\ req.epoch \in 1 .. MaxEpoch /\ req.seq \in 1 .. MaxRows
                                   /\ req.epoch \in Nat /\ req.seq \in Nat
           /\ NoReq \in CatchUps /\ TailReq \in CatchUps /\ NoReq # TailReq
           /\ NoReq.dir = "none" /\ TailReq.dir = "tail"
BY DEF CatchUps, Requests, NoReq, TailReq

LEMMA AfterReqIs ==
    ASSUME NEW r \in Ranges, r # NoRange
    PROVE  /\ AfterReq(r.epoch, r.end) \in CatchUps \ {NoReq, TailReq}
           /\ AfterReq(r.epoch, r.end).dir = "after" /\ AfterReq(r.epoch, r.end).epoch = r.epoch
           /\ AfterReq(r.epoch, r.end).seq = r.end
BY RangeFields DEF AfterReq, CatchUps, NoReq, TailReq

LEMMA SyncFields ==
    ASSUME NEW s \in Syncs
    PROVE  /\ s.status \in {"none", "running", "complete", "error"}
           /\ s.req \in CatchUps /\ s.await \in CatchUps /\ s.pending \in CatchUps
           /\ s.fallback \in BOOLEAN /\ s.latest \in BOOLEAN /\ s.loaded \in BOOLEAN
           /\ s = [status |-> s.status, req |-> s.req, await |-> s.await, fallback |-> s.fallback,
                   latest |-> s.latest, pending |-> s.pending, loaded |-> s.loaded]
BY DEF Syncs

\* The same catch-up, but for the request that it owes.
AsBefore(t, s) ==
  /\ t.status = s.status /\ t.req = s.req /\ t.await = s.await /\ t.fallback = s.fallback
  /\ t.latest = s.latest /\ t.loaded = s.loaded

LEMMA OwingIs ==
    ASSUME NEW s \in Syncs, NEW req \in CatchUps, NEW t, t = [s EXCEPT !.pending = req]
    PROVE  t \in Syncs /\ t.pending = req /\ AsBefore(t, s)
BY DEF Syncs, AsBefore

\* A catch-up that begins.
Begun(t, req, resume) ==
  LET next == IF req = NoReq THEN resume ELSE req
  IN  /\ t.status = "running" /\ t.req = next /\ t.await = next
      /\ (t.fallback <=> req = NoReq /\ next.dir = "after")
      /\ t.latest = FALSE /\ t.pending = NoReq /\ t.loaded = TRUE

\* What startCatchUp comes to: it cannot run, it waits for the tail, there is
\* nothing to do, or it begins.
Starting(s, can, resume, req, supersede, next, d) ==
  \/ /\ ~ can \/ ~ s.loaded
     /\ d.fetch = NoReq /\ AsBefore(d.sync, s)
     /\ d.sync.pending = IF req = NoReq THEN s.pending ELSE req
  \/ /\ can /\ s.loaded /\ supersede
     /\ s.status = "running" /\ s.req.dir = "tail" /\ s.req # next
     /\ d.fetch = NoReq /\ AsBefore(d.sync, s) /\ d.sync.pending = next
  \/ /\ can /\ s.loaded
     /\ supersede => s.status = "running" /\ s.req = next
     /\ ~ supersede => s.status \in {"running", "complete"}
     /\ d.fetch = NoReq /\ d.sync = s
  \/ /\ can /\ s.loaded
     /\ supersede => ~ (s.status = "running" /\ (s.req = next \/ s.req.dir = "tail"))
     /\ ~ supersede => s.status \in {"none", "error"}
     /\ d.fetch = next /\ Begun(d.sync, req, resume)

LEMMA StartedIs ==
    ASSUME NEW s \in Syncs, NEW can \in BOOLEAN, NEW resume \in CatchUps, resume # NoReq,
           NEW req \in CatchUps, NEW supersede \in BOOLEAN,
           NEW d, d = Started(s, can, resume, req, supersede),
           NEW next, next = IF req = NoReq THEN resume ELSE req
    PROVE  /\ d.sync \in Syncs /\ d.fetch \in CatchUps /\ next \in CatchUps /\ next # NoReq
           /\ Starting(s, can, resume, req, supersede, next, d)
<1> DEFINE decision == Decision(s, next, supersede)
           owed == IF req = NoReq THEN s.pending ELSE req
           fallback == req = NoReq /\ next.dir = "after"
           begun == [status |-> "running", req |-> next, await |-> next, fallback |-> fallback,
                     latest |-> FALSE, pending |-> NoReq, loaded |-> TRUE]
<1>0. /\ next \in CatchUps /\ next # NoReq /\ owed \in CatchUps /\ NoReq \in CatchUps
      /\ s.status \in {"none", "running", "complete", "error"} /\ s.loaded \in BOOLEAN
      /\ fallback \in BOOLEAN
  BY SyncFields, CatchUpFields
<1>1. /\ decision \in {"keep", "park", "replace"}
      /\ decision = "keep" => /\ supersede => s.status = "running" /\ s.req = next
                              /\ ~ supersede => s.status \in {"running", "complete"}
      /\ decision = "park" => /\ supersede /\ s.status = "running" /\ s.req.dir = "tail"
                              /\ s.req # next
      /\ decision = "replace" =>
           /\ supersede => ~ (s.status = "running" /\ (s.req = next \/ s.req.dir = "tail"))
           /\ ~ supersede => s.status \in {"none", "error"}
  BY <1>0 DEF Decision
<1>2. d = CASE ~ can \/ ~ s.loaded  -> [sync |-> [s EXCEPT !.pending = owed], fetch |-> NoReq]
            [] can /\ s.loaded /\ decision = "park" ->
                 [sync |-> [s EXCEPT !.pending = next], fetch |-> NoReq]
            [] can /\ s.loaded /\ decision = "keep" -> [sync |-> s, fetch |-> NoReq]
            [] OTHER -> [sync |-> begun, fetch |-> next]
  BY DEF Started
<1>o. owed = IF req = NoReq THEN s.pending ELSE req
  OBVIOUS
<1> HIDE DEF decision, owed
<1>3. CASE ~ can \/ ~ s.loaded
  <2>1. d = [sync |-> [s EXCEPT !.pending = owed], fetch |-> NoReq]
    BY <1>2, <1>3
  <2>2. d.sync = [s EXCEPT !.pending = owed] /\ d.fetch = NoReq
    BY <2>1
  <2>3. d.sync \in Syncs /\ d.sync.pending = owed /\ AsBefore(d.sync, s)
    BY <1>0, <2>2, OwingIs
  <2> QED
    BY <1>0, <1>3, <1>o, <2>2, <2>3 DEF Starting
<1>4. CASE can /\ s.loaded /\ decision = "park"
  <2>1. d = [sync |-> [s EXCEPT !.pending = next], fetch |-> NoReq]
    BY <1>2, <1>4
  <2>2. d.sync = [s EXCEPT !.pending = next] /\ d.fetch = NoReq
    BY <2>1
  <2>3. d.sync \in Syncs /\ d.sync.pending = next /\ AsBefore(d.sync, s)
    BY <1>0, <2>2, OwingIs
  <2> QED
    BY <1>0, <1>1, <1>4, <2>2, <2>3 DEF Starting
<1>5. CASE can /\ s.loaded /\ decision = "keep"
  <2>1. d = [sync |-> s, fetch |-> NoReq]
    BY <1>2, <1>5
  <2>2. d.sync = s /\ d.fetch = NoReq
    BY <2>1
  <2>3. /\ supersede => s.status = "running" /\ s.req = next
        /\ ~ supersede => s.status \in {"running", "complete"}
    BY <1>1, <1>5
  <2> QED
    BY <1>0, <1>5, <2>2, <2>3 DEF Starting
<1>6. CASE can /\ s.loaded /\ decision = "replace"
  <2>1. d = [sync |-> begun, fetch |-> next]
    BY <1>2, <1>6
  <2>f. fallback <=> (req = NoReq /\ next.dir = "after")
    OBVIOUS
  <2> HIDE DEF fallback
  <2>2. d.sync \in Syncs
    BY <1>0, <2>1 DEF Syncs
  <2>3. Begun(d.sync, req, resume)
    BY <2>1, <2>f DEF Begun
  <2>4. d.fetch = next
    BY <2>1
  <2>5. /\ supersede => ~ (s.status = "running" /\ (s.req = next \/ s.req.dir = "tail"))
        /\ ~ supersede => s.status \in {"none", "error"}
    BY <1>1, <1>6
  <2> QED
    BY <1>0, <1>6, <2>2, <2>3, <2>4, <2>5 DEF Starting
<1> QED
  BY <1>1, <1>3, <1>4, <1>5, <1>6

\* What is owed may begin, or all stays as it is.
LEMMA OwedIs ==
    ASSUME NEW s \in Syncs, NEW can \in BOOLEAN, NEW resume \in CatchUps, resume # NoReq,
           NEW d, d = Owed(s, can, resume)
    PROVE  /\ d.sync \in Syncs /\ d.fetch \in CatchUps
           /\ \/ /\ d.fetch = NoReq /\ d.sync = s
                 /\ \/ ~ can \/ ~ s.loaded \/ s.status \in {"running", "error"}
                    \/ s.status = "complete" /\ s.pending = NoReq
              \/ /\ can /\ s.loaded
                 /\ s.status = "none" \/ (s.status = "complete" /\ s.pending # NoReq)
                 /\ d.fetch = (IF s.pending = NoReq THEN resume ELSE s.pending) /\ d.fetch # NoReq
                 /\ Begun(d.sync, s.pending, resume)
<1> DEFINE sup == s.pending # NoReq
           next == IF s.pending = NoReq THEN resume ELSE s.pending
           e == Started(s, can, resume, s.pending, sup)
<1>1. sup \in BOOLEAN /\ s.pending \in CatchUps /\ (sup <=> s.pending # NoReq)
      /\ s.status \in {"none", "running", "complete", "error"} /\ s.loaded \in BOOLEAN
      /\ NoReq \in CatchUps
  BY SyncFields, CatchUpFields
<1>2. CASE s.status = "none" \/ (s.status = "complete" /\ s.pending # NoReq)
  <2>1. d = e
    BY <1>2 DEF Owed
  <2>n. next = IF s.pending = NoReq THEN resume ELSE s.pending
    OBVIOUS
  <2>e. e = Started(s, can, resume, s.pending, sup)
    OBVIOUS
  <2> HIDE DEF e, next, sup
  <2>2. /\ d.sync \in Syncs /\ d.fetch \in CatchUps /\ next \in CatchUps /\ next # NoReq
        /\ Starting(s, can, resume, s.pending, sup, next, d)
    <3>1. d = Started(s, can, resume, s.pending, sup)
      BY <2>1, <2>e
    <3> QED
      BY <1>1, <2>n, <3>1, StartedIs
  <2>3. AsBefore(d.sync, s) /\ d.sync.pending = s.pending => d.sync = s
    BY <2>2, SyncFields DEF AsBefore
  <2>4. s.status # "running" /\ (~ sup => s.status \notin {"running", "complete"})
    BY <1>1, <1>2
  <2> QED
    BY <1>1, <1>2, <2>2, <2>3, <2>4, <2>n DEF Starting
<1>3. CASE ~ (s.status = "none" \/ (s.status = "complete" /\ s.pending # NoReq))
  <2>1. d = [sync |-> s, fetch |-> NoReq]
    BY <1>3 DEF Owed
  <2> QED
    BY <1>1, <1>3, <2>1
<1> QED
  BY <1>2, <1>3

\* A catch-up that is done.
Finished(t, s) ==
  /\ t.status = "complete" /\ t.req = NoReq /\ t.await = NoReq /\ t.fallback = FALSE
  /\ t.latest = FALSE /\ t.pending = s.pending /\ t.loaded = s.loaded

\* What the page p comes to: the latest tail is next, the next page is, nothing
\* is, or what was parked begins.
Continuing(s, can, resume, p, d) ==
  \/ /\ ~ s.latest /\ p.newer /\ s.fallback /\ d.fetch = TailReq
     /\ d.sync.status = s.status /\ d.sync.req = s.req /\ d.sync.await = TailReq
     /\ d.sync.fallback = s.fallback /\ d.sync.latest = TRUE /\ d.sync.pending = s.pending
     /\ d.sync.loaded = s.loaded
  \/ /\ ~ s.latest /\ p.newer /\ ~ s.fallback /\ d.fetch = AfterReq(p.epoch, p.end)
     /\ d.sync.status = s.status /\ d.sync.req = s.req /\ d.sync.await = AfterReq(p.epoch, p.end)
     /\ d.sync.fallback = s.fallback /\ d.sync.latest = FALSE /\ d.sync.pending = s.pending
     /\ d.sync.loaded = s.loaded
  \/ /\ s.latest \/ ~ p.newer
     /\ d.fetch = NoReq /\ Finished(d.sync, s)
     /\ ~ can \/ ~ s.loaded \/ s.pending = NoReq
  \/ /\ s.latest \/ ~ p.newer
     /\ can /\ s.loaded /\ s.pending # NoReq
     /\ d.fetch = s.pending /\ Begun(d.sync, s.pending, resume)

LEMMA ContinuedIs ==
    ASSUME NEW s \in Syncs, NEW can \in BOOLEAN, NEW resume \in CatchUps, resume # NoReq,
           NEW p, p.epoch \in 1 .. MaxEpoch, p.end \in 0 .. MaxRows, p.newer \in BOOLEAN,
           p.newer => p.end # 0,
           NEW d, d = Continued(s, can, resume, p)
    PROVE  /\ d.sync \in Syncs /\ d.fetch \in CatchUps
           /\ Continuing(s, can, resume, p, d)
<1> DEFINE next == AfterReq(p.epoch, p.end)
           t == [s EXCEPT !.status = "complete", !.req = NoReq, !.await = NoReq,
                 !.fallback = FALSE, !.latest = FALSE]
           parked == [s EXCEPT !.await = TailReq, !.latest = TRUE]
           going == [s EXCEPT !.await = next]
<1>0. /\ s.status \in {"none", "running", "complete", "error"} /\ s.loaded \in BOOLEAN
      /\ s.latest \in BOOLEAN /\ s.fallback \in BOOLEAN /\ s.pending \in CatchUps
      /\ NoReq \in CatchUps /\ TailReq \in CatchUps
  BY SyncFields, CatchUpFields
<1>1. d = IF ~ s.latest /\ p.newer
          THEN IF s.fallback THEN [sync |-> parked, fetch |-> TailReq]
               ELSE [sync |-> going, fetch |-> next]
          ELSE Owed(t, can, resume)
  BY DEF Continued
<1>n. next = AfterReq(p.epoch, p.end)
  OBVIOUS
<1>2. p.newer => next \in CatchUps
  BY DEF AfterReq, CatchUps
<1>3. CASE ~ s.latest /\ p.newer /\ s.fallback
  <2>1. d.sync = parked /\ d.fetch = TailReq
    BY <1>1, <1>3
  <2>2. parked \in Syncs
    BY <1>0 DEF Syncs
  <2>3. /\ parked.status = s.status /\ parked.req = s.req /\ parked.await = TailReq
        /\ parked.fallback = s.fallback /\ parked.latest = TRUE /\ parked.pending = s.pending
        /\ parked.loaded = s.loaded
    BY DEF Syncs
  <2> HIDE DEF parked, going, t, next
  <2> QED
    BY <1>0, <1>3, <2>1, <2>2, <2>3 DEF Continuing
<1>4. CASE ~ s.latest /\ p.newer /\ ~ s.fallback
  <2> HIDE DEF next
  <2>1. d.sync = going /\ d.fetch = next
    BY <1>1, <1>4
  <2>2. going \in Syncs
    BY <1>0, <1>2, <1>4 DEF Syncs
  <2>3. /\ going.status = s.status /\ going.req = s.req /\ going.await = next
        /\ going.fallback = s.fallback /\ going.latest = s.latest /\ going.pending = s.pending
        /\ going.loaded = s.loaded
    BY DEF Syncs
  <2> HIDE DEF parked, going, t
  <2> QED
    BY <1>0, <1>2, <1>4, <1>n, <2>1, <2>2, <2>3 DEF Continuing
<1>5. CASE s.latest \/ ~ p.newer
  <2>1. d = Owed(t, can, resume)
    BY <1>1, <1>5
  <2>2. t \in Syncs
    BY <1>0 DEF Syncs
  <2>3. /\ t.status = "complete" /\ t.req = NoReq /\ t.await = NoReq /\ t.fallback = FALSE
        /\ t.latest = FALSE /\ t.pending = s.pending /\ t.loaded = s.loaded
    BY DEF Syncs
  <2> HIDE DEF parked, going, t, next
  <2>4. /\ d.sync \in Syncs /\ d.fetch \in CatchUps
        /\ \/ /\ d.fetch = NoReq /\ d.sync = t
              /\ \/ ~ can \/ ~ t.loaded \/ t.status \in {"running", "error"}
                 \/ t.status = "complete" /\ t.pending = NoReq
           \/ /\ can /\ t.loaded
              /\ t.status = "none" \/ (t.status = "complete" /\ t.pending # NoReq)
              /\ d.fetch = (IF t.pending = NoReq THEN resume ELSE t.pending) /\ d.fetch # NoReq
              /\ Begun(d.sync, t.pending, resume)
    BY <2>1, <2>2, OwedIs
  <2>5. CASE d.fetch = NoReq
    <3>1. d.sync = t /\ (~ can \/ ~ s.loaded \/ s.pending = NoReq)
      BY <2>3, <2>4, <2>5
    <3>2. Finished(d.sync, s)
      BY <2>3, <3>1 DEF Finished
    <3> QED
      BY <1>5, <2>4, <2>5, <3>1, <3>2 DEF Continuing
  <2>6. CASE d.fetch # NoReq
    <3>1. can /\ s.loaded /\ s.pending # NoReq /\ d.fetch = s.pending /\ Begun(d.sync, s.pending, resume)
      BY <2>3, <2>4, <2>6
    <3> QED
      BY <1>5, <2>4, <3>1 DEF Continuing
  <2> QED
    BY <2>5, <2>6
<1> QED
  BY <1>0, <1>3, <1>4, <1>5

LEMMA FailedIs ==
    ASSUME NEW s \in Syncs, NEW t, t = Failed(s)
    PROVE  /\ t \in Syncs /\ t.status = "error" /\ t.await = NoReq /\ t.latest = FALSE
           /\ t.fallback = FALSE /\ t.pending = s.pending /\ t.loaded = s.loaded
           /\ t.req = IF s.latest THEN s.req ELSE s.await
<1> DEFINE req == IF s.latest THEN s.req ELSE s.await
<1>1. t = [s EXCEPT !.status = "error", !.req = req, !.await = NoReq, !.latest = FALSE,
                    !.fallback = FALSE]
  BY DEF Failed, Syncs
<1>2. req \in CatchUps /\ NoReq \in CatchUps
  BY SyncFields, CatchUpFields
<1>3. req = IF s.latest THEN s.req ELSE s.await
  OBVIOUS
<1> HIDE DEF req
<1>4. t = [status |-> "error", req |-> req, await |-> NoReq, fallback |-> FALSE,
           latest |-> FALSE, pending |-> s.pending, loaded |-> s.loaded]
  BY <1>1, SyncFields
<1>5. t \in Syncs
  BY <1>2, <1>4, SyncFields DEF Syncs
<1> QED
  BY <1>3, <1>4, <1>5

Superseding(s, can, resume, next, d) == Starting(s, can, resume, next, TRUE, next, d)

LEMMA RecoveredIs ==
    ASSUME NEW s \in Syncs, NEW can \in BOOLEAN, NEW resume \in CatchUps, resume # NoReq,
           NEW range \in Ranges, range # NoRange, NEW next, next = AfterReq(range.epoch, range.end),
           NEW d, d = Recovered(s, can, resume, range)
    PROVE  /\ d.sync \in Syncs /\ d.fetch \in CatchUps /\ next \in CatchUps /\ next # NoReq
           /\ desired => Superseding(s, can, resume, next, d)
           /\ ~ desired => d.sync = s /\ d.fetch = NoReq
<1>1. next \in CatchUps /\ next # NoReq /\ NoReq \in CatchUps
  BY AfterReqIs, CatchUpFields
<1>2. CASE desired
  <2> DEFINE yes == TRUE
  <2>1. d = Started(s, can, resume, next, yes) /\ yes \in BOOLEAN /\ yes = TRUE
    BY <1>2 DEF Recovered
  <2> HIDE DEF yes
  <2>2. next = IF next = NoReq THEN resume ELSE next
    BY <1>1
  <2>3. d.sync \in Syncs /\ d.fetch \in CatchUps /\ Starting(s, can, resume, next, yes, next, d)
    <3> DEFINE req == next
    <3>1. req \in CatchUps /\ next = (IF req = NoReq THEN resume ELSE req) /\ req = next
          /\ d = Started(s, can, resume, req, yes)
      BY <1>1, <2>1, <2>2
    <3> HIDE DEF req
    <3>2. yes \in BOOLEAN
      BY <2>1
    <3>3. d = Started(s, can, resume, req, yes)
      BY <3>1
    <3>4. d.sync \in Syncs /\ d.fetch \in CatchUps /\ Starting(s, can, resume, req, yes, next, d)
      BY <3>1, <3>2, <3>3, StartedIs
    <3> QED
      BY <3>1, <3>4
  <2>4. Superseding(s, can, resume, next, d)
    BY <2>1, <2>3 DEF Superseding
  <2> QED
    BY <1>1, <1>2, <2>3, <2>4
<1>3. CASE ~ desired
  <2>1. d = [sync |-> s, fetch |-> NoReq]
    BY <1>3 DEF Recovered
  <2>2. d.sync = s /\ d.fetch = NoReq
    BY <2>1
  <2> QED
    BY <1>1, <1>3, <2>2
<1> QED
  BY <1>2, <1>3

LEMMA ResumeIs ==
    ASSUME NEW c \in Chats, NEW ca \in Ranges, NEW d, d = Resume(c, ca)
    PROVE  /\ d \in CatchUps /\ d # NoReq
           /\ d.dir = "after" => \/ ca # NoRange /\ d = AfterReq(ca.epoch, ca.end)
                                 \/ /\ ca = NoRange /\ c.synced /\ c.range # NoRange
                                    /\ d = AfterReq(c.range.epoch, c.range.end)
           /\ d.dir # "after" => d = TailReq /\ ca = NoRange /\ (~ c.synced \/ c.range = NoRange)
<1>0. NoReq \in CatchUps
  BY DEF CatchUps
<1>1. c.range \in Ranges /\ NoReq \in CatchUps
  BY <1>0, ChatFields
<1>2. CASE ca # NoRange
  <2>1. d = AfterReq(ca.epoch, ca.end)
    BY <1>2 DEF Resume
  <2> QED
    BY <1>2, <2>1, AfterReqIs
<1>3. CASE ca = NoRange /\ c.synced /\ c.range # NoRange
  <2>1. d = AfterReq(c.range.epoch, c.range.end)
    BY <1>3 DEF Resume
  <2> QED
    BY <1>1, <1>3, <2>1, AfterReqIs
<1>4. CASE ca = NoRange /\ ~ (c.synced /\ c.range # NoRange)
  <2>1. d = TailReq
    BY <1>4 DEF Resume
  <2>2. TailReq \in CatchUps /\ TailReq # NoReq /\ TailReq.dir = "tail"
    BY <1>1, CatchUpFields
  <2> QED
    BY <1>4, <2>1, <2>2
<1> QED
  BY <1>2, <1>3, <1>4

-----------------------------------------------------------------------------
(* Histories grow, and pages and rows that were cut from them stay true.   *)

\* The first rows of a history are one, with the items that started among them.
LEMMA PrefixIs ==
    ASSUME NEW rs \in Histories, NEW k \in 0 .. Len(rs), NEW q, q = SubSeq(rs, 1, k)
    PROVE  /\ q \in Histories /\ Len(q) = k /\ DOMAIN q = 1 .. k
           /\ \A s \in 1 .. k : q[s] = rs[s]
<1>1. rs \in Seq(Nat \ {0}) /\ Len(rs) \in Nat /\ DOMAIN rs = 1 .. Len(rs)
      /\ \A s \in DOMAIN rs : rs[s] \in Nat \ {0} /\ rs[s] <= s /\ rs[rs[s]] = rs[s]
  BY DEF Histories
<1>2. k \in Nat /\ k <= Len(rs)
  BY <1>1
<1>3. q \in Seq(Nat \ {0}) /\ Len(q) = k /\ DOMAIN q = 1 .. k /\ \A s \in 1 .. k : q[s] = rs[s]
  BY <1>1, <1>2
<1>4. \A s \in 1 .. k : s \in DOMAIN rs /\ rs[s] \in 1 .. k
  BY <1>1, <1>2
<1>5. \A s \in DOMAIN q : q[s] <= s /\ q[q[s]] = q[s]
  BY <1>1, <1>3, <1>4
<1> QED
  BY <1>3, <1>5 DEF Histories

\* q is the history rs and the row a.
Longer(q, rs, a) ==
  /\ q \in Histories /\ Len(q) = Len(rs) + 1 /\ DOMAIN q = 1 .. Len(rs) + 1
  /\ \A s \in 1 .. Len(rs) : q[s] = rs[s]
  /\ q[Len(rs) + 1] = a /\ a \in 1 .. Len(rs) + 1
  /\ \A k \in 0 .. Len(rs) : SubSeq(q, 1, k) = SubSeq(rs, 1, k)

LEMMA AppendedIs ==
    ASSUME NEW rs \in Histories, NEW a \in NextAnchors(rs)
    PROVE  Longer(Append(rs, a), rs, a)
<1> DEFINE q == Append(rs, a)
<1>1. rs \in Seq(Nat \ {0}) /\ Len(rs) \in Nat /\ DOMAIN rs = 1 .. Len(rs)
      /\ \A s \in DOMAIN rs : rs[s] \in Nat \ {0} /\ rs[s] <= s /\ rs[rs[s]] = rs[s]
  BY DEF Histories
<1>2. a \in 1 .. Len(rs) + 1 /\ (a # Len(rs) + 1 => a \in DOMAIN rs /\ rs[a] = a)
  <2>1. CASE a = Len(rs) + 1
    BY <1>1, <2>1
  <2>2. CASE a \in Anchors(rs)
    <3>1. a \in 1 .. Len(rs) /\ rs[a] = a
      BY <2>2, AnchorTypes
    <3> QED
      BY <1>1, <3>1
  <2> QED
    BY <2>1, <2>2 DEF NextAnchors
<1>3. /\ q \in Seq(Nat \ {0}) /\ Len(q) = Len(rs) + 1 /\ DOMAIN q = 1 .. Len(rs) + 1
      /\ \A s \in 1 .. Len(rs) : q[s] = rs[s]
      /\ q[Len(rs) + 1] = a
  BY <1>1, <1>2
<1> HIDE DEF q
<1>4. \A s \in DOMAIN q : q[s] <= s /\ q[q[s]] = q[s]
  <2>1. SUFFICES ASSUME NEW s \in 1 .. Len(rs) + 1 PROVE q[s] <= s /\ q[q[s]] = q[s]
    BY <1>3
  <2>2. CASE s = Len(rs) + 1
    <3>1. q[s] = a /\ a <= s
      BY <1>1, <1>2, <1>3, <2>2
    <3>2. q[a] = a
      BY <1>1, <1>2, <1>3
    <3> QED
      BY <3>1, <3>2
  <2>3. CASE s \in 1 .. Len(rs)
    <3>0. rs[s] \in Nat \ {0} /\ rs[s] <= s /\ rs[rs[s]] = rs[s] /\ s <= Len(rs) /\ s \in Nat
      BY <1>1, <2>3
    <3>1. q[s] = rs[s] /\ rs[s] \in 1 .. Len(rs) /\ rs[s] <= s /\ rs[rs[s]] = rs[s]
      BY <1>1, <1>3, <2>3, <3>0
    <3> QED
      BY <1>3, <3>1
  <2>4. s = Len(rs) + 1 \/ s \in 1 .. Len(rs)
    BY <1>1
  <2> QED
    BY <2>2, <2>3, <2>4
<1>5. \A k \in 0 .. Len(rs) : SubSeq(q, 1, k) = SubSeq(rs, 1, k)
  <2>1. SUFFICES ASSUME NEW k \in 0 .. Len(rs) PROVE SubSeq(q, 1, k) = SubSeq(rs, 1, k)
    OBVIOUS
  <2>2. k \in Nat /\ k <= Len(rs) /\ k <= Len(q)
    BY <1>1, <1>3
  <2>3. SubSeq(q, 1, k) = [i \in 1 .. k |-> q[i]] /\ SubSeq(rs, 1, k) = [i \in 1 .. k |-> rs[i]]
    BY <1>1, <1>3, <2>2
  <2>4. \A i \in 1 .. k : q[i] = rs[i]
    BY <1>1, <1>3, <2>2
  <2> QED
    BY <2>3, <2>4
<1>6. Longer(q, rs, a)
  BY <1>2, <1>3, <1>4, <1>5 DEF Histories, Longer
<1> QED
  BY <1>6 DEF q

LEMMA ListsType ==
    ASSUME NEW rs \in Histories, Len(rs) <= MaxRows, NEW at \in SUBSET Anchors(rs),
           NEW es, Lists(es, rs, at)
    PROVE  /\ es \in Seq(Entries)
           /\ at # {} => es # <<>>
<1>0. MaxRows \in Nat /\ Len(rs) \in Nat
  BY BoundsAssumption, AnchorTypes
<1>1. /\ Len(es) \in Nat /\ es = [k \in 1 .. Len(es) |-> es[k]]
      /\ \A k \in 1 .. Len(es) : es[k].anchor \in at /\ es[k] = Entry(rs, es[k].anchor)
      /\ \A a \in at : \E k \in 1 .. Len(es) : es[k].anchor = a
  BY DEF Lists
<1>2. ASSUME NEW k \in 1 .. Len(es) PROVE es[k] \in Entries
  <2> DEFINE a == es[k].anchor
  <2>1. a \in Anchors(rs) /\ es[k] = Entry(rs, a)
    BY <1>1
  <2> HIDE DEF a
  <2>2. a \in 1 .. Len(rs) /\ Entry(rs, a).end \in a .. Len(rs)
    BY <2>1, AnchorTypes, EntryIs
  <2>3. a \in 1 .. MaxRows /\ Entry(rs, a).end \in 1 .. MaxRows
    BY <1>0, <2>2
  <2>4. Entry(rs, a) = [anchor |-> a, end |-> Entry(rs, a).end]
    BY DEF Entry
  <2> QED
    BY <2>1, <2>3, <2>4 DEF Entries
<1>3. es \in Seq(Entries)
  BY <1>1, <1>2
<1>4. at # {} => es # <<>>
  BY <1>1
<1> QED
  BY <1>3, <1>4

\* A page of the rows rws of the epochs up to ep that answers req.
PageHolds(req, p, ep, rws) ==
  /\ p.dir = req.dir /\ p.epoch <= ep /\ p.max <= Len(rws[p.epoch])
  /\ p.reset <=> req.dir # "tail" /\ req.epoch # p.epoch
  /\ p.reset \/ p.dir = "tail" => TailShape(SubSeq(rws[p.epoch], 1, p.max), p)
  /\ ~ p.reset /\ p.dir = "after" => AfterShape(SubSeq(rws[p.epoch], 1, p.max), req.seq, p)
  /\ ~ p.reset /\ p.dir = "before" => BeforeShape(SubSeq(rws[p.epoch], 1, p.max), p)

RowHolds(r, ep, rws) ==
  r.epoch <= ep /\ r.seq <= Len(rws[r.epoch]) /\ rws[r.epoch][r.seq] = r.anchor

\* The rows of the epochs up to ep, of which the last is the present one.
Daemons(ep, rws) ==
  /\ ep \in 1 .. MaxEpoch /\ rws \in [1 .. MaxEpoch -> Histories]
  /\ \A e \in 1 .. MaxEpoch : Len(rws[e]) <= MaxRows /\ (e > ep => rws[e] = <<>>)

LEMMA ShapeOfTail ==
    ASSUME NEW rs \in Histories, Len(rs) <= MaxRows, NEW p, TailShape(rs, p)
    PROVE  /\ p.entries \in Seq(Entries) /\ p.start \in 0 .. MaxRows /\ p.end \in 0 .. MaxRows
           /\ p.older \in BOOLEAN /\ p.newer = FALSE
           /\ Whole(p) /\ p.end = Len(rs) /\ (p.start = 0 <=> Len(rs) = 0) /\ p.start <= p.end
<1>0. MaxRows \in Nat /\ Len(rs) \in Nat /\ rs \in Seq(Nat)
  BY BoundsAssumption, AnchorTypes DEF Histories
<1>1. CASE rs = <<>>
  <2>1. p.entries = <<>> /\ p.start = 0 /\ p.end = 0 /\ p.older = FALSE /\ p.newer = FALSE
    BY <1>1 DEF TailShape
  <2>2. Len(rs) = 0 /\ p.entries \in Seq(Entries)
    BY <1>1, <2>1
  <2>3. Whole(p)
    BY <2>1 DEF Whole
  <2>4. p.start \in 0 .. MaxRows /\ p.end \in 0 .. MaxRows /\ p.start <= p.end /\ p.end = Len(rs)
        /\ (p.start = 0 <=> Len(rs) = 0)
    BY <1>0, <2>1, <2>2
  <2>5. p.older \in BOOLEAN
    BY <2>1
  <2> QED
    BY <2>1, <2>2, <2>3, <2>4, <2>5
<1>2. CASE rs # <<>>
  <2> DEFINE at == {a \in Anchors(rs) : a >= p.start}
  <2>1. /\ p.end = Len(rs) /\ p.newer = FALSE /\ p.older \in BOOLEAN
        /\ p.start \in Anchors(rs) /\ Lists(p.entries, rs, at)
    BY <1>2 DEF TailShape
  <2>2. p.start \in 1 .. Len(rs)
    BY <2>1, AnchorTypes
  <2>3. at \in SUBSET Anchors(rs) /\ at # {}
    BY <2>1, <2>2
  <2> HIDE DEF at
  <2>4. p.entries \in Seq(Entries) /\ p.entries # <<>>
    BY <2>1, <2>3, ListsType
  <2>5. Len(rs) # 0 /\ p.start # 0 /\ p.start <= p.end /\ p.end # 0
    BY <1>0, <2>1, <2>2
  <2>6. p.start \in 0 .. MaxRows /\ p.end \in 0 .. MaxRows
    BY <1>0, <2>1, <2>2
  <2> QED
    BY <2>1, <2>4, <2>5, <2>6 DEF Whole
<1> QED
  BY <1>1, <1>2

LEMMA ShapeOfAfter ==
    ASSUME NEW rs \in Histories, Len(rs) <= MaxRows, NEW cursor \in Nat, NEW p,
           AfterShape(rs, cursor, p)
    PROVE  /\ p.entries \in Seq(Entries) /\ p.start \in 0 .. MaxRows /\ p.end \in 0 .. MaxRows
           /\ p.older \in BOOLEAN /\ p.newer \in BOOLEAN
           /\ Whole(p) /\ (p.newer => p.end # 0)
           /\ p.end <= Len(rs) /\ p.start <= p.end
           /\ p.start # 0 => p.start = cursor + 1 /\ (p.newer <=> p.end < Len(rs))
           /\ p.start = 0 => cursor >= Len(rs)
<1>0. MaxRows \in Nat /\ Len(rs) \in Nat /\ DOMAIN rs = 1 .. Len(rs)
  BY BoundsAssumption, AnchorTypes
<1>1. p.older \in BOOLEAN
  BY DEF AfterShape
<1>2. CASE cursor >= Len(rs)
  <2>1. p.start = 0 /\ p.end = 0 /\ p.newer = FALSE /\ p.entries = <<>>
    BY <1>2 DEF AfterShape
  <2>2. p.entries \in Seq(Entries)
    BY <2>1
  <2>3. Whole(p)
    BY <2>1 DEF Whole
  <2> QED
    <3>1. p.start \in 0 .. MaxRows /\ p.end \in 0 .. MaxRows /\ p.start <= p.end /\ p.end <= Len(rs)
      BY <1>0, <2>1
    <3>2. p.newer \in BOOLEAN /\ ~ p.newer
      BY <2>1
    <3>3. p.start = 0
      BY <2>1
    <3> QED
      BY <1>1, <1>2, <2>2, <2>3, <3>1, <3>2, <3>3
<1>3. CASE cursor < Len(rs)
  <2>1. /\ p.start = cursor + 1 /\ p.end \in p.start .. Len(rs)
        /\ p.newer \in BOOLEAN /\ (p.newer <=> p.end < Len(rs))
    BY <1>3 DEF AfterShape
  <2>2. PICK at \in SUBSET Anchors(rs) : /\ Lists(p.entries, rs, at)
                                         /\ \A s \in p.start .. p.end : rs[s] \in at
    BY <1>3 DEF AfterShape
  <2>3. p.start \in Nat /\ p.end \in Nat /\ p.start # 0 /\ p.start <= p.end /\ p.end <= Len(rs)
    BY <1>0, <2>1
  <2>4. p.start \in p.start .. p.end
    BY <2>3
  <2>5. p.entries \in Seq(Entries) /\ p.entries # <<>>
    BY <2>2, <2>4, ListsType
  <2>6. p.end # 0 /\ p.start \in 0 .. MaxRows /\ p.end \in 0 .. MaxRows
    BY <1>0, <2>3
  <2> QED
    BY <1>1, <2>1, <2>3, <2>5, <2>6 DEF Whole
<1> QED
  BY <1>0, <1>2, <1>3

LEMMA ShapeOfBefore ==
    ASSUME NEW rs \in Histories, Len(rs) <= MaxRows, NEW p, BeforeShape(rs, p)
    PROVE  /\ p.entries \in Seq(Entries) /\ p.start \in 0 .. MaxRows /\ p.end \in 0 .. MaxRows
           /\ p.older \in BOOLEAN /\ p.newer \in BOOLEAN
           /\ Whole(p) /\ p.end <= Len(rs) /\ p.start <= p.end
<1>0. MaxRows \in Nat /\ Len(rs) \in Nat
  BY BoundsAssumption, AnchorTypes
<1>1. p.end \in 0 .. Len(rs) /\ p.older \in BOOLEAN /\ p.newer \in BOOLEAN
  BY DEF BeforeShape
<1>2. CASE p.end = 0
  <2>1. p.start = 0 /\ p.entries = <<>>
    BY <1>2 DEF BeforeShape
  <2> QED
    BY <1>0, <1>1, <1>2, <2>1 DEF Whole
<1>3. CASE p.end # 0
  <2> DEFINE at == {a \in Anchors(rs) : a >= p.start /\ a <= p.end}
  <2>1. /\ p.start \in Anchors(rs) /\ p.start \in 1 .. p.end /\ Lists(p.entries, rs, at)
    BY <1>3 DEF BeforeShape
  <2>2. at \in SUBSET Anchors(rs) /\ at # {}
    BY <1>0, <1>1, <2>1
  <2> HIDE DEF at
  <2>3. p.entries \in Seq(Entries) /\ p.entries # <<>>
    BY <2>1, <2>2, ListsType
  <2>4. p.start # 0 /\ p.start <= p.end /\ p.end <= Len(rs)
        /\ p.start \in 0 .. MaxRows /\ p.end \in 0 .. MaxRows
    BY <1>0, <1>1, <2>1
  <2> QED
    BY <1>1, <1>3, <2>3, <2>4 DEF Whole
<1> QED
  BY <1>2, <1>3

\* What a page that answers a request is, whatever its direction.
LEMMA PageIs ==
    ASSUME NEW ep, NEW rws, Daemons(ep, rws), NEW req \in Reqs, NEW p,
           p.epoch \in 1 .. MaxEpoch, p.max \in Nat, p.reset \in BOOLEAN, PageHolds(req, p, ep, rws)
    PROVE  /\ p.entries \in Seq(Entries) /\ p.start \in 0 .. MaxRows /\ p.end \in 0 .. MaxRows
           /\ p.older \in BOOLEAN /\ p.newer \in BOOLEAN /\ p.max \in 0 .. MaxRows
           /\ Whole(p) /\ p.end <= p.max /\ p.start <= p.end
           /\ p.newer /\ p.dir # "before" => p.end # 0 /\ p.dir = "after" /\ ~ p.reset
           /\ p.reset \/ p.dir = "tail" =>
                p.end = p.max /\ (p.start = 0 <=> p.max = 0) /\ p.newer = FALSE
           /\ ~ p.reset /\ p.dir = "after" =>
                /\ p.epoch = req.epoch
                /\ p.start # 0 => p.start = req.seq + 1 /\ (p.newer <=> p.end < p.max)
                /\ p.start = 0 => req.seq >= p.max /\ ~ p.newer
<1> DEFINE rs == SubSeq(rws[p.epoch], 1, p.max)
<1>1. /\ rws[p.epoch] \in Histories /\ Len(rws[p.epoch]) <= MaxRows /\ p.max <= Len(rws[p.epoch])
      /\ p.dir = req.dir /\ (p.reset <=> req.dir # "tail" /\ req.epoch # p.epoch)
  BY DEF Daemons, PageHolds
<1>2. /\ MaxRows \in Nat /\ Len(rws[p.epoch]) \in Nat
  BY <1>1, BoundsAssumption, AnchorTypes
<1>3. p.max \in 0 .. Len(rws[p.epoch]) /\ p.max \in 0 .. MaxRows
  BY <1>1, <1>2
<1>4. rs \in Histories /\ Len(rs) = p.max
  BY <1>1, <1>3, PrefixIs
<1>5. /\ p.reset \/ p.dir = "tail" => TailShape(rs, p)
      /\ ~ p.reset /\ p.dir = "after" => AfterShape(rs, req.seq, p)
      /\ ~ p.reset /\ p.dir = "before" => BeforeShape(rs, p)
  BY DEF PageHolds
<1>6. Len(rs) <= MaxRows
  BY <1>3, <1>4
<1>7. p.dir \in {"tail", "after", "before"} /\ (p.dir # "tail" => req.seq \in Nat /\ req.epoch \in Nat)
  BY <1>1, BoundsAssumption DEF Reqs, Requests, NoReq, TailReq
<1> HIDE DEF rs
<1>8. CASE p.reset \/ p.dir = "tail"
  <2>1. TailShape(rs, p) /\ ~ (~ p.reset /\ p.dir = "after")
    BY <1>5, <1>8
  <2>2. /\ p.entries \in Seq(Entries) /\ p.start \in 0 .. MaxRows /\ p.end \in 0 .. MaxRows
        /\ p.older \in BOOLEAN /\ p.newer = FALSE
        /\ Whole(p) /\ p.end = Len(rs) /\ (p.start = 0 <=> Len(rs) = 0) /\ p.start <= p.end
    BY <1>4, <1>6, <2>1, ShapeOfTail
  <2>3. p.end <= p.max /\ (p.start = 0 <=> p.max = 0) /\ p.end = p.max
    BY <1>3, <1>4, <2>2
  <2> QED
    BY <1>3, <1>8, <2>1, <2>2, <2>3
<1>9. CASE ~ p.reset /\ p.dir = "after"
  <2>1. AfterShape(rs, req.seq, p) /\ ~ (p.reset \/ p.dir = "tail") /\ req.seq \in Nat
    BY <1>5, <1>7, <1>9
  <2>2. p.epoch = req.epoch
    BY <1>1, <1>9
  <2>3. /\ p.entries \in Seq(Entries) /\ p.start \in 0 .. MaxRows /\ p.end \in 0 .. MaxRows
        /\ p.older \in BOOLEAN /\ p.newer \in BOOLEAN
        /\ Whole(p) /\ (p.newer => p.end # 0)
        /\ p.end <= Len(rs) /\ p.start <= p.end
        /\ p.start # 0 => p.start = req.seq + 1 /\ (p.newer <=> p.end < Len(rs))
        /\ p.start = 0 => req.seq >= Len(rs)
    BY <1>4, <1>6, <2>1, ShapeOfAfter
  <2>4. p.start = 0 => ~ p.newer
    <3>1. p.start = 0 => p.end = 0
      BY <2>3 DEF Whole
    <3> QED
      BY <2>3, <3>1
  <2>5. /\ p.end <= p.max /\ (p.start # 0 => p.start = req.seq + 1 /\ (p.newer <=> p.end < p.max))
        /\ (p.start = 0 => req.seq >= p.max)
    BY <1>4, <2>3
  <2> QED
    BY <1>3, <1>9, <2>1, <2>2, <2>3, <2>4, <2>5
<1>10. CASE ~ p.reset /\ p.dir = "before"
  <2>1. BeforeShape(rs, p) /\ ~ (p.reset \/ p.dir = "tail")
    BY <1>5, <1>10
  <2> QED
    BY <1>3, <1>4, <1>6, <1>10, <2>1, ShapeOfBefore
<1> QED
  BY <1>7, <1>8, <1>9, <1>10

LEMMA ReqFields ==
    ASSUME NEW req \in Reqs
    PROVE  /\ req.dir \in {"tail", "after", "before"} /\ req \in Requests /\ req # NoReq
           /\ req.dir = "tail" <=> req = TailReq
           /\ req.dir # "tail" => /\ req.seq \in 1 .. MaxRows /\ req.epoch \in 1 .. MaxEpoch
                                  /\ req.seq \in Nat \ {0} /\ req.epoch \in Nat
           /\ req.dir \in {"tail", "after"} => req \in CatchUps
BY BoundsAssumption DEF Reqs, Requests, NoReq, TailReq, CatchUps

\* What the daemon answers.
LEMMA FetchIs ==
    ASSUME Daemons(epoch, rows), NEW req \in Reqs, NEW p, p = Fetch(req)
    PROVE  p \in Pages /\ PageHolds(req, p, epoch, rows) /\ p.epoch = epoch /\ p.max = Len(rows[epoch])
<1> DEFINE rs == rows[epoch]
           n == Len(rs)
           reset == req.dir # "tail" /\ req.epoch # epoch
           page  == IF reset \/ req.dir = "tail" THEN TailPage(rs, PageSize)
                    ELSE IF req.dir = "after" THEN AfterPage(rs, req.seq, PageSize)
                    ELSE BeforePage(rs, req.seq, PageSize)
<1>1. p = [dir |-> req.dir, epoch |-> epoch, reset |-> reset, max |-> n,
           entries |-> page.entries, start |-> page.start, end |-> page.end,
           older |-> page.older, newer |-> page.newer]
  BY DEF Fetch
<1>2. /\ rs \in Histories /\ n <= MaxRows /\ n \in Nat /\ epoch \in 1 .. MaxEpoch /\ n \in 0 .. MaxRows
      /\ n \in 0 .. n
  <2>1. rs \in Histories /\ n <= MaxRows /\ epoch \in 1 .. MaxEpoch
    BY DEF Daemons
  <2>2. n \in Nat
    BY <2>1, AnchorTypes
  <2> HIDE DEF n, rs
  <2> QED
    BY <2>1, <2>2, BoundsAssumption
<1>3. /\ req.dir \in {"tail", "after", "before"}
      /\ req.dir # "tail" => req.seq \in Nat \ {0}
      /\ PageSize \in Nat \ {0} /\ reset \in BOOLEAN /\ (reset <=> req.dir # "tail" /\ req.epoch # epoch)
  BY ReqFields, BoundsAssumption
<1>4. SubSeq(rs, 1, n) = rs
  <2>1. rs \in Seq(Nat) /\ n = Len(rs)
    BY <1>2 DEF Histories
  <2> HIDE DEF rs, n
  <2> QED
    BY <1>2, <2>1
<1>5. n = Len(rs) /\ rs = rows[epoch]
  OBVIOUS
<1>6. page = IF reset \/ req.dir = "tail" THEN TailPage(rs, PageSize)
             ELSE IF req.dir = "after" THEN AfterPage(rs, req.seq, PageSize)
             ELSE BeforePage(rs, req.seq, PageSize)
  OBVIOUS
<1> HIDE DEF rs, n, reset, page
<1>7. /\ p.dir = req.dir /\ p.epoch = epoch /\ p.reset = reset /\ p.max = n
      /\ p.entries = page.entries /\ p.start = page.start /\ p.end = page.end
      /\ p.older = page.older /\ p.newer = page.newer
  BY <1>1
<1>8. /\ reset \/ req.dir = "tail" => TailShape(rs, page)
      /\ ~ reset /\ req.dir = "after" => AfterShape(rs, req.seq, page)
      /\ ~ reset /\ req.dir = "before" => BeforeShape(rs, page)
  <2>1. CASE reset \/ req.dir = "tail"
    <3>1. page = TailPage(rs, PageSize)
      BY <1>6, <2>1
    <3>2. TailShape(rs, page)
      BY <1>2, <1>3, <3>1, TailIs
    <3> QED
      BY <1>3, <2>1, <3>2
  <2>2. CASE ~ reset /\ req.dir = "after"
    <3>1. page = AfterPage(rs, req.seq, PageSize)
      BY <1>6, <2>2
    <3>2. AfterShape(rs, req.seq, page)
      BY <1>2, <1>3, <2>2, <3>1, AfterIs
    <3> QED
      BY <2>2, <3>2
  <2>3. CASE ~ reset /\ req.dir = "before"
    <3>1. page = BeforePage(rs, req.seq, PageSize)
      BY <1>6, <2>3
    <3>2. BeforeShape(rs, page)
      BY <1>2, <1>3, <2>3, <3>1, BeforeIs
    <3> QED
      BY <2>3, <3>2
  <2> QED
    BY <1>3, <2>1, <2>2, <2>3
<1>9. PageHolds(req, p, epoch, rows)
  <2>1. p.max <= Len(rows[p.epoch]) /\ p.epoch <= epoch /\ SubSeq(rows[p.epoch], 1, p.max) = rs
    BY <1>2, <1>4, <1>5, <1>7
  <2>2. p.reset <=> req.dir # "tail" /\ req.epoch # p.epoch
    BY <1>3, <1>7
  <2>3. /\ TailShape(rs, page) => TailShape(rs, p)
        /\ BeforeShape(rs, page) => BeforeShape(rs, p)
        /\ AfterShape(rs, req.seq, page) => AfterShape(rs, req.seq, p)
    <3>1. TailShape(rs, page) => TailShape(rs, p)
      BY <1>7 DEF TailShape
    <3>2. BeforeShape(rs, page) => BeforeShape(rs, p)
      BY <1>7 DEF BeforeShape
    <3>3. AfterShape(rs, req.seq, page) => AfterShape(rs, req.seq, p)
      BY <1>7 DEF AfterShape
    <3> QED
      BY <3>1, <3>2, <3>3
  <2> QED
    BY <1>7, <1>8, <2>1, <2>2, <2>3 DEF PageHolds
<1>10. p \in Pages
  <2>1. /\ p.entries \in Seq(Entries) /\ p.start \in 0 .. MaxRows /\ p.end \in 0 .. MaxRows
        /\ p.older \in BOOLEAN /\ p.newer \in BOOLEAN
    <3>1. p.epoch \in 1 .. MaxEpoch /\ p.max \in Nat /\ p.reset \in BOOLEAN
      BY <1>2, <1>3, <1>7
    <3> QED
      BY <1>9, <3>1, PageIs
  <2>2. page.entries \in Seq(Entries) /\ page.start \in 0 .. MaxRows /\ page.end \in 0 .. MaxRows
        /\ page.older \in BOOLEAN /\ page.newer \in BOOLEAN
    BY <1>7, <2>1
  <2> QED
    BY <1>1, <1>2, <1>3, <2>2 DEF Pages
<1> QED
  BY <1>5, <1>7, <1>9, <1>10

\* The rows that were there are as they were.
Grown(ep, rws, ep2, rws2) ==
  /\ ep <= ep2
  /\ \A e \in 1 .. MaxEpoch : e <= ep =>
       /\ Len(rws[e]) <= Len(rws2[e])
       /\ \A k \in 0 .. Len(rws[e]) : SubSeq(rws2[e], 1, k) = SubSeq(rws[e], 1, k)
       /\ \A s \in 1 .. Len(rws[e]) : rws2[e][s] = rws[e][s]

LEMMA GrownItself ==
    ASSUME NEW ep \in Nat, NEW rws, Daemons(ep, rws)
    PROVE  Grown(ep, rws, ep, rws)
<1>1. \A e \in 1 .. MaxEpoch : Len(rws[e]) \in Nat
  BY AnchorTypes DEF Daemons
<1> QED
  BY <1>1 DEF Grown

LEMMA HoldsKept ==
    ASSUME NEW ep, NEW rws, Daemons(ep, rws), NEW ep2, NEW rws2, Daemons(ep2, rws2),
           Grown(ep, rws, ep2, rws2)
    PROVE  /\ \A req \in Reqs, p \in Pages : PageHolds(req, p, ep, rws) => PageHolds(req, p, ep2, rws2)
           /\ \A r \in Rows : RowHolds(r, ep, rws) => RowHolds(r, ep2, rws2)
<1>0. ep \in 1 .. MaxEpoch /\ ep2 \in 1 .. MaxEpoch /\ ep <= ep2
      /\ \A e \in 1 .. MaxEpoch : Len(rws[e]) \in Nat /\ Len(rws2[e]) \in Nat
  BY AnchorTypes DEF Daemons, Grown
<1>1. ASSUME NEW req \in Reqs, NEW p \in Pages, PageHolds(req, p, ep, rws)
      PROVE  PageHolds(req, p, ep2, rws2)
  <2>1. p.epoch \in 1 .. MaxEpoch /\ p.max \in Nat
    BY PageFields
  <2>2. p.epoch <= ep /\ p.max <= Len(rws[p.epoch])
    BY <1>1 DEF PageHolds
  <2>3. p.max \in 0 .. Len(rws[p.epoch]) /\ p.epoch <= ep2
    BY <1>0, <2>1, <2>2
  <2>4. SubSeq(rws2[p.epoch], 1, p.max) = SubSeq(rws[p.epoch], 1, p.max)
        /\ Len(rws[p.epoch]) <= Len(rws2[p.epoch])
    BY <2>1, <2>2, <2>3 DEF Grown
  <2>5. p.max <= Len(rws2[p.epoch])
    BY <1>0, <2>1, <2>2, <2>4
  <2> QED
    BY <1>1, <2>3, <2>4, <2>5 DEF PageHolds
<1>2. ASSUME NEW r \in Rows, RowHolds(r, ep, rws) PROVE RowHolds(r, ep2, rws2)
  <2>1. r.epoch \in 1 .. MaxEpoch /\ r.seq \in Nat /\ r.seq \in 1 .. MaxRows
    BY RowFields
  <2>2. r.epoch <= ep /\ r.seq <= Len(rws[r.epoch]) /\ rws[r.epoch][r.seq] = r.anchor
    BY <1>2 DEF RowHolds
  <2>3. r.seq \in 1 .. Len(rws[r.epoch])
    BY <1>0, <2>1, <2>2
  <2>4. rws2[r.epoch][r.seq] = r.anchor /\ Len(rws[r.epoch]) <= Len(rws2[r.epoch])
    BY <2>1, <2>2, <2>3 DEF Grown
  <2> QED
    BY <1>0, <2>1, <2>2, <2>4 DEF RowHolds
<1> QED
  BY <1>1, <1>2

-----------------------------------------------------------------------------
(* What is on its way, when some of it is taken, dropped or shared.        *)

\* ms has some of the messages of ns, in their order: its i-th is the f[i]-th.
Through(ms, ns, f) ==
  /\ f \in [1 .. Len(ms) -> 1 .. Len(ns)]
  /\ \A i, j \in 1 .. Len(ms) : i < j => f[i] < f[j]
  /\ \A i \in 1 .. Len(ms) : Alike(ms[i], ns[f[i]])

Thinned(ms, ns) == \E f : Through(ms, ns, f)

LEMMA ThinnedIs ==
    ASSUME NEW S, NEW T, NEW ms \in Seq(S), NEW ns \in Seq(T), Thinned(ms, ns)
    PROVE  \A i \in DOMAIN ms : \E j \in DOMAIN ns : Alike(ms[i], ns[j])
<1>1. PICK f : Through(ms, ns, f)
  BY DEF Thinned
<1>2. DOMAIN ms = 1 .. Len(ms) /\ DOMAIN ns = 1 .. Len(ns)
  OBVIOUS
<1> QED
  BY <1>1, <1>2 DEF Through

LEMMA ThinnedAlike ==
    ASSUME NEW S, NEW T, NEW ms \in Seq(S), NEW ns \in Seq(T), AllAlike(ms, ns)
    PROVE  Thinned(ms, ns)
<1> DEFINE f == [i \in 1 .. Len(ms) |-> i]
<1>1. Len(ms) = Len(ns) /\ DOMAIN ns = 1 .. Len(ns) /\ \A i \in DOMAIN ns : Alike(ms[i], ns[i])
      /\ Len(ms) \in Nat
  BY DEF AllAlike
<1>2. Through(ms, ns, f)
  BY <1>1 DEF Through
<1> QED
  BY <1>2 DEF Thinned

LEMMA ThinnedTail ==
    ASSUME NEW S, NEW ns \in Seq(S), ns # <<>>
    PROVE  /\ Thinned(Tail(ns), ns) /\ Tail(ns) \in Seq(S) /\ Len(Tail(ns)) = Len(ns) - 1
           /\ DOMAIN Tail(ns) = 1 .. Len(ns) - 1
           /\ \A i \in 1 .. Len(ns) - 1 : Tail(ns)[i] = ns[i + 1]
           /\ Head(ns) = ns[1] /\ Head(ns) \in S /\ 1 \in DOMAIN ns
<1> DEFINE f == [i \in 1 .. Len(ns) - 1 |-> i + 1]
           ms == Tail(ns)
<1>1. /\ Len(ns) \in Nat /\ Len(ns) # 0 /\ ms \in Seq(S) /\ Len(ms) = Len(ns) - 1
      /\ \A i \in 1 .. Len(ns) - 1 : ms[i] = ns[i + 1]
      /\ Head(ns) = ns[1] /\ Head(ns) \in S /\ 1 \in DOMAIN ns
  OBVIOUS
<1> HIDE DEF ms
<1>2. Through(ms, ns, f)
  <2>1. f \in [1 .. Len(ms) -> 1 .. Len(ns)]
    BY <1>1
  <2>2. \A i \in 1 .. Len(ms) : f[i] = i + 1 /\ Alike(ms[i], ns[f[i]])
    BY <1>1, AlikeItself
  <2>3. \A i, j \in 1 .. Len(ms) : i < j => f[i] < f[j]
    BY <1>1, <2>2
  <2> QED
    BY <2>1, <2>2, <2>3 DEF Through
<1>3. DOMAIN ms = 1 .. Len(ns) - 1
  BY <1>1
<1> QED
  BY <1>1, <1>2, <1>3 DEF Thinned, ms

LEMMA ThinnedNone ==
    ASSUME NEW ns
    PROVE  Thinned(<<>>, ns)
<1> DEFINE f == [i \in 1 .. 0 |-> i]
<1>1. Len(<<>>) = 0
  OBVIOUS
<1>2. Through(<<>>, ns, f)
  BY <1>1 DEF Through
<1> QED
  BY <1>2 DEF Thinned

\* The messages of some kinds.
LEMMA OfKindIs ==
    ASSUME NEW S, NEW ns \in Seq(S), NEW kinds
    PROVE  /\ OfKind(ns, kinds) \in Seq(S) /\ Thinned(OfKind(ns, kinds), ns)
           /\ \A i \in DOMAIN OfKind(ns, kinds) : OfKind(ns, kinds)[i].kind \in kinds
           /\ \E f : /\ Through(OfKind(ns, kinds), ns, f)
                     /\ \A i \in DOMAIN OfKind(ns, kinds) : OfKind(ns, kinds)[i] = ns[f[i]]
                     /\ \A j \in DOMAIN ns : ns[j].kind \in kinds =>
                          \E i \in DOMAIN OfKind(ns, kinds) : f[i] = j
<1> DEFINE at == {i \in DOMAIN ns : ns[i].kind \in kinds}
           ms == OfKind(ns, kinds)
           size == Cardinality(at)
           f == [k \in 1 .. size |-> Nth(at, k)]
<1>1. /\ at \in SUBSET (1 .. Len(ns)) /\ Len(ns) \in Nat /\ at \in SUBSET DOMAIN ns
      /\ DOMAIN ns = 1 .. Len(ns)
      /\ \A i \in at : ns[i].kind \in kinds
      /\ \A j \in DOMAIN ns : ns[j].kind \in kinds => j \in at
  OBVIOUS
<1>2. ms = Only(ns, at)
  BY DEF OfKind
<1> HIDE DEF at, ms
<1>3. /\ ms \in Seq(S)
      /\ Len(ms) = size /\ DOMAIN ms = 1 .. size
      /\ \A k \in 1 .. size : ms[k] = ns[Nth(at, k)]
      /\ size \in Nat
  <2>1. ms \in Seq(S)
    BY <1>1, <1>2, OnlyType
  <2> QED
    BY <1>1, <1>2, <2>1, OnlyAre
<1>4. /\ \A k \in 1 .. size : Nth(at, k) \in at
      /\ \A k, l \in 1 .. size : k < l => Nth(at, k) < Nth(at, l)
      /\ \A i \in at : \E k \in 1 .. size : Nth(at, k) = i
  BY <1>1, NthAre
<1> HIDE DEF size
<1>5. f \in [1 .. size -> 1 .. Len(ns)] /\ \A k \in 1 .. size : f[k] = Nth(at, k)
  BY <1>1, <1>4
<1> HIDE DEF f
<1>6. Through(ms, ns, f)
  BY <1>3, <1>4, <1>5, AlikeItself DEF Through
<1>7. \A i \in DOMAIN ms : ms[i] = ns[f[i]] /\ ms[i].kind \in kinds
  BY <1>1, <1>3, <1>4, <1>5
<1>8. ASSUME NEW j \in DOMAIN ns, ns[j].kind \in kinds PROVE \E i \in DOMAIN ms : f[i] = j
  <2>1. PICK k \in 1 .. size : Nth(at, k) = j
    BY <1>1, <1>4, <1>8
  <2> QED
    BY <1>3, <1>5, <2>1
<1> QED
  BY <1>3, <1>6, <1>7, <1>8 DEF Thinned, ms

LEMMA ThinnedThinned ==
    ASSUME NEW S, NEW ls \in Seq(S), NEW ms \in Seq(S), NEW ns \in Seq(S),
           Thinned(ls, ms), Thinned(ms, ns)
    PROVE  Thinned(ls, ns)
<1>1. PICK f : Through(ls, ms, f)
  BY DEF Thinned
<1>2. PICK g : Through(ms, ns, g)
  BY DEF Thinned
<1> DEFINE h == [i \in 1 .. Len(ls) |-> g[f[i]]]
<1>3. Through(ls, ns, h)
  <2>1. /\ \A i \in 1 .. Len(ls) : f[i] \in 1 .. Len(ms) /\ Alike(ls[i], ms[f[i]])
        /\ \A i \in 1 .. Len(ms) : g[i] \in 1 .. Len(ns) /\ Alike(ms[i], ns[g[i]])
    BY <1>1, <1>2 DEF Through
  <2>2. h \in [1 .. Len(ls) -> 1 .. Len(ns)] /\ \A i \in 1 .. Len(ls) : h[i] = g[f[i]]
    BY <2>1
  <2>3. \A i \in 1 .. Len(ls) : Alike(ls[i], ns[h[i]])
    <3>1. TAKE i \in 1 .. Len(ls)
    <3>2. Alike(ls[i], ms[f[i]]) /\ Alike(ms[f[i]], ns[h[i]])
      BY <2>1, <2>2
    <3> QED
      BY <3>2 DEF Alike, Asks
  <2>4. \A i, j \in 1 .. Len(ls) : i < j => h[i] < h[j]
    BY <1>1, <1>2, <2>1, <2>2 DEF Through
  <2> QED
    BY <2>2, <2>3, <2>4 DEF Through
<1> QED
  BY <1>3 DEF Thinned

LEMMA RemovedIs ==
    ASSUME NEW S, NEW ns \in Seq(S), NEW i \in DOMAIN ns, NEW ms, ms = Without(ns, i)
    PROVE  /\ ms \in Seq(S) /\ Len(ms) = Len(ns) - 1 /\ DOMAIN ms = 1 .. Len(ns) - 1
           /\ \A k \in 1 .. Len(ns) - 1 : ms[k] = IF k < i THEN ns[k] ELSE ns[k + 1]
<1> DEFINE a == SubSeq(ns, 1, i - 1)
           b == SubSeq(ns, i + 1, Len(ns))
           n == Len(ns)
<1>0. n \in Nat /\ i \in 1 .. n /\ i \in Nat /\ n = Len(ns)
  OBVIOUS
<1>1. ms = a \o b
  BY DEF Without
<1> HIDE DEF n
<1>2. a \in Seq(S) /\ Len(a) = i - 1 /\ \A k \in 1 .. i - 1 : a[k] = ns[k]
  BY <1>0
<1>3. b \in Seq(S) /\ Len(b) = n - i /\ \A k \in 1 .. n - i : b[k] = ns[k + i]
  BY <1>0
<1> HIDE DEF a, b
<1>4. ms \in Seq(S) /\ Len(ms) = n - 1 /\ DOMAIN ms = 1 .. n - 1
  BY <1>0, <1>1, <1>2, <1>3
<1>5. \A k \in 1 .. n - 1 : ms[k] = IF k < i THEN ns[k] ELSE ns[k + 1]
  <2>1. TAKE k \in 1 .. n - 1
  <2>2. CASE k < i
    <3>1. k \in 1 .. i - 1
      BY <1>0, <2>2
    <3>2. ms[k] = a[k]
      BY <1>0, <1>1, <1>2, <1>3, <3>1
    <3> QED
      BY <1>2, <2>2, <3>1, <3>2
  <2>3. CASE ~ (k < i)
    <3>1. k - (i - 1) \in 1 .. n - i /\ k - (i - 1) + i = k + 1
      BY <1>0, <2>3
    <3>2. ms[k] = b[k - (i - 1)]
      <4>1. k > Len(a) /\ k \in 1 .. Len(a) + Len(b) /\ k - Len(a) = k - (i - 1)
        BY <1>0, <1>2, <1>3, <2>3
      <4>2. (a \o b)[k] = b[k - Len(a)]
        BY <1>2, <1>3, <4>1
      <4> QED
        BY <1>1, <4>1, <4>2
    <3> QED
      BY <1>3, <2>3, <3>1, <3>2
  <2> QED
    BY <2>2, <2>3
<1> QED
  BY <1>0, <1>4, <1>5

-----------------------------------------------------------------------------
(* Shape: every variable has its type, and rows and pages are the          *)
(* daemon's.                                                               *)

\* The rows and pages on their way, and the rows that wait, are the daemon's.
Kept(ws, q, ep, rws) ==
  /\ \A i \in DOMAIN ws : ws[i].kind = "page" => PageHolds(ws[i].req, ws[i].page, ep, rws)
  /\ \A i \in DOMAIN ws : ws[i].kind = "row" => RowHolds(ws[i].row, ep, rws)
  /\ \A i \in DOMAIN q : RowHolds(q[i], ep, rws)

Shape ==
  /\ Daemons(epoch, rows)
  /\ subscribed \in BOOLEAN /\ up \in BOOLEAN /\ desired \in BOOLEAN /\ acked \in BOOLEAN
  /\ subRetry \in BOOLEAN /\ forced \in BOOLEAN /\ noticed \in BOOLEAN
  /\ inbox \in Seq(Inbound) /\ wire \in Seq(Outbound)
  /\ sync \in Syncs /\ init \in Inits
  /\ queue \in Seq(Rows) /\ chat \in Chats /\ cached \in Ranges /\ stored \in Stores
  /\ faults \in 0 .. MaxFaults
  /\ Kept(wire, queue, epoch, rows)

LEMMA KeptThinned ==
    ASSUME NEW ns \in Seq(Outbound), NEW ms \in Seq(Outbound), Thinned(ms, ns),
           NEW q \in Seq(Rows), NEW r \in {q, <<>>},
           NEW ep, NEW rws, Kept(ns, q, ep, rws)
    PROVE  Kept(ms, r, ep, rws)
<1>1. \A i \in DOMAIN ms : \E j \in DOMAIN ns : Alike(ms[i], ns[j])
  BY ThinnedIs
<1>2. \A i \in DOMAIN r : RowHolds(r[i], ep, rws)
  <2>1. DOMAIN <<>> = {}
    OBVIOUS
  <2> QED
    BY <2>1 DEF Kept
<1>3. ASSUME NEW i \in DOMAIN ms
      PROVE  /\ ms[i].kind = "page" => PageHolds(ms[i].req, ms[i].page, ep, rws)
             /\ ms[i].kind = "row" => RowHolds(ms[i].row, ep, rws)
  <2>1. PICK j \in DOMAIN ns : Alike(ms[i], ns[j])
    BY <1>1
  <2>2. /\ ms[i].kind = ns[j].kind
        /\ ns[j].kind = "page" => ms[i].page = ns[j].page /\ ms[i].req = ns[j].req
        /\ ns[j].kind = "row" => ms[i] = ns[j]
    BY <2>1 DEF Alike, Asks
  <2> QED
    BY <2>2 DEF Kept
<1> QED
  BY <1>2, <1>3 DEF Kept

LEMMA KeptGrown ==
    ASSUME NEW ns \in Seq(Outbound), NEW q \in Seq(Rows),
           NEW ep, NEW rws, Daemons(ep, rws), NEW ep2, NEW rws2, Daemons(ep2, rws2),
           Grown(ep, rws, ep2, rws2), Kept(ns, q, ep, rws)
    PROVE  Kept(ns, q, ep2, rws2)
<1>1. /\ \A req \in Reqs, p \in Pages : PageHolds(req, p, ep, rws) => PageHolds(req, p, ep2, rws2)
      /\ \A r \in Rows : RowHolds(r, ep, rws) => RowHolds(r, ep2, rws2)
  BY HoldsKept
<1>2. ASSUME NEW i \in DOMAIN ns
      PROVE  /\ ns[i].kind = "page" => PageHolds(ns[i].req, ns[i].page, ep2, rws2)
             /\ ns[i].kind = "row" => RowHolds(ns[i].row, ep2, rws2)
  <2>1. ns[i] \in Outbound
    OBVIOUS
  <2>2. /\ ns[i].kind = "page" => ns[i].req \in Reqs /\ ns[i].page \in Pages
        /\ ns[i].kind = "row" => ns[i].row \in Rows
    BY <2>1, OutboundFields
  <2> QED
    BY <1>1, <2>2 DEF Kept
<1>3. ASSUME NEW i \in DOMAIN q PROVE RowHolds(q[i], ep2, rws2)
  <2>1. q[i] \in Rows
    OBVIOUS
  <2> QED
    BY <1>1, <2>1 DEF Kept
<1> QED
  BY <1>2, <1>3 DEF Kept

LEMMA KeptAppend ==
    ASSUME NEW ns \in Seq(Outbound), NEW q \in Seq(Rows), NEW ep, NEW rws, Kept(ns, q, ep, rws),
           NEW m \in Outbound,
           m.kind = "page" => PageHolds(m.req, m.page, ep, rws),
           m.kind = "row" => RowHolds(m.row, ep, rws)
    PROVE  Append(ns, m) \in Seq(Outbound) /\ Kept(Append(ns, m), q, ep, rws)
<1> DEFINE ms == Append(ns, m)
<1>1. /\ ms \in Seq(Outbound) /\ DOMAIN ms = 1 .. Len(ns) + 1 /\ DOMAIN ns = 1 .. Len(ns)
      /\ \A i \in DOMAIN ns : ms[i] = ns[i]
      /\ ms[Len(ns) + 1] = m /\ Len(ns) \in Nat
  OBVIOUS
<1>2. \A i \in DOMAIN ms : i \in DOMAIN ns \/ i = Len(ns) + 1
  BY <1>1
<1> HIDE DEF ms
<1>3. Kept(ms, q, ep, rws)
  BY <1>1, <1>2 DEF Kept
<1> QED
  BY <1>1, <1>3 DEF ms

LEMMA ShapeKept ==
    ASSUME Shape, Daemons(epoch, rows)', Grown(epoch, rows, epoch', rows'),
           subscribed' \in BOOLEAN, up' \in BOOLEAN, desired' \in BOOLEAN, acked' \in BOOLEAN,
           subRetry' \in BOOLEAN, forced' \in BOOLEAN, noticed' \in BOOLEAN,
           inbox' \in Seq(Inbound), wire' \in Seq(Outbound), Thinned(wire', wire),
           sync' \in Syncs, init' \in Inits, queue' \in {queue, <<>>}, chat' \in Chats,
           cached' \in Ranges, stored' \in Stores, faults' \in 0 .. MaxFaults
    PROVE  Shape'
<1>1. Kept(wire', queue', epoch, rows)
  <2> DEFINE ms == wire'
             r == queue'
  <2>1. ms \in Seq(Outbound) /\ Thinned(ms, wire) /\ r \in {queue, <<>>}
    OBVIOUS
  <2> HIDE DEF ms, r
  <2>2. Kept(ms, r, epoch, rows)
    BY <2>1, KeptThinned DEF Shape
  <2> QED
    BY <2>2 DEF ms, r
<1>2. queue' \in Seq(Rows)
  <2>1. <<>> \in Seq(Rows)
    OBVIOUS
  <2>2. queue \in Seq(Rows)
    BY DEF Shape
  <2> QED
    BY <2>1, <2>2
<1>3. Kept(wire', queue', epoch', rows')
  <2> DEFINE ms == wire'
             r == queue'
             ep2 == epoch'
             rws2 == rows'
  <2>1. /\ ms \in Seq(Outbound) /\ r \in Seq(Rows) /\ Grown(epoch, rows, ep2, rws2)
        /\ Kept(ms, r, epoch, rows) /\ Daemons(ep2, rws2) /\ Daemons(epoch, rows)
    BY <1>1, <1>2 DEF Shape
  <2> HIDE DEF ms, r, ep2, rws2
  <2>2. Kept(ms, r, ep2, rws2)
    BY <2>1, KeptGrown
  <2> QED
    BY <2>2 DEF ms, r, ep2, rws2
<1> QED
  BY <1>2, <1>3 DEF Shape

LEMMA StaysGrown ==
    ASSUME Shape, UNCHANGED <<epoch, rows>>
    PROVE  Daemons(epoch, rows)' /\ Grown(epoch, rows, epoch', rows')
<1>1. epoch \in Nat /\ Daemons(epoch, rows)
  BY BoundsAssumption DEF Shape, Daemons
<1>2. Grown(epoch, rows, epoch, rows)
  BY <1>1, GrownItself
<1> QED
  BY <1>1, <1>2 DEF Daemons

LEMMA ThinnedItself ==
    ASSUME NEW S, NEW ns \in Seq(S)
    PROVE  Thinned(ns, ns)
BY AllAlikeItself, ThinnedAlike

-----------------------------------------------------------------------------
(* Shape is kept, one lemma for each action, which also names what it      *)
(* does.                                                                   *)

LEMMA AppendRowShape ==
    ASSUME Shape, NEW a \in NextAnchors(rows[epoch]), AppendRow(a)
    PROVE  /\ Shape' /\ Grown(epoch, rows, epoch', rows')
           /\ epoch' = epoch /\ Len(rows'[epoch]) = Len(rows[epoch]) + 1
           /\ rows'[epoch][Len(rows[epoch]) + 1] = a
           /\ \A e \in 1 .. MaxEpoch : e # epoch => rows'[e] = rows[e]
           /\ \E r \in Rows : /\ r.epoch = epoch /\ r.seq = Len(rows[epoch]) + 1 /\ r.anchor = a
                              /\ wire' = IF subscribed THEN Append(wire, [kind |-> "row", row |-> r]) ELSE wire
<1> DEFINE rs == rows[epoch]
           q == Append(rs, a)
           n == Len(rs) + 1
           r == [epoch |-> epoch, seq |-> n, anchor |-> a]
           m == [kind |-> "row", row |-> r]
<1>0. /\ epoch \in 1 .. MaxEpoch /\ epoch \in Nat /\ rs \in Histories /\ Len(rs) \in Nat
      /\ rows \in [1 .. MaxEpoch -> Histories] /\ Daemons(epoch, rows)
  <2>1. epoch \in 1 .. MaxEpoch /\ rs \in Histories
    BY DEF Shape, Daemons
  <2> HIDE DEF rs
  <2> QED
    BY <2>1, AnchorTypes, BoundsAssumption DEF Shape, Daemons
<1>1. /\ n <= MaxRows /\ rows' = [rows EXCEPT ![epoch] = q]
      /\ wire' = IF subscribed THEN Append(wire, m) ELSE wire
  BY DEF AppendRow, Deliver
<1>2. UNCHANGED <<epoch, subscribed, up, inbox, appVars, stored, faults>>
  BY DEF AppendRow
<1>3. /\ q \in Histories /\ Len(q) = n /\ a \in 1 .. n /\ q[n] = a
      /\ \A s \in 1 .. Len(rs) : q[s] = rs[s]
      /\ \A k \in 0 .. Len(rs) : SubSeq(q, 1, k) = SubSeq(rs, 1, k)
  <2>1. q = Append(rs, a)
    OBVIOUS
  <2>a. a \in NextAnchors(rs)
    OBVIOUS
  <2>n. n = Len(rs) + 1 /\ rs \in Histories
    BY <1>0
  <2> HIDE DEF rs, q, n
  <2>2. Longer(q, rs, a)
    BY <2>1, <2>a, <2>n, AppendedIs
  <2> QED
    BY <2>2, <2>n DEF Longer
<1>4. rows' \in [1 .. MaxEpoch -> Histories] /\ rows'[epoch] = q
      /\ \A e \in 1 .. MaxEpoch : e # epoch => rows'[e] = rows[e]
  <2> HIDE DEF q
  <2> QED
    BY <1>0, <1>1, <1>3
<1>5. n \in Nat /\ n # 0 /\ n \in 1 .. MaxRows /\ a \in 1 .. MaxRows
  <2> HIDE DEF rs
  <2> QED
    BY <1>0, <1>1, <1>3, BoundsAssumption
<1>6. r \in Rows /\ m \in Outbound
  <2>1. r \in Rows
    <3> HIDE DEF n
    <3> QED
      BY <1>0, <1>5 DEF Rows
  <2> HIDE DEF r
  <2> QED
    BY <2>1 DEF Outbound, RowMsgs
<1>7. r.epoch = epoch /\ r.seq = n /\ r.anchor = a /\ m.kind = "row" /\ m.row = r
  OBVIOUS
<1>n. n = Len(rs) + 1 /\ rs = rows[epoch] /\ m = [kind |-> "row", row |-> r]
  OBVIOUS
<1> HIDE DEF rs, q, n, r, m
<1>8. Daemons(epoch', rows') /\ Grown(epoch, rows, epoch', rows')
  <2>1. epoch' = epoch
    BY <1>2
  <2>2. \A e \in 1 .. MaxEpoch : Len(rows'[e]) <= MaxRows /\ (e > epoch => rows'[e] = <<>>)
    BY <1>0, <1>1, <1>3, <1>4 DEF Daemons
  <2>3. Daemons(epoch', rows')
    BY <1>0, <1>4, <2>1, <2>2 DEF Daemons
  <2>4. Grown(epoch, rows, epoch, rows)
    BY <1>0, GrownItself
  <2>5. /\ Len(rows[epoch]) <= Len(rows'[epoch])
        /\ \A k \in 0 .. Len(rows[epoch]) : SubSeq(rows'[epoch], 1, k) = SubSeq(rows[epoch], 1, k)
        /\ \A s \in 1 .. Len(rows[epoch]) : rows'[epoch][s] = rows[epoch][s]
    BY <1>0, <1>3, <1>4, <1>n
  <2>6. \A e \in 1 .. MaxEpoch : e = epoch \/ rows'[e] = rows[e]
    BY <1>4
  <2> QED
    BY <1>0, <2>1, <2>3, <2>4, <2>5, <2>6 DEF Grown
<1>9. Kept(wire', queue', epoch', rows') /\ wire' \in Seq(Outbound)
  <2> DEFINE ws == wire'
             rws2 == rows'
  <2>1. /\ wire \in Seq(Outbound) /\ queue \in Seq(Rows) /\ Kept(wire, queue, epoch, rows)
        /\ queue' = queue /\ epoch' = epoch
    BY <1>2 DEF Shape, appVars
  <2>2. Daemons(epoch, rws2) /\ Grown(epoch, rows, epoch, rws2)
    BY <1>8, <2>1
  <2>3. RowHolds(r, epoch, rws2)
    BY <1>0, <1>3, <1>4, <1>7, <1>5 DEF RowHolds
  <2>4. ws = IF subscribed THEN Append(wire, m) ELSE wire
    BY <1>1
  <2> HIDE DEF ws, rws2
  <2>5. Kept(wire, queue, epoch, rws2)
    BY <1>0, <2>1, <2>2, KeptGrown
  <2>6. Append(wire, m) \in Seq(Outbound) /\ Kept(Append(wire, m), queue, epoch, rws2)
    BY <1>6, <1>7, <2>1, <2>3, <2>5, KeptAppend
  <2>7. Kept(ws, queue, epoch, rws2) /\ ws \in Seq(Outbound)
    BY <2>1, <2>4, <2>5, <2>6
  <2> QED
    BY <2>1, <2>7 DEF ws, rws2
<1>10. Shape'
  BY <1>2, <1>8, <1>9 DEF Shape, appVars
<1> QED
  BY <1>1, <1>2, <1>3, <1>4, <1>6, <1>7, <1>8, <1>10, <1>n

LEMMA RewindShape ==
    ASSUME Shape, NEW k \in 0 .. MaxRows, Rewind(k)
    PROVE  /\ Shape' /\ Grown(epoch, rows, epoch', rows')
           /\ epoch' = epoch + 1 /\ epoch' \in 1 .. MaxEpoch
           /\ \A e \in 1 .. MaxEpoch : e # epoch + 1 => rows'[e] = rows[e]
           /\ wire' = IF subscribed THEN Append(wire, [kind |-> "notice"]) ELSE wire
<1> DEFINE rs == rows[epoch]
           q == SubSeq(rs, 1, k)
           m == [kind |-> "notice"]
<1>0. /\ epoch \in 1 .. MaxEpoch /\ epoch \in Nat /\ rs \in Histories /\ Len(rs) \in Nat
      /\ rows \in [1 .. MaxEpoch -> Histories] /\ Daemons(epoch, rows) /\ MaxEpoch \in Nat
      /\ Len(rs) <= MaxRows
  <2>1. epoch \in 1 .. MaxEpoch /\ rs \in Histories /\ Len(rs) <= MaxRows
    BY DEF Shape, Daemons
  <2> HIDE DEF rs
  <2> QED
    BY <2>1, AnchorTypes, BoundsAssumption DEF Shape, Daemons
<1>1. /\ epoch < MaxEpoch /\ k < Len(rs) /\ epoch' = epoch + 1
      /\ rows' = [rows EXCEPT ![epoch + 1] = q]
      /\ wire' = IF subscribed THEN Append(wire, m) ELSE wire
      /\ faults > 0 /\ faults' = faults - 1
  BY DEF Rewind, Deliver, Disturb
<1>2. UNCHANGED <<subscribed, up, inbox, appVars, stored>>
  BY DEF Rewind
<1>3. q \in Histories /\ Len(q) = k /\ k \in Nat /\ Len(q) <= MaxRows
  <2> HIDE DEF rs
  <2>1. k \in 0 .. Len(rs) /\ k \in Nat
    BY <1>0, <1>1, BoundsAssumption
  <2>2. q \in Histories /\ Len(q) = k
    BY <1>0, <2>1, PrefixIs
  <2> HIDE DEF q
  <2> QED
    BY <1>0, <1>1, <2>1, <2>2, BoundsAssumption
<1>4. epoch + 1 \in 1 .. MaxEpoch
  BY <1>0, <1>1
<1> HIDE DEF rs, q
<1>5. rows' \in [1 .. MaxEpoch -> Histories] /\ rows'[epoch + 1] = q
      /\ \A e \in 1 .. MaxEpoch : e # epoch + 1 => rows'[e] = rows[e]
  BY <1>0, <1>1, <1>3, <1>4
<1>6. m \in Outbound /\ m.kind = "notice" /\ m = [kind |-> "notice"]
  BY DEF Outbound, NoticeMsgs
<1> HIDE DEF m
<1>8. Daemons(epoch', rows') /\ Grown(epoch, rows, epoch', rows')
  <2>2. \A e \in 1 .. MaxEpoch : Len(rows'[e]) <= MaxRows /\ (e > epoch + 1 => rows'[e] = <<>>)
    BY <1>0, <1>3, <1>5 DEF Daemons
  <2>3. Daemons(epoch', rows')
    BY <1>1, <1>4, <1>5, <2>2 DEF Daemons
  <2>4. Grown(epoch, rows, epoch, rows)
    BY <1>0, GrownItself
  <2>6. \A e \in 1 .. MaxEpoch : e <= epoch => rows'[e] = rows[e]
    BY <1>0, <1>5
  <2>7. epoch <= epoch'
    BY <1>0, <1>1
  <2> QED
    BY <2>3, <2>4, <2>6, <2>7 DEF Grown
<1>9. Kept(wire', queue', epoch', rows') /\ wire' \in Seq(Outbound)
  <2> DEFINE ws == wire'
             rws2 == rows'
             ep2 == epoch'
  <2>1. /\ wire \in Seq(Outbound) /\ queue \in Seq(Rows) /\ Kept(wire, queue, epoch, rows)
        /\ queue' = queue
    BY <1>2 DEF Shape, appVars
  <2>2. Daemons(ep2, rws2) /\ Grown(epoch, rows, ep2, rws2)
    BY <1>8, <2>1
  <2>4. ws = IF subscribed THEN Append(wire, m) ELSE wire
    BY <1>1
  <2> HIDE DEF ws, rws2, ep2
  <2>5. Kept(wire, queue, ep2, rws2)
    BY <1>0, <2>1, <2>2, KeptGrown
  <2>6. Append(wire, m) \in Seq(Outbound) /\ Kept(Append(wire, m), queue, ep2, rws2)
    BY <1>6, <2>1, <2>5, KeptAppend
  <2>7. Kept(ws, queue, ep2, rws2) /\ ws \in Seq(Outbound)
    BY <2>1, <2>4, <2>5, <2>6
  <2> QED
    BY <2>1, <2>7 DEF ws, rws2, ep2
<1>f. faults' \in 0 .. MaxFaults
  BY <1>1, BoundsAssumption DEF Shape
<1>10. Shape'
  BY <1>2, <1>8, <1>9, <1>f DEF Shape, appVars
<1> QED
  BY <1>1, <1>4, <1>5, <1>6, <1>8, <1>10

LEMMA ReloadShape ==
    ASSUME Shape, Reload
    PROVE  /\ Shape' /\ Grown(epoch, rows, epoch', rows')
           /\ epoch' = epoch + 1 /\ epoch' \in 1 .. MaxEpoch /\ rows' = rows
<1>0. /\ epoch \in 1 .. MaxEpoch /\ epoch \in Nat /\ MaxEpoch \in Nat
      /\ rows \in [1 .. MaxEpoch -> Histories] /\ Daemons(epoch, rows)
  BY BoundsAssumption DEF Shape, Daemons
<1>1. /\ epoch < MaxEpoch /\ epoch' = epoch + 1 /\ faults > 0 /\ faults' = faults - 1
      /\ UNCHANGED <<rows, subscribed, linkVars, appVars, stored>>
  BY DEF Reload, Disturb
<1>2. epoch' \in 1 .. MaxEpoch /\ \A e \in 1 .. MaxEpoch : e > epoch' => e > epoch
  BY <1>0, <1>1
<1>3. Daemons(epoch', rows')
  BY <1>0, <1>1, <1>2 DEF Daemons
<1>4. Grown(epoch, rows, epoch, rows) /\ epoch <= epoch'
  BY <1>0, <1>1, GrownItself
<1>5. Grown(epoch, rows, epoch', rows')
  BY <1>1, <1>4 DEF Grown
<1>6. faults' \in 0 .. MaxFaults
  BY <1>1, BoundsAssumption DEF Shape
<1>7. Thinned(wire', wire) /\ wire \in Seq(Outbound)
  BY <1>1, ThinnedItself DEF Shape, linkVars
<1>8. UNCHANGED <<subscribed, up, inbox, wire, desired, acked, subRetry, sync, forced, noticed,
                  init, queue, chat, cached, stored>>
  BY <1>1 DEF linkVars, appVars
<1>9. Shape'
  BY <1>3, <1>5, <1>6, <1>7, <1>8, ShapeKept DEF Shape
<1> QED
  BY <1>1, <1>2, <1>5, <1>9

\* The head of the inbox is answered, or refused.
LEMMA AnswerShape ==
    ASSUME Shape, Answer
    PROVE  /\ Shape' /\ Head(inbox) \in FetchMsgs /\ Head(inbox) = inbox[1] /\ inbox # <<>>
           /\ UNCHANGED <<daemonVars, up, appVars, stored, faults>>
           /\ inbox' = Tail(inbox)
           /\ \E p \in Pages :
                /\ PageHolds(Head(inbox).req, p, epoch, rows)
                /\ p.epoch = epoch /\ p.max = Len(rows[epoch])
                /\ wire' = Append(wire, [kind |-> "page", req |-> Head(inbox).req,
                                         fresh |-> Head(inbox).fresh, page |-> p])
<1> DEFINE h == Head(inbox)
           p == Fetch(h.req)
           m == [kind |-> "page", req |-> h.req, fresh |-> h.fresh, page |-> p]
<1>0. inbox \in Seq(Inbound) /\ wire \in Seq(Outbound) /\ Daemons(epoch, rows)
      /\ queue \in Seq(Rows) /\ Kept(wire, queue, epoch, rows)
  BY DEF Shape
<1>1. /\ inbox # <<>> /\ h.kind = "fetch" /\ inbox' = Tail(inbox) /\ wire' = Append(wire, m)
      /\ UNCHANGED <<daemonVars, up, appVars, stored, faults>>
  BY DEF Answer
<1>2. h \in Inbound /\ h = inbox[1] /\ Tail(inbox) \in Seq(Inbound)
  BY <1>0, <1>1, ThinnedTail
<1>3. h \in FetchMsgs /\ h.req \in Reqs /\ h.fresh \in BOOLEAN
  BY <1>1, <1>2, InboundFields
<1>4. p \in Pages /\ PageHolds(h.req, p, epoch, rows) /\ p.epoch = epoch /\ p.max = Len(rows[epoch])
  BY <1>0, <1>3, FetchIs
<1> HIDE DEF h, p
<1>5. m \in Outbound /\ m.kind = "page" /\ m.req = h.req /\ m.page = p
  BY <1>3, <1>4 DEF Outbound, PageMsgs
<1> HIDE DEF m
<1>6. Append(wire, m) \in Seq(Outbound) /\ Kept(Append(wire, m), queue, epoch, rows)
  BY <1>0, <1>4, <1>5, KeptAppend
<1>7. Shape'
  BY <1>1, <1>2, <1>6 DEF Shape, daemonVars, appVars, Daemons
<1> QED
  BY <1>1, <1>2, <1>3, <1>4, <1>7 DEF h, m

LEMMA RefuseShape ==
    ASSUME Shape, Refuse
    PROVE  /\ Shape' /\ Head(inbox) \in FetchMsgs /\ Head(inbox) = inbox[1] /\ inbox # <<>>
           /\ UNCHANGED <<daemonVars, up, appVars, stored>>
           /\ inbox' = Tail(inbox)
           /\ ~ (noticed /\ Head(inbox).req = TailReq) \/ "refetch" \in Lapses
           /\ \E m \in FailMsgs : m.req = Head(inbox).req /\ wire' = Append(wire, m)
<1> DEFINE h == Head(inbox)
           m == [kind |-> "fail", req |-> h.req, fresh |-> h.fresh]
<1>0. inbox \in Seq(Inbound) /\ wire \in Seq(Outbound) /\ Daemons(epoch, rows)
      /\ queue \in Seq(Rows) /\ Kept(wire, queue, epoch, rows) /\ faults \in 0 .. MaxFaults
  BY DEF Shape
<1>1. /\ inbox # <<>> /\ h.kind = "fetch" /\ inbox' = Tail(inbox) /\ wire' = Append(wire, m)
      /\ UNCHANGED <<daemonVars, up, appVars, stored>>
      /\ ~ (noticed /\ h.req = TailReq) \/ "refetch" \in Lapses
      /\ faults > 0 /\ faults' = faults - 1
  BY DEF Refuse, Disturb
<1>2. h \in Inbound /\ h = inbox[1] /\ Tail(inbox) \in Seq(Inbound)
  BY <1>0, <1>1, ThinnedTail
<1>3. h \in FetchMsgs /\ h.req \in Reqs /\ h.fresh \in BOOLEAN
  BY <1>1, <1>2, InboundFields
<1> HIDE DEF h
<1>5. m \in FailMsgs /\ m.kind = "fail" /\ m.req = h.req
  BY <1>3 DEF FailMsgs
<1> HIDE DEF m
<1>m. m \in Outbound
  BY <1>5 DEF Outbound
<1>6. Append(wire, m) \in Seq(Outbound) /\ Kept(Append(wire, m), queue, epoch, rows)
  BY <1>0, <1>5, <1>m, KeptAppend
<1>f. faults' \in 0 .. MaxFaults
  BY <1>0, <1>1, BoundsAssumption
<1>7. Shape'
  BY <1>1, <1>2, <1>6, <1>f DEF Shape, daemonVars, appVars, Daemons
<1> QED
  BY <1>1, <1>2, <1>3, <1>5, <1>7 DEF h

LEMMA SubscribeShape ==
    ASSUME Shape, NEW i \in DOMAIN inbox, Subscribe(i)
    PROVE  /\ Shape' /\ inbox[i] \in SubscribeMsgs /\ inbox[i].kind = "subscribe"
           /\ inbox[i].open \in BOOLEAN
           /\ UNCHANGED <<epoch, rows, up, appVars, stored, faults>>
           /\ subscribed' = inbox[i].open
           /\ wire' = Append(wire, [kind |-> "subscribed", open |-> inbox[i].open])
           /\ inbox' = Without(inbox, i)
<1> DEFINE h == inbox[i]
           m == [kind |-> "subscribed", open |-> h.open]
<1>0. inbox \in Seq(Inbound) /\ wire \in Seq(Outbound) /\ Daemons(epoch, rows)
      /\ queue \in Seq(Rows) /\ Kept(wire, queue, epoch, rows)
  BY DEF Shape
<1>1. /\ h.kind = "subscribe" /\ inbox' = Without(inbox, i) /\ wire' = Append(wire, m)
      /\ UNCHANGED <<epoch, rows, up, appVars, stored, faults>> /\ subscribed' = h.open
  BY DEF Subscribe
<1>2. h \in Inbound /\ inbox' \in Seq(Inbound)
  BY <1>0, <1>1, RemovedIs
<1>3. h \in SubscribeMsgs /\ h.open \in BOOLEAN
  BY <1>1, <1>2, InboundFields
<1> HIDE DEF h
<1>5. m \in Outbound /\ m.kind = "subscribed"
  BY <1>3 DEF Outbound, SubscribedMsgs
<1> HIDE DEF m
<1>6. Append(wire, m) \in Seq(Outbound) /\ Kept(Append(wire, m), queue, epoch, rows)
  BY <1>0, <1>5, KeptAppend
<1>7. Shape'
  BY <1>1, <1>2, <1>3, <1>6 DEF Shape, appVars, Daemons
<1> QED
  BY <1>1, <1>3, <1>7 DEF h, m

LEMMA ReceiveRowShape ==
    ASSUME Shape, ReceiveRow
    PROVE  /\ Shape' /\ wire # <<>> /\ wire[1] = Head(wire) /\ wire[1].kind = "row" /\ wire[1].row \in Rows
           /\ RowHolds(wire[1].row, epoch, rows)
           /\ queue' = Append(queue, wire[1].row) /\ wire' = Tail(wire)
           /\ UNCHANGED <<daemonVars, up, inbox, desired, acked, subRetry, sync, forced, noticed,
                          init, chat, cached, stored, faults>>
<1>0. wire \in Seq(Outbound) /\ Daemons(epoch, rows)
      /\ queue \in Seq(Rows) /\ Kept(wire, queue, epoch, rows)
  BY DEF Shape
<1>1. /\ wire # <<>> /\ Head(wire).kind = "row" /\ queue' = Append(queue, Head(wire).row)
      /\ wire' = Tail(wire)
      /\ UNCHANGED <<daemonVars, up, inbox, desired, acked, subRetry, sync, forced, noticed,
                 init, chat, cached, stored, faults>>
  BY DEF ReceiveRow
<1>2. /\ Tail(wire) \in Seq(Outbound) /\ Thinned(Tail(wire), wire) /\ Head(wire) = wire[1]
      /\ wire[1] \in Outbound /\ 1 \in DOMAIN wire
  BY <1>0, <1>1, ThinnedTail
<1> DEFINE r == wire[1].row
<1>3. r \in Rows /\ RowHolds(r, epoch, rows)
  BY <1>0, <1>1, <1>2, OutboundFields DEF Kept
<1>4. Kept(Tail(wire), queue, epoch, rows)
  BY <1>0, <1>2, KeptThinned
<1>5. Append(queue, r) \in Seq(Rows) /\ Kept(Tail(wire), Append(queue, r), epoch, rows)
  <2> HIDE DEF r
  <2> DEFINE q == Append(queue, r)
  <2>1. /\ q \in Seq(Rows) /\ DOMAIN q = 1 .. Len(queue) + 1 /\ DOMAIN queue = 1 .. Len(queue)
        /\ \A i \in DOMAIN queue : q[i] = queue[i]
        /\ q[Len(queue) + 1] = r /\ Len(queue) \in Nat
    BY <1>0, <1>3
  <2>2. \A i \in DOMAIN q : i \in DOMAIN queue \/ i = Len(queue) + 1
    BY <2>1
  <2> HIDE DEF q
  <2>3. Kept(Tail(wire), q, epoch, rows)
    BY <1>3, <1>4, <2>1, <2>2 DEF Kept
  <2> QED
    BY <2>1, <2>3 DEF q
<1>7. Shape'
  BY <1>1, <1>2, <1>5 DEF Shape, daemonVars, Daemons
<1> QED
  BY <1>1, <1>2, <1>3, <1>7

\* What comes of an issue from boxes that are parts of the present ones.
LEMMA IssueShape ==
    ASSUME Shape, NEW box \in Seq(Inbound), NEW ws \in Seq(Outbound), Thinned(ws, wire),
           NEW req \in Requests, NEW initialize \in BOOLEAN, NEW before \in Inits,
           initialize => req.dir # "before",
           Issue(req, initialize, before, box, ws)
    PROVE  inbox' \in Seq(Inbound) /\ wire' \in Seq(Outbound) /\ init' \in Inits /\ Thinned(wire', wire)
<1> DEFINE ms == wire'
<1>1. inbox' \in Seq(Inbound) /\ ms \in Seq(Outbound) /\ init' \in Inits /\ AllAlike(ms, ws)
  BY IssueIs
<1>2. wire \in Seq(Outbound)
  BY DEF Shape
<1> HIDE DEF ms
<1>3. Thinned(ms, wire)
  BY <1>1, <1>2, ThinnedAlike, ThinnedThinned
<1> QED
  BY <1>1, <1>3 DEF ms

LEMMA CanIs ==
    ASSUME Shape
    PROVE  CanCatchUp \in BOOLEAN /\ (CanCatchUp <=> up /\ desired /\ acked)
BY DEF Shape, CanCatchUp

LEMMA NothingStarts ==
    ASSUME NEW s \in Syncs, NEW d, d = [sync |-> s, fetch |-> NoReq]
    PROVE  d.sync = s /\ d.fetch = NoReq /\ d.sync \in Syncs /\ d.fetch \in CatchUps
<1>1. d.sync = s /\ d.fetch = NoReq
  OBVIOUS
<1>2. NoReq \in CatchUps
  BY DEF CatchUps
<1> QED
  BY <1>1, <1>2

\* What the frame starts that applies the rows.
FlushedChat == WithRows(chat, queue)

FlushStart ==
  IF RowsLeaveGap(chat, queue)
  THEN Recovered(sync, CanCatchUp, Resume(FlushedChat, cached), FlushedChat.range)
  ELSE [sync |-> sync, fetch |-> NoReq]

\* The catch-up stays as it is, or starts to recover what follows a range.
Recovering(s, resume, range, d) ==
  \/ d.sync = s /\ d.fetch = NoReq
  \/ /\ desired /\ range # NoRange /\ range \in Ranges
     /\ Superseding(s, CanCatchUp, resume, AfterReq(range.epoch, range.end), d)

LEMMA RecoveringIs ==
    ASSUME Shape, NEW s \in Syncs, NEW resume \in CatchUps, resume # NoReq,
           NEW range \in Ranges, range # NoRange, NEW d, d = Recovered(s, CanCatchUp, resume, range)
    PROVE  d.sync \in Syncs /\ d.fetch \in CatchUps /\ Recovering(s, resume, range, d)
<1> DEFINE next == AfterReq(range.epoch, range.end)
           can == CanCatchUp
<1>1. can \in BOOLEAN
  BY CanIs
<1>2. d = Recovered(s, can, resume, range)
  OBVIOUS
<1>3. next = AfterReq(range.epoch, range.end)
  OBVIOUS
<1> HIDE DEF next, can
<1>4. /\ d.sync \in Syncs /\ d.fetch \in CatchUps
      /\ desired => Superseding(s, can, resume, next, d)
      /\ ~ desired => d.sync = s /\ d.fetch = NoReq
  <2>1. /\ d.sync \in Syncs /\ d.fetch \in CatchUps /\ next \in CatchUps /\ next # NoReq
        /\ desired => Superseding(s, can, resume, next, d)
        /\ ~ desired => d.sync = s /\ d.fetch = NoReq
    BY <1>1, <1>2, <1>3, RecoveredIs
  <2> QED
    BY <2>1
<1> QED
  BY <1>3, <1>4 DEF Recovering, can

LEMMA FlushStartIs ==
    ASSUME Shape
    PROVE  /\ FlushedChat \in Chats
           /\ FlushStart.sync \in Syncs /\ FlushStart.fetch \in CatchUps
           /\ Recovering(sync, Resume(FlushedChat, cached), FlushedChat.range, FlushStart)
           /\ ~ RowsLeaveGap(chat, queue) => FlushStart.sync = sync /\ FlushStart.fetch = NoReq
           /\ RowsLeaveGap(chat, queue) =>
                FlushedChat.synced /\ ~ FlushedChat.newer /\ FlushedChat.range # NoRange
<1> DEFINE c == FlushedChat
           r == Resume(c, cached)
           d == FlushStart
<1>0. chat \in Chats /\ queue \in Seq(Rows) /\ sync \in Syncs /\ cached \in Ranges
  BY DEF Shape
<1>1. c = WithRows(chat, queue)
  BY DEF FlushedChat
<1>2. d = IF RowsLeaveGap(chat, queue) THEN Recovered(sync, CanCatchUp, r, c.range)
          ELSE [sync |-> sync, fetch |-> NoReq]
  BY DEF FlushStart
<1>r. r = Resume(c, cached)
  OBVIOUS
<1> HIDE DEF c, r, d
<1>3. /\ c \in Chats /\ c.synced = chat.synced /\ c.newer = chat.newer
      /\ RowsLeaveGap(chat, queue) => chat.synced /\ ~ chat.newer /\ c.range # NoRange
  BY <1>0, <1>1, WithRowsIs
<1>4. r \in CatchUps /\ r # NoReq /\ c.range \in Ranges
  BY <1>0, <1>3, <1>r, ResumeIs, ChatFields
<1>5. CASE RowsLeaveGap(chat, queue)
  <2>1. d = Recovered(sync, CanCatchUp, r, c.range) /\ c.range # NoRange
    BY <1>2, <1>3, <1>5
  <2>2. d = Recovered(sync, CanCatchUp, r, c.range)
    BY <2>1
  <2>3. d.sync \in Syncs /\ d.fetch \in CatchUps /\ Recovering(sync, r, c.range, d)
    BY <1>0, <1>4, <2>1, <2>2, RecoveringIs
  <2> QED
    BY <1>3, <1>5, <1>r, <2>3 DEF c, d
<1>6. CASE ~ RowsLeaveGap(chat, queue)
  <2>1. d = [sync |-> sync, fetch |-> NoReq]
    BY <1>2, <1>6
  <2>2. d.sync = sync /\ d.fetch = NoReq /\ d.sync \in Syncs /\ d.fetch \in CatchUps
    BY <1>0, <2>1, NothingStarts
  <2>3. Recovering(sync, r, c.range, d)
    BY <2>2 DEF Recovering
  <2> QED
    BY <1>3, <1>6, <1>r, <2>2, <2>3 DEF c, d
<1> QED
  BY <1>5, <1>6

LEMMA FlushQueueShape ==
    ASSUME Shape, FlushQueue
    PROVE  /\ Shape' /\ queue # <<>> /\ queue' = <<>> /\ chat' = FlushedChat
           /\ sync' = FlushStart.sync
           /\ Issue(FlushStart.fetch, ~ FlushedChat.synced, init, inbox, wire)
           /\ UNCHANGED <<daemonVars, up, desired, acked, subRetry, forced, noticed, cached,
                          stored, faults>>
<1>1. /\ queue # <<>> /\ queue' = <<>> /\ chat' = FlushedChat /\ sync' = FlushStart.sync
      /\ Issue(FlushStart.fetch, ~ FlushedChat.synced, init, inbox, wire)
      /\ UNCHANGED <<daemonVars, up, desired, acked, subRetry, forced, noticed, cached,
                     stored, faults>>
  BY DEF FlushQueue, FlushedChat, FlushStart
<1>2. /\ FlushedChat \in Chats /\ FlushStart.sync \in Syncs /\ FlushStart.fetch \in CatchUps
      /\ FlushedChat.synced \in BOOLEAN
  BY FlushStartIs, ChatFields
<1> DEFINE fresh == ~ FlushedChat.synced
           req == FlushStart.fetch
<1>3. /\ fresh \in BOOLEAN /\ req \in Requests /\ req.dir # "before"
      /\ Issue(req, fresh, init, inbox, wire)
  BY <1>1, <1>2, CatchUpFields
<1>4. inbox \in Seq(Inbound) /\ wire \in Seq(Outbound) /\ init \in Inits /\ Thinned(wire, wire)
  BY ThinnedItself DEF Shape
<1> HIDE DEF fresh, req
<1>5. inbox' \in Seq(Inbound) /\ wire' \in Seq(Outbound) /\ init' \in Inits /\ Thinned(wire', wire)
  BY <1>3, <1>4, IssueShape
<1>6. Daemons(epoch, rows)' /\ Grown(epoch, rows, epoch', rows')
  BY <1>1, StaysGrown DEF daemonVars
<1>7. Shape'
  <2>1. /\ subscribed' \in BOOLEAN /\ up' \in BOOLEAN /\ desired' \in BOOLEAN /\ acked' \in BOOLEAN
        /\ subRetry' \in BOOLEAN /\ forced' \in BOOLEAN /\ noticed' \in BOOLEAN
        /\ cached' \in Ranges /\ stored' \in Stores /\ faults' \in 0 .. MaxFaults
    BY <1>1 DEF Shape, daemonVars
  <2>2. queue' \in {queue, <<>>} /\ chat' \in Chats /\ sync' \in Syncs
    BY <1>1, <1>2
  <2> QED
    BY <1>5, <1>6, <2>1, <2>2, ShapeKept
<1> QED
  BY <1>1, <1>7

\* What ReceivePage is made of.
Msg == Head(wire)
Pg == Msg.page
Reset == Pg.reset \/ (forced /\ Pg.dir = "tail")
Boot == ~ Reset /\ Pg.dir = "tail" /\ init # "none"
Cur == CurrentRange(FlushedChat)
Landed == WithPage(FlushedChat, Pg, Cur, Reset, Boot)
LandedCache == IF Landed.synced THEN NoRange ELSE cached
ResumeNow == Resume(Landed, LandedCache)
FirstStart ==
  IF RowsLeaveGap(chat, queue) THEN Recovered(sync, CanCatchUp, ResumeNow, FlushedChat.range)
  ELSE [sync |-> sync, fetch |-> NoReq]
GapAfter == /\ TailPolicy(Pg, Cur, Reset, Boot) = "incremental"
            /\ Pg.dir = "after" /\ LeavesGap(Pg, Cur)
SecondStart ==
  IF Boot /\ Pg.end # 0 THEN Recovered(FirstStart.sync, CanCatchUp, ResumeNow, Landed.range)
  ELSE IF GapAfter THEN Recovered(FirstStart.sync, CanCatchUp, ResumeNow, Cur)
  ELSE [sync |-> FirstStart.sync, fetch |-> NoReq]
Own == /\ CanCatchUp /\ sync.status = "running" /\ sync.await = Msg.req
       /\ FirstStart.fetch = NoReq /\ SecondStart.fetch = NoReq
ThirdStart ==
  IF Own THEN Continued(SecondStart.sync, CanCatchUp, ResumeNow, Pg)
  ELSE [sync |-> SecondStart.sync, fetch |-> NoReq]
NextFetch ==
  IF ThirdStart.fetch # NoReq THEN ThirdStart.fetch
  ELSE IF SecondStart.fetch # NoReq THEN SecondStart.fetch ELSE FirstStart.fetch
AwaitsLatest == ThirdStart.sync.latest /\ Own
InitLeft == IF InitResolved(Pg, Reset) THEN "none" ELSE init
SecondRange == IF Boot /\ Pg.end # 0 THEN Landed.range ELSE Cur

LEMMA ReceivePageNamed ==
    ASSUME ReceivePage
    PROVE  /\ wire # <<>> /\ Msg.kind = "page"
           /\ queue' = <<>> /\ chat' = Landed /\ cached' = LandedCache /\ sync' = ThirdStart.sync
           /\ forced' = (AwaitsLatest \/ (forced /\ Pg.dir # "tail"))
           /\ noticed' = (noticed /\ Pg.dir # "tail")
           /\ Issue(NextFetch, ~ Landed.synced /\ ~ AwaitsLatest, InitLeft, inbox, Tail(wire))
           /\ UNCHANGED <<daemonVars, up, desired, acked, subRetry, stored, faults>>
<1>1. wire # <<>> /\ Msg.kind = "page" /\ PageApplied(Msg, FlushedChat, Landed)
  BY DEF ReceivePage, Msg, Pg, Reset, Boot, Cur, Landed, FlushedChat, Replaces, IsBoot
<1> QED
  BY <1>1
  DEF PageApplied, Pg, Reset, Replaces, Boot, IsBoot, Cur, LandedCache, ResumeNow, FirstStart,
      GapAfter, SecondStart, Own, ThirdStart, NextFetch, AwaitsLatest, InitLeft

LEMMA PageArrives ==
    ASSUME Shape, wire # <<>>, Msg.kind = "page"
    PROVE  /\ Msg = wire[1] /\ 1 \in DOMAIN wire /\ Msg \in Outbound
           /\ Msg.req \in Reqs /\ Msg.fresh \in BOOLEAN
           /\ Pg \in Pages /\ PageHolds(Msg.req, Pg, epoch, rows) /\ Whole(Pg)
           /\ Pg.dir = Msg.req.dir /\ Pg.end <= Pg.max /\ Pg.start <= Pg.end
           /\ Pg.newer /\ Pg.dir # "before" => Pg.end # 0 /\ Pg.dir = "after" /\ ~ Pg.reset
           /\ Pg.reset \/ Pg.dir = "tail" =>
                Pg.end = Pg.max /\ (Pg.start = 0 <=> Pg.max = 0) /\ Pg.newer = FALSE
           /\ ~ Pg.reset /\ Pg.dir = "after" =>
                /\ Pg.epoch = Msg.req.epoch
                /\ Pg.start # 0 => Pg.start = Msg.req.seq + 1 /\ (Pg.newer <=> Pg.end < Pg.max)
                /\ Pg.start = 0 => Msg.req.seq >= Pg.max /\ ~ Pg.newer
           /\ Pg.reset <=> Pg.dir # "tail" /\ Msg.req.epoch # Pg.epoch
           /\ Pg.epoch <= epoch /\ Pg.max <= Len(rows[Pg.epoch])
           /\ Tail(wire) \in Seq(Outbound) /\ Thinned(Tail(wire), wire)
<1>0. wire \in Seq(Outbound) /\ Kept(wire, queue, epoch, rows) /\ Daemons(epoch, rows)
  BY DEF Shape
<1>1. /\ Msg = wire[1] /\ 1 \in DOMAIN wire /\ Msg \in Outbound
      /\ Tail(wire) \in Seq(Outbound) /\ Thinned(Tail(wire), wire)
  BY <1>0, ThinnedTail DEF Msg
<1>2. Msg.req \in Reqs /\ Msg.fresh \in BOOLEAN /\ Pg \in Pages
  BY <1>1, OutboundFields DEF Pg
<1>3. PageHolds(Msg.req, Pg, epoch, rows)
  BY <1>0, <1>1 DEF Kept, Pg
<1>4. Pg.epoch \in 1 .. MaxEpoch /\ Pg.max \in Nat /\ Pg.reset \in BOOLEAN
  BY <1>2, PageFields
<1>5. /\ Pg.entries \in Seq(Entries) /\ Pg.start \in 0 .. MaxRows /\ Pg.end \in 0 .. MaxRows
      /\ Pg.older \in BOOLEAN /\ Pg.newer \in BOOLEAN /\ Pg.max \in 0 .. MaxRows
      /\ Whole(Pg) /\ Pg.end <= Pg.max /\ Pg.start <= Pg.end
      /\ Pg.newer /\ Pg.dir # "before" => Pg.end # 0 /\ Pg.dir = "after" /\ ~ Pg.reset
      /\ Pg.reset \/ Pg.dir = "tail" =>
           Pg.end = Pg.max /\ (Pg.start = 0 <=> Pg.max = 0) /\ Pg.newer = FALSE
      /\ ~ Pg.reset /\ Pg.dir = "after" =>
           /\ Pg.epoch = Msg.req.epoch
           /\ Pg.start # 0 => Pg.start = Msg.req.seq + 1 /\ (Pg.newer <=> Pg.end < Pg.max)
           /\ Pg.start = 0 => Msg.req.seq >= Pg.max /\ ~ Pg.newer
  BY <1>0, <1>2, <1>3, <1>4, PageIs
<1>6. /\ Pg.dir = Msg.req.dir /\ Pg.epoch <= epoch /\ Pg.max <= Len(rows[Pg.epoch])
      /\ Pg.reset <=> Pg.dir # "tail" /\ Msg.req.epoch # Pg.epoch
  <2>1. /\ Pg.dir = Msg.req.dir /\ Pg.epoch <= epoch /\ Pg.max <= Len(rows[Pg.epoch])
        /\ (Pg.reset <=> Msg.req.dir # "tail" /\ Msg.req.epoch # Pg.epoch)
    BY <1>3 DEF PageHolds
  <2> QED
    BY <2>1
<1> QED
  BY <1>1, <1>2, <1>3, <1>5, <1>6

LEMMA FlushedIs ==
    ASSUME Shape
    PROVE  /\ FlushedChat \in Chats /\ FlushedChat.synced = chat.synced
           /\ FlushedChat.older = chat.older /\ FlushedChat.newer = chat.newer
           /\ ~ chat.synced => FlushedChat.range = chat.range /\ FlushedChat.items = chat.items
           /\ chat.synced /\ chat.newer => FlushedChat = chat
           /\ chat.range # NoRange => FlushedChat.range # NoRange
           /\ \/ FlushedChat.range = chat.range
              \/ FlushedChat.range # NoRange /\ \E i \in DOMAIN queue : /\ FlushedChat.range.epoch = queue[i].epoch
                                                           /\ FlushedChat.range.end = queue[i].seq
           /\ (chat.range # NoRange => chat.range.start <= chat.range.end)
              => (FlushedChat.range # NoRange => FlushedChat.range.start <= FlushedChat.range.end)
           /\ queue = <<>> => FlushedChat = chat
           /\ chat.synced /\ ~ chat.newer /\ queue # <<>> => FlushedChat.range # NoRange
           /\ RowsLeaveGap(chat, queue) => chat.synced /\ ~ chat.newer /\ queue # <<>> /\ FlushedChat.range # NoRange
           /\ Cur \in Ranges /\ Cur = CurrentRange(FlushedChat)
           /\ Cur = IF chat.synced THEN FlushedChat.range ELSE cached
<1> DEFINE d == FlushedChat
<1>0. chat \in Chats /\ queue \in Seq(Rows) /\ cached \in Ranges
  BY DEF Shape
<1>1. d = WithRows(chat, queue)
  BY DEF FlushedChat
<1> HIDE DEF d
<1>2.      /\ d \in Chats /\ d.synced = chat.synced /\ d.older = chat.older /\ d.newer = chat.newer
           /\ ~ chat.synced => d.range = chat.range /\ d.items = chat.items
           /\ chat.synced /\ chat.newer => d = chat
           /\ chat.range # NoRange => d.range # NoRange
           /\ \/ d.range = chat.range
              \/ d.range # NoRange /\ \E i \in DOMAIN queue : /\ d.range.epoch = queue[i].epoch
                                                           /\ d.range.end = queue[i].seq
           /\ (chat.range # NoRange => chat.range.start <= chat.range.end)
              => (d.range # NoRange => d.range.start <= d.range.end)
           /\ queue = <<>> => d = chat
           /\ chat.synced /\ ~ chat.newer /\ queue # <<>> => d.range # NoRange
           /\ RowsLeaveGap(chat, queue) => chat.synced /\ ~ chat.newer /\ queue # <<>> /\ d.range # NoRange
  BY <1>0, <1>1, WithRowsIs
<1>3. d.range \in Ranges
  BY <1>2, ChatFields
<1>4. Cur = CurrentRange(d) /\ CurrentRange(d) = IF d.synced THEN d.range ELSE cached
  BY DEF Cur, CurrentRange, d
<1>5. Cur \in Ranges /\ Cur = IF chat.synced THEN d.range ELSE cached
  BY <1>0, <1>2, <1>3, <1>4
<1> QED
  BY <1>2, <1>4, <1>5 DEF d

\* What the page leaves behind.
LEMMA LandedIs ==
    ASSUME Shape, wire # <<>>, Msg.kind = "page"
    PROVE  /\ Landed \in Chats /\ LandedCache \in Ranges
           /\ Reset \in BOOLEAN /\ Boot \in BOOLEAN
           /\ Landed.range = RangeWithPage(FlushedChat.range, Pg, Cur, Reset, Boot)
           /\ Pg.dir = "before" => Landed.synced = chat.synced /\ Landed.newer = chat.newer
           /\ Pg.dir # "before" =>
                /\ Landed.newer = Pg.newer
                /\ chat.synced => Landed.synced
                /\ TailPolicy(Pg, Cur, Reset, Boot) = "discard" => Landed.synced = chat.synced
                /\ TailPolicy(Pg, Cur, Reset, Boot) # "discard" /\ (Pg.dir = "tail" \/ ~ Pg.newer) => Landed.synced
                /\ Pg.dir # "tail" /\ Pg.newer => Landed.synced = chat.synced
           /\ ResumeNow \in CatchUps /\ ResumeNow # NoReq
<1> DEFINE d == Landed
           c == FlushedChat
           p == Pg
           reset == Reset
           boot == Boot
           policy == TailPolicy(p, Cur, reset, boot)
<1>1. c \in Chats /\ Cur \in Ranges /\ c.synced = chat.synced /\ c.newer = chat.newer
  BY FlushedIs
<1>2. p \in Pages /\ Whole(p)
  BY PageArrives
<1>3. reset \in BOOLEAN /\ boot \in BOOLEAN
  BY <1>2, PageFields DEF Reset, Boot, Shape
<1>4. d = WithPage(c, p, Cur, reset, boot) /\ policy = TailPolicy(p, Cur, reset, boot)
  BY DEF Landed
<1>c. cached \in Ranges /\ NoRange \in Ranges
  BY DEF Shape, Ranges
<1> HIDE DEF d, c, p, reset, boot, policy
<1>5.      /\ d \in Chats
           /\ d.range = RangeWithPage(c.range, p, Cur, reset, boot)
           /\ p.dir = "before" => d.synced = c.synced /\ d.newer = c.newer
           /\ p.dir # "before" =>
                /\ d.newer = p.newer
                /\ c.synced => d.synced
                /\ policy = "discard" => d.synced = c.synced
                /\ policy # "discard" /\ (p.dir = "tail" \/ ~ p.newer) => d.synced
                /\ p.dir # "tail" /\ p.newer => d.synced = c.synced
  BY <1>1, <1>2, <1>3, <1>4, WithPageIs
<1>6. LandedCache \in Ranges
  BY <1>c DEF LandedCache
<1>7. ResumeNow \in CatchUps /\ ResumeNow # NoReq
  <2>1. ResumeNow = Resume(d, LandedCache)
    BY DEF ResumeNow, d
  <2> QED
    BY <1>5, <1>6, <2>1, ResumeIs
<1>8. policy = TailPolicy(Pg, Cur, Reset, Boot)
  BY <1>4 DEF p, reset, boot
<1> QED
  BY <1>1, <1>3, <1>5, <1>6, <1>7, <1>8 DEF d, c, p, reset, boot

LEMMA PageStartsAre ==
    ASSUME Shape, wire # <<>>, Msg.kind = "page"
    PROVE  /\ FirstStart.sync \in Syncs /\ FirstStart.fetch \in CatchUps
           /\ Recovering(sync, ResumeNow, FlushedChat.range, FirstStart)
           /\ ~ RowsLeaveGap(chat, queue) => FirstStart.sync = sync /\ FirstStart.fetch = NoReq
           /\ SecondStart.sync \in Syncs /\ SecondStart.fetch \in CatchUps
           /\ Recovering(FirstStart.sync, ResumeNow, SecondRange, SecondStart)
           /\ ~ (Boot /\ Pg.end # 0) /\ ~ GapAfter => SecondStart.sync = FirstStart.sync /\ SecondStart.fetch = NoReq
           /\ ThirdStart.sync \in Syncs /\ ThirdStart.fetch \in CatchUps
           /\ Own => Continuing(SecondStart.sync, CanCatchUp, ResumeNow, Pg, ThirdStart)
           /\ ~ Own => ThirdStart.sync = SecondStart.sync /\ ThirdStart.fetch = NoReq
           /\ NextFetch \in CatchUps
           /\ Own \in BOOLEAN /\ AwaitsLatest \in BOOLEAN /\ InitLeft \in Inits
<1> DEFINE r == ResumeNow
           a == FirstStart
           b == SecondStart
           c == ThirdStart
           own == Own
<1>0. sync \in Syncs /\ init \in Inits /\ CanCatchUp \in BOOLEAN
  BY CanIs DEF Shape
<1>1. r \in CatchUps /\ r # NoReq /\ Landed \in Chats /\ Landed.range \in Ranges
  BY LandedIs, ChatFields
<1>2. FlushedChat.range \in Ranges /\ Cur \in Ranges
      /\ (RowsLeaveGap(chat, queue) => FlushedChat.range # NoRange)
  BY FlushedIs, ChatFields
<1>3. /\ Boot /\ Pg.end # 0 => Landed.range # NoRange
      /\ GapAfter => Cur # NoRange
  <2>1. Boot /\ Pg.end # 0 => Landed.range # NoRange
    <3> SUFFICES ASSUME Boot, Pg.end # 0 PROVE Landed.range # NoRange
      OBVIOUS
    <3>1. Boot \in BOOLEAN /\ Reset \in BOOLEAN /\ Landed.range = RangeWithPage(FlushedChat.range, Pg, Cur, Reset, Boot)
      BY LandedIs
    <3>2. TailPolicy(Pg, Cur, Reset, Boot) = "replace"
      BY DEF TailPolicy
    <3>3. Landed.range = PageRange(Pg)
      BY <3>1, <3>2 DEF RangeWithPage
    <3>4. Pg \in Pages /\ Whole(Pg)
      BY PageArrives
    <3>5. Pg.start # 0
      BY <3>4 DEF Whole
    <3> QED
      BY <3>3, <3>4, <3>5, PageRangeIs
  <2>2. GapAfter => Cur # NoRange
    BY DEF GapAfter, LeavesGap
  <2> QED
    BY <2>1, <2>2
<1>4. /\ a.sync \in Syncs /\ a.fetch \in CatchUps
      /\ Recovering(sync, r, FlushedChat.range, a)
      /\ ~ RowsLeaveGap(chat, queue) => a.sync = sync /\ a.fetch = NoReq
  <2>r. r = ResumeNow
    OBVIOUS
  <2>a. a = FirstStart
    OBVIOUS
  <2> HIDE DEF r, a
  <2>1. CASE RowsLeaveGap(chat, queue)
    <3>1. a = Recovered(sync, CanCatchUp, r, FlushedChat.range)
      BY <2>1, <2>r, <2>a DEF FirstStart
    <3>2. FlushedChat.range # NoRange
      BY <1>2, <2>1
    <3> QED
      BY <1>0, <1>1, <1>2, <2>1, <3>1, <3>2, RecoveringIs
  <2>2. CASE ~ RowsLeaveGap(chat, queue)
    <3>1. a = [sync |-> sync, fetch |-> NoReq]
      BY <2>2, <2>a DEF FirstStart
    <3> QED
      BY <1>0, <3>1, NothingStarts DEF Recovering
  <2> QED
    BY <2>1, <2>2
<1>5. /\ b.sync \in Syncs /\ b.fetch \in CatchUps
      /\ Recovering(a.sync, r, SecondRange, b)
      /\ ~ (Boot /\ Pg.end # 0) /\ ~ GapAfter => b.sync = a.sync /\ b.fetch = NoReq
  <2>r. r = ResumeNow
    OBVIOUS
  <2>a. a = FirstStart
    OBVIOUS
  <2>b. b = SecondStart
    OBVIOUS
  <2> HIDE DEF r, a, b
  <2> DEFINE s == a.sync
  <2>s. s \in Syncs /\ s = a.sync
    BY <1>4
  <2> HIDE DEF s
  <2>1. CASE Boot /\ Pg.end # 0
    <3>1. b = Recovered(s, CanCatchUp, r, Landed.range)
      BY <2>1, <2>r, <2>a, <2>b, <2>s DEF SecondStart
    <3>2. SecondRange = Landed.range /\ Landed.range # NoRange
      BY <1>3, <2>1 DEF SecondRange
    <3>3. b.sync \in Syncs /\ b.fetch \in CatchUps /\ Recovering(s, r, Landed.range, b)
      BY <1>1, <2>s, <3>1, <3>2, RecoveringIs
    <3> QED
      BY <2>1, <2>s, <3>2, <3>3
  <2>2. CASE ~ (Boot /\ Pg.end # 0) /\ GapAfter
    <3>1. b = Recovered(s, CanCatchUp, r, Cur)
      BY <2>2, <2>r, <2>a, <2>b, <2>s DEF SecondStart
    <3>2. SecondRange = Cur /\ Cur # NoRange
      BY <1>3, <2>2 DEF SecondRange
    <3>3. b.sync \in Syncs /\ b.fetch \in CatchUps /\ Recovering(s, r, Cur, b)
      BY <1>1, <1>2, <2>s, <3>1, <3>2, RecoveringIs
    <3> QED
      BY <2>2, <2>s, <3>2, <3>3
  <2>3. CASE ~ (Boot /\ Pg.end # 0) /\ ~ GapAfter
    <3>1. b = [sync |-> s, fetch |-> NoReq]
      BY <2>3, <2>a, <2>b, <2>s DEF SecondStart
    <3>2. b.sync = s /\ b.fetch = NoReq /\ b.sync \in Syncs /\ b.fetch \in CatchUps
      BY <2>s, <3>1, NothingStarts
    <3> QED
      BY <2>s, <3>2 DEF Recovering
  <2> QED
    BY <2>1, <2>2, <2>3
<1>o. own \in BOOLEAN /\ (own => sync.await = Msg.req)
  BY DEF Own
<1>6. /\ c.sync \in Syncs /\ c.fetch \in CatchUps
      /\ own => Continuing(b.sync, CanCatchUp, r, Pg, c)
      /\ ~ own => c.sync = b.sync /\ c.fetch = NoReq
  <2>r. r = ResumeNow
    OBVIOUS
  <2>b. b = SecondStart
    OBVIOUS
  <2>c. c = ThirdStart
    OBVIOUS
  <2>o. own <=> Own
    OBVIOUS
  <2> HIDE DEF r, b, c, own, a
  <2> DEFINE s == b.sync
  <2>s. s \in Syncs /\ s = b.sync
    BY <1>5
  <2> HIDE DEF s
  <2>1. CASE own
    <3>1. c = Continued(s, CanCatchUp, r, Pg)
      BY <2>1, <2>r, <2>b, <2>c, <2>o, <2>s DEF ThirdStart
    <3>2. Pg.dir # "before"
      <4>1. sync.await \in CatchUps
        BY <1>0, SyncFields
      <4>2. Pg.dir = Msg.req.dir
        BY PageArrives
      <4> QED
        BY <1>o, <2>1, <4>1, <4>2, CatchUpFields
    <3>3. Pg.epoch \in 1 .. MaxEpoch /\ Pg.end \in 0 .. MaxRows /\ Pg.newer \in BOOLEAN
          /\ (Pg.newer => Pg.end # 0)
      BY <3>2, PageArrives, PageFields
    <3> DEFINE can == CanCatchUp
    <3>4. can \in BOOLEAN /\ can = CanCatchUp
      BY <1>0
    <3>5. c = Continued(s, can, r, Pg)
      BY <3>1
    <3> HIDE DEF can
    <3>6. c.sync \in Syncs /\ c.fetch \in CatchUps /\ Continuing(s, can, r, Pg, c)
      BY <1>1, <2>s, <3>3, <3>4, <3>5, ContinuedIs
    <3> QED
      BY <2>1, <2>s, <3>4, <3>6
  <2>2. CASE ~ own
    <3>1. c = [sync |-> s, fetch |-> NoReq]
      BY <2>2, <2>b, <2>c, <2>o, <2>s DEF ThirdStart
    <3>2. c.sync = s /\ c.fetch = NoReq /\ c.sync \in Syncs /\ c.fetch \in CatchUps
      BY <2>s, <3>1, NothingStarts
    <3> QED
      BY <2>2, <2>s, <3>2
  <2> QED
    BY <1>o, <2>1, <2>2
<1>7. NextFetch \in CatchUps
  BY <1>4, <1>5, <1>6 DEF NextFetch
<1>8. InitLeft \in Inits
  BY <1>0 DEF InitLeft, Inits
<1>9. AwaitsLatest \in BOOLEAN
  BY <1>6, <1>o, SyncFields DEF AwaitsLatest
<1> QED
  BY <1>4, <1>5, <1>6, <1>7, <1>8, <1>9, <1>o

LEMMA ReceivePageShape ==
    ASSUME Shape, ReceivePage
    PROVE  Shape' /\ Thinned(wire', wire)
<1>1. /\ wire # <<>> /\ Msg.kind = "page"
      /\ queue' = <<>> /\ chat' = Landed /\ cached' = LandedCache /\ sync' = ThirdStart.sync
      /\ forced' = (AwaitsLatest \/ (forced /\ Pg.dir # "tail"))
      /\ noticed' = (noticed /\ Pg.dir # "tail")
      /\ Issue(NextFetch, ~ Landed.synced /\ ~ AwaitsLatest, InitLeft, inbox, Tail(wire))
      /\ UNCHANGED <<daemonVars, up, desired, acked, subRetry, stored, faults>>
  BY ReceivePageNamed
<1>2. /\ Landed \in Chats /\ LandedCache \in Ranges /\ ThirdStart.sync \in Syncs
      /\ AwaitsLatest \in BOOLEAN /\ InitLeft \in Inits /\ NextFetch \in CatchUps
      /\ Landed.synced \in BOOLEAN
  BY <1>1, LandedIs, PageStartsAre, ChatFields
<1> DEFINE fresh == ~ Landed.synced /\ ~ AwaitsLatest
           req == NextFetch
           ws == Tail(wire)
<1>3. /\ fresh \in BOOLEAN /\ req \in Requests /\ req.dir # "before"
      /\ Issue(req, fresh, InitLeft, inbox, ws)
  BY <1>1, <1>2, CatchUpFields
<1>4. inbox \in Seq(Inbound) /\ wire \in Seq(Outbound) /\ ws \in Seq(Outbound) /\ Thinned(ws, wire)
  BY <1>1, PageArrives DEF Shape
<1> HIDE DEF fresh, req, ws
<1>5. inbox' \in Seq(Inbound) /\ wire' \in Seq(Outbound) /\ init' \in Inits /\ Thinned(wire', wire)
  BY <1>2, <1>3, <1>4, IssueShape
<1>6. Daemons(epoch, rows)' /\ Grown(epoch, rows, epoch', rows')
  BY <1>1, StaysGrown DEF daemonVars
<1>7. forced' \in BOOLEAN /\ noticed' \in BOOLEAN
  BY <1>1, <1>2 DEF Shape
<1>8. Shape'
  BY <1>1, <1>2, <1>5, <1>6, <1>7, ShapeKept DEF Shape, daemonVars
<1> QED
  BY <1>5, <1>8

\* The epochs and their rows stay, and messages come in or are dropped.
LEMMA StayShape ==
    ASSUME Shape, UNCHANGED <<epoch, rows>>,
           subscribed' \in BOOLEAN, up' \in BOOLEAN, desired' \in BOOLEAN, acked' \in BOOLEAN,
           subRetry' \in BOOLEAN, forced' \in BOOLEAN, noticed' \in BOOLEAN,
           inbox' \in Seq(Inbound), wire' \in Seq(Outbound), Thinned(wire', wire),
           sync' \in Syncs, init' \in Inits, queue' \in {queue, <<>>}, chat' \in Chats,
           cached' \in Ranges, stored' \in Stores, faults' \in 0 .. MaxFaults
    PROVE  Shape'
<1>1. Daemons(epoch, rows)' /\ Grown(epoch, rows, epoch', rows')
  BY StaysGrown
<1> QED
  BY <1>1, ShapeKept

LEMMA TypesNow ==
    ASSUME Shape
    PROVE  /\ subscribed \in BOOLEAN /\ up \in BOOLEAN /\ desired \in BOOLEAN /\ acked \in BOOLEAN
           /\ subRetry \in BOOLEAN /\ forced \in BOOLEAN /\ noticed \in BOOLEAN
           /\ inbox \in Seq(Inbound) /\ wire \in Seq(Outbound) /\ Thinned(wire, wire)
           /\ sync \in Syncs /\ init \in Inits /\ queue \in Seq(Rows) /\ chat \in Chats
           /\ cached \in Ranges /\ stored \in Stores /\ faults \in 0 .. MaxFaults
           /\ chat.synced \in BOOLEAN /\ chat.range \in Ranges
           /\ CanCatchUp \in BOOLEAN /\ (CanCatchUp <=> up /\ desired /\ acked)
<1>1. wire \in Seq(Outbound) /\ chat \in Chats
  BY DEF Shape
<1> QED
  BY <1>1, ThinnedItself, ChatFields, CanIs DEF Shape

LEMMA FaultSpent ==
    ASSUME Shape, NEW kind, Disturb(kind)
    PROVE  faults' \in 0 .. MaxFaults
  BY BoundsAssumption DEF Shape, Disturb

LEMMA ReceiveNoticeShape ==
    ASSUME Shape, ReceiveNotice
    PROVE  /\ Shape' /\ Thinned(wire', wire) /\ wire # <<>> /\ Head(wire).kind = "notice"
           /\ noticed' = TRUE /\ Issue(TailReq, FALSE, init, inbox, Tail(wire))
           /\ UNCHANGED <<daemonVars, up, desired, acked, subRetry, sync, forced, queue, chat,
                          cached, stored, faults>>
<1>1. /\ wire # <<>> /\ Head(wire).kind = "notice"
      /\ noticed' = TRUE /\ Issue(TailReq, FALSE, init, inbox, Tail(wire))
      /\ UNCHANGED <<daemonVars, up, desired, acked, subRetry, sync, forced, queue, chat,
                     cached, stored, faults>>
  BY DEF ReceiveNotice
<1> DEFINE ws == Tail(wire)
           req == TailReq
           fresh == FALSE
<1>2. ws \in Seq(Outbound) /\ Thinned(ws, wire)
  BY <1>1, TypesNow, ThinnedTail
<1>3. req \in Requests /\ fresh \in BOOLEAN /\ (fresh => req.dir # "before")
      /\ Issue(req, fresh, init, inbox, ws)
  BY <1>1, CatchUpFields DEF Requests
<1> HIDE DEF ws, req, fresh
<1>4. inbox' \in Seq(Inbound) /\ wire' \in Seq(Outbound) /\ init' \in Inits /\ Thinned(wire', wire)
  BY <1>2, <1>3, TypesNow, IssueShape
<1>5. Shape'
  BY <1>1, <1>4, TypesNow, StayShape DEF daemonVars
<1> QED
  BY <1>1, <1>4, <1>5

LEMMA ReceiveFailureShape ==
    ASSUME Shape, ReceiveFailure
    PROVE  /\ Shape' /\ Thinned(wire', wire) /\ wire # <<>> /\ Msg.kind = "fail" /\ Msg.req \in Reqs
           /\ wire' = Tail(wire)
           /\ sync' = IF CanCatchUp /\ sync.status = "running" /\ sync.await = Msg.req
                      THEN Failed(sync) ELSE sync
           /\ init' = IF Msg.fresh THEN "none" ELSE init
           /\ forced' = (forced /\ Msg.req # TailReq) /\ noticed' = (noticed /\ Msg.req # TailReq)
           /\ UNCHANGED <<daemonVars, up, inbox, desired, acked, subRetry, queue, chat, cached,
                          stored, faults>>
<1>1. /\ wire # <<>> /\ Msg.kind = "fail"
      /\ wire' = Tail(wire)
      /\ sync' = IF CanCatchUp /\ sync.status = "running" /\ sync.await = Msg.req
                 THEN Failed(sync) ELSE sync
      /\ init' = IF Msg.fresh THEN "none" ELSE init
      /\ forced' = (forced /\ Msg.req # TailReq) /\ noticed' = (noticed /\ Msg.req # TailReq)
      /\ UNCHANGED <<daemonVars, up, inbox, desired, acked, subRetry, queue, chat, cached,
                     stored, faults>>
  BY DEF ReceiveFailure, Msg
<1>2. Tail(wire) \in Seq(Outbound) /\ Thinned(Tail(wire), wire) /\ Msg \in Outbound
  BY <1>1, TypesNow, ThinnedTail DEF Msg
<1>3. Msg.req \in Reqs
  BY <1>1, <1>2, OutboundFields
<1>4. sync' \in Syncs
  BY <1>1, TypesNow, FailedIs
<1>5. init' \in Inits
  BY <1>1, TypesNow DEF Inits
<1>6. Shape'
  BY <1>1, <1>2, <1>4, <1>5, TypesNow, StayShape DEF daemonVars
<1> QED
  BY <1>1, <1>2, <1>3, <1>6

SubscribedStart == IF Msg.open THEN Owed(sync, up /\ desired, Resume(chat, cached))
                   ELSE [sync |-> sync, fetch |-> NoReq]

\* What is owed begins, or the catch-up stays.
Owing(s, can, resume, d) ==
  \/ /\ d.fetch = NoReq /\ d.sync = s
     /\ \/ ~ can \/ ~ s.loaded \/ s.status \in {"running", "error"}
        \/ s.status = "complete" /\ s.pending = NoReq
  \/ /\ can /\ s.loaded
     /\ s.status = "none" \/ (s.status = "complete" /\ s.pending # NoReq)
     /\ d.fetch = (IF s.pending = NoReq THEN resume ELSE s.pending) /\ d.fetch # NoReq
     /\ Begun(d.sync, s.pending, resume)

LEMMA OwingNow ==
    ASSUME Shape, NEW can \in BOOLEAN, NEW r, r = Resume(chat, cached),
           NEW d, d = Owed(sync, can, r)
    PROVE  d.sync \in Syncs /\ d.fetch \in CatchUps /\ Owing(sync, can, r, d)
<1>1. chat \in Chats /\ cached \in Ranges /\ sync \in Syncs
  BY TypesNow
<1>2. r \in CatchUps /\ r # NoReq
  BY <1>1, ResumeIs
<1> QED
  BY <1>1, <1>2, OwedIs DEF Owing

LEMMA ReceiveSubscribedShape ==
    ASSUME Shape, ReceiveSubscribed
    PROVE  /\ Shape' /\ Thinned(wire', wire) /\ wire # <<>> /\ Msg.kind = "subscribed"
           /\ Msg.open \in BOOLEAN
           /\ acked' = Msg.open /\ sync' = SubscribedStart.sync
           /\ SubscribedStart.sync \in Syncs /\ SubscribedStart.fetch \in CatchUps
           /\ Msg.open => Owing(sync, up /\ desired, Resume(chat, cached), SubscribedStart)
           /\ ~ Msg.open => SubscribedStart.sync = sync /\ SubscribedStart.fetch = NoReq
           /\ Issue(SubscribedStart.fetch, ~ chat.synced, init, inbox, Tail(wire))
           /\ UNCHANGED <<daemonVars, up, desired, subRetry, forced, noticed, queue, chat,
                          cached, stored, faults>>
<1>1. /\ wire # <<>> /\ Msg.kind = "subscribed"
      /\ acked' = Msg.open /\ sync' = SubscribedStart.sync
      /\ Issue(SubscribedStart.fetch, ~ chat.synced, init, inbox, Tail(wire))
      /\ UNCHANGED <<daemonVars, up, desired, subRetry, forced, noticed, queue, chat,
                     cached, stored, faults>>
  BY DEF ReceiveSubscribed, Msg, SubscribedStart
<1>2. Tail(wire) \in Seq(Outbound) /\ Thinned(Tail(wire), wire) /\ Msg \in Outbound
  BY <1>1, TypesNow, ThinnedTail DEF Msg
<1>3. Msg.open \in BOOLEAN
  BY <1>1, <1>2, OutboundFields
<1> DEFINE can == up /\ desired
           r == Resume(chat, cached)
           d == SubscribedStart
           fresh == ~ chat.synced
           req == SubscribedStart.fetch
           ws == Tail(wire)
<1>4. can \in BOOLEAN /\ (can <=> up /\ desired) /\ fresh \in BOOLEAN /\ sync \in Syncs
  BY TypesNow
<1>5. d = IF Msg.open THEN Owed(sync, can, r) ELSE [sync |-> sync, fetch |-> NoReq]
  BY DEF SubscribedStart
<1>6. r = Resume(chat, cached) /\ req = d.fetch
  OBVIOUS
<1>7. ws \in Seq(Outbound) /\ Thinned(ws, wire) /\ Issue(req, fresh, init, inbox, ws)
  BY <1>1, <1>2
<1> HIDE DEF can, r, d, fresh, req, ws
<1>8. /\ d.sync \in Syncs /\ d.fetch \in CatchUps
      /\ Msg.open => Owing(sync, can, r, d)
      /\ ~ Msg.open => d.sync = sync /\ d.fetch = NoReq
  <2>1. CASE Msg.open
    <3>1. d = Owed(sync, can, r)
      BY <1>5, <2>1
    <3>2. d.sync \in Syncs /\ d.fetch \in CatchUps /\ Owing(sync, can, r, d)
      BY <1>4, <1>6, <3>1, OwingNow
    <3> QED
      BY <2>1, <3>2
  <2>2. CASE ~ Msg.open
    <3>1. d = [sync |-> sync, fetch |-> NoReq]
      BY <1>5, <2>2
    <3>2. d.sync = sync /\ d.fetch = NoReq /\ d.sync \in Syncs /\ d.fetch \in CatchUps
      BY <1>4, <3>1, NothingStarts
    <3> QED
      BY <2>2, <3>2
  <2> QED
    BY <2>1, <2>2
<1>9. req \in Requests /\ (fresh => req.dir # "before")
  BY <1>6, <1>8, CatchUpFields
<1>10. inbox' \in Seq(Inbound) /\ wire' \in Seq(Outbound) /\ init' \in Inits /\ Thinned(wire', wire)
  BY <1>4, <1>7, <1>9, TypesNow, IssueShape
<1>11. sync' \in Syncs
  BY <1>1, <1>8 DEF d
<1>12. Shape'
  BY <1>1, <1>3, <1>10, <1>11, TypesNow, StayShape DEF daemonVars
<1>13. Msg.open => Owing(sync, up /\ desired, Resume(chat, cached), SubscribedStart)
  BY <1>8 DEF can, r, d
<1> QED
  BY <1>1, <1>3, <1>8, <1>10, <1>12, <1>13 DEF d

\* The chat as it is painted, or left, when the device has been read.
Paints == ~ chat.synced /\ stored.items # <<>>
PreparedChat == IF Paints THEN Painted(chat, stored) ELSE chat
PreparedCache == IF Paints /\ stored.range # NoRange THEN stored.range ELSE cached
Ready == [sync EXCEPT !.loaded = TRUE]
PrepareStart == Started(Ready, CanCatchUp, Resume(PreparedChat, PreparedCache), Ready.pending,
                        Ready.pending # NoReq)

LEMMA ReadyIs ==
    ASSUME Shape
    PROVE  /\ Ready \in Syncs /\ Ready.loaded = TRUE /\ Ready.status = sync.status
           /\ Ready.req = sync.req /\ Ready.await = sync.await /\ Ready.fallback = sync.fallback
           /\ Ready.latest = sync.latest /\ Ready.pending = sync.pending
<1>1. sync \in Syncs
  BY TypesNow
<1> QED
  BY <1>1 DEF Ready, Syncs

LEMMA PreparedIs ==
    ASSUME Shape
    PROVE  /\ PreparedChat \in Chats /\ PreparedCache \in Ranges
           /\ PreparedChat.synced = chat.synced
           /\ chat.synced => PreparedChat = chat /\ PreparedCache = cached
<1>1. chat \in Chats /\ stored \in Stores /\ cached \in Ranges
  BY TypesNow
<1>2. stored.range \in Ranges
  BY <1>1 DEF Stores
<1>3. Painted(chat, stored) \in Chats /\ Painted(chat, stored).synced = chat.synced
  BY <1>1, PaintedIs
<1> QED
  BY <1>1, <1>2, <1>3 DEF PreparedChat, PreparedCache, Paints

LEMMA PrepareChatShape ==
    ASSUME Shape, PrepareChat
    PROVE  /\ Shape' /\ Thinned(wire', wire) /\ ~ sync.loaded /\ desired
           /\ chat' = PreparedChat /\ cached' = PreparedCache /\ sync' = PrepareStart.sync
           /\ PrepareStart.sync \in Syncs /\ PrepareStart.fetch \in CatchUps
           /\ \E resume \in CatchUps, next \in CatchUps, supersede \in BOOLEAN :
                /\ resume = Resume(PreparedChat, PreparedCache) /\ resume # NoReq
                /\ next = (IF Ready.pending = NoReq THEN resume ELSE Ready.pending) /\ next # NoReq
                /\ (supersede <=> Ready.pending # NoReq)
                /\ Starting(Ready, CanCatchUp, resume, Ready.pending, supersede, next, PrepareStart)
           /\ Issue(PrepareStart.fetch, ~ PreparedChat.synced, init, inbox, wire)
           /\ UNCHANGED <<daemonVars, up, desired, acked, subRetry, forced, noticed, queue,
                          stored, faults>>
<1>1. /\ ~ sync.loaded /\ desired
      /\ chat' = PreparedChat /\ cached' = PreparedCache /\ sync' = PrepareStart.sync
      /\ Issue(PrepareStart.fetch, ~ PreparedChat.synced, init, inbox, wire)
      /\ UNCHANGED <<daemonVars, up, desired, acked, subRetry, forced, noticed, queue,
                     stored, faults>>
  BY DEF PrepareChat, Paints, PreparedChat, PreparedCache, Ready, PrepareStart
<1> DEFINE s == Ready
           can == CanCatchUp
           r == Resume(PreparedChat, PreparedCache)
           owed == s.pending
           supersede == owed # NoReq
           next == IF owed = NoReq THEN r ELSE owed
           d == PrepareStart
           fresh == ~ PreparedChat.synced
           req == PrepareStart.fetch
<1>2. /\ PreparedChat \in Chats /\ PreparedCache \in Ranges /\ s \in Syncs /\ can \in BOOLEAN
      /\ PreparedChat.synced \in BOOLEAN
  BY PreparedIs, ReadyIs, TypesNow, ChatFields
<1>3. r \in CatchUps /\ r # NoReq /\ owed \in CatchUps
  BY <1>2, ResumeIs, SyncFields
<1>4. supersede \in BOOLEAN /\ fresh \in BOOLEAN /\ (supersede <=> owed # NoReq)
  BY <1>2
<1>5. next = IF owed = NoReq THEN r ELSE owed
  OBVIOUS
<1>6. d = Started(s, can, r, owed, supersede)
  BY DEF PrepareStart
<1>7. req = d.fetch /\ Issue(req, fresh, init, inbox, wire) /\ r = Resume(PreparedChat, PreparedCache)
      /\ owed = s.pending
  BY <1>1
<1> HIDE DEF s, can, r, owed, supersede, next, d, fresh, req
<1>8. /\ d.sync \in Syncs /\ d.fetch \in CatchUps /\ next \in CatchUps /\ next # NoReq
      /\ Starting(s, can, r, owed, supersede, next, d)
  BY <1>2, <1>3, <1>4, <1>5, <1>6, StartedIs
<1>9. req \in Requests /\ (fresh => req.dir # "before")
  BY <1>7, <1>8, CatchUpFields
<1>10. inbox' \in Seq(Inbound) /\ wire' \in Seq(Outbound) /\ init' \in Inits /\ Thinned(wire', wire)
  BY <1>4, <1>7, <1>9, TypesNow, IssueShape
<1>11. sync' \in Syncs
  BY <1>1, <1>8 DEF d
<1>12. Shape'
  BY <1>1, <1>2, <1>10, <1>11, TypesNow, StayShape DEF daemonVars
<1>13. \E resume \in CatchUps, nxt \in CatchUps, sup \in BOOLEAN :
                /\ resume = Resume(PreparedChat, PreparedCache) /\ resume # NoReq
                /\ nxt = (IF Ready.pending = NoReq THEN resume ELSE Ready.pending) /\ nxt # NoReq
                /\ (sup <=> Ready.pending # NoReq)
                /\ Starting(Ready, CanCatchUp, resume, Ready.pending, sup, nxt, PrepareStart)
  <2>1. /\ r = Resume(PreparedChat, PreparedCache) /\ r # NoReq
        /\ next = (IF Ready.pending = NoReq THEN r ELSE Ready.pending) /\ next # NoReq
        /\ (supersede <=> Ready.pending # NoReq)
    BY <1>3, <1>4, <1>5, <1>7, <1>8 DEF s
  <2>2. Starting(Ready, CanCatchUp, r, Ready.pending, supersede, next, PrepareStart)
    BY <1>7, <1>8 DEF s, can, d
  <2> QED
    BY <1>3, <1>4, <1>8, <2>1, <2>2
<1> QED
  BY <1>1, <1>8, <1>10, <1>12, <1>13 DEF d

\* The retry and the return to the foreground start the catch-up again.
RetryStart(manual) == Started(sync, CanCatchUp, Resume(chat, cached),
                              IF manual THEN sync.req ELSE NoReq, manual)
ForegroundStart == Started(sync, CanCatchUp, Resume(chat, cached), NoReq, TRUE)

LEMMA StartingNow ==
    ASSUME Shape, NEW req \in CatchUps, NEW supersede \in BOOLEAN,
           NEW resume, resume = Resume(chat, cached),
           NEW next, next = IF req = NoReq THEN resume ELSE req,
           NEW d, d = Started(sync, CanCatchUp, resume, req, supersede)
    PROVE  /\ d.sync \in Syncs /\ d.fetch \in CatchUps /\ next \in CatchUps /\ next # NoReq
           /\ resume \in CatchUps /\ resume # NoReq
           /\ Starting(sync, CanCatchUp, resume, req, supersede, next, d)
<1> DEFINE can == CanCatchUp
<1>1. can \in BOOLEAN /\ sync \in Syncs /\ chat \in Chats /\ cached \in Ranges
  BY TypesNow
<1>2. d = Started(sync, can, resume, req, supersede) /\ can = CanCatchUp
  OBVIOUS
<1> HIDE DEF can
<1>3. resume \in CatchUps /\ resume # NoReq
  BY <1>1, ResumeIs
<1>4. d = Started(sync, can, resume, req, supersede)
  BY <1>2
<1>5. next = IF req = NoReq THEN resume ELSE req
  OBVIOUS
<1>6. /\ d.sync \in Syncs /\ d.fetch \in CatchUps /\ next \in CatchUps /\ next # NoReq
      /\ Starting(sync, can, resume, req, supersede, next, d)
  BY <1>1, <1>3, <1>4, <1>5, StartedIs
<1> QED
  BY <1>2, <1>3, <1>6

\* A catch-up that is started by an action that changes nothing else.
LEMMA StartShape ==
    ASSUME Shape, NEW d, d.sync \in Syncs, d.fetch \in CatchUps, sync' = d.sync,
           Issue(d.fetch, ~ chat.synced, init, inbox, wire),
           UNCHANGED <<daemonVars, up, desired, acked, subRetry, forced, noticed, queue,
                       chat, cached, stored>>,
           faults' \in 0 .. MaxFaults
    PROVE  Shape' /\ Thinned(wire', wire)
<1> DEFINE fresh == ~ chat.synced
           req == d.fetch
<1>1. req \in Requests /\ fresh \in BOOLEAN /\ (fresh => req.dir # "before")
      /\ Issue(req, fresh, init, inbox, wire)
  BY CatchUpFields, TypesNow
<1> HIDE DEF fresh, req
<1>2. inbox' \in Seq(Inbound) /\ wire' \in Seq(Outbound) /\ init' \in Inits /\ Thinned(wire', wire)
  BY <1>1, TypesNow, IssueShape
<1> QED
  BY <1>2, TypesNow, StayShape DEF daemonVars

LEMMA RetryShape ==
    ASSUME Shape, NEW manual \in BOOLEAN, Retry(manual)
    PROVE  /\ Shape' /\ Thinned(wire', wire) /\ sync.status = "error" /\ CanCatchUp
           /\ manual => chat.synced \/ sync.req = TailReq \/ "retry" \in Lapses
           /\ \E d : \E req \in CatchUps, next \in CatchUps, resume \in CatchUps :
                /\ req = (IF manual THEN sync.req ELSE NoReq)
                /\ resume = Resume(chat, cached) /\ resume # NoReq
                /\ next = (IF req = NoReq THEN resume ELSE req) /\ next # NoReq
                /\ d.sync \in Syncs /\ d.fetch \in CatchUps
                /\ Starting(sync, CanCatchUp, resume, req, manual, next, d)
                /\ sync' = d.sync /\ Issue(d.fetch, ~ chat.synced, init, inbox, wire)
           /\ UNCHANGED <<daemonVars, up, desired, acked, subRetry, forced, noticed, queue,
                          chat, cached, stored, faults>>
<1> DEFINE d == RetryStart(manual)
           req == IF manual THEN sync.req ELSE NoReq
           resume == Resume(chat, cached)
           next == IF req = NoReq THEN resume ELSE req
<1>1. /\ sync.status = "error" /\ CanCatchUp
      /\ manual => chat.synced \/ sync.req = TailReq \/ "retry" \in Lapses
      /\ sync' = d.sync /\ Issue(d.fetch, ~ chat.synced, init, inbox, wire)
      /\ UNCHANGED <<daemonVars, up, desired, acked, subRetry, forced, noticed, queue,
                     chat, cached, stored, faults>>
  BY DEF Retry, RetryStart
<1>2. sync \in Syncs /\ sync.req \in CatchUps /\ NoReq \in CatchUps
  BY TypesNow, SyncFields DEF CatchUps
<1>3. req \in CatchUps /\ (req = IF manual THEN sync.req ELSE NoReq)
  BY <1>2
<1>4. next = IF req = NoReq THEN resume ELSE req
  OBVIOUS
<1>5. d = Started(sync, CanCatchUp, resume, req, manual)
  BY DEF RetryStart
<1>6. resume = Resume(chat, cached)
  OBVIOUS
<1> HIDE DEF d, req, resume, next
<1>7. /\ d.sync \in Syncs /\ d.fetch \in CatchUps /\ next \in CatchUps /\ next # NoReq
      /\ resume \in CatchUps /\ resume # NoReq
      /\ Starting(sync, CanCatchUp, resume, req, manual, next, d)
  BY <1>3, <1>4, <1>5, <1>6, StartingNow
<1>8. Shape' /\ Thinned(wire', wire)
  BY <1>1, <1>7, TypesNow, StartShape
<1> QED
  BY <1>1, <1>3, <1>4, <1>6, <1>7, <1>8

LEMMA ForegroundShape ==
    ASSUME Shape, Foreground
    PROVE  /\ Shape' /\ Thinned(wire', wire) /\ desired
           /\ \E d : \E next \in CatchUps :
                /\ next = Resume(chat, cached) /\ next # NoReq
                /\ d.sync \in Syncs /\ d.fetch \in CatchUps
                /\ Starting(sync, CanCatchUp, next, NoReq, TRUE, next, d)
                /\ sync' = d.sync /\ Issue(d.fetch, ~ chat.synced, init, inbox, wire)
           /\ UNCHANGED <<daemonVars, up, desired, acked, subRetry, forced, noticed, queue,
                          chat, cached, stored>>
<1> DEFINE d == ForegroundStart
           req == NoReq
           sup == TRUE
           resume == Resume(chat, cached)
           next == IF req = NoReq THEN resume ELSE req
<1>1. /\ desired /\ Disturb("foreground")
      /\ sync' = d.sync /\ Issue(d.fetch, ~ chat.synced, init, inbox, wire)
      /\ UNCHANGED <<daemonVars, up, desired, acked, subRetry, forced, noticed, queue,
                     chat, cached, stored>>
  BY DEF Foreground, ForegroundStart
<1>3. req \in CatchUps /\ req = NoReq /\ sup \in BOOLEAN /\ sup = TRUE /\ next = resume
  BY DEF CatchUps
<1>4. next = IF req = NoReq THEN resume ELSE req
  OBVIOUS
<1>5. d = Started(sync, CanCatchUp, resume, req, sup)
  BY DEF ForegroundStart
<1>6. resume = Resume(chat, cached)
  OBVIOUS
<1> HIDE DEF d, req, resume, next, sup
<1>7. /\ d.sync \in Syncs /\ d.fetch \in CatchUps /\ next \in CatchUps /\ next # NoReq
      /\ resume \in CatchUps /\ resume # NoReq
      /\ Starting(sync, CanCatchUp, resume, req, sup, next, d)
  BY <1>3, <1>4, <1>5, <1>6, StartingNow
<1>8. Shape' /\ Thinned(wire', wire)
  BY <1>1, <1>7, FaultSpent, StartShape
<1>9. Starting(sync, CanCatchUp, next, NoReq, TRUE, next, d)
  BY <1>3, <1>7
<1> QED
  BY <1>1, <1>3, <1>6, <1>7, <1>8, <1>9

LEMMA LoadOlderShape ==
    ASSUME Shape, LoadOlder
    PROVE  /\ Shape' /\ Thinned(wire', wire)
           /\ up /\ chat.synced /\ chat.range # NoRange
           /\ BeforeReq(chat.range.epoch, chat.range.start) \in Reqs
           /\ BeforeReq(chat.range.epoch, chat.range.start).dir = "before"
           /\ Issue(BeforeReq(chat.range.epoch, chat.range.start), FALSE, init, inbox, wire)
           /\ UNCHANGED <<daemonVars, up, desired, acked, subRetry, sync, forced, noticed,
                          queue, chat, cached, stored>>
<1> DEFINE req == BeforeReq(chat.range.epoch, chat.range.start)
           fresh == FALSE
<1>1. /\ Disturb("older") /\ up /\ chat.synced /\ chat.range # NoRange
      /\ Issue(req, fresh, init, inbox, wire)
      /\ UNCHANGED <<daemonVars, up, desired, acked, subRetry, sync, forced, noticed,
                     queue, chat, cached, stored>>
  BY DEF LoadOlder
<1>2. chat.range.epoch \in 1 .. MaxEpoch /\ chat.range.start \in 1 .. MaxRows
  BY <1>1, TypesNow DEF Ranges
<1>3. req \in Reqs /\ req \in Requests /\ req.dir = "before" /\ fresh \in BOOLEAN /\ ~ fresh
  BY <1>2 DEF BeforeReq, Reqs, Requests, NoReq
<1>4. Issue(req, fresh, init, inbox, wire)
  BY <1>1
<1>5. Issue(req, FALSE, init, inbox, wire)
  BY <1>1
<1>6. req = BeforeReq(chat.range.epoch, chat.range.start)
  OBVIOUS
<1> HIDE DEF req, fresh
<1>7. inbox' \in Seq(Inbound) /\ wire' \in Seq(Outbound) /\ init' \in Inits /\ Thinned(wire', wire)
  BY <1>3, <1>4, TypesNow, IssueShape
<1>8. Shape'
  BY <1>1, <1>7, FaultSpent, TypesNow, StayShape DEF daemonVars
<1> QED
  BY <1>1, <1>3, <1>5, <1>6, <1>7, <1>8

LEMMA CancelledIs ==
    ASSUME NEW s \in Syncs
    PROVE  /\ Cancelled(s) \in Syncs /\ Cancelled(s).status = "none"
           /\ Cancelled(s).req = NoReq /\ Cancelled(s).await = NoReq /\ Cancelled(s).pending = NoReq
           /\ Cancelled(s).fallback = FALSE /\ Cancelled(s).latest = FALSE
           /\ Cancelled(s).loaded = s.loaded
           /\ NoSync \in Syncs /\ NoSync.status = "none" /\ NoSync.pending = NoReq
           /\ NoSync.req = NoReq /\ NoSync.await = NoReq
           /\ NoSync.fallback = FALSE /\ NoSync.latest = FALSE /\ NoSync.loaded = FALSE
<1>1. s.loaded \in BOOLEAN /\ NoReq \in CatchUps
  BY SyncFields DEF CatchUps
<1> QED
  BY <1>1 DEF Cancelled, NoSync, Syncs

\* What is left when the chats are subscribed anew.
LEMMA ObservedIs ==
    ASSUME Shape, NEW open \in BOOLEAN, NEW box, NEW ws,
           box = Append(OfKind(inbox, {"fetch"}), [kind |-> "subscribe", open |-> open]),
           ws = OfKind(wire, {"page", "fail"})
    PROVE  box \in Seq(Inbound) /\ ws \in Seq(Outbound) /\ Thinned(ws, wire)
<1> DEFINE b == OfKind(inbox, {"fetch"})
           m == [kind |-> "subscribe", open |-> open]
<1>1. inbox \in Seq(Inbound) /\ wire \in Seq(Outbound)
  BY TypesNow
<1>2. b \in Seq(Inbound) /\ ws \in Seq(Outbound) /\ Thinned(ws, wire)
  BY <1>1, OfKindIs
<1>3. m \in Inbound
  BY DEF Inbound, SubscribeMsgs
<1> HIDE DEF b, m
<1>4. Append(b, m) \in Seq(Inbound)
  BY <1>2, <1>3
<1> QED
  BY <1>2, <1>4 DEF b, m

LEMMA ObserveShape ==
    ASSUME Shape, NEW open \in BOOLEAN, Observe(open)
    PROVE  /\ inbox' \in Seq(Inbound) /\ wire' \in Seq(Outbound) /\ Thinned(wire', wire)
           /\ subscribed' = FALSE /\ subRetry' = FALSE
           /\ inbox' = Append(OfKind(inbox, {"fetch"}), [kind |-> "subscribe", open |-> open])
           /\ wire' = OfKind(wire, {"page", "fail"})
<1> DEFINE box == inbox'
           ws == wire'
<1>1. /\ box = Append(OfKind(inbox, {"fetch"}), [kind |-> "subscribe", open |-> open])
      /\ ws = OfKind(wire, {"page", "fail"})
      /\ subscribed' = FALSE /\ subRetry' = FALSE
  BY DEF Observe
<1> HIDE DEF box, ws
<1>2. box \in Seq(Inbound) /\ ws \in Seq(Outbound) /\ Thinned(ws, wire)
  BY <1>1, ObservedIs
<1> QED
  BY <1>1, <1>2 DEF box, ws

LEMMA CloseChatShape ==
    ASSUME Shape, CloseChat
    PROVE  /\ Shape' /\ Thinned(wire', wire) /\ Observe(FALSE)
           /\ desired /\ up /\ (Idle \/ "resubscribe" \in Lapses)
           /\ desired' = FALSE /\ sync' = Cancelled(sync)
           /\ UNCHANGED <<epoch, rows, up, acked, forced, noticed, init, queue, chat, cached, stored>>
<1>1. /\ Disturb("membership") /\ Observe(FALSE)
      /\ desired /\ up /\ (Idle \/ "resubscribe" \in Lapses)
      /\ desired' = FALSE /\ sync' = Cancelled(sync)
      /\ UNCHANGED <<epoch, rows, up, acked, forced, noticed, init, queue, chat, cached, stored>>
  BY DEF CloseChat
<1>2. inbox' \in Seq(Inbound) /\ wire' \in Seq(Outbound) /\ Thinned(wire', wire)
      /\ subscribed' = FALSE /\ subRetry' = FALSE
  BY <1>1, ObserveShape
<1>3. Shape'
  BY <1>1, <1>2, FaultSpent, CancelledIs, TypesNow, StayShape
<1> QED
  BY <1>1, <1>2, <1>3

OpenStart == Owed(sync, up /\ acked, Resume(chat, cached))

LEMMA OpenChatShape ==
    ASSUME Shape, OpenChat
    PROVE  /\ Shape' /\ Thinned(wire', wire)
           /\ ~ desired /\ up /\ (Idle \/ "resubscribe" \in Lapses)
           /\ desired' = TRUE /\ sync' = OpenStart.sync
           /\ subscribed' = FALSE /\ subRetry' = FALSE
           /\ OpenStart.sync \in Syncs /\ OpenStart.fetch \in CatchUps
           /\ Owing(sync, up /\ acked, Resume(chat, cached), OpenStart)
           /\ Issue(OpenStart.fetch, ~ chat.synced, init,
                    Append(OfKind(inbox, {"fetch"}), [kind |-> "subscribe", open |-> TRUE]),
                    OfKind(wire, {"page", "fail"}))
           /\ UNCHANGED <<epoch, rows, up, acked, forced, noticed, queue, chat, cached,
                          stored, faults>>
<1> DEFINE can == up /\ acked
           r == Resume(chat, cached)
           d == OpenStart
           fresh == ~ chat.synced
           req == OpenStart.fetch
           open == TRUE
           box == Append(OfKind(inbox, {"fetch"}), [kind |-> "subscribe", open |-> open])
           ws == OfKind(wire, {"page", "fail"})
<1>1. /\ ~ desired /\ up /\ (Idle \/ "resubscribe" \in Lapses)
      /\ desired' = TRUE /\ sync' = d.sync
      /\ subscribed' = FALSE /\ subRetry' = FALSE
      /\ Issue(d.fetch, ~ chat.synced, init, box, ws)
      /\ UNCHANGED <<epoch, rows, up, acked, forced, noticed, queue, chat, cached,
                     stored, faults>>
  BY DEF OpenChat, OpenStart
<1>2. can \in BOOLEAN /\ (can <=> up /\ acked) /\ fresh \in BOOLEAN /\ open \in BOOLEAN
  BY TypesNow
<1>3. r = Resume(chat, cached) /\ req = d.fetch
  OBVIOUS
<1>4. d = Owed(sync, can, r)
  BY DEF OpenStart
<1>5. Issue(req, fresh, init, box, ws)
  BY <1>1
<1>6. box = Append(OfKind(inbox, {"fetch"}), [kind |-> "subscribe", open |-> open])
  OBVIOUS
<1>7. ws = OfKind(wire, {"page", "fail"})
  OBVIOUS
<1> HIDE DEF can, r, d, fresh, req, open, box, ws
<1>8. d.sync \in Syncs /\ d.fetch \in CatchUps /\ Owing(sync, can, r, d)
  <2>1. r = Resume(chat, cached)
    BY <1>3
  <2> QED
    BY <1>2, <1>4, <2>1, OwingNow
<1>9. req \in Requests /\ (fresh => req.dir # "before")
  BY <1>3, <1>8, CatchUpFields
<1>10. box \in Seq(Inbound) /\ ws \in Seq(Outbound) /\ Thinned(ws, wire)
  BY <1>2, <1>6, <1>7, ObservedIs
<1>11. inbox' \in Seq(Inbound) /\ wire' \in Seq(Outbound) /\ init' \in Inits /\ Thinned(wire', wire)
  BY <1>2, <1>5, <1>9, <1>10, TypesNow, IssueShape
<1>12. Shape'
  BY <1>1, <1>8, <1>11, TypesNow, StayShape
<1>13. Owing(sync, up /\ acked, Resume(chat, cached), OpenStart)
  BY <1>8 DEF can, r, d
<1>14. Issue(OpenStart.fetch, ~ chat.synced, init,
             Append(OfKind(inbox, {"fetch"}), [kind |-> "subscribe", open |-> TRUE]),
             OfKind(wire, {"page", "fail"}))
  BY <1>1 DEF d, box, ws, open
<1> QED
  BY <1>1, <1>8, <1>11, <1>12, <1>13, <1>14 DEF d

LEMMA OtherChatShape ==
    ASSUME Shape, OtherChat
    PROVE  /\ Shape' /\ Thinned(wire', wire) /\ Observe(TRUE)
           /\ desired /\ up /\ (Idle \/ "resubscribe" \in Lapses)
           /\ UNCHANGED <<epoch, rows, up, desired, acked, sync, forced, noticed, init, queue,
                          chat, cached, stored>>
<1>1. /\ Disturb("membership") /\ Observe(TRUE)
      /\ desired /\ up /\ (Idle \/ "resubscribe" \in Lapses)
      /\ UNCHANGED <<epoch, rows, up, desired, acked, sync, forced, noticed, init, queue,
                     chat, cached, stored>>
  BY DEF OtherChat
<1>2. inbox' \in Seq(Inbound) /\ wire' \in Seq(Outbound) /\ Thinned(wire', wire)
      /\ subscribed' = FALSE /\ subRetry' = FALSE
  BY <1>1, ObserveShape
<1>3. Shape'
  BY <1>1, <1>2, FaultSpent, TypesNow, StayShape
<1> QED
  BY <1>1, <1>2, <1>3

LEMMA RefuseSubscriptionShape ==
    ASSUME Shape, NEW i \in DOMAIN inbox, RefuseSubscription(i)
    PROVE  /\ Shape' /\ Thinned(wire', wire)
           /\ inbox[i].kind = "subscribe" /\ inbox[i].open \in BOOLEAN
           /\ inbox' = Without(inbox, i) /\ subRetry' = inbox[i].open
           /\ UNCHANGED <<daemonVars, up, wire, desired, acked, sync, forced, noticed, init, queue,
                          chat, cached, stored>>
<1>1. /\ Disturb("fail") /\ inbox[i].kind = "subscribe"
      /\ inbox' = Without(inbox, i) /\ subRetry' = inbox[i].open
      /\ UNCHANGED <<daemonVars, up, wire, desired, acked, sync, forced, noticed, init, queue,
                     chat, cached, stored>>
  BY DEF RefuseSubscription
<1>2. inbox \in Seq(Inbound)
  BY TypesNow
<1>3. inbox[i] \in Inbound /\ inbox' \in Seq(Inbound)
  BY <1>1, <1>2, RemovedIs
<1>4. inbox[i].open \in BOOLEAN
  BY <1>1, <1>3, InboundFields
<1>5. Shape'
  BY <1>1, <1>3, <1>4, FaultSpent, TypesNow, StayShape DEF daemonVars
<1> QED
  BY <1>1, <1>4, <1>5, TypesNow

LEMMA RetrySubscriptionShape ==
    ASSUME Shape, RetrySubscription
    PROVE  /\ Shape' /\ Thinned(wire', wire) /\ Observe(TRUE) /\ subRetry /\ up /\ desired
           /\ UNCHANGED <<epoch, rows, up, desired, acked, sync, forced, noticed, init, queue,
                          chat, cached, stored, faults>>
<1>1. /\ Observe(TRUE) /\ subRetry /\ up /\ desired
      /\ UNCHANGED <<epoch, rows, up, desired, acked, sync, forced, noticed, init, queue,
                     chat, cached, stored, faults>>
  BY DEF RetrySubscription
<1>2. inbox' \in Seq(Inbound) /\ wire' \in Seq(Outbound) /\ Thinned(wire', wire)
      /\ subscribed' = FALSE /\ subRetry' = FALSE
  BY <1>1, ObserveShape
<1>3. Shape'
  BY <1>1, <1>2, TypesNow, StayShape
<1> QED
  BY <1>1, <1>2, <1>3

LEMMA NothingLeft ==
    ASSUME Unlinked
    PROVE  /\ up' = FALSE /\ subscribed' = FALSE /\ inbox' = <<>> /\ wire' = <<>>
           /\ inbox' \in Seq(Inbound) /\ wire' \in Seq(Outbound) /\ Thinned(wire', wire)
<1>1. up' = FALSE /\ subscribed' = FALSE /\ inbox' = <<>> /\ wire' = <<>>
  BY DEF Unlinked
<1>2. <<>> \in Seq(Inbound) /\ <<>> \in Seq(Outbound) /\ Thinned(<<>>, wire)
  BY ThinnedNone
<1> QED
  BY <1>1, <1>2

LEMMA DisconnectShape ==
    ASSUME Shape, Disconnect
    PROVE  /\ Shape' /\ Thinned(wire', wire) /\ Unlinked /\ up
           /\ ~ Blank \/ rows[epoch] = <<>> \/ "blank" \in Lapses
           /\ acked' = FALSE /\ subRetry' = FALSE /\ forced' = FALSE /\ noticed' = FALSE
           /\ sync' = Cancelled(sync) /\ init' \in {"none", init}
           /\ UNCHANGED <<epoch, rows, desired, queue, chat, cached, stored>>
<1>1. /\ Disturb("link") /\ Unlinked /\ up
      /\ ~ Blank \/ rows[epoch] = <<>> \/ "blank" \in Lapses
      /\ acked' = FALSE /\ subRetry' = FALSE /\ forced' = FALSE /\ noticed' = FALSE
      /\ sync' = Cancelled(sync) /\ init' \in {"none", init}
      /\ UNCHANGED <<epoch, rows, desired, queue, chat, cached, stored>>
  BY DEF Disconnect
<1>2. init' \in Inits
  BY <1>1, TypesNow DEF Inits
<1>3. /\ up' = FALSE /\ subscribed' = FALSE
      /\ inbox' \in Seq(Inbound) /\ wire' \in Seq(Outbound) /\ Thinned(wire', wire)
  BY <1>1, NothingLeft
<1>4. Shape'
  BY <1>1, <1>2, <1>3, FaultSpent, CancelledIs, TypesNow, StayShape
<1> QED
  BY <1>1, <1>3, <1>4

LEMMA ConnectShape ==
    ASSUME Shape, Connect
    PROVE  /\ Shape' /\ Thinned(wire', wire) /\ ~ up /\ up' = TRUE
           /\ IF desired THEN Observe(TRUE)
              ELSE UNCHANGED <<inbox, wire, subscribed, subRetry>>
           /\ UNCHANGED <<epoch, rows, desired, acked, sync, forced, noticed, init, queue, chat,
                          cached, stored, faults>>
<1>1. /\ ~ up /\ up' = TRUE
      /\ IF desired THEN Observe(TRUE)
         ELSE UNCHANGED <<inbox, wire, subscribed, subRetry>>
      /\ UNCHANGED <<epoch, rows, desired, acked, sync, forced, noticed, init, queue, chat,
                     cached, stored, faults>>
  BY DEF Connect
<1>2. /\ inbox' \in Seq(Inbound) /\ wire' \in Seq(Outbound) /\ Thinned(wire', wire)
      /\ subscribed' \in BOOLEAN /\ subRetry' \in BOOLEAN
  <2>1. CASE desired
    BY <1>1, <2>1, ObserveShape
  <2>2. CASE ~ desired
    BY <1>1, <2>2, TypesNow
  <2> QED
    BY <2>1, <2>2
<1>3. Shape'
  BY <1>1, <1>2, TypesNow, StayShape
<1> QED
  BY <1>1, <1>2, <1>3

LEMMA ShownType ==
    ASSUME NEW c \in Chats
    PROVE  Shown(c) \in Seq(ShownItems) /\ Snapshot(c) \in Stores
<1>1. c.items \in Seq(ShownItems) /\ c.head \in Seq(ShownItems) /\ c.range \in Ranges
      /\ c.synced \in BOOLEAN /\ c.older \in BOOLEAN
  BY ChatFields
<1>2. Shown(c) \in Seq(ShownItems)
  BY <1>1 DEF Shown
<1>3. NoRange \in Ranges
  BY DEF Ranges
<1> QED
  BY <1>1, <1>2, <1>3 DEF Snapshot, Stores

LEMMA NoChatIs ==
    /\ NoChat \in Chats /\ NoChat.synced = FALSE /\ NoChat.range = NoRange
    /\ NoChat.newer = FALSE /\ NoChat.items = <<>> /\ NoChat.head = <<>> /\ NoRange \in Ranges
<1>1. <<>> \in Seq(ShownItems) /\ NoRange \in Ranges
  BY DEF Ranges
<1> QED
  BY <1>1 DEF NoChat, Chats

LEMMA RestartShape ==
    ASSUME Shape, Restart
    PROVE  /\ Shape' /\ Thinned(wire', wire) /\ Unlinked
           /\ stored' \in {stored, Snapshot(chat)}
           /\ stored' = stored \/ Shown(chat) # <<>>
           /\ desired' = TRUE
           /\ acked' = FALSE /\ subRetry' = FALSE /\ forced' = FALSE /\ noticed' = FALSE
           /\ init' = "none" /\ queue' = <<>>
           /\ sync' = NoSync /\ chat' = NoChat /\ cached' = NoRange
           /\ UNCHANGED <<epoch, rows>>
<1>1. /\ Disturb("restart") /\ Unlinked
      /\ stored' \in {stored, Snapshot(chat)} /\ (stored' = stored \/ Shown(chat) # <<>>)
      /\ desired' = TRUE
      /\ acked' = FALSE /\ subRetry' = FALSE /\ forced' = FALSE /\ noticed' = FALSE
      /\ init' = "none" /\ queue' = <<>>
      /\ sync' = NoSync /\ chat' = NoChat /\ cached' = NoRange
      /\ UNCHANGED <<epoch, rows>>
  BY DEF Restart
<1>2. /\ up' = FALSE /\ subscribed' = FALSE
      /\ inbox' \in Seq(Inbound) /\ wire' \in Seq(Outbound) /\ Thinned(wire', wire)
  BY <1>1, NothingLeft
<1>3. stored' \in Stores
  BY <1>1, TypesNow, ShownType
<1>4. sync' \in Syncs /\ chat' \in Chats /\ cached' \in Ranges /\ init' \in Inits
      /\ queue' \in {queue, <<>>}
  BY <1>1, TypesNow, CancelledIs, NoChatIs DEF Inits
<1>5. Shape'
  BY <1>1, <1>2, <1>3, <1>4, FaultSpent, StayShape
<1> QED
  BY <1>1, <1>2, <1>5

\* The first state has its shape.
LEMMA InitShape ==
    ASSUME Init
    PROVE  Shape
<1>1. <<>> \in Histories /\ Len(<<>>) = 0
  BY DEF Histories
<1>2. Daemons(epoch, rows)
  BY <1>1, BoundsAssumption DEF Init, Daemons
<1>3. inbox \in Seq(Inbound) /\ wire \in Seq(Outbound) /\ queue \in Seq(Rows)
      /\ wire = <<>> /\ queue = <<>>
  BY DEF Init
<1>4. sync \in Syncs /\ init \in Inits
  <2>1. NoSync \in Syncs
    BY DEF NoSync, Syncs, CatchUps
  <2> QED
    BY <2>1 DEF Init, Inits
<1>5. chat \in Chats /\ cached \in Ranges /\ stored \in Stores
  BY NoChatIs, ShownType DEF Init
<1>6. DOMAIN <<>> = {}
  OBVIOUS
<1>7. Kept(wire, queue, epoch, rows)
  BY <1>3, <1>6 DEF Kept
<1>8. /\ subscribed \in BOOLEAN /\ up \in BOOLEAN /\ desired \in BOOLEAN /\ acked \in BOOLEAN
      /\ subRetry \in BOOLEAN /\ forced \in BOOLEAN /\ noticed \in BOOLEAN
  BY DEF Init
<1>9. faults \in 0 .. MaxFaults
  BY BoundsAssumption DEF Init
<1> QED
  BY <1>2, <1>3, <1>4, <1>5, <1>7, <1>8, <1>9 DEF Shape

\* Every step keeps the shape of things.
LEMMA NextShape ==
    ASSUME Shape, [Next]_vars
    PROVE  Shape'
<1>1. CASE Answer
  BY <1>1, AnswerShape
<1>2. ASSUME NEW i \in DOMAIN inbox, Subscribe(i) PROVE Shape'
  BY <1>2, SubscribeShape
<1>3. CASE ReceiveRow
  BY <1>3, ReceiveRowShape
<1>4. CASE FlushQueue
  BY <1>4, FlushQueueShape
<1>5. CASE ReceiveNotice
  BY <1>5, ReceiveNoticeShape
<1>6. CASE ReceivePage
  BY <1>6, ReceivePageShape
<1>7. CASE ReceiveFailure
  BY <1>7, ReceiveFailureShape
<1>8. CASE ReceiveSubscribed
  BY <1>8, ReceiveSubscribedShape
<1>9. CASE PrepareChat
  BY <1>9, PrepareChatShape
<1>10. ASSUME NEW manual \in BOOLEAN, Retry(manual) PROVE Shape'
  BY <1>10, RetryShape
<1>11. CASE RetrySubscription
  BY <1>11, RetrySubscriptionShape
<1>12. CASE Connect
  BY <1>12, ConnectShape
<1>13. ASSUME NEW a \in NextAnchors(rows[epoch]), AppendRow(a) PROVE Shape'
  BY <1>13, AppendRowShape
<1>14. ASSUME NEW k \in 0 .. MaxRows, Rewind(k) PROVE Shape'
  BY <1>14, RewindShape
<1>15. CASE Reload
  BY <1>15, ReloadShape
<1>16. CASE Refuse
  BY <1>16, RefuseShape
<1>17. ASSUME NEW i \in DOMAIN inbox, RefuseSubscription(i) PROVE Shape'
  BY <1>17, RefuseSubscriptionShape
<1>18. CASE Foreground
  BY <1>18, ForegroundShape
<1>19. CASE LoadOlder
  BY <1>19, LoadOlderShape
<1>20. CASE CloseChat
  BY <1>20, CloseChatShape
<1>21. CASE OpenChat
  BY <1>21, OpenChatShape
<1>22. CASE OtherChat
  BY <1>22, OtherChatShape
<1>23. CASE Disconnect
  BY <1>23, DisconnectShape
<1>24. CASE Restart
  BY <1>24, RestartShape
<1>25. CASE UNCHANGED vars
  <2>1. UNCHANGED <<epoch, rows, subscribed, up, inbox, wire, desired, acked, subRetry, sync,
                    forced, noticed, init, queue, chat, cached, stored, faults>>
    BY <1>25 DEF vars, daemonVars, linkVars, appVars
  <2> QED
    BY <2>1, TypesNow, StayShape
<1> QED
  BY <1>1, <1>2, <1>3, <1>4, <1>5, <1>6, <1>7, <1>8, <1>9, <1>10, <1>11, <1>12, <1>13, <1>14,
     <1>15, <1>16, <1>17, <1>18, <1>19, <1>20, <1>21, <1>22, <1>23, <1>24, <1>25
     DEF Next, Internal, External

LEMMA ShapeTyped ==
    ASSUME Shape
    PROVE  TypeOK
<1>1. /\ epoch \in 1 .. MaxEpoch /\ rows \in [1 .. MaxEpoch -> Histories]
      /\ \A e \in 1 .. MaxEpoch : Len(rows[e]) <= MaxRows
  BY DEF Shape, Daemons
<1>2. ASSUME NEW e \in 1 .. MaxEpoch
      PROVE  /\ Len(rows[e]) <= MaxRows
             /\ \A s \in DOMAIN rows[e] : rows[e][s] \in 1 .. s /\ rows[e][rows[e][s]] = rows[e][s]
  <2>1. rows[e] \in Histories
    BY <1>1
  <2> QED
    BY <1>1, <2>1 DEF Histories
<1>3. {subscribed, up, desired, acked, subRetry, forced, noticed} \subseteq BOOLEAN
  BY TypesNow
<1>4. ASSUME NEW i \in DOMAIN inbox
      PROVE  \/ inbox[i].kind = "fetch" /\ inbox[i].req \in Requests \ {NoReq}
             \/ inbox[i].kind = "subscribe" /\ inbox[i].open \in BOOLEAN
  <2>1. inbox[i] \in Inbound
    BY TypesNow
  <2> QED
    BY <2>1, InboundFields DEF Reqs
<1>5. ASSUME NEW i \in DOMAIN wire
      PROVE  wire[i].kind \in {"row", "notice", "page", "fail", "subscribed"}
  <2>1. wire[i] \in Outbound
    BY TypesNow
  <2> QED
    BY <2>1, OutboundFields
<1>6. /\ sync.status \in {"none", "running", "complete", "error"}
      /\ {sync.req, sync.await, sync.pending} \subseteq Requests
      /\ {sync.fallback, sync.latest, sync.loaded} \subseteq BOOLEAN
  <2>1. sync \in Syncs
    BY TypesNow
  <2>2. CatchUps \subseteq Requests
    BY CatchUpFields
  <2> QED
    BY <2>1, <2>2, SyncFields
<1>7. init \in {"none", "tail", "after"} /\ faults \in 0 .. MaxFaults
  BY TypesNow DEF Inits
<1>8. \A i \in DOMAIN queue : queue[i] \in Rows
  BY TypesNow
<1>9. /\ chat.range \in Ranges /\ {chat.synced, chat.older, chat.newer} \subseteq BOOLEAN
      /\ cached \in Ranges /\ stored.range \in Ranges
  BY TypesNow, ChatFields DEF Stores
<1>10. \A i \in DOMAIN Shown(chat) : Shown(chat)[i] \in ShownItems
  BY TypesNow, ShownType
<1> QED
  BY <1>1, <1>2, <1>3, <1>4, <1>5, <1>6, <1>7, <1>8, <1>9, <1>10 DEF TypeOK

\* Shape holds, for all constants and with every lapse.
THEOREM ShapeHolds == Spec => []Shape
<1>1. Init => Shape
  BY InitShape
<1>2. Shape /\ [Next]_vars => Shape'
  BY NextShape
<1> QED
  BY <1>1, <1>2, PTL DEF Spec

\* Every variable has its type, whatever happens.
THEOREM TypeOKHolds == Spec => []TypeOK
<1>1. Shape => TypeOK
  BY ShapeTyped
<1> QED
  BY <1>1, ShapeHolds, PTL

-----------------------------------------------------------------------------
(* Positions: rows and pages come in order, and what is held, painted or   *)
(* stored is not beyond what the daemon has.                               *)

\* The row s of the epoch e is before the row t of the epoch f, or is that one.
Below(e, s, f, t) == e < f \/ (e = f /\ s < t)
Upto(e, s, f, t) == e < f \/ (e = f /\ s <= t)

\* What m brings goes beyond the row s of the epoch e: a row is a later one, a
\* page is of a history that has that row.
Ahead(e, s, m) ==
  /\ m.kind = "row" => Below(e, s, m.row.epoch, m.row.seq)
  /\ m.kind = "page" => Upto(e, s, m.page.epoch, m.page.max)

Follows(m, n) ==
  /\ m.kind = "row" => Ahead(m.row.epoch, m.row.seq, n)
  /\ m.kind = "page" => Ahead(m.page.epoch, m.page.max, n)

Waits(e, s, ws, q) ==
  /\ \A i \in DOMAIN q : Below(e, s, q[i].epoch, q[i].seq)
  /\ \A i \in DOMAIN ws : Ahead(e, s, ws[i])

\* The rows that wait and what is on the wire come in the daemon's order.
Lined(ws, q) ==
  /\ \A i, j \in DOMAIN q : i < j => Below(q[i].epoch, q[i].seq, q[j].epoch, q[j].seq)
  /\ \A i \in DOMAIN q, j \in DOMAIN ws : Ahead(q[i].epoch, q[i].seq, ws[j])
  /\ \A i, j \in DOMAIN ws : i < j => Follows(ws[i], ws[j])

\* All that is still to come is beyond the range.
Reached(r, ws, q, ep, rws) ==
  r # NoRange => /\ r.start <= r.end /\ Upto(r.epoch, r.end, ep, Len(rws[ep]))
                 /\ Waits(r.epoch, r.end, ws, q)

Positions ==
  /\ Lined(wire, queue)
  /\ Reached(chat.range, wire, queue, epoch, rows)
  /\ Reached(cached, wire, queue, epoch, rows)
  /\ Reached(stored.range, wire, queue, epoch, rows)

LEMMA UptoTransitive ==
    ASSUME NEW e \in Nat, NEW s \in Nat, NEW f \in Nat, NEW t \in Nat, NEW g \in Nat, NEW u \in Nat,
           Upto(e, s, f, t)
    PROVE  /\ Upto(f, t, g, u) => Upto(e, s, g, u)
           /\ Below(f, t, g, u) => Below(e, s, g, u) /\ Upto(f, t, g, u)
BY DEF Upto, Below

\* Whatever is beyond a row is beyond the rows before it.
LEMMA AheadTransitive ==
    ASSUME NEW e \in Nat, NEW s \in Nat, NEW f \in Nat, NEW t \in Nat, NEW m \in Outbound,
           Upto(e, s, f, t), Ahead(f, t, m)
    PROVE  Ahead(e, s, m)
<1>1. CASE m.kind = "row"
  <2>1. m.row.epoch \in Nat /\ m.row.seq \in Nat
    <3>1. m.row \in Rows
      BY <1>1, OutboundFields
    <3> QED
      BY <3>1, RowFields
  <2> QED
    BY <1>1, <2>1, UptoTransitive DEF Ahead
<1>2. CASE m.kind = "page"
  <2>1. m.page.epoch \in Nat /\ m.page.max \in Nat
    <3>1. m.page \in Pages
      BY <1>2, OutboundFields
    <3> QED
      BY <3>1, PageFields
  <2> DEFINE g == m.page.epoch
             u == m.page.max
  <2>2. g \in Nat /\ u \in Nat /\ Upto(f, t, g, u)
    BY <1>2, <2>1 DEF Ahead
  <2> HIDE DEF g, u
  <2>3. Upto(e, s, g, u)
    BY <2>2, UptoTransitive
  <2> QED
    BY <1>2, <2>3 DEF Ahead, g, u
<1> QED
  BY <1>1, <1>2 DEF Ahead

LEMMA WaitsTransitive ==
    ASSUME NEW e \in Nat, NEW s \in Nat, NEW f \in Nat, NEW t \in Nat,
           NEW ws \in Seq(Outbound), NEW q \in Seq(Rows),
           Upto(e, s, f, t), Waits(f, t, ws, q)
    PROVE  Waits(e, s, ws, q)
<1>1. ASSUME NEW i \in DOMAIN ws PROVE Ahead(e, s, ws[i])
  <2>1. ws[i] \in Outbound /\ Ahead(f, t, ws[i])
    BY DEF Waits
  <2> QED
    BY <2>1, AheadTransitive
<1>2. ASSUME NEW i \in DOMAIN q PROVE Below(e, s, q[i].epoch, q[i].seq)
  <2>1. q[i] \in Rows /\ Below(f, t, q[i].epoch, q[i].seq)
    BY DEF Waits
  <2>2. q[i].epoch \in Nat /\ q[i].seq \in Nat
    BY <2>1, RowFields
  <2> QED
    BY <2>1, <2>2, UptoTransitive
<1> QED
  BY <1>1, <1>2 DEF Waits

LEMMA AheadAlike ==
    ASSUME NEW e, NEW s, NEW m, NEW n, Alike(m, n), Ahead(e, s, n)
    PROVE  Ahead(e, s, m)
<1>1. /\ m.kind = n.kind
      /\ n.kind = "page" => m.page = n.page
      /\ n.kind = "row" => m = n
  BY DEF Alike, Asks
<1> QED
  BY <1>1 DEF Ahead

LEMMA FollowsAlike ==
    ASSUME NEW m, NEW n, NEW m2, NEW n2, Alike(m, m2), Alike(n, n2), Follows(m2, n2)
    PROVE  Follows(m, n)
<1>1. /\ m.kind = m2.kind
      /\ m2.kind = "page" => m.page = m2.page
      /\ m2.kind = "row" => m = m2
  BY DEF Alike, Asks
<1> QED
  BY <1>1, AheadAlike DEF Follows

LEMMA WaitsThinned ==
    ASSUME NEW ns \in Seq(Outbound), NEW ms \in Seq(Outbound), Thinned(ms, ns),
           NEW q \in Seq(Rows), NEW r \in {q, <<>>}, NEW e, NEW s, Waits(e, s, ns, q)
    PROVE  Waits(e, s, ms, r)
<1>1. ASSUME NEW i \in DOMAIN ms PROVE Ahead(e, s, ms[i])
  <2>1. PICK j \in DOMAIN ns : Alike(ms[i], ns[j])
    BY ThinnedIs
  <2> QED
    BY <2>1, AheadAlike DEF Waits
<1>2. DOMAIN <<>> = {}
  OBVIOUS
<1> QED
  BY <1>1, <1>2 DEF Waits

LEMMA LinedThinned ==
    ASSUME NEW ns \in Seq(Outbound), NEW ms \in Seq(Outbound), Thinned(ms, ns),
           NEW q \in Seq(Rows), NEW r \in {q, <<>>}, Lined(ns, q)
    PROVE  Lined(ms, r)
<1>1. PICK f : Through(ms, ns, f)
  BY DEF Thinned
<1>2. /\ f \in [DOMAIN ms -> DOMAIN ns] /\ \A i, j \in DOMAIN ms : i < j => f[i] < f[j]
      /\ \A i \in DOMAIN ms : Alike(ms[i], ns[f[i]])
  <2>1. DOMAIN ms = 1 .. Len(ms) /\ DOMAIN ns = 1 .. Len(ns)
    OBVIOUS
  <2> QED
    BY <1>1, <2>1 DEF Through
<1>3. ASSUME NEW i \in DOMAIN ms, NEW j \in DOMAIN ms, i < j
      PROVE  Follows(ms[i], ms[j])
  <2>1. f[i] \in DOMAIN ns /\ f[j] \in DOMAIN ns /\ f[i] < f[j]
    BY <1>2, <1>3
  <2>2. Follows(ns[f[i]], ns[f[j]])
    BY <2>1 DEF Lined
  <2> QED
    BY <1>2, <2>2, FollowsAlike
<1>4. ASSUME NEW i \in DOMAIN q, NEW j \in DOMAIN ms
      PROVE  Ahead(q[i].epoch, q[i].seq, ms[j])
  <2>1. f[j] \in DOMAIN ns /\ Alike(ms[j], ns[f[j]])
    BY <1>2
  <2>2. Ahead(q[i].epoch, q[i].seq, ns[f[j]])
    BY <2>1 DEF Lined
  <2> QED
    BY <2>1, <2>2, AheadAlike
<1>5. DOMAIN <<>> = {}
  OBVIOUS
<1>6. \A i, j \in DOMAIN q : i < j => Below(q[i].epoch, q[i].seq, q[j].epoch, q[j].seq)
  BY DEF Lined
<1> QED
  BY <1>3, <1>4, <1>5, <1>6 DEF Lined

LEMMA ReachedThinned ==
    ASSUME NEW ns \in Seq(Outbound), NEW ms \in Seq(Outbound), Thinned(ms, ns),
           NEW q \in Seq(Rows), NEW r \in {q, <<>>}, NEW range, NEW ep, NEW rws,
           Reached(range, ns, q, ep, rws)
    PROVE  Reached(range, ms, r, ep, rws)
BY WaitsThinned DEF Reached

LEMMA NowGrown ==
    ASSUME NEW ep, NEW rws, Daemons(ep, rws), NEW ep2, NEW rws2, Daemons(ep2, rws2),
           Grown(ep, rws, ep2, rws2)
    PROVE  /\ Upto(ep, Len(rws[ep]), ep2, Len(rws2[ep2]))
           /\ ep \in Nat /\ Len(rws[ep]) \in Nat /\ ep2 \in Nat /\ Len(rws2[ep2]) \in Nat
<1>1. ep \in 1 .. MaxEpoch /\ rws[ep] \in Histories /\ ep2 \in 1 .. MaxEpoch /\ rws2[ep2] \in Histories
  BY DEF Daemons
<1>2. Len(rws[ep]) \in Nat /\ Len(rws2[ep2]) \in Nat
  BY <1>1, AnchorTypes
<1>3. ep <= ep2 /\ (ep = ep2 => Len(rws[ep]) <= Len(rws2[ep2]))
  BY <1>1 DEF Grown
<1>4. ep \in Nat /\ ep2 \in Nat
  BY <1>1
<1> QED
  BY <1>2, <1>3, <1>4 DEF Upto

LEMMA ReachedGrown ==
    ASSUME NEW ep, NEW rws, Daemons(ep, rws), NEW ep2, NEW rws2, Daemons(ep2, rws2),
           Grown(ep, rws, ep2, rws2), NEW ws, NEW q, NEW range \in Ranges,
           Reached(range, ws, q, ep, rws)
    PROVE  Reached(range, ws, q, ep2, rws2)
<1>1. range.epoch \in Nat /\ range.end \in Nat
  BY RangeFields
<1> DEFINE e == range.epoch
           t == range.end
           n == Len(rws[ep])
           n2 == Len(rws2[ep2])
<1>2. range # NoRange => Upto(e, t, ep2, n2)
  <2>1. Upto(ep, n, ep2, n2) /\ ep \in Nat /\ n \in Nat /\ ep2 \in Nat /\ n2 \in Nat
    BY NowGrown
  <2>2. range # NoRange => Upto(e, t, ep, n)
    BY DEF Reached
  <2>3. e \in Nat /\ t \in Nat
    BY <1>1
  <2> HIDE DEF e, t, n, n2
  <2> QED
    BY <2>1, <2>2, <2>3, UptoTransitive
<1> QED
  BY <1>2 DEF Reached

\* All that is known of the daemon's rows is up to its last one.
LEMMA KnownUpto ==
    ASSUME NEW ep, NEW rws, Daemons(ep, rws), NEW e \in 1 .. MaxEpoch, NEW s \in Nat,
           e <= ep, s <= Len(rws[e])
    PROVE  Upto(e, s, ep, Len(rws[ep])) /\ ep \in Nat /\ Len(rws[ep]) \in Nat /\ e \in Nat
<1>1. ep \in 1 .. MaxEpoch /\ rws[ep] \in Histories /\ rws[e] \in Histories
  BY DEF Daemons
<1>2. Len(rws[ep]) \in Nat /\ Len(rws[e]) \in Nat
  BY <1>1, AnchorTypes
<1>3. e < ep \/ e = ep
  BY <1>1
<1> QED
  BY <1>1, <1>2, <1>3 DEF Upto

LEMMA MessageUpto ==
    ASSUME NEW ep, NEW rws, Daemons(ep, rws), NEW m \in Outbound,
           m.kind = "page" => PageHolds(m.req, m.page, ep, rws),
           m.kind = "row" => RowHolds(m.row, ep, rws)
    PROVE  /\ m.kind = "row" => /\ m.row.epoch \in Nat /\ m.row.seq \in Nat
                                /\ Upto(m.row.epoch, m.row.seq, ep, Len(rws[ep]))
           /\ m.kind = "page" => /\ m.page.epoch \in Nat /\ m.page.max \in Nat
                                 /\ Upto(m.page.epoch, m.page.max, ep, Len(rws[ep]))
<1>1. ASSUME m.kind = "row"
      PROVE  /\ m.row.epoch \in Nat /\ m.row.seq \in Nat
             /\ Upto(m.row.epoch, m.row.seq, ep, Len(rws[ep]))
  <2>1. m.row \in Rows /\ RowHolds(m.row, ep, rws)
    BY <1>1, OutboundFields
  <2>2. m.row.epoch \in 1 .. MaxEpoch /\ m.row.seq \in Nat
    BY <2>1, BoundsAssumption DEF Rows
  <2> QED
    BY <2>1, <2>2, KnownUpto DEF RowHolds
<1>2. ASSUME m.kind = "page"
      PROVE  /\ m.page.epoch \in Nat /\ m.page.max \in Nat
             /\ Upto(m.page.epoch, m.page.max, ep, Len(rws[ep]))
  <2>1. m.page \in Pages /\ PageHolds(m.req, m.page, ep, rws)
    BY <1>2, OutboundFields
  <2>2. m.page.epoch \in 1 .. MaxEpoch /\ m.page.max \in Nat
    BY <2>1, PageFields
  <2> QED
    BY <2>1, <2>2, KnownUpto DEF PageHolds
<1> QED
  BY <1>1, <1>2

LEMMA RowUpto ==
    ASSUME NEW ep, NEW rws, Daemons(ep, rws), NEW r \in Rows, RowHolds(r, ep, rws)
    PROVE  r.epoch \in Nat /\ r.seq \in Nat /\ Upto(r.epoch, r.seq, ep, Len(rws[ep]))
<1>1. r.epoch \in 1 .. MaxEpoch /\ r.seq \in Nat
  BY BoundsAssumption DEF Rows
<1> QED
  BY <1>1, KnownUpto DEF RowHolds

\* What the daemon sends now is beyond all that is on its way.
LEMMA LinedAppend ==
    ASSUME NEW ep, NEW rws, Daemons(ep, rws), NEW ns \in Seq(Outbound), NEW q \in Seq(Rows),
           Kept(ns, q, ep, rws), Lined(ns, q), NEW m \in Outbound, Ahead(ep, Len(rws[ep]), m),
           NEW ms, ms = Append(ns, m)
    PROVE  /\ ms \in Seq(Outbound) /\ Lined(ms, q)
           /\ \A range \in Ranges : Reached(range, ns, q, ep, rws) => Reached(range, ms, q, ep, rws)
<1> DEFINE n == Len(rws[ep])
<1>0. ep \in Nat /\ n \in Nat /\ Ahead(ep, n, m)
  <2>1. ep \in 1 .. MaxEpoch /\ rws[ep] \in Histories
    BY DEF Daemons
  <2> QED
    BY <2>1, AnchorTypes
<1>1. /\ ms \in Seq(Outbound) /\ DOMAIN ms = 1 .. Len(ns) + 1 /\ DOMAIN ns = 1 .. Len(ns)
      /\ \A i \in DOMAIN ns : ms[i] = ns[i]
      /\ ms[Len(ns) + 1] = m /\ Len(ns) \in Nat
  OBVIOUS
<1>2. \A i \in DOMAIN ms : i \in DOMAIN ns \/ i = Len(ns) + 1
  BY <1>1
<1>3. ASSUME NEW i \in DOMAIN q PROVE Ahead(q[i].epoch, q[i].seq, m)
  <2> DEFINE e == q[i].epoch
             s == q[i].seq
  <2>1. q[i] \in Rows /\ RowHolds(q[i], ep, rws)
    BY DEF Kept
  <2>2. e \in Nat /\ s \in Nat /\ Upto(e, s, ep, n)
    BY <2>1, RowUpto
  <2> HIDE DEF e, s, n
  <2>3. Ahead(e, s, m)
    BY <1>0, <2>2, AheadTransitive
  <2> QED
    BY <2>3 DEF e, s
<1>4. ASSUME NEW i \in DOMAIN ns PROVE Follows(ns[i], m)
  <2>1. /\ ns[i] \in Outbound
        /\ ns[i].kind = "page" => PageHolds(ns[i].req, ns[i].page, ep, rws)
        /\ ns[i].kind = "row" => RowHolds(ns[i].row, ep, rws)
    BY DEF Kept
  <2>2. /\ ns[i].kind = "row" => /\ ns[i].row.epoch \in Nat /\ ns[i].row.seq \in Nat
                                 /\ Upto(ns[i].row.epoch, ns[i].row.seq, ep, n)
        /\ ns[i].kind = "page" => /\ ns[i].page.epoch \in Nat /\ ns[i].page.max \in Nat
                                  /\ Upto(ns[i].page.epoch, ns[i].page.max, ep, n)
    BY <2>1, MessageUpto
  <2>3. CASE ns[i].kind = "row"
    <3> DEFINE e == ns[i].row.epoch
               s == ns[i].row.seq
    <3>1. e \in Nat /\ s \in Nat /\ Upto(e, s, ep, n)
      BY <2>2, <2>3
    <3> HIDE DEF e, s, n
    <3>2. Ahead(e, s, m)
      BY <1>0, <3>1, AheadTransitive
    <3> QED
      BY <2>3, <3>2 DEF e, s, Follows
  <2>4. CASE ns[i].kind = "page"
    <3> DEFINE e == ns[i].page.epoch
               s == ns[i].page.max
    <3>1. e \in Nat /\ s \in Nat /\ Upto(e, s, ep, n)
      BY <2>2, <2>4
    <3> HIDE DEF e, s, n
    <3>2. Ahead(e, s, m)
      BY <1>0, <3>1, AheadTransitive
    <3> QED
      BY <2>4, <3>2 DEF e, s, Follows
  <2> QED
    BY <2>3, <2>4 DEF Follows
<1>5. Lined(ms, q)
  <2>1. \A i, j \in DOMAIN q : i < j => Below(q[i].epoch, q[i].seq, q[j].epoch, q[j].seq)
    BY DEF Lined
  <2>2. \A i \in DOMAIN q, j \in DOMAIN ms : Ahead(q[i].epoch, q[i].seq, ms[j])
    BY <1>1, <1>2, <1>3 DEF Lined
  <2>3. ASSUME NEW i \in DOMAIN ms, NEW j \in DOMAIN ms, i < j PROVE Follows(ms[i], ms[j])
    <3>1. i \in DOMAIN ns /\ ms[i] = ns[i]
      BY <1>1, <2>3
    <3>2. CASE j \in DOMAIN ns
      BY <1>1, <2>3, <3>1, <3>2 DEF Lined
    <3>3. CASE j = Len(ns) + 1
      BY <1>1, <1>4, <3>1, <3>3
    <3> QED
      BY <1>2, <3>2, <3>3
  <2> QED
    BY <2>1, <2>2, <2>3 DEF Lined
<1>6. ASSUME NEW range \in Ranges, Reached(range, ns, q, ep, rws), range # NoRange
      PROVE  Reached(range, ms, q, ep, rws)
  <2> DEFINE e == range.epoch
             s == range.end
  <2>1. /\ e \in Nat /\ s \in Nat /\ range.start <= s /\ Upto(e, s, ep, n)
        /\ Waits(e, s, ns, q)
    BY <1>6, RangeFields DEF Reached
  <2> HIDE DEF e, s, n
  <2>2. Ahead(e, s, m)
    BY <1>0, <2>1, AheadTransitive
  <2>3. Waits(e, s, ms, q)
    BY <1>1, <1>2, <2>1, <2>2 DEF Waits
  <2> QED
    BY <2>1, <2>3 DEF e, s, n, Reached
<1> QED
  BY <1>1, <1>5, <1>6 DEF Reached

\* The first row on the wire joins those that wait.
LEMMA LinedMoved ==
    ASSUME NEW ep, NEW rws, NEW ns \in Seq(Outbound), NEW q \in Seq(Rows),
           Lined(ns, q), ns # <<>>, NEW r \in Rows, ns[1].kind = "row", ns[1].row = r,
           NEW ms, ms = Tail(ns), NEW p, p = Append(q, r)
    PROVE  /\ Lined(ms, p)
           /\ \A range \in Ranges : Reached(range, ns, q, ep, rws) => Reached(range, ms, p, ep, rws)
<1>1. /\ ms \in Seq(Outbound) /\ DOMAIN ms = 1 .. Len(ns) - 1 /\ DOMAIN ns = 1 .. Len(ns)
      /\ \A i \in DOMAIN ms : ms[i] = ns[i + 1] /\ i + 1 \in DOMAIN ns
      /\ Len(ns) \in Nat \ {0} /\ 1 \in DOMAIN ns
  OBVIOUS
<1>2. /\ p \in Seq(Rows) /\ DOMAIN p = 1 .. Len(q) + 1 /\ DOMAIN q = 1 .. Len(q)
      /\ \A i \in DOMAIN q : p[i] = q[i]
      /\ p[Len(q) + 1] = r /\ Len(q) \in Nat
  OBVIOUS
<1>3. \A i \in DOMAIN p : i \in DOMAIN q \/ i = Len(q) + 1
  BY <1>2
<1>4. ASSUME NEW i \in DOMAIN q PROVE Below(q[i].epoch, q[i].seq, r.epoch, r.seq)
  BY <1>1 DEF Lined, Ahead
<1>5. ASSUME NEW j \in DOMAIN ms PROVE Ahead(r.epoch, r.seq, ms[j])
  <2>1. Follows(ns[1], ns[j + 1])
    BY <1>1 DEF Lined
  <2> QED
    BY <1>1, <2>1 DEF Follows
<1>6. Lined(ms, p)
  <2>1. ASSUME NEW i \in DOMAIN p, NEW j \in DOMAIN p, i < j
        PROVE  Below(p[i].epoch, p[i].seq, p[j].epoch, p[j].seq)
    <3>1. i \in DOMAIN q /\ p[i] = q[i]
      BY <1>2, <2>1
    <3>2. CASE j \in DOMAIN q
      BY <1>2, <2>1, <3>1, <3>2 DEF Lined
    <3>3. CASE j = Len(q) + 1
      BY <1>2, <1>4, <3>1, <3>3
    <3> QED
      BY <1>3, <3>2, <3>3
  <2>2. ASSUME NEW i \in DOMAIN p, NEW j \in DOMAIN ms
        PROVE  Ahead(p[i].epoch, p[i].seq, ms[j])
    <3>1. CASE i \in DOMAIN q
      BY <1>1, <1>2, <3>1 DEF Lined
    <3>2. CASE i = Len(q) + 1
      BY <1>2, <1>5, <3>2
    <3> QED
      BY <1>3, <3>1, <3>2
  <2>3. ASSUME NEW i \in DOMAIN ms, NEW j \in DOMAIN ms, i < j PROVE Follows(ms[i], ms[j])
    BY <1>1, <2>3 DEF Lined
  <2> QED
    BY <2>1, <2>2, <2>3 DEF Lined
<1>7. ASSUME NEW range \in Ranges, Reached(range, ns, q, ep, rws), range # NoRange
      PROVE  Reached(range, ms, p, ep, rws)
  <2> DEFINE e == range.epoch
             s == range.end
  <2>1. Waits(e, s, ns, q)
    BY <1>7 DEF Reached
  <2> HIDE DEF e, s
  <2>2. Below(e, s, r.epoch, r.seq)
    BY <1>1, <2>1 DEF Waits, Ahead
  <2>3. Waits(e, s, ms, p)
    BY <1>1, <1>2, <1>3, <2>1, <2>2 DEF Waits
  <2> QED
    BY <1>7, <2>3 DEF e, s, Reached
<1> QED
  BY <1>6, <1>7 DEF Reached

\* The rows that waited are applied.
LEMMA FlushedReached ==
    ASSUME Shape, Positions
    PROVE  /\ FlushedChat.range \in Ranges /\ Reached(FlushedChat.range, wire, <<>>, epoch, rows)
           /\ chat.range # NoRange /\ FlushedChat.range.epoch = chat.range.epoch =>
                FlushedChat.range.end >= chat.range.end
           /\ chat.range # NoRange => FlushedChat.range # NoRange
<1> DEFINE d == FlushedChat
           r == d.range
           c == chat.range
<1>1. /\ d \in Chats
      /\ c # NoRange => r # NoRange
      /\ \/ r = c
         \/ r # NoRange /\ \E i \in DOMAIN queue : r.epoch = queue[i].epoch /\ r.end = queue[i].seq
      /\ (c # NoRange => c.start <= c.end) => (r # NoRange => r.start <= r.end)
  BY FlushedIs
<1>2. r \in Ranges /\ c \in Ranges /\ wire \in Seq(Outbound) /\ queue \in Seq(Rows)
      /\ Thinned(wire, wire) /\ <<>> \in {queue, <<>>}
  BY <1>1, ChatFields, TypesNow
<1>3. Reached(c, wire, queue, epoch, rows) /\ Lined(wire, queue)
  BY DEF Positions
<1>4. Daemons(epoch, rows) /\ Kept(wire, queue, epoch, rows)
  BY DEF Shape
<1> HIDE DEF d, r, c
<1>5. CASE r = c
  <2>1. Reached(c, wire, <<>>, epoch, rows)
    BY <1>2, <1>3, ReachedThinned
  <2>2. c.end \in Nat
    BY <1>2, RangeFields
  <2> QED
    BY <1>1, <1>2, <1>5, <2>1, <2>2 DEF d, r, c
<1>6. ASSUME r # NoRange, NEW i \in DOMAIN queue, r.epoch = queue[i].epoch, r.end = queue[i].seq
      PROVE  /\ Reached(r, wire, <<>>, epoch, rows)
             /\ c # NoRange /\ r.epoch = c.epoch => r.end >= c.end
  <2>1. queue[i] \in Rows /\ RowHolds(queue[i], epoch, rows)
    BY <1>2, <1>4 DEF Kept
  <2>2. /\ queue[i].epoch \in Nat /\ queue[i].seq \in Nat
        /\ Upto(queue[i].epoch, queue[i].seq, epoch, Len(rows[epoch]))
    BY <1>4, <2>1, RowUpto
  <2>3. Waits(r.epoch, r.end, wire, <<>>)
    <3>1. \A j \in DOMAIN wire : Ahead(queue[i].epoch, queue[i].seq, wire[j])
      BY <1>3 DEF Lined
    <3>2. DOMAIN <<>> = {}
      OBVIOUS
    <3> QED
      BY <1>6, <3>1, <3>2 DEF Waits
  <2>4. r.start <= r.end
    BY <1>1, <1>3, <1>6 DEF Reached
  <2>5. Reached(r, wire, <<>>, epoch, rows)
    BY <1>6, <2>2, <2>3, <2>4 DEF Reached
  <2>6. c # NoRange /\ r.epoch = c.epoch => r.end >= c.end
    <3>1. c # NoRange => Below(c.epoch, c.end, queue[i].epoch, queue[i].seq)
      BY <1>3 DEF Reached, Waits
    <3>2. c.epoch \in Nat /\ c.end \in Nat /\ r.epoch \in Nat /\ r.end \in Nat
      BY <1>2, RangeFields
    <3> QED
      BY <1>6, <3>1, <3>2 DEF Below
  <2> QED
    BY <2>5, <2>6
<1> QED
  BY <1>1, <1>2, <1>5, <1>6 DEF d, r, c

\* A range within the history of the page that arrives.
LEMMA PageReached ==
    ASSUME Shape, Positions, wire # <<>>, Msg.kind = "page", NEW r \in Ranges,
           r # NoRange => r.start <= r.end /\ r.epoch = Pg.epoch /\ r.end <= Pg.max
    PROVE  Reached(r, Tail(wire), <<>>, epoch, rows)
<1> SUFFICES ASSUME r # NoRange PROVE Reached(r, Tail(wire), <<>>, epoch, rows)
  BY DEF Reached
<1> DEFINE e == Pg.epoch
           n == Pg.max
           ws == Tail(wire)
           s == r.end
<1>1. /\ Msg = wire[1] /\ 1 \in DOMAIN wire /\ Msg \in Outbound /\ Pg \in Pages
      /\ PageHolds(Msg.req, Pg, epoch, rows) /\ ws \in Seq(Outbound) /\ Daemons(epoch, rows)
      /\ wire \in Seq(Outbound)
  BY PageArrives DEF Shape
<1>2. /\ DOMAIN ws = 1 .. Len(wire) - 1 /\ DOMAIN wire = 1 .. Len(wire)
      /\ \A i \in DOMAIN ws : ws[i] = wire[i + 1] /\ i + 1 \in DOMAIN wire /\ 1 < i + 1
  BY <1>1, ThinnedTail
<1>3. /\ e \in Nat /\ n \in Nat /\ Upto(e, n, epoch, Len(rows[epoch]))
      /\ epoch \in Nat /\ Len(rows[epoch]) \in Nat
  <2>1. e \in 1 .. MaxEpoch /\ n \in Nat /\ e <= epoch /\ n <= Len(rows[e])
    BY <1>1, PageArrives, PageFields
  <2> HIDE DEF e, n
  <2> QED
    BY <1>1, <2>1, KnownUpto
<1>4. \A i \in DOMAIN ws : Ahead(e, n, ws[i])
  <2>1. \A i \in DOMAIN ws : Follows(wire[1], wire[i + 1])
    BY <1>1, <1>2 DEF Positions, Lined
  <2> QED
    BY <1>1, <1>2, <2>1 DEF Follows, Pg
<1>5. s \in Nat /\ Upto(e, s, e, n)
  BY <1>3, RangeFields DEF Upto
<1>6. r.epoch = e /\ s = r.end /\ r.start <= s
  OBVIOUS
<1> HIDE DEF e, n, ws, s
<1>7. \A i \in DOMAIN ws : Ahead(e, s, ws[i])
  <2> SUFFICES ASSUME NEW i \in DOMAIN ws PROVE Ahead(e, s, ws[i])
    OBVIOUS
  <2>1. ws[i] \in Outbound /\ Ahead(e, n, ws[i])
    BY <1>1, <1>4
  <2> QED
    BY <1>3, <1>5, <2>1, AheadTransitive
<1>8. Upto(e, s, epoch, Len(rows[epoch]))
  <2> DEFINE m == Len(rows[epoch])
  <2>1. m \in Nat /\ Upto(e, n, epoch, m)
    BY <1>3
  <2> HIDE DEF m
  <2>2. Upto(e, s, epoch, m)
    BY <1>3, <1>5, <2>1, UptoTransitive
  <2> QED
    BY <2>2 DEF m
<1>9. DOMAIN <<>> = {}
  OBVIOUS
<1>10. Waits(e, s, ws, <<>>)
  BY <1>7, <1>9 DEF Waits
<1> QED
  BY <1>6, <1>8, <1>10 DEF Reached, ws

\* What the range becomes when a page arrives.
LEMMA LandedReached ==
    ASSUME Shape, Positions, wire # <<>>, Msg.kind = "page"
    PROVE  /\ Landed.range \in Ranges
           /\ Reached(Landed.range, Tail(wire), <<>>, epoch, rows)
           /\ chat.synced /\ chat.range # NoRange /\ Landed.range.epoch = chat.range.epoch =>
                Landed.range.end >= chat.range.end
<1> DEFINE d == Landed.range
           f == FlushedChat.range
           c == chat.range
           p == Pg
           policy == TailPolicy(Pg, Cur, Reset, Boot)
           ws == Tail(wire)
<1>1. /\ f \in Ranges /\ Reached(f, wire, <<>>, epoch, rows)
      /\ c # NoRange /\ f.epoch = c.epoch => f.end >= c.end
      /\ c # NoRange => f # NoRange
  BY FlushedReached
<1>2. /\ d = RangeWithPage(f, Pg, Cur, Reset, Boot) /\ Reset \in BOOLEAN /\ Boot \in BOOLEAN
      /\ d \in Ranges
  BY LandedIs, ChatFields
<1>3. /\ p \in Pages /\ Whole(p) /\ p.end <= p.max /\ p.start <= p.end
      /\ p.reset \/ p.dir = "tail" => p.end = p.max
      /\ p.epoch \in Nat /\ p.start \in Nat /\ p.end \in Nat /\ p.max \in Nat
      /\ ws \in Seq(Outbound) /\ Thinned(ws, wire) /\ wire \in Seq(Outbound)
      /\ Msg = wire[1] /\ 1 \in DOMAIN wire
  BY PageArrives, PageFields, TypesNow
<1>4. /\ Cur \in Ranges /\ Cur = IF chat.synced THEN f ELSE cached
      /\ cached \in Ranges /\ c \in Ranges
  BY FlushedIs, TypesNow
<1>5. Reached(cached, wire, queue, epoch, rows) /\ Reached(c, wire, queue, epoch, rows)
  BY DEF Positions
<1>6. \A r \in Ranges : Reached(r, wire, <<>>, epoch, rows) => Reached(r, ws, <<>>, epoch, rows)
  <2>1. <<>> \in Seq(Rows)
    OBVIOUS
  <2> QED
    BY <1>3, <2>1, ReachedThinned
<1>7. Reached(cached, ws, <<>>, epoch, rows) /\ Reached(f, ws, <<>>, epoch, rows)
      /\ Reached(Cur, ws, <<>>, epoch, rows)
  BY <1>1, <1>3, <1>4, <1>5, <1>6, ReachedThinned, TypesNow
<1>8. c # NoRange /\ c.epoch = p.epoch => c.end <= p.max
  <2>1. c # NoRange => Ahead(c.epoch, c.end, Msg)
    BY <1>3, <1>5 DEF Reached, Waits
  <2>2. c # NoRange => Upto(c.epoch, c.end, p.epoch, p.max)
    BY <2>1 DEF Ahead, Pg
  <2>3. c.epoch \in Nat /\ c.end \in Nat
    BY <1>4, RangeFields
  <2> QED
    BY <1>3, <2>2, <2>3 DEF Upto
<1>9. policy \in {"replace", "incremental", "discard", "append"}
  BY <1>2, TailPolicyIs
<1>10. policy = "replace" => p.end = p.max
  <2>1. policy = "replace" => Reset \/ Boot \/ p.dir = "tail"
    BY <1>2, TailPolicyIs
  <2> QED
    BY <1>3, <2>1 DEF Reset, Boot
<1>r. /\ f.epoch \in Nat /\ f.end \in Nat /\ f.start \in Nat
      /\ c.epoch \in Nat /\ c.end \in Nat /\ Cur.epoch \in Nat /\ Cur.end \in Nat /\ Cur.start \in Nat
  BY <1>1, <1>4, RangeFields
<1>11. CASE policy = "discard"
  <2>1. d = f
    BY <1>2, <1>11 DEF RangeWithPage
  <2> QED
    BY <1>1, <1>2, <1>7, <2>1
<1>12. CASE policy = "replace"
  <2>1. d = PageRange(p)
    BY <1>2, <1>12 DEF RangeWithPage
  <2>2. d # NoRange => d.epoch = p.epoch /\ d.start = p.start /\ d.end = p.end
    BY <1>3, <2>1, PageRangeIs DEF PageRange
  <2>3. Reached(d, ws, <<>>, epoch, rows)
    BY <1>2, <1>3, <2>2, PageReached
  <2>4. c # NoRange /\ d.epoch = c.epoch => d.end >= c.end
    <3>1. c # NoRange => c.epoch # 0
      BY <1>4, RangeFields, BoundsAssumption
    <3>2. d = NoRange => d.epoch = 0
      BY DEF NoRange
    <3> HIDE DEF d, p, c
    <3> QED
      BY <1>3, <1>8, <1>10, <1>12, <2>2, <3>1, <3>2, <1>r
  <2> QED
    BY <1>2, <2>3, <2>4
<1>13. CASE policy \in {"incremental", "append"} /\ p.dir = "before"
  <2>1. d = IF AcceptsOlder(p, Cur) THEN [Cur EXCEPT !.start = p.start] ELSE Cur
    BY <1>2, <1>13 DEF RangeWithPage
  <2>2. /\ d.end = Cur.end /\ d.epoch = Cur.epoch
        /\ Cur # NoRange => d.start <= d.end
        /\ Cur = NoRange => d = NoRange
    <3>1. CASE AcceptsOlder(p, Cur)
      <4>1. Cur # NoRange /\ p.end + 1 = Cur.start
        BY <3>1 DEF AcceptsOlder
      <4>2. Cur.start <= Cur.end
        BY <1>7, <4>1 DEF Reached
      <4>3. d.end = Cur.end /\ d.epoch = Cur.epoch /\ d.start = p.start
        BY <1>4, <2>1, <3>1 DEF Ranges, NoRange
      <4> HIDE DEF d, p
      <4> QED
        BY <1>3, <4>1, <4>2, <4>3, <1>r
    <3>2. CASE ~ AcceptsOlder(p, Cur)
      BY <1>7, <2>1, <3>2 DEF Reached
    <3> QED
      BY <3>1, <3>2
  <2>3. Reached(d, ws, <<>>, epoch, rows)
    BY <1>7, <2>2 DEF Reached
  <2>4. chat.synced /\ c # NoRange /\ d.epoch = c.epoch => d.end >= c.end
    BY <1>1, <1>4, <2>2
  <2> QED
    BY <1>2, <2>3, <2>4
<1>14. CASE policy \in {"incremental", "append"} /\ p.dir # "before"
  <2>1. d = IF PageTaken(p, Cur, Reset, Boot) THEN ForwardRange(p, Cur) ELSE Cur
    BY <1>2, <1>14 DEF RangeWithPage
  <2>2. CASE ~ PageTaken(p, Cur, Reset, Boot)
    <3>1. d = Cur
      BY <2>1, <2>2
    <3> QED
      BY <1>1, <1>2, <1>4, <1>7, <3>1
  <2>3. CASE PageTaken(p, Cur, Reset, Boot)
    <3>1. AcceptsForward(p, Cur)
      BY <2>3 DEF PageTaken
    <3>2. p.start # 0 /\ (Cur = NoRange \/ (Cur.epoch = p.epoch /\ p.end > Cur.end))
      BY <3>1 DEF AcceptsForward
    <3>3. d = ForwardRange(p, Cur)
      BY <2>1, <2>3
    <3>4. /\ d # NoRange /\ d.end = p.end
          /\ Cur = NoRange => d.epoch = p.epoch /\ d.start = p.start
          /\ Cur # NoRange => d.epoch = Cur.epoch /\ d.start = Cur.start
      BY <1>3, <1>4, <3>2, <3>3, ForwardRangeIs
    <3>5. Cur # NoRange => Cur.start <= Cur.end
      BY <1>7 DEF Reached
    <3>c. chat.synced /\ c # NoRange => f # NoRange /\ Cur = f
      BY <1>1, <1>4
    <3>6. d.epoch = p.epoch /\ d.start <= d.end /\ d.end <= p.max
          /\ (chat.synced /\ c # NoRange /\ d.epoch = c.epoch => d.end >= c.end)
      <4> HIDE DEF d, p, c, f
      <4> QED
        BY <1>1, <1>3, <3>2, <3>4, <3>5, <3>c, <1>r
    <3>7. Reached(d, ws, <<>>, epoch, rows)
      BY <1>2, <3>6, PageReached
    <3> QED
      BY <1>2, <3>6, <3>7
  <2> QED
    BY <2>2, <2>3
<1> QED
  BY <1>9, <1>11, <1>12, <1>13, <1>14

Known(r) == r \in {chat.range, cached, stored.range, NoRange}

\* An action after which there is nothing new on the wire.
LEMMA PositionsKept ==
    ASSUME Shape, Shape', Positions, Grown(epoch, rows, epoch', rows'),
           Thinned(wire', wire), queue' \in {queue, <<>>},
           Known(chat.range') \/ Reached(chat.range, wire, queue, epoch, rows)',
           Known(cached') \/ Reached(cached, wire, queue, epoch, rows)',
           Known(stored.range') \/ Reached(stored.range, wire, queue, epoch, rows)'
    PROVE  Positions'
<1> DEFINE ws == wire'
           q == queue'
           ep2 == epoch'
           rws2 == rows'
<1>1. /\ wire \in Seq(Outbound) /\ ws \in Seq(Outbound) /\ queue \in Seq(Rows)
      /\ Daemons(epoch, rows) /\ Daemons(ep2, rws2) /\ Grown(epoch, rows, ep2, rws2)
      /\ Thinned(ws, wire) /\ q \in {queue, <<>>} /\ Lined(wire, queue)
      /\ chat.range \in Ranges /\ cached \in Ranges /\ stored.range \in Ranges
      /\ NoRange \in Ranges
  BY TypesNow DEF Shape, Positions, Stores, Ranges
<1>e. /\ ws = wire' /\ q = queue' /\ ep2 = epoch' /\ rws2 = rows'
  OBVIOUS
<1> HIDE DEF ws, q, ep2, rws2
<1>2. Lined(ws, q)
  BY <1>1, LinedThinned
<1>3. \A r \in Ranges : Reached(r, wire, queue, epoch, rows) => Reached(r, ws, q, ep2, rws2)
  <2> SUFFICES ASSUME NEW r \in Ranges, Reached(r, wire, queue, epoch, rows)
               PROVE  Reached(r, ws, q, ep2, rws2)
    OBVIOUS
  <2>1. Reached(r, ws, q, epoch, rows)
    BY <1>1, ReachedThinned
  <2> QED
    BY <1>1, <2>1, ReachedGrown
<1>4. \A r : Known(r) => Reached(r, ws, q, ep2, rws2)
  <2>1. Reached(NoRange, ws, q, ep2, rws2)
    BY DEF Reached
  <2> QED
    BY <1>1, <1>3, <2>1 DEF Known, Positions
<1> DEFINE c2 == chat.range'
           ca2 == cached'
           st2 == stored.range'
<1>5. /\ Known(c2) \/ Reached(c2, ws, q, ep2, rws2)
      /\ Known(ca2) \/ Reached(ca2, ws, q, ep2, rws2)
      /\ Known(st2) \/ Reached(st2, ws, q, ep2, rws2)
  BY <1>e
<1> HIDE DEF c2, ca2, st2
<1>6. Reached(c2, ws, q, ep2, rws2) /\ Reached(ca2, ws, q, ep2, rws2) /\ Reached(st2, ws, q, ep2, rws2)
  BY <1>4, <1>5
<1> QED
  BY <1>2, <1>6, <1>e DEF Positions, c2, ca2, st2

\* An action of the daemon that sends a message.
LEMMA PositionsSent ==
    ASSUME Shape, Shape', Positions, Grown(epoch, rows, epoch', rows'),
           UNCHANGED <<queue, chat, cached, stored>>,
           NEW m \in Outbound, Ahead(epoch, Len(rows[epoch]), m),
           wire' = Append(wire, m)
    PROVE  Positions'
<1> DEFINE ws == wire'
           ep2 == epoch'
           rws2 == rows'
<1>1. /\ wire \in Seq(Outbound) /\ queue \in Seq(Rows) /\ Kept(wire, queue, epoch, rows)
      /\ Daemons(epoch, rows) /\ Daemons(ep2, rws2) /\ Grown(epoch, rows, ep2, rws2)
      /\ Lined(wire, queue)
      /\ chat.range \in Ranges /\ cached \in Ranges /\ stored.range \in Ranges
  BY TypesNow DEF Shape, Positions, Stores
<1>e. /\ ws = wire' /\ ep2 = epoch' /\ rws2 = rows'
  OBVIOUS
<1>w. ws = Append(wire, m)
  OBVIOUS
<1> HIDE DEF ws, ep2, rws2
<1>2. /\ ws \in Seq(Outbound) /\ Lined(ws, queue)
      /\ \A r \in Ranges : Reached(r, wire, queue, epoch, rows) => Reached(r, ws, queue, epoch, rows)
  BY <1>1, <1>w, LinedAppend
<1>3. \A r \in Ranges : Reached(r, wire, queue, epoch, rows) => Reached(r, ws, queue, ep2, rws2)
  BY <1>1, <1>2, ReachedGrown
<1>4. /\ Reached(chat.range, ws, queue, ep2, rws2) /\ Reached(cached, ws, queue, ep2, rws2)
      /\ Reached(stored.range, ws, queue, ep2, rws2)
  BY <1>1, <1>3 DEF Positions
<1> QED
  BY <1>2, <1>4, <1>e DEF Positions

LEMMA QuietPositions ==
    ASSUME Shape, Shape', Positions, UNCHANGED <<epoch, rows>>, Thinned(wire', wire),
           UNCHANGED <<queue, chat, cached, stored>>
    PROVE  Positions'
<1>1. Grown(epoch, rows, epoch', rows')
  BY StaysGrown
<1>2. queue' \in {queue, <<>>} /\ Known(chat.range') /\ Known(cached') /\ Known(stored.range')
  BY DEF Known
<1> QED
  BY <1>1, <1>2, PositionsKept

LEMMA DaemonPositions ==
    ASSUME Shape, Positions
    PROVE  /\ \A a \in NextAnchors(rows[epoch]) : AppendRow(a) => Positions'
           /\ \A k \in 0 .. MaxRows : Rewind(k) => Positions'
           /\ Reload => Positions'
           /\ Answer => Positions'
           /\ Refuse => Positions'
           /\ \A i \in DOMAIN inbox : Subscribe(i) => Positions'
<1>0. Daemons(epoch, rows) /\ Len(rows[epoch]) \in Nat /\ epoch \in Nat
  <2>1. epoch \in 1 .. MaxEpoch /\ rows[epoch] \in Histories
    BY DEF Shape, Daemons
  <2> QED
    BY <2>1, AnchorTypes DEF Shape
<1>q. /\ \A m : m.kind \notin {"row", "page"} => Ahead(epoch, Len(rows[epoch]), m)
      /\ wire \in Seq(Outbound) /\ Thinned(wire, wire) /\ queue \in {queue, <<>>}
      /\ Known(chat.range) /\ Known(cached) /\ Known(stored.range)
  BY TypesNow DEF Ahead, Known
<1>1. ASSUME NEW a \in NextAnchors(rows[epoch]), AppendRow(a) PROVE Positions'
  <2>1. Shape' /\ Grown(epoch, rows, epoch', rows')
    BY <1>1, AppendRowShape
  <2>2. UNCHANGED <<queue, chat, cached, stored>>
    BY <1>1 DEF AppendRow, appVars
  <2>3. CASE subscribed
    <3>1. PICK r \in Rows : /\ r.epoch = epoch /\ r.seq = Len(rows[epoch]) + 1
                            /\ wire' = Append(wire, [kind |-> "row", row |-> r])
      BY <1>1, <2>3, AppendRowShape
    <3> DEFINE m == [kind |-> "row", row |-> r]
    <3>2. m \in Outbound /\ m.kind = "row" /\ m.row = r
      BY DEF Outbound, RowMsgs
    <3>3. wire' = Append(wire, m)
      BY <3>1
    <3> HIDE DEF m
    <3>4. Ahead(epoch, Len(rows[epoch]), m)
      BY <1>0, <3>1, <3>2 DEF Ahead, Below
    <3> QED
      BY <2>1, <2>2, <3>2, <3>3, <3>4, PositionsSent
  <2>4. CASE ~ subscribed
    <3>1. wire' = wire
      BY <1>1, <2>4, AppendRowShape
    <3> QED
      BY <1>q, <2>1, <2>2, <3>1, PositionsKept
  <2> QED
    BY <2>3, <2>4
<1>2. ASSUME NEW k \in 0 .. MaxRows, Rewind(k) PROVE Positions'
  <2>1. Shape' /\ Grown(epoch, rows, epoch', rows')
        /\ wire' = IF subscribed THEN Append(wire, [kind |-> "notice"]) ELSE wire
    BY <1>2, RewindShape
  <2>2. UNCHANGED <<queue, chat, cached, stored>>
    BY <1>2 DEF Rewind, appVars
  <2>3. CASE subscribed
    <3> DEFINE m == [kind |-> "notice"]
    <3>2. m \in Outbound /\ m.kind = "notice"
      BY DEF Outbound, NoticeMsgs
    <3>3. wire' = Append(wire, m)
      BY <2>1, <2>3
    <3> HIDE DEF m
    <3> QED
      BY <1>q, <2>1, <2>2, <3>2, <3>3, PositionsSent
  <2>4. CASE ~ subscribed
    BY <1>q, <2>1, <2>2, <2>4, PositionsKept
  <2> QED
    BY <2>3, <2>4
<1>3. ASSUME Reload PROVE Positions'
  <2>1. Shape' /\ Grown(epoch, rows, epoch', rows')
    BY <1>3, ReloadShape
  <2>2. UNCHANGED <<queue, chat, cached, stored, wire>>
    BY <1>3 DEF Reload, appVars, linkVars
  <2> QED
    BY <1>q, <2>1, <2>2, PositionsKept
<1>4. ASSUME Answer PROVE Positions'
  <2>1. Shape' /\ UNCHANGED <<daemonVars, up, appVars, stored, faults>>
        /\ Head(inbox) \in FetchMsgs
    BY <1>4, AnswerShape
  <2>2. PICK p \in Pages : /\ p.epoch = epoch /\ p.max = Len(rows[epoch])
                           /\ wire' = Append(wire, [kind |-> "page", req |-> Head(inbox).req,
                                                    fresh |-> Head(inbox).fresh, page |-> p])
    BY <1>4, AnswerShape
  <2> DEFINE m == [kind |-> "page", req |-> Head(inbox).req, fresh |-> Head(inbox).fresh, page |-> p]
  <2>3. m \in Outbound /\ m.kind = "page" /\ m.page = p
    BY <2>1 DEF Outbound, PageMsgs, FetchMsgs
  <2>4. wire' = Append(wire, m)
    BY <2>2
  <2> HIDE DEF m
  <2>5. Ahead(epoch, Len(rows[epoch]), m)
    BY <1>0, <2>2, <2>3 DEF Ahead, Upto
  <2>6. Grown(epoch, rows, epoch', rows') /\ UNCHANGED <<queue, chat, cached, stored>>
    BY <2>1, StaysGrown DEF daemonVars, appVars
  <2> QED
    BY <2>1, <2>3, <2>4, <2>5, <2>6, PositionsSent
<1>5. ASSUME Refuse PROVE Positions'
  <2>1. Shape' /\ UNCHANGED <<daemonVars, up, appVars, stored>>
    BY <1>5, RefuseShape
  <2>2. PICK m \in FailMsgs : wire' = Append(wire, m)
    BY <1>5, RefuseShape
  <2>3. m \in Outbound /\ m.kind = "fail"
    BY DEF Outbound, FailMsgs
  <2>4. Grown(epoch, rows, epoch', rows') /\ UNCHANGED <<queue, chat, cached, stored>>
    BY <2>1, StaysGrown DEF daemonVars, appVars
  <2> QED
    BY <1>q, <2>1, <2>2, <2>3, <2>4, PositionsSent
<1>6. ASSUME NEW i \in DOMAIN inbox, Subscribe(i) PROVE Positions'
  <2>1. /\ Shape' /\ UNCHANGED <<epoch, rows, up, appVars, stored, faults>>
        /\ inbox[i].open \in BOOLEAN
        /\ wire' = Append(wire, [kind |-> "subscribed", open |-> inbox[i].open])
    BY <1>6, SubscribeShape
  <2> DEFINE m == [kind |-> "subscribed", open |-> inbox[i].open]
  <2>3. m \in Outbound /\ m.kind = "subscribed"
    BY <2>1 DEF Outbound, SubscribedMsgs
  <2>4. wire' = Append(wire, m)
    BY <2>1
  <2> HIDE DEF m
  <2>5. Grown(epoch, rows, epoch', rows') /\ UNCHANGED <<queue, chat, cached, stored>>
    BY <2>1, StaysGrown DEF appVars
  <2> QED
    BY <1>q, <2>1, <2>3, <2>4, <2>5, PositionsSent
<1> QED
  BY <1>1, <1>2, <1>3, <1>4, <1>5, <1>6

LEMMA ReceiveRowPositions ==
    ASSUME Shape, Positions, ReceiveRow
    PROVE  Positions'
<1>1. /\ Shape' /\ wire # <<>> /\ wire[1] = Head(wire) /\ wire[1].kind = "row" /\ wire[1].row \in Rows
      /\ queue' = Append(queue, wire[1].row) /\ wire' = Tail(wire)
      /\ UNCHANGED <<daemonVars, chat, cached, stored>>
  BY ReceiveRowShape
<1> DEFINE r == wire[1].row
           ms == Tail(wire)
           p == Append(queue, r)
<1>2. /\ wire \in Seq(Outbound) /\ queue \in Seq(Rows) /\ Lined(wire, queue)
      /\ chat.range \in Ranges /\ cached \in Ranges /\ stored.range \in Ranges
      /\ r \in Rows /\ wire[1].row = r
  BY <1>1, TypesNow DEF Positions, Stores
<1>3. ms = Tail(wire) /\ p = Append(queue, r)
  OBVIOUS
<1>4. wire' = ms /\ queue' = p /\ epoch' = epoch /\ rows' = rows
      /\ UNCHANGED <<chat, cached, stored>>
  BY <1>1 DEF daemonVars
<1> HIDE DEF r, ms, p
<1>5. /\ Lined(ms, p)
      /\ \A range \in Ranges : Reached(range, wire, queue, epoch, rows) => Reached(range, ms, p, epoch, rows)
  <2>1. ms = Tail(wire)
    BY <1>3
  <2>2. p = Append(queue, r)
    BY <1>3
  <2> QED
    BY <1>1, <1>2, <2>1, <2>2, LinedMoved
<1>6. /\ Reached(chat.range, ms, p, epoch, rows) /\ Reached(cached, ms, p, epoch, rows)
      /\ Reached(stored.range, ms, p, epoch, rows)
  BY <1>2, <1>5 DEF Positions
<1> QED
  BY <1>4, <1>5, <1>6 DEF Positions

LEMMA FlushQueuePositions ==
    ASSUME Shape, Positions, FlushQueue
    PROVE  Positions'
<1>1. /\ Shape' /\ queue' = <<>> /\ chat' = FlushedChat
      /\ UNCHANGED <<daemonVars, cached, stored>>
  BY FlushQueueShape
<1> DEFINE req == FlushStart.fetch
           fresh == ~ FlushedChat.synced
<1>2. Thinned(wire', wire)
  <2>1. /\ Issue(req, fresh, init, inbox, wire) /\ req \in Requests /\ req.dir # "before"
        /\ fresh \in BOOLEAN
    BY FlushQueueShape, FlushStartIs, CatchUpFields, ChatFields
  <2> HIDE DEF req, fresh
  <2> QED
    BY <2>1, TypesNow, IssueShape
<1>3. epoch' = epoch /\ rows' = rows /\ Grown(epoch, rows, epoch', rows')
  BY <1>1, StaysGrown DEF daemonVars
<1> DEFINE ws == wire'
           r == FlushedChat.range
<1>4. /\ wire \in Seq(Outbound) /\ ws \in Seq(Outbound) /\ Thinned(ws, wire) /\ r \in Ranges
      /\ Reached(r, wire, <<>>, epoch, rows)
  BY <1>1, <1>2, FlushedReached, TypesNow DEF Shape
<1>5. chat.range' = r /\ wire' = ws
  BY <1>1
<1> HIDE DEF ws, r
<1>6. Reached(r, ws, <<>>, epoch, rows)
  <2>1. <<>> \in Seq(Rows)
    OBVIOUS
  <2> QED
    BY <1>4, <2>1, ReachedThinned
<1>7. Reached(chat.range, wire, queue, epoch, rows)'
  BY <1>1, <1>3, <1>5, <1>6
<1> QED
  BY <1>1, <1>2, <1>3, <1>7, PositionsKept DEF Known

LEMMA ReceivePagePositions ==
    ASSUME Shape, Positions, ReceivePage
    PROVE  Positions'
<1>1. /\ Shape' /\ Thinned(wire', wire)
      /\ wire # <<>> /\ Msg.kind = "page" /\ queue' = <<>> /\ chat' = Landed /\ cached' = LandedCache
      /\ Issue(NextFetch, ~ Landed.synced /\ ~ AwaitsLatest, InitLeft, inbox, Tail(wire))
      /\ UNCHANGED <<daemonVars, stored>>
  BY ReceivePageShape, ReceivePageNamed
<1> DEFINE fresh == ~ Landed.synced /\ ~ AwaitsLatest
           req == NextFetch
           tl == Tail(wire)
<1>2. /\ fresh \in BOOLEAN /\ req \in Requests /\ req.dir # "before" /\ InitLeft \in Inits
      /\ Issue(req, fresh, InitLeft, inbox, tl)
      /\ tl \in Seq(Outbound) /\ inbox \in Seq(Inbound)
  BY <1>1, LandedIs, PageStartsAre, ChatFields, CatchUpFields, PageArrives, TypesNow
<1>3. epoch' = epoch /\ rows' = rows /\ Grown(epoch, rows, epoch', rows')
  BY <1>1, StaysGrown DEF daemonVars
<1> DEFINE ws == wire'
           r == Landed.range
<1>4. r \in Ranges /\ Reached(r, tl, <<>>, epoch, rows)
  BY <1>1, LandedReached
<1>5. chat.range' = r /\ wire' = ws
  BY <1>1
<1> HIDE DEF fresh, req, tl, r
<1>6. ws \in Seq(Outbound) /\ AllAlike(ws, tl)
  BY <1>2, IssueIs
<1> HIDE DEF ws
<1>7. Thinned(ws, tl)
  BY <1>2, <1>6, ThinnedAlike
<1>8. Reached(r, ws, <<>>, epoch, rows)
  <2>1. <<>> \in Seq(Rows)
    OBVIOUS
  <2> QED
    BY <1>2, <1>4, <1>6, <1>7, <2>1, ReachedThinned
<1>9. Reached(chat.range, wire, queue, epoch, rows)'
  BY <1>1, <1>3, <1>5, <1>8
<1>10. Known(cached')
  BY <1>1 DEF Known, LandedCache
<1> QED
  BY <1>1, <1>3, <1>9, <1>10, PositionsKept DEF Known

LEMMA PrepareChatPositions ==
    ASSUME Shape, Positions, PrepareChat
    PROVE  Positions'
<1>1. /\ Shape' /\ Thinned(wire', wire) /\ chat' = PreparedChat /\ cached' = PreparedCache
      /\ UNCHANGED <<daemonVars, queue, stored>>
  BY PrepareChatShape
<1>2. Grown(epoch, rows, epoch', rows')
  BY <1>1, StaysGrown DEF daemonVars
<1>3. PreparedChat.range \in {chat.range, stored.range}
  BY PaintedIs, TypesNow DEF PreparedChat
<1>4. Known(chat.range') /\ Known(cached') /\ Known(stored.range')
  BY <1>1, <1>3 DEF Known, PreparedCache
<1> QED
  BY <1>1, <1>2, <1>4, PositionsKept

LEMMA RestartPositions ==
    ASSUME Shape, Positions, Restart
    PROVE  Positions'
<1>1. /\ Shape' /\ Thinned(wire', wire) /\ stored' \in {stored, Snapshot(chat)}
      /\ queue' = <<>> /\ chat' = NoChat /\ cached' = NoRange /\ UNCHANGED <<epoch, rows>>
  BY RestartShape
<1>2. Grown(epoch, rows, epoch', rows')
  BY <1>1, StaysGrown
<1>3. stored'.range \in {stored.range, chat.range, NoRange}
  BY <1>1 DEF Snapshot
<1>4. Known(chat.range') /\ Known(cached') /\ Known(stored.range')
  BY <1>1, <1>3, NoChatIs DEF Known
<1> QED
  BY <1>1, <1>2, <1>4, PositionsKept

LEMMA NextPositions ==
    ASSUME Shape, Positions, [Next]_vars
    PROVE  Positions'
<1>0. Shape'
  BY NextShape
<1>1. CASE Answer
  BY <1>1, DaemonPositions
<1>2. ASSUME NEW i \in DOMAIN inbox, Subscribe(i) PROVE Positions'
  BY <1>2, DaemonPositions
<1>3. CASE ReceiveRow
  BY <1>3, ReceiveRowPositions
<1>4. CASE FlushQueue
  BY <1>4, FlushQueuePositions
<1>5. CASE ReceiveNotice
  BY <1>0, <1>5, ReceiveNoticeShape, QuietPositions DEF daemonVars
<1>6. CASE ReceivePage
  BY <1>6, ReceivePagePositions
<1>7. CASE ReceiveFailure
  BY <1>0, <1>7, ReceiveFailureShape, QuietPositions DEF daemonVars
<1>8. CASE ReceiveSubscribed
  BY <1>0, <1>8, ReceiveSubscribedShape, QuietPositions DEF daemonVars
<1>9. CASE PrepareChat
  BY <1>9, PrepareChatPositions
<1>10. ASSUME NEW manual \in BOOLEAN, Retry(manual) PROVE Positions'
  BY <1>0, <1>10, RetryShape, QuietPositions DEF daemonVars
<1>11. CASE RetrySubscription
  BY <1>0, <1>11, RetrySubscriptionShape, QuietPositions
<1>12. CASE Connect
  BY <1>0, <1>12, ConnectShape, QuietPositions
<1>13. ASSUME NEW a \in NextAnchors(rows[epoch]), AppendRow(a) PROVE Positions'
  BY <1>13, DaemonPositions
<1>14. ASSUME NEW k \in 0 .. MaxRows, Rewind(k) PROVE Positions'
  BY <1>14, DaemonPositions
<1>15. CASE Reload
  BY <1>15, DaemonPositions
<1>16. CASE Refuse
  BY <1>16, DaemonPositions
<1>17. ASSUME NEW i \in DOMAIN inbox, RefuseSubscription(i) PROVE Positions'
  BY <1>0, <1>17, RefuseSubscriptionShape, QuietPositions DEF daemonVars
<1>18. CASE Foreground
  BY <1>0, <1>18, ForegroundShape, QuietPositions DEF daemonVars
<1>19. CASE LoadOlder
  BY <1>0, <1>19, LoadOlderShape, QuietPositions DEF daemonVars
<1>20. CASE CloseChat
  BY <1>0, <1>20, CloseChatShape, QuietPositions
<1>21. CASE OpenChat
  BY <1>0, <1>21, OpenChatShape, QuietPositions
<1>22. CASE OtherChat
  BY <1>0, <1>22, OtherChatShape, QuietPositions
<1>23. CASE Disconnect
  BY <1>0, <1>23, DisconnectShape, QuietPositions
<1>24. CASE Restart
  BY <1>24, RestartPositions
<1>25. CASE UNCHANGED vars
  <2>1. UNCHANGED <<epoch, rows, wire, queue, chat, cached, stored>>
    BY <1>25 DEF vars, daemonVars, linkVars, appVars
  <2> QED
    BY <1>0, <2>1, TypesNow, QuietPositions
<1> QED
  BY <1>1, <1>2, <1>3, <1>4, <1>5, <1>6, <1>7, <1>8, <1>9, <1>10, <1>11, <1>12, <1>13, <1>14,
     <1>15, <1>16, <1>17, <1>18, <1>19, <1>20, <1>21, <1>22, <1>23, <1>24, <1>25
     DEF Next, Internal, External

LEMMA InitPositions ==
    ASSUME Init
    PROVE  Positions
<1>1. wire = <<>> /\ queue = <<>> /\ chat.range = NoRange /\ cached = NoRange /\ stored.range = NoRange
  BY DEF Init, NoChat, Snapshot
<1>2. DOMAIN <<>> = {}
  OBVIOUS
<1> QED
  BY <1>1, <1>2 DEF Positions, Lined, Reached

\* Rows and pages arrive in the order of the daemon's history, and nothing
\* held, painted or stored is beyond it.
THEOREM PositionsHold == Spec => []Positions
<1>1. Init => Positions
  BY InitPositions
<1>2. Shape /\ Positions /\ [Next]_vars => Positions'
  BY NextPositions
<1> QED
  BY <1>1, <1>2, ShapeHolds, PTL DEF Spec

\* The end of what is held of an epoch.
EndStep ==
  chat.synced /\ chat'.synced /\ chat'.range.epoch = chat.range.epoch
    => chat'.range.end >= chat.range.end

\* No step makes what is held of an epoch end earlier.
LEMMA NextEndStep ==
    ASSUME Shape, Positions, [Next]_vars
    PROVE  EndStep
<1>0. chat.range \in Ranges /\ chat.range.end \in Nat /\ chat.range.epoch \in Nat
      /\ (chat.range # NoRange => chat.range.epoch # 0)
  <2>1. chat.range \in Ranges
    BY TypesNow
  <2> QED
    BY <2>1, RangeFields, BoundsAssumption
<1>a. chat' = chat => EndStep
  BY <1>0 DEF EndStep
<1>n. /\ NoRange.epoch = 0 /\ NoRange.end = 0
      /\ \A r \in Ranges : r.end \in Nat /\ (r.epoch = 0 => r = NoRange)
  <2>1. NoRange.epoch = 0 /\ NoRange.end = 0
    BY DEF NoRange
  <2> QED
    BY <2>1, RangeFields, BoundsAssumption
<1>1. CASE FlushQueue
  <2>1. chat' = FlushedChat
    BY <1>1, FlushQueueShape
  <2>2. /\ FlushedChat.range \in Ranges
        /\ chat.range # NoRange /\ FlushedChat.range.epoch = chat.range.epoch =>
                FlushedChat.range.end >= chat.range.end
    BY FlushedReached
  <2> QED
    BY <1>0, <1>n, <2>1, <2>2 DEF EndStep
<1>2. CASE ReceivePage
  <2>1. chat' = Landed
    BY <1>2, ReceivePageNamed
  <2>2. /\ Landed.range \in Ranges
        /\ chat.synced /\ chat.range # NoRange /\ Landed.range.epoch = chat.range.epoch =>
                Landed.range.end >= chat.range.end
    BY <1>2, ReceivePageNamed, LandedReached
  <2> QED
    BY <1>0, <1>n, <2>1, <2>2 DEF EndStep
<1>3. CASE PrepareChat
  <2>1. chat' = PreparedChat /\ PreparedChat.synced = chat.synced
        /\ (chat.synced => PreparedChat = chat)
    BY <1>3, PrepareChatShape, PreparedIs
  <2> QED
    BY <1>a, <2>1 DEF EndStep
<1>4. CASE Restart
  <2>1. chat'.synced = FALSE
    BY <1>4, RestartShape, NoChatIs
  <2> QED
    BY <2>1 DEF EndStep
<1>5. CASE UNCHANGED vars
  BY <1>5, <1>a DEF vars, appVars
<1>6. \/ FlushQueue \/ ReceivePage \/ PrepareChat \/ Restart \/ UNCHANGED vars
      \/ chat' = chat
  <2>1. CASE Internal
    BY <2>1 DEF Internal, Answer, Subscribe, ReceiveRow, ReceiveNotice, ReceiveFailure,
       ReceiveSubscribed, Retry, RetrySubscription, Connect, appVars
  <2>2. CASE External
    BY <2>2 DEF External, AppendRow, Rewind, Reload, Refuse, RefuseSubscription, Retry, Foreground,
       LoadOlder, CloseChat, OpenChat, OtherChat, Disconnect, appVars
  <2> QED
    BY <2>1, <2>2 DEF Next
<1> QED
  BY <1>1, <1>2, <1>3, <1>4, <1>5, <1>6, <1>a

\* What is held of an epoch never shrinks at its end, whatever arrives late or
\* is replaced.
THEOREM EndOnlyAdvancesHolds == Spec => EndOnlyAdvances
<1>1. Shape /\ Positions /\ [Next]_vars => EndStep
  BY NextEndStep
<1>2. Spec => [][EndStep]_vars
  BY <1>1, ShapeHolds, PositionsHold, PTL DEF Spec
<1> QED
  BY <1>2 DEF EndOnlyAdvances, EndStep

-----------------------------------------------------------------------------
(* Links: what the app knows of its subscription and what the daemon does. *)

SubsIn(box) == \E i \in DOMAIN box : box[i].kind = "subscribe"
AcksIn(ws) == \E i \in DOMAIN ws : ws[i].kind = "subscribed"

\* What the app knows of its subscription, and what the daemon does.
Links ==
  /\ ~ up => inbox = <<>> /\ wire = <<>> /\ ~ acked /\ ~ subscribed
  /\ up /\ desired => subscribed \/ subRetry \/ SubsIn(inbox)
  /\ subscribed => desired /\ (acked \/ AcksIn(wire))
  /\ \A i \in DOMAIN wire : wire[i].kind = "subscribed" =>
       (wire[i].open <=> desired) /\ (desired => subscribed)
  /\ \A i \in DOMAIN inbox : inbox[i].kind = "subscribe" =>
       (inbox[i].open <=> desired) /\ ~ subscribed /\ ~ subRetry
  /\ \A i, j \in DOMAIN inbox : inbox[i].kind = "subscribe" /\ inbox[j].kind = "subscribe" => i = j
  /\ subRetry => ~ subscribed
  /\ ~ subscribed => \A i \in DOMAIN wire : wire[i].kind \notin {"row", "notice"}

\* The subscriptions in one box are those in the other.
SameSubs(b, a) ==
  /\ \A i \in DOMAIN b : b[i].kind = "subscribe" =>
       \E j \in DOMAIN a : a[j].kind = "subscribe" /\ a[j].open = b[i].open
  /\ SubsIn(a) => SubsIn(b)
  /\ (\A i, j \in DOMAIN a : a[i].kind = "subscribe" /\ a[j].kind = "subscribe" => i = j)
     => \A i, j \in DOMAIN b : b[i].kind = "subscribe" /\ b[j].kind = "subscribe" => i = j

LEMMA SameSubsItself ==
    ASSUME NEW a
    PROVE  SameSubs(a, a)
BY DEF SameSubs

LEMMA SameSubsAlike ==
    ASSUME NEW a, NEW b, AllAlike(b, a)
    PROVE  SameSubs(b, a)
<1>1. DOMAIN b = DOMAIN a /\ \A i \in DOMAIN a : Alike(b[i], a[i])
  BY DEF AllAlike
<1>2. \A i \in DOMAIN a : /\ b[i].kind = a[i].kind
                          /\ a[i].kind = "subscribe" => b[i] = a[i]
  BY <1>1 DEF Alike, Asks
<1> QED
  BY <1>1, <1>2 DEF SameSubs, SubsIn

LEMMA SameSubsIssue ==
    ASSUME NEW box \in Seq(Inbound), NEW ws \in Seq(Outbound), NEW req \in Requests,
           NEW initialize \in BOOLEAN, NEW before \in Inits,
           initialize => req.dir # "before",
           Issue(req, initialize, before, box, ws)
    PROVE  SameSubs(inbox', box)
<1> DEFINE b == inbox'
<1>1. \/ AllAlike(b, box)
      \/ /\ DOMAIN b = 1 .. Len(box) + 1 /\ \A i \in DOMAIN box : b[i] = box[i]
         /\ b[Len(box) + 1].kind = "fetch"
  BY IssueIs
<1> HIDE DEF b
<1>2. CASE AllAlike(b, box)
  BY <1>2, SameSubsAlike DEF b
<1>3. CASE /\ DOMAIN b = 1 .. Len(box) + 1 /\ \A i \in DOMAIN box : b[i] = box[i]
           /\ b[Len(box) + 1].kind = "fetch"
  <2>1. DOMAIN box = 1 .. Len(box) /\ Len(box) \in Nat
    OBVIOUS
  <2>2. \A i \in DOMAIN b : i \in DOMAIN box \/ i = Len(box) + 1
    BY <1>3, <2>1
  <2>3. DOMAIN box \subseteq DOMAIN b
    BY <1>3, <2>1
  <2>4. \A i \in DOMAIN b : b[i].kind = "subscribe" => i \in DOMAIN box /\ b[i] = box[i]
    BY <1>3, <2>2
  <2>5. SameSubs(b, box)
    BY <1>3, <2>3, <2>4 DEF SameSubs, SubsIn
  <2> QED
    BY <2>5 DEF b
<1> QED
  BY <1>1, <1>2, <1>3

LEMMA SameSubsTail ==
    ASSUME NEW S, NEW a \in Seq(S), a # <<>>, a[1].kind # "subscribe"
    PROVE  SameSubs(Tail(a), a)
<1> DEFINE b == Tail(a)
<1>1. /\ DOMAIN b = 1 .. Len(a) - 1 /\ DOMAIN a = 1 .. Len(a) /\ Len(a) \in Nat
      /\ \A i \in DOMAIN b : b[i] = a[i + 1] /\ i + 1 \in DOMAIN a
  OBVIOUS
<1>2. \A j \in DOMAIN a : j = 1 \/ (j - 1 \in DOMAIN b /\ a[j] = b[j - 1])
  BY <1>1
<1> HIDE DEF b
<1>3. \A i \in DOMAIN b : b[i].kind = "subscribe" =>
       \E j \in DOMAIN a : a[j].kind = "subscribe" /\ a[j].open = b[i].open
  BY <1>1
<1>4. SubsIn(a) => SubsIn(b)
  BY <1>1, <1>2 DEF SubsIn
<1>5. ASSUME \A i, j \in DOMAIN a : a[i].kind = "subscribe" /\ a[j].kind = "subscribe" => i = j,
             NEW i \in DOMAIN b, NEW j \in DOMAIN b, b[i].kind = "subscribe", b[j].kind = "subscribe"
      PROVE  i = j
  <2>1. i + 1 = j + 1
    BY <1>1, <1>5
  <2> QED
    BY <1>1, <2>1
<1> QED
  BY <1>3, <1>4, <1>5 DEF SameSubs, b

\* What is on the wire was there before, and no acknowledgement is lost unheard.
LEMMA LinksKept ==
    ASSUME Links, SameSubs(inbox', inbox), Thinned(wire', wire), wire' \in Seq(Outbound),
           wire \in Seq(Outbound),
           AcksIn(wire) /\ ~ acked => AcksIn(wire') \/ acked' \/ ~ desired,
           acked => acked' \/ ~ desired, acked' => up, inbox' # <<>> => up, 
           UNCHANGED <<up, desired, subscribed, subRetry>>
    PROVE  Links'
<1>1. \A i \in DOMAIN wire' : \E j \in DOMAIN wire :
        /\ wire'[i].kind = wire[j].kind
        /\ wire[j].kind = "subscribed" => wire'[i] = wire[j]
  <2>1. \A i \in DOMAIN wire' : \E j \in DOMAIN wire : Alike(wire'[i], wire[j])
    <3> DEFINE ws == wire'
    <3>1. ws \in Seq(Outbound) /\ Thinned(ws, wire)
      OBVIOUS
    <3> HIDE DEF ws
    <3>2. \A i \in DOMAIN ws : \E j \in DOMAIN wire : Alike(ws[i], wire[j])
      BY <3>1, ThinnedIs
    <3> QED
      BY <3>2 DEF ws
  <2> QED
    BY <2>1 DEF Alike, Asks
<1>2. wire = <<>> => wire' = <<>>
  <2>1. wire = <<>> => DOMAIN wire = {}
    OBVIOUS
  <2>2. wire = <<>> => DOMAIN wire' = {}
    BY <1>1, <2>1
  <2> DEFINE ws == wire'
  <2>3. ws \in Seq(Outbound) /\ (DOMAIN ws = {} => ws = <<>>)
    OBVIOUS
  <2> QED
    BY <2>2, <2>3
<1>3. (~ up => inbox = <<>> /\ wire = <<>> /\ ~ acked /\ ~ subscribed)'
  BY <1>2 DEF Links
<1>4. (up /\ desired => subscribed \/ subRetry \/ SubsIn(inbox))'
  <2>1. SubsIn(inbox) => SubsIn(inbox)'
    BY DEF SameSubs, SubsIn
  <2> QED
    BY <2>1 DEF Links
<1>5. (subscribed => desired /\ (acked \/ AcksIn(wire)))'
  BY DEF Links, AcksIn
<1>6. (\A i \in DOMAIN wire : wire[i].kind = "subscribed" =>
       (wire[i].open <=> desired) /\ (desired => subscribed))'
  BY <1>1 DEF Links
<1>7. (\A i \in DOMAIN inbox : inbox[i].kind = "subscribe" =>
       (inbox[i].open <=> desired) /\ ~ subscribed /\ ~ subRetry)'
  BY DEF Links, SameSubs
<1>8. (\A i, j \in DOMAIN inbox : inbox[i].kind = "subscribe" /\ inbox[j].kind = "subscribe" => i = j)'
  BY DEF Links, SameSubs
<1>9. (subRetry => ~ subscribed)'
  BY DEF Links
<1>10. (~ subscribed => \A i \in DOMAIN wire : wire[i].kind \notin {"row", "notice"})'
  BY <1>1 DEF Links
<1> QED
  BY <1>3, <1>4, <1>5, <1>6, <1>7, <1>8, <1>9, <1>10 DEF Links

\* The app subscribes anew.
LEMMA LinksObserved ==
    ASSUME Shape, Links, NEW open \in BOOLEAN,
           SameSubs(inbox', Append(OfKind(inbox, {"fetch"}), [kind |-> "subscribe", open |-> open])),
           \A i \in DOMAIN wire' : wire'[i].kind \in {"page", "fail"},
           up', open <=> desired', acked' => up', ~ subscribed', ~ subRetry'
    PROVE  Links'
<1> DEFINE b == OfKind(inbox, {"fetch"})
           m == [kind |-> "subscribe", open |-> open]
           a == Append(b, m)
<1>1. b \in Seq(Inbound) /\ \A i \in DOMAIN b : b[i].kind = "fetch"
  BY TypesNow, OfKindIs
<1>m. m.kind = "subscribe" /\ m.open = open
  OBVIOUS
<1>2. SameSubs(inbox', a)
  OBVIOUS
<1> HIDE DEF b, m
<1>3. /\ DOMAIN a = 1 .. Len(b) + 1 /\ DOMAIN b = 1 .. Len(b) /\ Len(b) \in Nat
      /\ \A i \in DOMAIN b : a[i] = b[i]
      /\ a[Len(b) + 1] = m
  BY <1>1
<1> HIDE DEF a
<1>4. \A i \in DOMAIN a : a[i].kind = "subscribe" => i = Len(b) + 1 /\ a[i].open = open
  BY <1>1, <1>3, <1>m
<1>5. SubsIn(a)
  BY <1>3, <1>m DEF SubsIn
<1>6. /\ \A i \in DOMAIN inbox' : inbox'[i].kind = "subscribe" => inbox'[i].open = open
      /\ \A i, j \in DOMAIN inbox' : inbox'[i].kind = "subscribe" /\ inbox'[j].kind = "subscribe" => i = j
      /\ SubsIn(inbox')
  BY <1>2, <1>4, <1>5 DEF SameSubs
<1>7. SubsIn(inbox)'
  BY <1>6 DEF SubsIn
<1> QED
  BY <1>6, <1>7 DEF Links

\* The daemon sends a message other than an acknowledgement.
LEMMA LinksSent ==
    ASSUME Links, SameSubs(inbox', inbox), inbox' # <<>> => up, wire \in Seq(Outbound),
           NEW m \in Outbound, wire' = Append(wire, m), m.kind # "subscribed",
           m.kind \in {"row", "notice"} => subscribed, up,
           UNCHANGED <<up, desired, acked, subscribed, subRetry>>
    PROVE  Links'
<1> DEFINE ws == Append(wire, m)
<1>1. /\ DOMAIN ws = 1 .. Len(wire) + 1 /\ DOMAIN wire = 1 .. Len(wire) /\ Len(wire) \in Nat
      /\ \A i \in DOMAIN wire : ws[i] = wire[i]
      /\ ws[Len(wire) + 1] = m
  OBVIOUS
<1>2. wire' = ws
  OBVIOUS
<1> HIDE DEF ws
<1>3. \A i \in DOMAIN ws : (i \in DOMAIN wire /\ ws[i] = wire[i]) \/ ws[i] = m
  BY <1>1
<1>4. AcksIn(wire) => AcksIn(ws)
  BY <1>1 DEF AcksIn
<1>5. (up /\ desired => subscribed \/ subRetry \/ SubsIn(inbox))'
  <2>1. SubsIn(inbox) => SubsIn(inbox)'
    BY DEF SameSubs, SubsIn
  <2> QED
    BY <2>1 DEF Links
<1>6. (subscribed => desired /\ (acked \/ AcksIn(wire)))'
  BY <1>2, <1>4 DEF Links, AcksIn
<1>7. (\A i \in DOMAIN wire : wire[i].kind = "subscribed" =>
       (wire[i].open <=> desired) /\ (desired => subscribed))'
  BY <1>2, <1>3 DEF Links
<1>8. (\A i \in DOMAIN inbox : inbox[i].kind = "subscribe" =>
       (inbox[i].open <=> desired) /\ ~ subscribed /\ ~ subRetry)'
  BY DEF Links, SameSubs
<1>9. (\A i, j \in DOMAIN inbox : inbox[i].kind = "subscribe" /\ inbox[j].kind = "subscribe" => i = j)'
  BY DEF Links, SameSubs
<1>10. (subRetry => ~ subscribed)'
  BY DEF Links
<1>11. (~ subscribed => \A i \in DOMAIN wire : wire[i].kind \notin {"row", "notice"})'
  BY <1>2, <1>3 DEF Links
<1> QED
  BY <1>5, <1>6, <1>7, <1>8, <1>9, <1>10, <1>11 DEF Links

\* One message is taken from the wire, or none, and requests may be shared.
LEMMA AcksIssue ==
    ASSUME NEW ws, NEW vs, AllAlike(vs, ws)
    PROVE  AcksIn(vs) <=> AcksIn(ws)
<1>1. DOMAIN vs = DOMAIN ws /\ \A i \in DOMAIN ws : vs[i].kind = ws[i].kind
  BY DEF AllAlike, Alike
<1> QED
  BY <1>1 DEF AcksIn

LEMMA AcksTail ==
    ASSUME NEW S, NEW ws \in Seq(S), ws # <<>>, ws[1].kind # "subscribed"
    PROVE  AcksIn(ws) => AcksIn(Tail(ws))
<1> DEFINE b == Tail(ws)
<1>1. /\ DOMAIN b = 1 .. Len(ws) - 1 /\ DOMAIN ws = 1 .. Len(ws) /\ Len(ws) \in Nat
      /\ \A i \in DOMAIN b : b[i] = ws[i + 1] /\ i + 1 \in DOMAIN ws
  OBVIOUS
<1>2. \A j \in DOMAIN ws : j = 1 \/ (j - 1 \in DOMAIN b /\ ws[j] = b[j - 1])
  BY <1>1
<1> HIDE DEF b
<1>3. AcksIn(ws) => AcksIn(b)
  BY <1>2 DEF AcksIn
<1> QED
  BY <1>3 DEF b

\* What an issue does to the subscriptions, the acknowledgements and the inbox.
LEMMA LinksIssue ==
    ASSUME Shape, Links, NEW ws \in Seq(Outbound), Thinned(ws, wire),
           NEW req \in Requests, NEW initialize \in BOOLEAN, NEW before \in Inits,
           initialize => req.dir # "before",
           Issue(req, initialize, before, inbox, ws),
           AcksIn(wire) /\ ~ acked => AcksIn(ws) \/ acked' \/ ~ desired,
           acked => acked' \/ ~ desired, acked' => up, req # NoReq => up,
           UNCHANGED <<up, desired, subscribed, subRetry>>
    PROVE  Links'
<1>1. inbox \in Seq(Inbound)
  BY TypesNow
<1>2. SameSubs(inbox', inbox)
  BY <1>1, SameSubsIssue
<1>3. /\ inbox' \in Seq(Inbound) /\ wire' \in Seq(Outbound) /\ AllAlike(wire', ws)
      /\ req = NoReq => inbox' = inbox
  BY <1>1, IssueIs
<1>4. Thinned(wire', wire)
  BY <1>1, IssueShape
<1>5. AcksIn(wire)' <=> AcksIn(ws)
  <2> DEFINE vs == wire'
  <2>1. AllAlike(vs, ws)
    BY <1>3
  <2> HIDE DEF vs
  <2>2. AcksIn(vs) <=> AcksIn(ws)
    BY <2>1, AcksIssue
  <2> QED
    BY <2>2 DEF vs, AcksIn
<1>6. AcksIn(wire') <=> AcksIn(ws)
  BY <1>5 DEF AcksIn
<1>7. inbox' # <<>> => up
  BY <1>3 DEF Links
<1>8. wire \in Seq(Outbound)
  BY TypesNow
<1> QED
  BY <1>2, <1>3, <1>4, <1>6, <1>7, <1>8, LinksKept

\* Nothing is asked without a connection.
LEMMA FetchNeedsLink ==
    ASSUME NEW s, NEW can, NEW resume, NEW req, NEW supersede, NEW next, NEW d,
           Starting(s, can, resume, req, supersede, next, d), d.fetch # NoReq
    PROVE  can
BY DEF Starting

LEMMA RecoveryNeedsLink ==
    ASSUME NEW s, NEW resume, NEW range, NEW d, Recovering(s, resume, range, d), d.fetch # NoReq
    PROVE  CanCatchUp
<1> DEFINE next == AfterReq(range.epoch, range.end)
<1>1. Starting(s, CanCatchUp, resume, next, TRUE, next, d)
  BY DEF Recovering, Superseding
<1> HIDE DEF next
<1> QED
  BY <1>1 DEF Starting

LEMMA DaemonLinks ==
    ASSUME Shape, Links
    PROVE  /\ \A a \in NextAnchors(rows[epoch]) : AppendRow(a) => Links'
           /\ \A k \in 0 .. MaxRows : Rewind(k) => Links'
           /\ Reload => Links'
           /\ Answer => Links'
           /\ Refuse => Links'
<1>t. inbox \in Seq(Inbound) /\ wire \in Seq(Outbound) /\ Thinned(wire, wire)
  BY TypesNow
<1>s. SameSubs(inbox, inbox)
  BY SameSubsItself
<1>0. ASSUME UNCHANGED <<inbox, wire, up, desired, acked, subscribed, subRetry>>
      PROVE  Links'
  BY <1>0 DEF Links, SubsIn, AcksIn
<1>1. ASSUME NEW a \in NextAnchors(rows[epoch]), AppendRow(a) PROVE Links'
  <2>1. UNCHANGED <<inbox, up, desired, acked, subscribed, subRetry>>
    BY <1>1 DEF AppendRow, appVars
  <2>2. PICK r \in Rows : wire' = IF subscribed THEN Append(wire, [kind |-> "row", row |-> r]) ELSE wire
    BY <1>1, AppendRowShape
  <2>3. CASE subscribed
    <3> DEFINE m == [kind |-> "row", row |-> r]
    <3>1. m \in Outbound /\ m.kind = "row"
      BY DEF Outbound, RowMsgs
    <3>2. wire' = Append(wire, m)
      BY <2>2, <2>3
    <3>3. up
      BY <2>3 DEF Links
    <3> HIDE DEF m
    <3>4. SameSubs(inbox', inbox)
      BY <2>1, <1>s
    <3> QED
      BY <1>t, <2>1, <2>3, <3>1, <3>2, <3>3, <3>4, LinksSent
  <2>4. CASE ~ subscribed
    BY <1>0, <2>1, <2>2, <2>4
  <2> QED
    BY <2>3, <2>4
<1>2. ASSUME NEW k \in 0 .. MaxRows, Rewind(k) PROVE Links'
  <2>1. UNCHANGED <<inbox, up, desired, acked, subscribed, subRetry>>
    BY <1>2 DEF Rewind, appVars
  <2>2. wire' = IF subscribed THEN Append(wire, [kind |-> "notice"]) ELSE wire
    BY <1>2, RewindShape
  <2>3. CASE subscribed
    <3> DEFINE m == [kind |-> "notice"]
    <3>1. m \in Outbound /\ m.kind = "notice"
      BY DEF Outbound, NoticeMsgs
    <3>2. wire' = Append(wire, m)
      BY <2>2, <2>3
    <3>3. up
      BY <2>3 DEF Links
    <3> HIDE DEF m
    <3>4. SameSubs(inbox', inbox)
      BY <2>1, <1>s
    <3> QED
      BY <1>t, <2>1, <2>3, <3>1, <3>2, <3>3, <3>4, LinksSent
  <2>4. CASE ~ subscribed
    BY <1>0, <2>1, <2>2, <2>4
  <2> QED
    BY <2>3, <2>4
<1>3. ASSUME Reload PROVE Links'
  BY <1>0, <1>3 DEF Reload, linkVars, appVars
<1>4. ASSUME NEW m \in Outbound, m.kind \in {"page", "fail"}, wire' = Append(wire, m),
             inbox # <<>>, inbox[1].kind = "fetch", inbox' = Tail(inbox),
             UNCHANGED <<daemonVars, up, appVars>>
      PROVE  Links'
  <2>1. UNCHANGED <<up, desired, acked, subscribed, subRetry>>
    BY <1>4 DEF daemonVars, appVars
  <2>2. SameSubs(inbox', inbox)
    BY <1>t, <1>4, SameSubsTail
  <2>3. up
    BY <1>4 DEF Links
  <2> QED
    BY <1>t, <1>4, <2>1, <2>2, <2>3, LinksSent
<1>5. ASSUME Answer PROVE Links'
  <2>1. /\ Head(inbox) \in FetchMsgs /\ Head(inbox) = inbox[1] /\ inbox # <<>>
        /\ UNCHANGED <<daemonVars, up, appVars, stored, faults>>
        /\ inbox' = Tail(inbox)
    BY <1>5, AnswerShape
  <2>2. PICK p \in Pages : wire' = Append(wire, [kind |-> "page", req |-> Head(inbox).req,
                                         fresh |-> Head(inbox).fresh, page |-> p])
    BY <1>5, AnswerShape
  <2> DEFINE m == [kind |-> "page", req |-> Head(inbox).req, fresh |-> Head(inbox).fresh, page |-> p]
  <2>3. m \in Outbound /\ m.kind = "page" /\ inbox[1].kind = "fetch"
    BY <2>1 DEF Outbound, PageMsgs, FetchMsgs
  <2> QED
    BY <1>4, <2>1, <2>2, <2>3
<1>6. ASSUME Refuse PROVE Links'
  <2>1. /\ Head(inbox) \in FetchMsgs /\ Head(inbox) = inbox[1] /\ inbox # <<>>
        /\ UNCHANGED <<daemonVars, up, appVars, stored>>
        /\ inbox' = Tail(inbox)
    BY <1>6, RefuseShape
  <2>2. PICK m \in FailMsgs : wire' = Append(wire, m)
    BY <1>6, RefuseShape
  <2>3. m \in Outbound /\ m.kind = "fail" /\ inbox[1].kind = "fetch"
    BY <2>1 DEF Outbound, FailMsgs, FetchMsgs
  <2> QED
    BY <1>4, <2>1, <2>2, <2>3
<1> QED
  BY <1>1, <1>2, <1>3, <1>5, <1>6

\* The daemon takes the subscription, or refuses it.
LEMMA SubscriptionLinks ==
    ASSUME Shape, Links, NEW i \in DOMAIN inbox, Subscribe(i) \/ RefuseSubscription(i)
    PROVE  Links'
<1>1. inbox \in Seq(Inbound) /\ wire \in Seq(Outbound)
  BY TypesNow
<1>2. /\ inbox[i].kind = "subscribe" /\ inbox[i].open \in BOOLEAN /\ inbox' = Without(inbox, i)
      /\ UNCHANGED <<up, desired, acked>>
  BY SubscribeShape, RefuseSubscriptionShape DEF appVars, daemonVars
<1>3. ~ subscribed /\ ~ subRetry /\ (inbox[i].open <=> desired) /\ up
  <2>1. inbox # <<>>
    BY <1>1
  <2> QED
    BY <1>2, <2>1 DEF Links
<1>4. \A j \in DOMAIN inbox' : inbox'[j].kind # "subscribe"
  <2> DEFINE b == inbox'
  <2>1. /\ DOMAIN b = 1 .. Len(inbox) - 1 /\ DOMAIN inbox = 1 .. Len(inbox) /\ Len(inbox) \in Nat
        /\ \A k \in 1 .. Len(inbox) - 1 : b[k] = IF k < i THEN inbox[k] ELSE inbox[k + 1]
    BY <1>1, <1>2, RemovedIs
  <2> HIDE DEF b
  <2>2. \A k \in DOMAIN b : \E j \in DOMAIN inbox : j # i /\ b[k] = inbox[j]
    <3> SUFFICES ASSUME NEW k \in DOMAIN b PROVE \E j \in DOMAIN inbox : j # i /\ b[k] = inbox[j]
      OBVIOUS
    <3>1. CASE k < i
      BY <2>1, <3>1
    <3>2. CASE ~ (k < i)
      BY <2>1, <3>2
    <3> QED
      BY <3>1, <3>2
  <2>3. \A k \in DOMAIN b : b[k].kind # "subscribe"
    BY <1>2, <2>2 DEF Links
  <2> QED
    BY <2>3 DEF b
<1>5. CASE Subscribe(i)
  <2> DEFINE m == [kind |-> "subscribed", open |-> inbox[i].open]
             ws == Append(wire, m)
  <2>1. subscribed' = inbox[i].open /\ wire' = ws /\ UNCHANGED subRetry
    BY <1>5, SubscribeShape DEF appVars
  <2>2. m.kind = "subscribed" /\ m.open = inbox[i].open
    OBVIOUS
  <2> HIDE DEF m
  <2>3. /\ DOMAIN ws = 1 .. Len(wire) + 1 /\ DOMAIN wire = 1 .. Len(wire) /\ Len(wire) \in Nat
        /\ \A j \in DOMAIN wire : ws[j] = wire[j]
        /\ ws[Len(wire) + 1] = m
    BY <1>1
  <2> HIDE DEF ws
  <2>4. \A j \in DOMAIN ws : (j \in DOMAIN wire /\ ws[j] = wire[j]) \/ ws[j] = m
    BY <2>3
  <2>5. AcksIn(ws)
    BY <2>2, <2>3 DEF AcksIn
  <2>6. \A j \in DOMAIN ws : ws[j].kind = "subscribed" => (ws[j].open <=> desired)
    BY <1>3, <2>2, <2>4 DEF Links
  <2>7. \A j \in DOMAIN ws : ws[j].kind \notin {"row", "notice"}
    BY <1>3, <2>2, <2>4 DEF Links
  <2>8. subscribed' <=> desired
    BY <1>3, <2>1
  <2>9. AcksIn(wire)'
    BY <2>1, <2>5 DEF AcksIn
  <2> QED
    BY <1>2, <1>3, <1>4, <2>1, <2>6, <2>7, <2>8, <2>9 DEF Links
<1>6. CASE RefuseSubscription(i)
  <2>1. subRetry' = inbox[i].open /\ UNCHANGED <<wire, subscribed>>
    BY <1>6, RefuseSubscriptionShape DEF daemonVars
  <2> QED
    BY <1>2, <1>3, <1>4, <2>1 DEF Links
<1> QED
  BY <1>5, <1>6

LEMMA AppLinks ==
    ASSUME Shape, Links
    PROVE  /\ ReceiveRow => Links'
           /\ FlushQueue => Links'
           /\ ReceiveNotice => Links'
           /\ ReceivePage => Links'
           /\ ReceiveFailure => Links'
           /\ ReceiveSubscribed => Links'
           /\ PrepareChat => Links'
           /\ \A manual \in BOOLEAN : Retry(manual) => Links'
           /\ Foreground => Links'
           /\ LoadOlder => Links'
<1>t. /\ inbox \in Seq(Inbound) /\ wire \in Seq(Outbound) /\ Thinned(wire, wire)
      /\ CanCatchUp => up
      /\ acked \in BOOLEAN /\ init \in Inits /\ chat.synced \in BOOLEAN
  BY TypesNow
<1>s. SameSubs(inbox, inbox)
  BY SameSubsItself
<1>u. acked => up
  BY DEF Links
<1>r. \A req \in CatchUps : req \in Requests /\ req.dir # "before"
  BY CatchUpFields
<1>h. ASSUME wire # <<>>
      PROVE  /\ Tail(wire) \in Seq(Outbound) /\ Thinned(Tail(wire), wire) /\ Head(wire) = wire[1]
             /\ wire[1].kind # "subscribed" => (AcksIn(wire) => AcksIn(Tail(wire)))
             /\ up
  <2>1. Tail(wire) \in Seq(Outbound) /\ Thinned(Tail(wire), wire) /\ Head(wire) = wire[1]
    BY <1>t, <1>h, ThinnedTail
  <2>2. wire[1].kind # "subscribed" => (AcksIn(wire) => AcksIn(Tail(wire)))
    BY <1>t, <1>h, AcksTail
  <2>3. up
    BY <1>h DEF Links
  <2> QED
    BY <2>1, <2>2, <2>3
<1>1. ASSUME ReceiveRow PROVE Links'
  <2>1. /\ wire # <<>> /\ wire[1].kind = "row" /\ wire' = Tail(wire)
        /\ UNCHANGED <<subscribed, up, inbox, desired, acked, subRetry>>
    BY <1>1, ReceiveRowShape DEF daemonVars
  <2>2. /\ wire' \in Seq(Outbound) /\ Thinned(wire', wire)
        /\ AcksIn(wire) => AcksIn(wire')
    BY <1>h, <2>1
  <2>3. SameSubs(inbox', inbox) /\ (inbox' # <<>> => up)
    BY <1>s, <2>1 DEF Links
  <2> QED
    BY <1>t, <1>u, <2>1, <2>2, <2>3, LinksKept
<1>2. ASSUME NEW req \in CatchUps, NEW initialize \in BOOLEAN,
             Issue(req, initialize, init, inbox, wire), req # NoReq => CanCatchUp,
             UNCHANGED <<subscribed, up, desired, acked, subRetry>>
      PROVE  Links'
  <2>1. req \in Requests /\ req.dir # "before"
    BY <1>r
  <2> QED
    BY <1>2, <1>t, <1>u, <2>1, LinksIssue
<1>3. ASSUME FlushQueue PROVE Links'
  <2>1. /\ Issue(FlushStart.fetch, ~ FlushedChat.synced, init, inbox, wire)
        /\ UNCHANGED <<subscribed, up, desired, acked, subRetry>>
    BY <1>3, FlushQueueShape DEF daemonVars
  <2>2. /\ FlushStart.fetch \in CatchUps /\ FlushedChat.synced \in BOOLEAN
        /\ Recovering(sync, Resume(FlushedChat, cached), FlushedChat.range, FlushStart)
    BY FlushStartIs, ChatFields
  <2>3. FlushStart.fetch # NoReq => CanCatchUp
    <3> DEFINE d == FlushStart
               resume == Resume(FlushedChat, cached)
    <3>1. Recovering(sync, resume, FlushedChat.range, d)
      BY <2>2
    <3> HIDE DEF d, resume
    <3>2. d.fetch # NoReq => CanCatchUp
      BY <3>1, RecoveryNeedsLink
    <3> QED
      BY <3>2 DEF d
  <2> QED
    BY <1>2, <2>1, <2>2, <2>3
<1>4. ASSUME ReceiveNotice PROVE Links'
  <2>1. /\ wire # <<>> /\ Head(wire).kind = "notice" /\ Issue(TailReq, FALSE, init, inbox, Tail(wire))
        /\ UNCHANGED <<subscribed, up, desired, acked, subRetry>>
    BY <1>4, ReceiveNoticeShape DEF daemonVars
  <2>2. TailReq \in Requests /\ TailReq.dir # "before"
    BY DEF Requests, TailReq
  <2>3. /\ Tail(wire) \in Seq(Outbound) /\ Thinned(Tail(wire), wire)
        /\ AcksIn(wire) => AcksIn(Tail(wire))
        /\ up
    BY <1>h, <2>1
  <2> DEFINE initialize == FALSE
  <2>4. initialize \in BOOLEAN /\ ~ initialize
    OBVIOUS
  <2>5. Issue(TailReq, initialize, init, inbox, Tail(wire))
    BY <2>1
  <2> HIDE DEF initialize
  <2> QED
    BY <1>t, <1>u, <2>1, <2>2, <2>3, <2>4, <2>5, LinksIssue
<1>5. ASSUME ReceivePage PROVE Links'
  <2>1. /\ wire # <<>> /\ Msg.kind = "page"
        /\ Issue(NextFetch, ~ Landed.synced /\ ~ AwaitsLatest, InitLeft, inbox, Tail(wire))
        /\ UNCHANGED <<subscribed, up, desired, acked, subRetry>>
    BY <1>5, ReceivePageNamed DEF daemonVars
  <2>2. /\ NextFetch \in CatchUps /\ AwaitsLatest \in BOOLEAN /\ InitLeft \in Inits
        /\ Landed.synced \in BOOLEAN
    BY <2>1, PageStartsAre, LandedIs, ChatFields
  <2>3. /\ Tail(wire) \in Seq(Outbound) /\ Thinned(Tail(wire), wire)
        /\ AcksIn(wire) => AcksIn(Tail(wire))
        /\ up
    BY <1>h, <2>1 DEF Msg
  <2> DEFINE initialize == ~ Landed.synced /\ ~ AwaitsLatest
  <2>4. initialize \in BOOLEAN
    BY <2>2
  <2>5. Issue(NextFetch, initialize, InitLeft, inbox, Tail(wire))
    BY <2>1
  <2>6. NextFetch \in Requests /\ NextFetch.dir # "before"
    BY <1>r, <2>2
  <2> HIDE DEF initialize
  <2> QED
    BY <1>t, <1>u, <2>1, <2>2, <2>3, <2>4, <2>5, <2>6, LinksIssue
<1>6. ASSUME ReceiveFailure PROVE Links'
  <2>1. /\ wire # <<>> /\ Msg.kind = "fail" /\ wire' = Tail(wire)
        /\ UNCHANGED <<subscribed, up, inbox, desired, acked, subRetry>>
    BY <1>6, ReceiveFailureShape DEF daemonVars
  <2>2. /\ wire' \in Seq(Outbound) /\ Thinned(wire', wire)
        /\ AcksIn(wire) => AcksIn(wire')
    BY <1>h, <2>1 DEF Msg
  <2>3. SameSubs(inbox', inbox) /\ (inbox' # <<>> => up)
    BY <1>s, <2>1 DEF Links
  <2> QED
    BY <1>t, <1>u, <2>1, <2>2, <2>3, LinksKept
<1>7. ASSUME ReceiveSubscribed PROVE Links'
  <2>1. /\ wire # <<>> /\ Msg.kind = "subscribed" /\ Msg.open \in BOOLEAN /\ acked' = Msg.open
        /\ Issue(SubscribedStart.fetch, ~ chat.synced, init, inbox, Tail(wire))
        /\ UNCHANGED <<subscribed, up, desired, subRetry>>
        /\ SubscribedStart.fetch \in CatchUps
    BY <1>7, ReceiveSubscribedShape DEF daemonVars
  <2>2. /\ Tail(wire) \in Seq(Outbound) /\ Thinned(Tail(wire), wire) /\ up
    BY <1>h, <2>1
  <2>3. Msg.open <=> desired
    <3>1. 1 \in DOMAIN wire /\ Msg = wire[1]
      BY <1>h, <1>t, <2>1 DEF Msg
    <3> QED
      BY <2>1, <3>1 DEF Links
  <2> DEFINE initialize == ~ chat.synced
  <2>4. initialize \in BOOLEAN /\ Issue(SubscribedStart.fetch, initialize, init, inbox, Tail(wire))
    BY <1>t, <2>1
  <2>5. SubscribedStart.fetch \in Requests /\ SubscribedStart.fetch.dir # "before"
    BY <1>r, <2>1
  <2> HIDE DEF initialize
  <2> QED
    BY <1>t, <1>u, <2>1, <2>2, <2>3, <2>4, <2>5, LinksIssue
<1>8. ASSUME PrepareChat PROVE Links'
  <2>1. /\ Issue(PrepareStart.fetch, ~ PreparedChat.synced, init, inbox, wire)
        /\ UNCHANGED <<subscribed, up, desired, acked, subRetry>>
        /\ PrepareStart.fetch \in CatchUps
    BY <1>8, PrepareChatShape DEF daemonVars
  <2>2. PreparedChat.synced \in BOOLEAN
    BY PreparedIs, ChatFields
  <2>3. PrepareStart.fetch # NoReq => CanCatchUp
    BY <1>8, PrepareChatShape, FetchNeedsLink
  <2> DEFINE initialize == ~ PreparedChat.synced
  <2>4. initialize \in BOOLEAN /\ Issue(PrepareStart.fetch, initialize, init, inbox, wire)
    BY <2>1, <2>2
  <2> HIDE DEF initialize
  <2> QED
    BY <1>2, <2>1, <2>3, <2>4
<1>9. ASSUME NEW manual \in BOOLEAN, Retry(manual) PROVE Links'
  <2>1. PICK d : /\ d.fetch \in CatchUps /\ Issue(d.fetch, ~ chat.synced, init, inbox, wire)
                 /\ CanCatchUp
    BY <1>9, RetryShape
  <2>2. UNCHANGED <<subscribed, up, desired, acked, subRetry>>
    BY <1>9, RetryShape DEF daemonVars
  <2> DEFINE initialize == ~ chat.synced
  <2>3. initialize \in BOOLEAN /\ Issue(d.fetch, initialize, init, inbox, wire)
    BY <1>t, <2>1
  <2> HIDE DEF initialize
  <2> QED
    BY <1>2, <2>1, <2>2, <2>3
<1>10. ASSUME Foreground PROVE Links'
  <2>1. PICK d : \E next \in CatchUps :
                /\ next = Resume(chat, cached) /\ next # NoReq
                /\ d.sync \in Syncs /\ d.fetch \in CatchUps
                /\ Starting(sync, CanCatchUp, next, NoReq, TRUE, next, d)
                /\ sync' = d.sync /\ Issue(d.fetch, ~ chat.synced, init, inbox, wire)
    BY <1>10, ForegroundShape
  <2>2. UNCHANGED <<subscribed, up, desired, acked, subRetry>>
    BY <1>10, ForegroundShape DEF daemonVars
  <2> DEFINE initialize == ~ chat.synced
  <2>3. initialize \in BOOLEAN /\ Issue(d.fetch, initialize, init, inbox, wire)
    BY <1>t, <2>1
  <2> HIDE DEF initialize
  <2>4. d.fetch # NoReq => CanCatchUp
    BY <2>1 DEF Starting
  <2> QED
    BY <1>2, <2>1, <2>2, <2>3, <2>4
<1>11. ASSUME LoadOlder PROVE Links'
  <2> DEFINE req == BeforeReq(chat.range.epoch, chat.range.start)
             initialize == FALSE
  <2>1. /\ up /\ req \in Reqs /\ Issue(req, initialize, init, inbox, wire)
        /\ UNCHANGED <<subscribed, up, desired, acked, subRetry>>
        /\ initialize \in BOOLEAN /\ ~ initialize
    BY <1>11, LoadOlderShape DEF daemonVars
  <2> HIDE DEF req, initialize
  <2>2. req \in Requests
    BY <2>1, ReqFields
  <2> QED
    BY <1>t, <1>u, <2>1, <2>2, LinksIssue
<1> QED
  BY <1>1, <1>3, <1>4, <1>5, <1>6, <1>7, <1>8, <1>9, <1>10, <1>11

LEMMA ObserveLinks ==
    ASSUME Shape, Links
    PROVE  /\ CloseChat => Links'
           /\ OpenChat => Links'
           /\ OtherChat => Links'
           /\ RetrySubscription => Links'
           /\ Connect => Links'
           /\ Disconnect => Links'
           /\ Restart => Links'
<1>u. acked => up
  BY DEF Links
<1>1. ASSUME NEW open \in BOOLEAN, Observe(open), up', open <=> desired', acked' => up'
      PROVE  Links'
  <2>1. /\ subscribed' = FALSE /\ subRetry' = FALSE
        /\ inbox' = Append(OfKind(inbox, {"fetch"}), [kind |-> "subscribe", open |-> open])
        /\ wire' = OfKind(wire, {"page", "fail"})
    BY <1>1, ObserveShape
  <2>2. SameSubs(inbox', Append(OfKind(inbox, {"fetch"}), [kind |-> "subscribe", open |-> open]))
    BY <2>1, SameSubsItself
  <2>3. \A i \in DOMAIN wire' : wire'[i].kind \in {"page", "fail"}
    BY <2>1, TypesNow, OfKindIs
  <2> QED
    BY <1>1, <2>1, <2>2, <2>3, LinksObserved
<1>2. ASSUME CloseChat PROVE Links'
  <2>1. Observe(FALSE) /\ up /\ up' = up /\ desired' = FALSE
    BY <1>2, CloseChatShape
  <2> DEFINE open == FALSE
  <2>2. open \in BOOLEAN /\ Observe(open) /\ (open <=> desired')
    BY <2>1
  <2> HIDE DEF open
  <2> QED
    BY <1>1, <2>1, <2>2
<1>3. ASSUME NEW dummy, Observe(TRUE), up', desired' PROVE Links'
  <2> DEFINE open == TRUE
  <2>2. open \in BOOLEAN /\ Observe(open) /\ (open <=> desired')
    BY <1>3
  <2> HIDE DEF open
  <2> QED
    BY <1>1, <1>3, <2>2
<1>4. ASSUME OtherChat PROVE Links'
  <2>0. Observe(TRUE) /\ up /\ desired /\ UNCHANGED <<up, desired>>
    BY <1>4, OtherChatShape
  <2>1. Observe(TRUE) /\ up' /\ desired'
    BY <2>0
  <2> QED
    BY <1>3, <2>1
<1>5. ASSUME RetrySubscription PROVE Links'
  <2>0. Observe(TRUE) /\ up /\ desired /\ UNCHANGED <<up, desired>>
    BY <1>5, RetrySubscriptionShape
  <2>1. Observe(TRUE) /\ up' /\ desired'
    BY <2>0
  <2> QED
    BY <1>3, <2>1
<1>6. ASSUME Connect PROVE Links'
  <2>1. /\ up' /\ UNCHANGED <<desired, acked>>
        /\ IF desired THEN Observe(TRUE) ELSE UNCHANGED <<inbox, wire, subscribed, subRetry>>
        /\ ~ up
    BY <1>6, ConnectShape, TypesNow
  <2>2. CASE desired
    BY <1>3, <2>1, <2>2, TypesNow
  <2>3. CASE ~ desired
    BY <2>1, <2>3 DEF Links, SubsIn, AcksIn
  <2> QED
    BY <2>2, <2>3
<1>7. ASSUME Unlinked, ~ acked', ~ subRetry' PROVE Links'
  <2>1. ~ up' /\ ~ subscribed' /\ inbox' = <<>> /\ wire' = <<>>
    BY <1>7, NothingLeft
  <2>2. DOMAIN inbox' = {} /\ DOMAIN wire' = {}
    BY <2>1
  <2> QED
    BY <1>7, <2>1, <2>2 DEF Links
<1>8. ASSUME OpenChat PROVE Links'
  <2> DEFINE open == TRUE
             m == [kind |-> "subscribe", open |-> open]
             box == Append(OfKind(inbox, {"fetch"}), m)
             ws == OfKind(wire, {"page", "fail"})
             initialize == ~ chat.synced
  <2>1. /\ ~ subscribed' /\ ~ subRetry' /\ desired' /\ up'
        /\ Issue(OpenStart.fetch, initialize, init, box, ws)
        /\ OpenStart.fetch \in CatchUps
    BY <1>8, OpenChatShape, TypesNow
  <2>2. open \in BOOLEAN /\ (open <=> desired')
    BY <2>1
  <2>3. acked' => up'
    BY <1>8, <1>u, <2>1, OpenChatShape
  <2>4. initialize \in BOOLEAN /\ init \in Inits
    BY TypesNow
  <2> HIDE DEF open, initialize
  <2>5. box \in Seq(Inbound) /\ ws \in Seq(Outbound)
    BY <2>2, ObservedIs
  <2>6. OpenStart.fetch \in Requests /\ OpenStart.fetch.dir # "before"
    BY <2>1, CatchUpFields
  <2>7. \A i \in DOMAIN ws : ws[i].kind \in {"page", "fail"}
    BY TypesNow, OfKindIs
  <2> HIDE DEF box, ws
  <2>8. SameSubs(inbox', box)
    BY <2>1, <2>4, <2>5, <2>6, SameSubsIssue
  <2>9. AllAlike(wire', ws)
    BY <2>1, <2>4, <2>5, <2>6, IssueIs
  <2>10. \A i \in DOMAIN wire' : wire'[i].kind \in {"page", "fail"}
    BY <2>7, <2>9 DEF AllAlike, Alike
  <2>11. SameSubs(inbox', Append(OfKind(inbox, {"fetch"}), [kind |-> "subscribe", open |-> open]))
    BY <2>8 DEF box
  <2> QED
    BY <2>1, <2>2, <2>3, <2>10, <2>11, LinksObserved
<1>9. ASSUME Disconnect PROVE Links'
  BY <1>7, <1>9, DisconnectShape
<1>10. ASSUME Restart PROVE Links'
  BY <1>7, <1>10, RestartShape
<1> QED
  BY <1>2, <1>4, <1>5, <1>6, <1>8, <1>9, <1>10

\* Every step keeps the links.
LEMMA NextLinks ==
    ASSUME Shape, Links, [Next]_vars
    PROVE  Links'
<1>1. CASE UNCHANGED vars
  <2>1. UNCHANGED <<inbox, wire, up, desired, acked, subscribed, subRetry>>
    BY <1>1 DEF vars, daemonVars, linkVars, appVars
  <2> QED
    BY <2>1 DEF Links, SubsIn, AcksIn
<1>2. CASE Next
  BY <1>2, DaemonLinks, SubscriptionLinks, AppLinks, ObserveLinks DEF Next, Internal, External
<1> QED
  BY <1>1, <1>2

\* The links hold in the first state.
LEMMA InitLinks ==
    ASSUME Init
    PROVE  Links
<1>1. /\ ~ up /\ ~ acked /\ ~ subscribed /\ ~ subRetry /\ inbox = <<>> /\ wire = <<>>
  BY DEF Init
<1>2. DOMAIN inbox = {} /\ DOMAIN wire = {}
  BY <1>1
<1> QED
  BY <1>1, <1>2 DEF Links

\* An open chat is subscribed, or a subscription is on its way or will be tried
\* again; an acknowledgement on its way is the one of the present subscription.
THEOREM LinksHold == Spec => []Links
<1>1. Init => Links
  BY InitLinks
<1>2. Shape /\ Links /\ [Next]_vars => Links'
  BY NextLinks
<1> QED
  BY <1>1, <1>2, ShapeHolds, PTL DEF Spec

-----------------------------------------------------------------------------
(* The course: what of it stands for what, when it is taken, answered or   *)
(* thinned.                                                                *)

\* What is on its way, the answers first: cs is the wire and then the inbox.
Course == wire \o inbox
Msgs == Inbound \cup Outbound
\* The requests in flight.
Flight(cs) == {cs[i].req : i \in {j \in DOMAIN cs : Asks(cs[j])}}

\* m stands for the request n: it is not refused after a notice asked for it.
Like(m, n, ntc) ==
  Asks(n) /\ m.req = n.req /\ (m.kind = "fail" => n.kind = "fail" \/ ~ ntc \/ n.req # TailReq)
Drawing(f, ms, ns, ntc) ==
  \A i \in DOMAIN ms : Asks(ms[i]) =>
     /\ f[i] \in DOMAIN ns /\ Like(ms[i], ns[f[i]], ntc)
     /\ \A j \in DOMAIN ms : i < j /\ Asks(ms[j]) => f[i] < f[j]
\* The requests of ms are among those of ns, in their order.
Drawn(ms, ns, ntc) == \E f : Drawing(f, ms, ns, ntc)

\* The course by its positions.
LEMMA CourseIs ==
    ASSUME NEW S, NEW T, NEW ws \in Seq(S), NEW box \in Seq(T), NEW cs, cs = ws \o box
    PROVE  /\ Len(cs) = Len(ws) + Len(box) /\ DOMAIN cs = 1 .. Len(ws) + Len(box)
           /\ Len(ws) \in Nat /\ Len(box) \in Nat
           /\ DOMAIN ws = 1 .. Len(ws) /\ DOMAIN box = 1 .. Len(box)
           /\ \A i \in 1 .. Len(ws) : cs[i] = ws[i]
           /\ \A i \in 1 .. Len(box) : cs[Len(ws) + i] = box[i]
           /\ \A i \in DOMAIN cs : i \in DOMAIN ws \/ (i - Len(ws) \in DOMAIN box /\ i > Len(ws)
                                                        /\ cs[i] = box[i - Len(ws)])
OBVIOUS

\* What flows together.
LEMMA DrawnTogether ==
    ASSUME NEW S, NEW ws \in Seq(S), NEW ws2 \in Seq(S), NEW T, NEW box \in Seq(T), NEW box2 \in Seq(T),
           NEW ntc, Drawn(ws2, ws, ntc), Drawn(box2, box, ntc)
    PROVE  Drawn(ws2 \o box2, ws \o box, ntc)
<1> DEFINE cs == ws \o box
           cs2 == ws2 \o box2
<1>1. PICK f : Drawing(f, ws2, ws, ntc)
  BY DEF Drawn
<1>2. PICK g : Drawing(g, box2, box, ntc)
  BY DEF Drawn
<1>3. /\ Len(cs) = Len(ws) + Len(box) /\ DOMAIN cs = 1 .. Len(ws) + Len(box)
      /\ Len(ws) \in Nat /\ Len(box) \in Nat
      /\ DOMAIN ws = 1 .. Len(ws) /\ DOMAIN box = 1 .. Len(box)
      /\ \A i \in 1 .. Len(ws) : cs[i] = ws[i]
      /\ \A i \in 1 .. Len(box) : cs[Len(ws) + i] = box[i]
  BY CourseIs
<1>4. /\ Len(ws2) \in Nat /\ Len(box2) \in Nat
      /\ DOMAIN ws2 = 1 .. Len(ws2) /\ DOMAIN box2 = 1 .. Len(box2)
      /\ \A i \in 1 .. Len(ws2) : cs2[i] = ws2[i]
      /\ \A i \in DOMAIN cs2 : i \in DOMAIN ws2 \/ (i - Len(ws2) \in DOMAIN box2 /\ i > Len(ws2)
                                                        /\ cs2[i] = box2[i - Len(ws2)])
      /\ DOMAIN cs2 = 1 .. Len(ws2) + Len(box2)
  BY CourseIs
<1> HIDE DEF cs, cs2
<1> DEFINE h == [i \in DOMAIN cs2 |-> IF i \in DOMAIN ws2 THEN f[i] ELSE Len(ws) + g[i - Len(ws2)]]
<1>5. \A i \in DOMAIN cs2 : Asks(cs2[i]) =>
        \/ i \in DOMAIN ws2 /\ h[i] = f[i] /\ f[i] \in DOMAIN ws /\ Like(cs2[i], ws[f[i]], ntc)
        \/ /\ i \notin DOMAIN ws2 /\ i - Len(ws2) \in DOMAIN box2 /\ h[i] = Len(ws) + g[i - Len(ws2)]
           /\ g[i - Len(ws2)] \in DOMAIN box /\ Like(cs2[i], box[g[i - Len(ws2)]], ntc)
           /\ Asks(box2[i - Len(ws2)])
  <2> SUFFICES ASSUME NEW i \in DOMAIN cs2, Asks(cs2[i])
               PROVE  \/ i \in DOMAIN ws2 /\ h[i] = f[i] /\ f[i] \in DOMAIN ws /\ Like(cs2[i], ws[f[i]], ntc)
                      \/ /\ i \notin DOMAIN ws2 /\ i - Len(ws2) \in DOMAIN box2 /\ h[i] = Len(ws) + g[i - Len(ws2)]
                         /\ g[i - Len(ws2)] \in DOMAIN box /\ Like(cs2[i], box[g[i - Len(ws2)]], ntc)
                         /\ Asks(box2[i - Len(ws2)])
    OBVIOUS
  <2>1. CASE i \in DOMAIN ws2
    BY <1>1, <1>4, <2>1 DEF Drawing
  <2>2. CASE i \notin DOMAIN ws2
    BY <1>2, <1>4, <2>2 DEF Drawing
  <2> QED
    BY <2>1, <2>2
<1>6. \A i \in DOMAIN cs2 : Asks(cs2[i]) => h[i] \in DOMAIN cs /\ Like(cs2[i], cs[h[i]], ntc)
  <2> SUFFICES ASSUME NEW i \in DOMAIN cs2, Asks(cs2[i])
               PROVE  h[i] \in DOMAIN cs /\ Like(cs2[i], cs[h[i]], ntc)
    OBVIOUS
  <2> HIDE DEF h
  <2>1. CASE i \in DOMAIN ws2
    <3>1. h[i] = f[i] /\ f[i] \in DOMAIN ws /\ Like(cs2[i], ws[f[i]], ntc)
      BY <1>5, <2>1
    <3>2. f[i] \in DOMAIN cs /\ cs[f[i]] = ws[f[i]]
      BY <1>3, <3>1
    <3> QED
      BY <3>1, <3>2
  <2>2. CASE i \notin DOMAIN ws2
    <3> DEFINE k == g[i - Len(ws2)]
    <3>1. h[i] = Len(ws) + k /\ k \in DOMAIN box /\ Like(cs2[i], box[k], ntc)
      BY <1>5, <2>2
    <3> HIDE DEF k
    <3>2. Len(ws) + k \in DOMAIN cs /\ cs[Len(ws) + k] = box[k]
      BY <1>3, <3>1
    <3> QED
      BY <3>1, <3>2
  <2> QED
    BY <2>1, <2>2
<1>7. ASSUME NEW i \in DOMAIN cs2, NEW j \in DOMAIN cs2, i < j, Asks(cs2[i]), Asks(cs2[j])
      PROVE  h[i] < h[j]
  <2> HIDE DEF h
  <2>0. i \in Nat /\ j \in Nat
    BY <1>4
  <2>1. CASE i \in DOMAIN ws2 /\ j \in DOMAIN ws2
    <3>1. h[i] = f[i] /\ h[j] = f[j]
      BY <1>5, <1>7, <2>1
    <3>2. Asks(ws2[i]) /\ Asks(ws2[j])
      BY <1>4, <1>7, <2>1
    <3> QED
      BY <1>1, <1>7, <2>1, <3>1, <3>2 DEF Drawing
  <2>2. CASE i \in DOMAIN ws2 /\ j \notin DOMAIN ws2
    <3>1. h[i] = f[i] /\ f[i] \in DOMAIN ws
      BY <1>5, <1>7, <2>2
    <3>2. h[j] = Len(ws) + g[j - Len(ws2)] /\ g[j - Len(ws2)] \in DOMAIN box
      BY <1>5, <1>7, <2>2
    <3> DEFINE a == f[i]
               b == g[j - Len(ws2)]
    <3>3. a \in 1 .. Len(ws) /\ b \in 1 .. Len(box) /\ h[i] = a /\ h[j] = Len(ws) + b
      BY <1>3, <3>1, <3>2
    <3> HIDE DEF a, b
    <3> QED
      BY <1>3, <3>3
  <2>3. CASE i \notin DOMAIN ws2
    <3>0. j \notin DOMAIN ws2
      BY <1>4, <1>7, <2>0, <2>3
    <3>1. h[i] = Len(ws) + g[i - Len(ws2)] /\ h[j] = Len(ws) + g[j - Len(ws2)]
          /\ g[i - Len(ws2)] \in DOMAIN box /\ g[j - Len(ws2)] \in DOMAIN box
          /\ Asks(box2[i - Len(ws2)]) /\ Asks(box2[j - Len(ws2)])
          /\ i - Len(ws2) \in DOMAIN box2 /\ j - Len(ws2) \in DOMAIN box2
      BY <1>5, <1>7, <2>3, <3>0
    <3>2. i - Len(ws2) < j - Len(ws2)
      BY <1>4, <1>7, <2>0
    <3>3. g[i - Len(ws2)] < g[j - Len(ws2)]
      BY <1>2, <3>1, <3>2 DEF Drawing
    <3> DEFINE a == g[i - Len(ws2)]
               b == g[j - Len(ws2)]
    <3>4. a \in 1 .. Len(box) /\ b \in 1 .. Len(box) /\ h[i] = Len(ws) + a /\ h[j] = Len(ws) + b /\ a < b
      BY <1>3, <3>1, <3>3
    <3> HIDE DEF a, b
    <3> QED
      BY <1>3, <3>4
  <2> QED
    BY <2>1, <2>2, <2>3
<1> HIDE DEF h
<1>8. Drawing(h, cs2, cs, ntc)
  BY <1>6, <1>7 DEF Drawing
<1> QED
  BY <1>8 DEF Drawn, cs, cs2

\* Nothing is in flight that was not.
LEMMA DrawnFlight ==
    ASSUME NEW ms, NEW ns, NEW ntc, Drawn(ms, ns, ntc)
    PROVE  Flight(ms) \subseteq Flight(ns)
<1>1. PICK f : Drawing(f, ms, ns, ntc)
  BY DEF Drawn
<1>2. \A i \in DOMAIN ms : Asks(ms[i]) => f[i] \in DOMAIN ns /\ Asks(ns[f[i]]) /\ ms[i].req = ns[f[i]].req
  BY <1>1 DEF Drawing, Like
<1> QED
  BY <1>2 DEF Flight

LEMMA DrawnItself ==
    ASSUME NEW S, NEW ms \in Seq(S), NEW ntc
    PROVE  Drawn(ms, ms, ntc)
<1> DEFINE f == [i \in DOMAIN ms |-> i]
<1>1. \A i \in DOMAIN ms : f[i] = i
  OBVIOUS
<1> HIDE DEF f
<1>2. Drawing(f, ms, ms, ntc)
  BY <1>1 DEF Drawing, Like
<1> QED
  BY <1>2 DEF Drawn

LEMMA DrawnAlike ==
    ASSUME NEW S, NEW ms \in Seq(S), NEW ns, AllAlike(ms, ns), NEW ntc
    PROVE  Drawn(ms, ns, ntc) /\ Drawn(ns, ms, ntc)
<1> DEFINE f == [i \in DOMAIN ms |-> i]
<1>1. \A i \in DOMAIN ms : f[i] = i
  OBVIOUS
<1>2. DOMAIN ms = DOMAIN ns /\ \A i \in DOMAIN ns : Alike(ms[i], ns[i])
  BY DEF AllAlike
<1>3. \A i \in DOMAIN ns : ms[i].kind = ns[i].kind /\ (Asks(ms[i]) <=> Asks(ns[i]))
                           /\ (Asks(ns[i]) => ms[i].req = ns[i].req)
  BY <1>2 DEF Alike, Asks
<1> HIDE DEF f
<1>4. Drawing(f, ms, ns, ntc)
  BY <1>1, <1>2, <1>3 DEF Drawing, Like
<1>5. Drawing(f, ns, ms, ntc)
  BY <1>1, <1>2, <1>3 DEF Drawing, Like
<1> QED
  BY <1>4, <1>5 DEF Drawn

LEMMA DrawnTail ==
    ASSUME NEW S, NEW ms \in Seq(S), ms # <<>>, NEW ntc
    PROVE  /\ Drawn(Tail(ms), ms, ntc)
           /\ ~ Asks(ms[1]) => Drawn(ms, Tail(ms), ntc)
<1> DEFINE b == Tail(ms)
           f == [i \in DOMAIN b |-> i + 1]
           g == [i \in DOMAIN ms |-> i - 1]
<1>1. /\ DOMAIN b = 1 .. Len(ms) - 1 /\ DOMAIN ms = 1 .. Len(ms) /\ Len(ms) \in Nat
      /\ \A i \in DOMAIN b : b[i] = ms[i + 1] /\ i + 1 \in DOMAIN ms
  OBVIOUS
<1> HIDE DEF b
<1>2. \A i \in DOMAIN b : f[i] = i + 1
  OBVIOUS
<1>3. \A i \in DOMAIN ms : g[i] = i - 1
  OBVIOUS
<1> HIDE DEF f, g
<1>4. Drawing(f, b, ms, ntc)
  BY <1>1, <1>2 DEF Drawing, Like
<1>5. ASSUME ~ Asks(ms[1]) PROVE Drawing(g, ms, b, ntc)
  <2>1. \A i \in DOMAIN ms : Asks(ms[i]) => i - 1 \in DOMAIN b /\ b[i - 1] = ms[i]
    BY <1>1, <1>5
  <2> QED
    BY <1>1, <1>3, <2>1 DEF Drawing, Like
<1> QED
  BY <1>4, <1>5 DEF Drawn, b

LEMMA DrawnSent ==
    ASSUME NEW S, NEW ms \in Seq(S), NEW m, ~ Asks(m), NEW ntc
    PROVE  /\ Drawn(Append(ms, m), ms, ntc)
           /\ Drawn(ms, Append(ms, m), ntc)
<1> DEFINE b == Append(ms, m)
           f == [i \in DOMAIN b |-> i]
<1>1. /\ DOMAIN b = 1 .. Len(ms) + 1 /\ DOMAIN ms = 1 .. Len(ms) /\ Len(ms) \in Nat
      /\ \A i \in DOMAIN ms : b[i] = ms[i]
      /\ b[Len(ms) + 1] = m
  OBVIOUS
<1> HIDE DEF b
<1>2. \A i \in DOMAIN b : f[i] = i
  OBVIOUS
<1> HIDE DEF f
<1>3. \A i \in DOMAIN b : Asks(b[i]) => i \in DOMAIN ms
  BY <1>1
<1>4. Drawing(f, b, ms, ntc)
  BY <1>1, <1>2, <1>3 DEF Drawing, Like
<1>5. \A i \in DOMAIN ms : i \in DOMAIN b
  BY <1>1
<1>6. Drawing(f, ms, b, ntc)
  BY <1>1, <1>2, <1>5 DEF Drawing, Like
<1> QED
  BY <1>4, <1>6 DEF Drawn, b

LEMMA DrawnRemoved ==
    ASSUME NEW S, NEW ms \in Seq(S), NEW k \in DOMAIN ms, ~ Asks(ms[k]), NEW b, b = Without(ms, k), NEW ntc
    PROVE  Drawn(b, ms, ntc) /\ Drawn(ms, b, ntc)
<1> DEFINE f == [i \in DOMAIN b |-> IF i < k THEN i ELSE i + 1]
           g == [i \in DOMAIN ms |-> IF i < k THEN i ELSE i - 1]
<1>1. /\ DOMAIN b = 1 .. Len(ms) - 1 /\ DOMAIN ms = 1 .. Len(ms) /\ Len(ms) \in Nat
      /\ \A i \in 1 .. Len(ms) - 1 : b[i] = IF i < k THEN ms[i] ELSE ms[i + 1]
  BY RemovedIs
<1>2. \A i \in DOMAIN b : f[i] = IF i < k THEN i ELSE i + 1
  OBVIOUS
<1>3. \A i \in DOMAIN ms : g[i] = IF i < k THEN i ELSE i - 1
  OBVIOUS
<1> HIDE DEF f, g
<1>4. \A i \in DOMAIN b : f[i] \in DOMAIN ms /\ b[i] = ms[f[i]]
  BY <1>1, <1>2
<1>5. \A i, j \in DOMAIN b : i < j => f[i] < f[j]
  BY <1>1, <1>2
<1>6. Drawing(f, b, ms, ntc)
  BY <1>4, <1>5 DEF Drawing, Like
<1>7. \A i \in DOMAIN ms : Asks(ms[i]) => i # k /\ g[i] \in DOMAIN b /\ b[g[i]] = ms[i]
  <2> SUFFICES ASSUME NEW i \in DOMAIN ms, Asks(ms[i])
               PROVE  i # k /\ g[i] \in DOMAIN b /\ b[g[i]] = ms[i]
    OBVIOUS
  <2>1. i # k
    OBVIOUS
  <2>2. CASE i < k
    BY <1>1, <1>3, <2>2
  <2>3. CASE i > k
    <3>1. g[i] = i - 1 /\ i - 1 \in DOMAIN b /\ ~ (i - 1 < k)
      BY <1>1, <1>3, <2>3
    <3> QED
      BY <1>1, <2>1, <3>1
  <2> QED
    BY <1>1, <2>1, <2>2, <2>3
<1>8. \A i, j \in DOMAIN ms : i < j /\ i # k /\ j # k => g[i] < g[j]
  BY <1>1, <1>3
<1>9. Drawing(g, ms, b, ntc)
  BY <1>7, <1>8 DEF Drawing, Like
<1> QED
  BY <1>6, <1>9 DEF Drawn

\* The messages of some kinds, when the others ask for nothing.
LEMMA DrawnOfKind ==
    ASSUME NEW S, NEW ns \in Seq(S), NEW kinds,
           \A i \in DOMAIN ns : Asks(ns[i]) => ns[i].kind \in kinds, NEW ntc
    PROVE  /\ Drawn(OfKind(ns, kinds), ns, ntc)
           /\ Drawn(ns, OfKind(ns, kinds), ntc)
<1> DEFINE b == OfKind(ns, kinds)
<1>1. PICK f : /\ Through(b, ns, f)
               /\ \A i \in DOMAIN b : b[i] = ns[f[i]]
               /\ \A j \in DOMAIN ns : ns[j].kind \in kinds => \E i \in DOMAIN b : f[i] = j
  BY OfKindIs
<1>2. b \in Seq(S)
  BY OfKindIs
<1> HIDE DEF b
<1>3. /\ DOMAIN b = 1 .. Len(b) /\ Len(b) \in Nat /\ DOMAIN ns = 1 .. Len(ns) /\ Len(ns) \in Nat
  BY <1>2
<1>4. /\ \A i \in DOMAIN b : f[i] \in DOMAIN ns
      /\ \A i, j \in DOMAIN b : i < j => f[i] < f[j]
  BY <1>1, <1>3 DEF Through
<1>5. Drawing(f, b, ns, ntc)
  BY <1>1, <1>4 DEF Drawing, Like
<1> DEFINE g == [j \in DOMAIN ns |-> CHOOSE i \in DOMAIN b : f[i] = j]
<1>6. \A j \in DOMAIN ns : Asks(ns[j]) => g[j] \in DOMAIN b /\ f[g[j]] = j
  <2> SUFFICES ASSUME NEW j \in DOMAIN ns, Asks(ns[j])
               PROVE  g[j] \in DOMAIN b /\ f[g[j]] = j
    OBVIOUS
  <2>1. \E i \in DOMAIN b : f[i] = j
    BY <1>1
  <2>2. g[j] = CHOOSE i \in DOMAIN b : f[i] = j
    OBVIOUS
  <2> QED
    BY <2>1, <2>2
<1> HIDE DEF g
<1>7. ASSUME NEW i \in DOMAIN ns, NEW j \in DOMAIN ns, i < j, Asks(ns[i]), Asks(ns[j])
      PROVE  g[i] < g[j]
  <2> DEFINE x == g[i]
             y == g[j]
  <2>1. x \in DOMAIN b /\ y \in DOMAIN b /\ f[x] = i /\ f[y] = j
    BY <1>6, <1>7
  <2> HIDE DEF x, y
  <2>2. x \in Nat /\ y \in Nat /\ i \in Nat /\ j \in Nat
    BY <1>3, <2>1
  <2>3. ~ (y < x)
    <3>1. y < x => f[y] < f[x]
      BY <1>4, <2>1
    <3> QED
      BY <1>7, <2>1, <2>2, <3>1
  <2>4. x # y
    BY <1>7, <2>1, <2>2
  <2>5. x < y
    BY <2>2, <2>3, <2>4
  <2> QED
    BY <2>5 DEF x, y
<1>8. Drawing(g, ns, b, ntc)
  BY <1>1, <1>6, <1>7 DEF Drawing, Like
<1> QED
  BY <1>5, <1>8 DEF Drawn, b

\* The first request of the inbox is answered.
LEMMA DrawnAnswered ==
    ASSUME NEW S, NEW ws \in Seq(S), NEW T, NEW box \in Seq(T), box # <<>>, NEW m, NEW ntc,
           Asks(m), Like(m, box[1], ntc)
    PROVE  /\ Drawn(Append(ws, m) \o Tail(box), ws \o box, ntc)
           /\ Drawn(ws \o box, Append(ws, m) \o Tail(box), FALSE)
<1> DEFINE vs == Append(ws, m)
           t == Tail(box)
           cs == ws \o box
           ds == vs \o t
           n == Len(ws) + 1
<1>n. n = Len(ws) + 1
  OBVIOUS
<1>1. /\ Len(ws) \in Nat /\ Len(box) \in Nat /\ Len(box) > 0
      /\ DOMAIN ws = 1 .. Len(ws) /\ DOMAIN box = 1 .. Len(box)
      /\ DOMAIN vs = 1 .. Len(ws) + 1 /\ vs[Len(ws) + 1] = m /\ (\A i \in DOMAIN ws : vs[i] = ws[i])
      /\ DOMAIN t = 1 .. Len(box) - 1 /\ \A i \in DOMAIN t : t[i] = box[i + 1]
  OBVIOUS
<1>2. /\ Len(vs) = Len(ws) + 1 /\ Len(t) = Len(box) - 1
      /\ vs \in Seq(S \cup {m}) /\ t \in Seq(T)
  OBVIOUS
<1>3. /\ DOMAIN cs = 1 .. Len(ws) + Len(box)
      /\ \A i \in 1 .. Len(ws) : cs[i] = ws[i]
      /\ \A i \in 1 .. Len(box) : cs[Len(ws) + i] = box[i]
  BY CourseIs
<1>4. /\ DOMAIN ds = 1 .. Len(vs) + Len(t)
      /\ \A i \in 1 .. Len(vs) : ds[i] = vs[i]
      /\ \A i \in 1 .. Len(t) : ds[Len(vs) + i] = t[i]
  BY <1>2, CourseIs
<1> HIDE DEF vs, t, cs, ds
<1>5. DOMAIN ds = DOMAIN cs
  BY <1>1, <1>2, <1>3, <1>4
<1> HIDE DEF n
<1>6. n \in DOMAIN cs /\ ds[n] = m /\ cs[n] = box[1]
  BY <1>n, <1>1, <1>2, <1>3, <1>4
<1>7. \A i \in DOMAIN cs : i # n => ds[i] = cs[i]
  <2> SUFFICES ASSUME NEW i \in DOMAIN cs, i # n PROVE ds[i] = cs[i]
    OBVIOUS
  <2>n. n = Len(ws) + 1
    BY <1>n
  <2>i. i \in 1 .. Len(ws) + Len(box)
    BY <1>3
  <2>1. CASE i < n
    <3>1. i \in DOMAIN ws /\ i \in 1 .. Len(ws) /\ i \in 1 .. Len(vs)
      BY <1>1, <1>2, <2>n, <2>i, <2>1
    <3>2. cs[i] = ws[i] /\ ds[i] = vs[i] /\ vs[i] = ws[i]
      BY <1>1, <1>3, <1>4, <3>1
    <3> QED
      BY <3>2
  <2>2. CASE i > n
    <3> DEFINE k == i - n
    <3>0. k = i - n
      OBVIOUS
    <3> HIDE DEF k
    <3> DEFINE L == Len(ws)
               B == Len(box)
    <3>a. L \in Nat /\ B \in Nat /\ i \in 1 .. L + B /\ n = L + 1
      BY <1>1, <2>n, <2>i
    <3>b. Len(vs) = L + 1
      BY <1>2
    <3> HIDE DEF L, B
    <3>c. i \in Nat /\ n \in Nat
      BY <3>a
    <3>d. k \in 1 .. B - 1
      BY <2>2, <3>0, <3>a, <3>c
    <3>e. i = (L + 1) + k
      BY <2>2, <3>0, <3>a, <3>c
    <3>f. i = L + (k + 1)
      BY <2>2, <3>0, <3>a, <3>c
    <3>1. k \in 1 .. Len(box) - 1 /\ i = Len(vs) + k /\ i = Len(ws) + (k + 1)
      BY <3>b, <3>d, <3>e, <3>f DEF L, B
    <3>3. k \in DOMAIN t /\ k + 1 \in 1 .. Len(box)
      BY <1>1, <3>1
    <3>2. ds[i] = t[k] /\ t[k] = box[k + 1] /\ cs[i] = box[k + 1]
      BY <1>1, <1>2, <1>3, <1>4, <3>1, <3>3
    <3> QED
      BY <3>2
  <2> QED
    BY <1>1, <2>n, <2>i, <2>1, <2>2
<1> DEFINE f == [i \in DOMAIN cs |-> i]
<1>8. \A i \in DOMAIN cs : f[i] = i
  OBVIOUS
<1> HIDE DEF f
<1>9. \A i \in DOMAIN cs : Asks(ds[i]) => Like(ds[i], cs[i], ntc)
  BY <1>6, <1>7 DEF Like
<1>10. \A i \in DOMAIN cs : Asks(cs[i]) => Like(cs[i], ds[i], FALSE)
  <2> DEFINE no == FALSE
  <2>1. \A i \in DOMAIN cs : Asks(cs[i]) => Asks(ds[i]) /\ cs[i].req = ds[i].req
    BY <1>6, <1>7 DEF Like
  <2> QED
    BY <2>1 DEF Like
<1>11. Drawing(f, ds, cs, ntc)
  BY <1>5, <1>8, <1>9 DEF Drawing
<1>12. Drawing(f, cs, ds, FALSE)
  BY <1>5, <1>8, <1>10 DEF Drawing
<1> QED
  BY <1>11, <1>12 DEF Drawn, cs, ds, vs, t

LEMMA FlightsIn ==
    ASSUME NEW ms \in Seq(Msgs)
    PROVE  Flight(ms) \in SUBSET Reqs
<1> SUFFICES ASSUME NEW i \in DOMAIN ms, Asks(ms[i]) PROVE ms[i].req \in Reqs
  BY DEF Flight
<1>1. ms[i] \in Inbound \/ ms[i] \in Outbound
  BY DEF Msgs
<1> QED
  BY <1>1, InboundFields, OutboundFields DEF Asks

-----------------------------------------------------------------------------
(* The order of the answers that matter to the catch-up, and when it is    *)
(* kept.                                                                   *)

\* A request after a row of an earlier epoch than the range: it gets a reset.
Spent(req, held) == held = NoRange \/ req.epoch < held.epoch
\* The answer may move the window away from what the catch-up has reached.
Fresh(n, held, ntc) ==
  /\ Asks(n)
  /\ \/ n.req.dir = "after" /\ ~ Spent(n.req, held)
     \/ n.req = TailReq /\ (~ ntc \/ n.kind = "fail")
\* What n may be when it comes behind m.
Orderly(m, n, held, ntc, await) ==
  Asks(m) /\ Asks(n) =>
    /\ m.req # n.req
    /\ m.req.dir = "after" /\ ~ Spent(m.req, held) =>
         /\ n.req.dir = "after" /\ ~ Spent(n.req, held) => Upto(m.req.epoch, m.req.seq, n.req.epoch, n.req.seq)
         /\ n.req = TailReq => ntc /\ n.kind # "fail"
    /\ m.req = await => ~ Fresh(n, held, ntc)
Ordered(cs, held, ntc, await) ==
  \A i, j \in DOMAIN cs : i < j => Orderly(cs[i], cs[j], held, ntc, await)
Calm(cs, held, ntc) == \A i \in DOMAIN cs : ~ Fresh(cs[i], held, ntc)

LEMMA FreshLike ==
    ASSUME NEW m, NEW n, NEW ntc, NEW held, Asks(m), Like(m, n, ntc), Fresh(m, held, ntc)
    PROVE  Fresh(n, held, ntc)
BY DEF Like, Fresh

LEMMA OrderlyLike ==
    ASSUME NEW m, NEW n, NEW m2, NEW n2, NEW held, NEW ntc, NEW await,
           Asks(m) => Like(m, m2, ntc), Asks(n) => Like(n, n2, ntc),
           Orderly(m2, n2, held, ntc, await)
    PROVE  Orderly(m, n, held, ntc, await)
<1> SUFFICES ASSUME Asks(m), Asks(n) PROVE Orderly(m, n, held, ntc, await)
  BY DEF Orderly
<1>1. /\ Asks(m2) /\ Asks(n2) /\ m.req = m2.req /\ n.req = n2.req
      /\ n.kind = "fail" => n2.kind = "fail" \/ ~ ntc \/ n2.req # TailReq
  BY DEF Like
<1>2. Fresh(n, held, ntc) => Fresh(n2, held, ntc)
  BY FreshLike
<1> QED
  BY <1>1, <1>2 DEF Orderly

LEMMA OrderedDrawn ==
    ASSUME NEW ms, NEW ns, NEW ntc, Drawn(ms, ns, ntc), NEW held, NEW await
    PROVE  /\ Ordered(ns, held, ntc, await) => Ordered(ms, held, ntc, await)
           /\ Calm(ns, held, ntc) => Calm(ms, held, ntc)
<1>1. PICK f : Drawing(f, ms, ns, ntc)
  BY DEF Drawn
<1>2. ASSUME Ordered(ns, held, ntc, await), NEW i \in DOMAIN ms, NEW j \in DOMAIN ms, i < j
      PROVE  Orderly(ms[i], ms[j], held, ntc, await)
  <2> SUFFICES ASSUME Asks(ms[i]), Asks(ms[j]) PROVE Orderly(ms[i], ms[j], held, ntc, await)
    BY DEF Orderly
  <2>1. /\ f[i] \in DOMAIN ns /\ f[j] \in DOMAIN ns /\ f[i] < f[j]
        /\ Like(ms[i], ns[f[i]], ntc) /\ Like(ms[j], ns[f[j]], ntc)
    BY <1>1, <1>2 DEF Drawing
  <2>2. Orderly(ns[f[i]], ns[f[j]], held, ntc, await)
    BY <1>2, <2>1 DEF Ordered
  <2> QED
    BY <2>1, <2>2, OrderlyLike
<1>3. ASSUME Calm(ns, held, ntc), NEW i \in DOMAIN ms, Fresh(ms[i], held, ntc)
      PROVE  FALSE
  <2>1. Asks(ms[i])
    BY <1>3 DEF Fresh
  <2>2. f[i] \in DOMAIN ns /\ Like(ms[i], ns[f[i]], ntc)
    BY <1>1, <2>1 DEF Drawing
  <2>3. Fresh(ns[f[i]], held, ntc)
    BY <1>3, <2>1, <2>2, FreshLike
  <2> QED
    BY <1>3, <2>2, <2>3 DEF Calm
<1> QED
  BY <1>2, <1>3 DEF Ordered, Calm

\* The range and the notice change, and what is awaited is or is over.
LEMMA OrderedMoves ==
    ASSUME NEW cs, NEW held, NEW held2, NEW ntc \in BOOLEAN, NEW ntc2 \in BOOLEAN, NEW await, NEW await2,
           \A req \in Flight(cs) : req.dir = "after" /\ Spent(req, held) => Spent(req, held2),
           ntc => ntc2 \/ TailReq \notin Flight(cs),
           await2 = await \/ await2 \notin Flight(cs)
    PROVE  /\ Ordered(cs, held, ntc, await) => Ordered(cs, held2, ntc2, await2)
           /\ Calm(cs, held, ntc) => Calm(cs, held2, ntc2)
<1>1. \A i \in DOMAIN cs : Asks(cs[i]) => cs[i].req \in Flight(cs)
  BY DEF Flight
<1>2. \A i \in DOMAIN cs : Fresh(cs[i], held2, ntc2) => Fresh(cs[i], held, ntc)
  BY <1>1 DEF Fresh
<1>3. ASSUME Ordered(cs, held, ntc, await), NEW i \in DOMAIN cs, NEW j \in DOMAIN cs, i < j
      PROVE  Orderly(cs[i], cs[j], held2, ntc2, await2)
  <2>1. Orderly(cs[i], cs[j], held, ntc, await)
    BY <1>3 DEF Ordered
  <2> SUFFICES ASSUME Asks(cs[i]), Asks(cs[j]) PROVE Orderly(cs[i], cs[j], held2, ntc2, await2)
    BY DEF Orderly
  <2>2. cs[i].req \in Flight(cs) /\ cs[j].req \in Flight(cs)
    BY <1>1
  <2>3. cs[i].req # cs[j].req
    BY <2>1 DEF Orderly
  <2>4. cs[i].req = await2 => ~ Fresh(cs[j], held2, ntc2)
    BY <1>2, <2>1, <2>2 DEF Orderly
  <2>5. ASSUME cs[i].req.dir = "after", ~ Spent(cs[i].req, held2)
        PROVE  /\ cs[j].req.dir = "after" /\ ~ Spent(cs[j].req, held2) =>
                    Upto(cs[i].req.epoch, cs[i].req.seq, cs[j].req.epoch, cs[j].req.seq)
               /\ cs[j].req = TailReq => ntc2 /\ cs[j].kind # "fail"
    <3>1. ~ Spent(cs[i].req, held)
      BY <2>2, <2>5
    <3>2. cs[j].req = TailReq => ntc /\ ntc2 /\ cs[j].kind # "fail"
      BY <2>1, <2>2, <2>5, <3>1 DEF Orderly
    <3>3. cs[j].req.dir = "after" /\ ~ Spent(cs[j].req, held2) => ~ Spent(cs[j].req, held)
      BY <2>2
    <3> QED
      BY <2>1, <2>5, <3>1, <3>2, <3>3 DEF Orderly
  <2> QED
    BY <2>3, <2>4, <2>5 DEF Orderly
<1> QED
  BY <1>2, <1>3 DEF Ordered, Calm

\* cs2 is cs when req has been asked for.
Adds(cs2, cs, req) ==
  /\ req # NoReq /\ req \notin Flight(cs) /\ DOMAIN cs2 = 1 .. Len(cs) + 1
  /\ \A i \in DOMAIN cs : Alike(cs2[i], cs[i])
  /\ cs2[Len(cs) + 1].kind = "fetch" /\ cs2[Len(cs) + 1].req = req
Shares(cs2, cs, req) == AllAlike(cs2, cs) /\ (req = NoReq \/ req \in Flight(cs))
Asking(cs2, cs, req) == Shares(cs2, cs, req) \/ Adds(cs2, cs, req)

LEMMA InFlightIs ==
    ASSUME NEW S, NEW ws \in Seq(S), NEW T, NEW box \in Seq(T), NEW req
    PROVE  req \in Flight(ws \o box) <=> InFlight(ws, req) \/ InFlight(box, req)
<1> DEFINE cs == ws \o box
<1>1. /\ DOMAIN cs = 1 .. Len(ws) + Len(box)
      /\ Len(ws) \in Nat /\ Len(box) \in Nat
      /\ DOMAIN ws = 1 .. Len(ws) /\ DOMAIN box = 1 .. Len(box)
      /\ \A i \in 1 .. Len(ws) : cs[i] = ws[i]
      /\ \A i \in 1 .. Len(box) : cs[Len(ws) + i] = box[i]
      /\ \A i \in DOMAIN cs : i \in DOMAIN ws \/ (i - Len(ws) \in DOMAIN box /\ i > Len(ws)
                                                        /\ cs[i] = box[i - Len(ws)])
  BY CourseIs
<1> HIDE DEF cs
<1>2. req \in Flight(cs) <=> \E i \in DOMAIN cs : Asks(cs[i]) /\ cs[i].req = req
  BY DEF Flight
<1>3. ASSUME NEW i \in DOMAIN cs, Asks(cs[i]), cs[i].req = req
      PROVE  InFlight(ws, req) \/ InFlight(box, req)
  BY <1>1, <1>3 DEF InFlight, Asks
<1>4. ASSUME NEW i \in DOMAIN ws, Asks(ws[i]), ws[i].req = req
      PROVE  \E j \in DOMAIN cs : Asks(cs[j]) /\ cs[j].req = req
  <2>1. i \in DOMAIN cs /\ cs[i] = ws[i]
    BY <1>1
  <2> QED
    BY <1>4, <2>1
<1>5. ASSUME NEW i \in DOMAIN box, Asks(box[i]), box[i].req = req
      PROVE  \E j \in DOMAIN cs : Asks(cs[j]) /\ cs[j].req = req
  <2>1. Len(ws) + i \in DOMAIN cs /\ cs[Len(ws) + i] = box[i]
    BY <1>1
  <2> QED
    BY <1>5, <2>1
<1>6. InFlight(ws, req) \/ InFlight(box, req) => \E j \in DOMAIN cs : Asks(cs[j]) /\ cs[j].req = req
  BY <1>4, <1>5 DEF InFlight, Asks
<1> QED
  BY <1>2, <1>3, <1>6 DEF cs

LEMMA AskingIs ==
    ASSUME NEW ws \in Seq(Outbound), NEW box \in Seq(Inbound), NEW vs \in Seq(Outbound),
           NEW box2 \in Seq(Inbound), NEW req, AllAlike(vs, ws),
           \/ /\ AllAlike(box2, box)
              /\ req = NoReq \/ InFlight(box, req) \/ InFlight(ws, req)
           \/ /\ req # NoReq /\ ~ InFlight(box, req) /\ ~ InFlight(ws, req)
              /\ Len(box2) = Len(box) + 1 /\ DOMAIN box2 = 1 .. Len(box) + 1
              /\ \A i \in DOMAIN box : box2[i] = box[i]
              /\ box2[Len(box) + 1].kind = "fetch" /\ box2[Len(box) + 1].req = req
    PROVE  Asking(vs \o box2, ws \o box, req)
<1> DEFINE cs == ws \o box
           ds == vs \o box2
<1>f. req \in Flight(cs) <=> InFlight(ws, req) \/ InFlight(box, req)
  BY InFlightIs
<1>0. /\ DOMAIN vs = DOMAIN ws /\ Len(vs) = Len(ws)
      /\ \A i \in DOMAIN ws : Alike(vs[i], ws[i])
  BY DEF AllAlike
<1>1. /\ DOMAIN cs = 1 .. Len(ws) + Len(box) /\ Len(cs) = Len(ws) + Len(box)
      /\ Len(ws) \in Nat /\ Len(box) \in Nat
      /\ DOMAIN ws = 1 .. Len(ws) /\ DOMAIN box = 1 .. Len(box)
      /\ \A i \in 1 .. Len(ws) : cs[i] = ws[i]
      /\ \A i \in DOMAIN cs : i \in DOMAIN ws \/ (i - Len(ws) \in DOMAIN box /\ i > Len(ws)
                                                        /\ cs[i] = box[i - Len(ws)])
  BY CourseIs
<1>2. /\ DOMAIN ds = 1 .. Len(vs) + Len(box2) /\ Len(ds) = Len(vs) + Len(box2)
      /\ Len(box2) \in Nat
      /\ \A i \in 1 .. Len(vs) : ds[i] = vs[i]
      /\ \A i \in 1 .. Len(box2) : ds[Len(vs) + i] = box2[i]
      /\ \A i \in DOMAIN ds : i \in DOMAIN vs \/ (i - Len(vs) \in DOMAIN box2 /\ i > Len(vs)
                                                        /\ ds[i] = box2[i - Len(vs)])
  BY CourseIs
<1> HIDE DEF cs, ds
<1>3. ASSUME DOMAIN cs \subseteq DOMAIN ds, DOMAIN box \subseteq DOMAIN box2,
             \A i \in DOMAIN box : Alike(box2[i], box[i])
      PROVE  \A i \in DOMAIN cs : Alike(ds[i], cs[i])
  <2> SUFFICES ASSUME NEW i \in DOMAIN cs PROVE Alike(ds[i], cs[i])
    OBVIOUS
  <2>1. CASE i \in DOMAIN ws
    BY <1>0, <1>1, <1>2, <2>1
  <2>2. CASE i \notin DOMAIN ws
    <3> DEFINE k == i - Len(ws)
    <3>1. k \in DOMAIN box /\ cs[i] = box[k] /\ i > Len(ws)
      BY <1>1, <2>2
    <3>2. i \in DOMAIN ds /\ i \notin DOMAIN vs
      BY <1>0, <1>3, <2>2
    <3>3. ds[i] = box2[k]
      BY <1>0, <1>2, <3>2
    <3> HIDE DEF k
    <3> QED
      BY <1>3, <3>1, <3>3
  <2> QED
    BY <2>1, <2>2
<1>4. CASE /\ AllAlike(box2, box)
           /\ req = NoReq \/ InFlight(box, req) \/ InFlight(ws, req)
  <2>1. Len(box2) = Len(box) /\ DOMAIN box2 = DOMAIN box /\ \A i \in DOMAIN box : Alike(box2[i], box[i])
    BY <1>4, Zenon DEF AllAlike
  <2>2. DOMAIN ds = DOMAIN cs /\ Len(ds) = Len(cs)
    BY <1>0, <1>1, <1>2, <2>1, Zenon
  <2>3. \A i \in DOMAIN cs : Alike(ds[i], cs[i])
    BY <1>3, <2>1, <2>2
  <2>4. Shares(ds, cs, req)
    BY <1>4, <1>f, <2>2, <2>3, Zenon DEF Shares, AllAlike
  <2> QED
    BY <2>4, Zenon DEF Asking, cs, ds
<1>5. CASE /\ req # NoReq /\ ~ InFlight(box, req) /\ ~ InFlight(ws, req)
           /\ Len(box2) = Len(box) + 1 /\ DOMAIN box2 = 1 .. Len(box) + 1
           /\ \A i \in DOMAIN box : box2[i] = box[i]
           /\ box2[Len(box) + 1].kind = "fetch" /\ box2[Len(box) + 1].req = req
  <2>1. DOMAIN box \subseteq DOMAIN box2 /\ \A i \in DOMAIN box : Alike(box2[i], box[i])
    BY <1>1, <1>5, AlikeItself
  <2>2. DOMAIN ds = 1 .. Len(cs) + 1 /\ DOMAIN cs \subseteq DOMAIN ds
    BY <1>0, <1>1, <1>2, <1>5
  <2>3. \A i \in DOMAIN cs : Alike(ds[i], cs[i])
    BY <1>3, <2>1, <2>2
  <2>4. ds[Len(cs) + 1] = box2[Len(box) + 1]
    <3>1. Len(box) + 1 \in 1 .. Len(box2) /\ Len(cs) + 1 = Len(vs) + (Len(box) + 1)
      BY <1>0, <1>1, <1>5
    <3> QED
      BY <1>2, <3>1
  <2>5. Adds(ds, cs, req)
    BY <1>5, <1>f, <2>2, <2>3, <2>4 DEF Adds
  <2> QED
    BY <2>5, Zenon DEF Asking, cs, ds
<1> QED
  BY <1>4, <1>5

\* A fetch is shared with one in flight or joins the end of the course.
LEMMA IssueCourse ==
    ASSUME NEW box \in Seq(Inbound), NEW ws \in Seq(Outbound), NEW req \in Requests,
           NEW initialize \in BOOLEAN, NEW before \in Inits,
           initialize => req.dir # "before",
           Issue(req, initialize, before, box, ws)
    PROVE  Asking(wire' \o inbox', ws \o box, req)
<1> DEFINE vs == wire'
           box2 == inbox'
<1>1. /\ vs \in Seq(Outbound) /\ box2 \in Seq(Inbound) /\ AllAlike(vs, ws)
      /\ \/ /\ AllAlike(box2, box)
            /\ req = NoReq \/ InFlight(box, req) \/ InFlight(ws, req)
         \/ /\ req # NoReq /\ ~ InFlight(box, req) /\ ~ InFlight(ws, req)
            /\ Len(box2) = Len(box) + 1 /\ DOMAIN box2 = 1 .. Len(box) + 1
            /\ \A i \in DOMAIN box : box2[i] = box[i]
            /\ box2[Len(box) + 1].kind = "fetch" /\ box2[Len(box) + 1].req = req
  BY IssueIs
<1> HIDE DEF vs, box2
<1>2. Asking(vs \o box2, ws \o box, req)
  BY <1>1, AskingIs
<1> QED
  BY <1>2 DEF vs, box2

LEMMA AskingFlight ==
    ASSUME NEW S, NEW cs \in Seq(S), NEW cs2, NEW req, Asking(cs2, cs, req)
    PROVE  Flight(cs2) = IF req = NoReq THEN Flight(cs) ELSE Flight(cs) \cup {req}
<1>0. DOMAIN cs = 1 .. Len(cs) /\ Len(cs) \in Nat
  OBVIOUS
<1>1. CASE Shares(cs2, cs, req)
  <2>1. DOMAIN cs2 = DOMAIN cs /\ \A i \in DOMAIN cs : (Asks(cs2[i]) <=> Asks(cs[i]))
                                     /\ (Asks(cs[i]) => cs2[i].req = cs[i].req)
    BY <1>1 DEF Shares, AllAlike, Alike, Asks
  <2>2. Flight(cs2) = Flight(cs)
    BY <2>1 DEF Flight
  <2> QED
    BY <1>1, <2>2 DEF Shares
<1>2. CASE Adds(cs2, cs, req)
  <2>1. /\ \A i \in DOMAIN cs2 : i \in DOMAIN cs \/ i = Len(cs) + 1
        /\ DOMAIN cs \subseteq DOMAIN cs2 /\ Len(cs) + 1 \in DOMAIN cs2
    BY <1>0, <1>2 DEF Adds
  <2>2. /\ \A i \in DOMAIN cs : (Asks(cs2[i]) <=> Asks(cs[i])) /\ (Asks(cs[i]) => cs2[i].req = cs[i].req)
        /\ Asks(cs2[Len(cs) + 1]) /\ cs2[Len(cs) + 1].req = req
    BY <1>2 DEF Adds, Alike, Asks
  <2>3. Flight(cs2) \subseteq Flight(cs) \cup {req}
    BY <2>1, <2>2 DEF Flight
  <2>4. Flight(cs) \cup {req} \subseteq Flight(cs2)
    BY <2>1, <2>2 DEF Flight
  <2>5. req # NoReq
    BY <1>2 DEF Adds
  <2> QED
    BY <2>3, <2>4, <2>5
<1> QED
  BY <1>1, <1>2 DEF Asking

\* A request that nothing on its way can upset.
Behind(req, cs, held) ==
  /\ req.dir = "after" /\ ~ Spent(req, held)
  /\ \A r \in Flight(cs) : r.dir = "after" /\ ~ Spent(r, held) => Upto(r.epoch, r.seq, req.epoch, req.seq)
Apt(req, cs, held, ntc) ==
  Calm(cs, held, ntc) \/ Behind(req, cs, held) \/ (req = TailReq /\ held = NoRange)
\* A request beside the catch-up.
Aside(req, ntc) == req.dir = "before" \/ (req = TailReq /\ ntc)

LEMMA SameReq ==
    ASSUME NEW r \in Reqs, NEW q \in Reqs, r.dir = "after", q.dir = "after",
           Upto(r.epoch, r.seq, q.epoch, q.seq), Upto(q.epoch, q.seq, r.epoch, r.seq)
    PROVE  r = q
<1>1. /\ r \in [dir : {"after", "before"}, epoch : 1..MaxEpoch, seq : 1..MaxRows]
      /\ q \in [dir : {"after", "before"}, epoch : 1..MaxEpoch, seq : 1..MaxRows]
  BY DEF Reqs, Requests, TailReq
<1>2. r.epoch \in Nat /\ q.epoch \in Nat /\ r.seq \in Nat /\ q.seq \in Nat
  BY ReqFields
<1>3. r.epoch = q.epoch /\ r.seq = q.seq
  BY <1>2 DEF Upto
<1> QED
  BY <1>1, <1>3

\* Every message of cs2 stands for one of cs, or is the new one.
Accounted(cs2, cs, req, ntc) ==
  /\ DOMAIN cs = 1 .. Len(cs) /\ Len(cs) \in Nat
  /\ \A i \in DOMAIN cs2 : \/ i \in DOMAIN cs /\ (Asks(cs2[i]) => Like(cs2[i], cs[i], ntc))
                           \/ /\ Adds(cs2, cs, req) /\ i = Len(cs) + 1
                              /\ cs2[i].kind = "fetch" /\ cs2[i].req = req

LEMMA AskingAlike ==
    ASSUME NEW S, NEW cs \in Seq(S), NEW cs2, NEW req, Asking(cs2, cs, req), NEW ntc
    PROVE  Accounted(cs2, cs, req, ntc)
<1>0. DOMAIN cs = 1 .. Len(cs) /\ Len(cs) \in Nat
  OBVIOUS
<1>1. CASE Shares(cs2, cs, req)
  BY <1>0, <1>1 DEF Shares, AllAlike, Alike, Asks, Like, Accounted
<1>2. CASE Adds(cs2, cs, req)
  <2>1. \A i \in DOMAIN cs2 : i \in DOMAIN cs \/ i = Len(cs) + 1
    BY <1>0, <1>2 DEF Adds
  <2>2. \A i \in DOMAIN cs : Asks(cs2[i]) => Like(cs2[i], cs[i], ntc)
    BY <1>2 DEF Adds, Alike, Asks, Like
  <2> QED
    BY <1>0, <1>2, <2>1, <2>2 DEF Adds, Accounted
<1> QED
  BY <1>1, <1>2 DEF Asking

\* The catch-up asks for a page, and awaits it.
LEMMA OrderedIssue ==
    ASSUME NEW S, NEW cs \in Seq(S), NEW cs2, NEW req \in Reqs, Asking(cs2, cs, req),
           Flight(cs) \in SUBSET Reqs,
           NEW held, NEW ntc \in BOOLEAN, NEW await, Ordered(cs, held, ntc, await), Apt(req, cs, held, ntc)
    PROVE  Ordered(cs2, held, ntc, req)
<1>1. /\ DOMAIN cs = 1 .. Len(cs) /\ Len(cs) \in Nat
      /\ \A i \in DOMAIN cs2 : \/ i \in DOMAIN cs /\ (Asks(cs2[i]) => Like(cs2[i], cs[i], ntc))
                               \/ /\ Adds(cs2, cs, req) /\ i = Len(cs) + 1
                                  /\ cs2[i].kind = "fetch" /\ cs2[i].req = req
  <2>1. Accounted(cs2, cs, req, ntc)
    BY AskingAlike
  <2> QED
    BY <2>1 DEF Accounted
<1>2. \A i \in DOMAIN cs : Asks(cs[i]) => cs[i].req \in Flight(cs) /\ cs[i].req \in Reqs
  BY DEF Flight
<1> SUFFICES ASSUME NEW i \in DOMAIN cs2, NEW j \in DOMAIN cs2, i < j, Asks(cs2[i]), Asks(cs2[j])
             PROVE  Orderly(cs2[i], cs2[j], held, ntc, req)
  BY DEF Ordered, Orderly
<1>3. i \in DOMAIN cs /\ Like(cs2[i], cs[i], ntc) /\ cs2[i].req \in Flight(cs)
  <2>1. ASSUME Adds(cs2, cs, req), i = Len(cs) + 1
        PROVE  FALSE
    BY <1>1, <2>1 DEF Adds
  <2> QED
    BY <1>1, <1>2, <2>1 DEF Like
<1>4. CASE j \in DOMAIN cs /\ Like(cs2[j], cs[j], ntc)
  <2>1. Orderly(cs[i], cs[j], held, ntc, await)
    BY <1>3, <1>4 DEF Ordered
  <2>2. Orderly(cs2[i], cs2[j], held, ntc, await)
    BY <1>3, <1>4, <2>1, OrderlyLike
  <2>3. cs2[j].req \in Reqs /\ cs2[i].req # cs2[j].req
    BY <1>2, <1>4, <2>2 DEF Orderly, Like
  <2>4. ASSUME cs2[i].req = req PROVE ~ Fresh(cs2[j], held, ntc)
    <3>1. CASE Calm(cs, held, ntc)
      BY <1>4, <3>1, FreshLike DEF Calm
    <3>2. CASE Behind(req, cs, held)
      <4>1. ASSUME cs2[j].req.dir = "after", ~ Spent(cs2[j].req, held) PROVE FALSE
        <5>1. Upto(req.epoch, req.seq, cs2[j].req.epoch, cs2[j].req.seq)
          BY <2>2, <2>4, <3>2, <4>1 DEF Behind, Orderly
        <5>2. cs2[j].req \in Flight(cs)
          BY <1>2, <1>4 DEF Like
        <5>3. Upto(cs2[j].req.epoch, cs2[j].req.seq, req.epoch, req.seq)
          BY <3>2, <4>1, <5>2 DEF Behind
        <5>4. cs2[j].req = req
          BY <2>3, <3>2, <4>1, <5>1, <5>3, SameReq DEF Behind
        <5> QED
          BY <2>3, <2>4, <5>4
      <4>2. cs2[j].req = TailReq => ntc /\ cs2[j].kind # "fail"
        BY <2>2, <2>4, <3>2 DEF Behind, Orderly
      <4> QED
        BY <4>1, <4>2 DEF Fresh
    <3>3. CASE req = TailReq /\ held = NoRange
      BY <2>3, <2>4, <3>3 DEF Fresh, Spent
    <3> QED
      BY <3>1, <3>2, <3>3 DEF Apt
  <2> QED
    BY <2>2, <2>4 DEF Orderly
<1>5. CASE Adds(cs2, cs, req) /\ j = Len(cs) + 1 /\ cs2[j].kind = "fetch" /\ cs2[j].req = req
  <2>1. cs2[i].req # req
    BY <1>3, <1>5 DEF Adds
  <2>2. ASSUME cs2[i].req.dir = "after", ~ Spent(cs2[i].req, held)
        PROVE  /\ req.dir = "after" /\ ~ Spent(req, held) =>
                    Upto(cs2[i].req.epoch, cs2[i].req.seq, req.epoch, req.seq)
               /\ req = TailReq => ntc
    <3>1. CASE Calm(cs, held, ntc)
      <4>1. Fresh(cs2[i], held, ntc)
        BY <2>2 DEF Fresh
      <4>2. Fresh(cs[i], held, ntc)
        BY <1>3, <4>1, FreshLike
      <4> QED
        BY <1>3, <3>1, <4>2 DEF Calm
    <3>2. CASE Behind(req, cs, held)
      BY <1>3, <2>2, <3>2 DEF Behind, TailReq
    <3>3. CASE req = TailReq /\ held = NoRange
      BY <2>2, <3>3 DEF Spent
    <3> QED
      BY <3>1, <3>2, <3>3 DEF Apt
  <2> QED
    BY <1>5, <2>1, <2>2 DEF Orderly
<1> QED
  BY <1>1, <1>4, <1>5

\* Something is asked for beside the catch-up.
LEMMA OrderedAside ==
    ASSUME NEW S, NEW cs \in Seq(S), NEW cs2, NEW req \in Reqs, Asking(cs2, cs, req),
           NEW held, NEW ntc \in BOOLEAN, NEW await, Aside(req, ntc)
    PROVE  /\ Ordered(cs, held, ntc, await) => Ordered(cs2, held, ntc, await)
           /\ Calm(cs, held, ntc) => Calm(cs2, held, ntc)
<1>1. /\ DOMAIN cs = 1 .. Len(cs) /\ Len(cs) \in Nat
      /\ \A i \in DOMAIN cs2 : \/ i \in DOMAIN cs /\ (Asks(cs2[i]) => Like(cs2[i], cs[i], ntc))
                               \/ /\ Adds(cs2, cs, req) /\ i = Len(cs) + 1
                                  /\ cs2[i].kind = "fetch" /\ cs2[i].req = req
  <2>1. Accounted(cs2, cs, req, ntc)
    BY AskingAlike
  <2> QED
    BY <2>1 DEF Accounted
<1>2. ASSUME NEW n, n.kind = "fetch", n.req = req
      PROVE  ~ Fresh(n, held, ntc) /\ n.req.dir # "after"
  <2>1. req.dir # "after"
    BY DEF Aside, TailReq
  <2> QED
    BY <1>2, <2>1 DEF Fresh, Aside, TailReq
<1>3. ASSUME Calm(cs, held, ntc), NEW i \in DOMAIN cs2, Fresh(cs2[i], held, ntc)
      PROVE  FALSE
  <2>0. Asks(cs2[i])
    BY <1>3 DEF Fresh
  <2>1. i \in DOMAIN cs /\ Like(cs2[i], cs[i], ntc)
    BY <1>1, <1>2, <1>3, <2>0
  <2>2. Fresh(cs[i], held, ntc)
    BY <1>3, <2>0, <2>1, FreshLike
  <2> QED
    BY <1>3, <2>1, <2>2 DEF Calm
<1>4. ASSUME Ordered(cs, held, ntc, await), NEW i \in DOMAIN cs2, NEW j \in DOMAIN cs2, i < j,
             Asks(cs2[i]), Asks(cs2[j])
      PROVE  Orderly(cs2[i], cs2[j], held, ntc, await)
  <2>1. i \in DOMAIN cs /\ Like(cs2[i], cs[i], ntc) /\ cs2[i].req \in Flight(cs)
    <3>1. ASSUME Adds(cs2, cs, req), i = Len(cs) + 1
          PROVE  FALSE
      BY <1>1, <1>4, <3>1 DEF Adds
    <3> QED
      BY <1>1, <1>4, <3>1 DEF Like, Flight
  <2>2. CASE j \in DOMAIN cs /\ Like(cs2[j], cs[j], ntc)
    <3>1. Orderly(cs[i], cs[j], held, ntc, await)
      BY <1>4, <2>1, <2>2 DEF Ordered
    <3> QED
      BY <2>1, <2>2, <3>1, OrderlyLike
  <2>3. CASE Adds(cs2, cs, req) /\ j = Len(cs) + 1 /\ cs2[j].kind = "fetch" /\ cs2[j].req = req
    <3>1. cs2[i].req # cs2[j].req
      BY <2>1, <2>3 DEF Adds
    <3>2. ~ Fresh(cs2[j], held, ntc) /\ cs2[j].req.dir # "after"
      BY <1>2, <2>3
    <3>3. cs2[j].req = TailReq => ntc /\ cs2[j].kind # "fail"
      BY <2>3 DEF Aside, TailReq
    <3> QED
      BY <3>1, <3>2, <3>3 DEF Orderly
  <2> QED
    BY <1>1, <1>4, <2>2, <2>3
<1> QED
  <2>1. Calm(cs, held, ntc) => Calm(cs2, held, ntc)
    BY <1>3 DEF Calm
  <2>2. Ordered(cs, held, ntc, await) => Ordered(cs2, held, ntc, await)
    BY <1>4 DEF Ordered, Orderly
  <2> QED
    BY <2>1, <2>2

-----------------------------------------------------------------------------
(* What the catch-up, the course and what is held have to do with each     *)
(* other.                                                                  *)

Held == CurrentRange(chat)

\* A request after a row does not ask beyond what is held; without a range, what
\* is to come is of later epochs than the row.
Founded(req, held, ep, ws, q) ==
  req.dir = "after" =>
    IF held = NoRange THEN req.epoch < ep /\ Waits(req.epoch + 1, 0, ws, q)
    ELSE Upto(req.epoch, req.seq, held.epoch, held.end)
AllFounded(s, fl, held, ep, ws, q) ==
  /\ Founded(s.req, held, ep, ws, q) /\ Founded(s.await, held, ep, ws, q)
  /\ Founded(s.pending, held, ep, ws, q)
  /\ \A r \in fl : Founded(r, held, ep, ws, q)
Grounds == AllFounded(sync, Flight(Course), Held, epoch, wire, queue)

\* The answers on their way suit the catch-up.
Flows(cs, held, ntc, s) ==
  /\ Ordered(cs, held, ntc, s.await)
  /\ s.status \in {"complete", "error"} => Calm(cs, held, ntc)
Streams == Flows(Course, Held, noticed, sync)

\* The catch-up, what it asked for, and what is held.
Controlled(s, c, ca, fl, can, frc, ntc) ==
  /\ s.status # "none" <=> can /\ s.loaded
  /\ s.status = "running" => s.await # NoReq /\ s.req # NoReq /\ s.await \in fl
  /\ s.status = "none" => \A r \in fl : r.dir = "before"
  /\ s.status # "running" => s.await = NoReq /\ ~ s.latest /\ ~ s.fallback
  /\ s.status \in {"none", "complete"} => s.req = NoReq
  /\ s.latest => frc /\ s.await = TailReq
  /\ ntc => TailReq \in fl /\ c.synced
  /\ ~ s.loaded => ~ c.synced /\ ca = NoRange /\ c.range = NoRange /\ c.items = <<>>
  /\ c.synced => ca = NoRange
  /\ ~ c.synced => s.pending = NoReq
  /\ ~ c.synced /\ s.status = "running" => s.await = TailReq \/ s.fallback
  /\ ~ c.synced /\ ca = NoRange => fl \subseteq {TailReq}
  /\ ~ c.synced /\ ca # NoRange =>
       \A r \in fl : (r = TailReq /\ s.latest) \/ r = AfterReq(ca.epoch, ca.end)
  /\ ~ c.synced /\ s.status \in {"running", "error"} =>
       s.req = IF ca = NoRange THEN TailReq ELSE AfterReq(ca.epoch, ca.end)
  /\ s.status = "complete" => c.synced /\ ~ c.newer /\ s.pending = NoReq
Control == Controlled(sync, chat, cached, Flight(Course), CanCatchUp, forced, noticed)

\* A notice concerns a history that has been applied, and nothing is heard of a
\* subscription before it is acknowledged.
Notices == \A i \in DOMAIN wire : wire[i].kind = "notice" => chat.synced
Heralded == \A i \in DOMAIN wire : wire[i].kind \in {"row", "notice"} =>
              acked \/ \E j \in DOMAIN wire : j < i /\ wire[j].kind = "subscribed"

CatchesUp == Control /\ Grounds /\ Streams /\ Notices /\ Heralded

\* The answer at the front of the course is taken.
LEMMA TailCourse ==
    ASSUME NEW S, NEW T, NEW ws \in Seq(S), NEW box \in Seq(T), ws # <<>>,
           NEW cs, cs = ws \o box, NEW ds, ds = Tail(ws) \o box
    PROVE  /\ Len(cs) \in Nat /\ DOMAIN cs = 1 .. Len(cs) /\ Len(cs) > 0
           /\ DOMAIN ds = 1 .. Len(cs) - 1 /\ cs[1] = ws[1]
           /\ \A i \in 1 .. Len(cs) - 1 : ds[i] = cs[i + 1]
<1>1. /\ Tail(ws) \in Seq(S) /\ Len(Tail(ws)) = Len(ws) - 1 /\ DOMAIN Tail(ws) = 1 .. Len(ws) - 1
      /\ \A i \in 1 .. Len(ws) - 1 : Tail(ws)[i] = ws[i + 1]
      /\ Len(ws) \in Nat /\ Len(ws) > 0 /\ Len(box) \in Nat
  BY ThinnedTail
<1>2. /\ Len(cs) = Len(ws) + Len(box) /\ DOMAIN cs = 1 .. Len(ws) + Len(box)
      /\ \A i \in 1 .. Len(ws) : cs[i] = ws[i]
      /\ \A i \in 1 .. Len(box) : cs[Len(ws) + i] = box[i]
  BY CourseIs
<1>3. /\ DOMAIN ds = 1 .. Len(Tail(ws)) + Len(box)
      /\ \A i \in 1 .. Len(Tail(ws)) : ds[i] = Tail(ws)[i]
      /\ \A i \in 1 .. Len(box) : ds[Len(Tail(ws)) + i] = box[i]
  BY <1>1, CourseIs
<1>4. ASSUME NEW i \in 1 .. Len(cs) - 1 PROVE ds[i] = cs[i + 1]
  <2>1. CASE i \in 1 .. Len(ws) - 1
    BY <1>1, <1>2, <1>3, <2>1
  <2>2. CASE i \in Len(ws) .. Len(ws) + Len(box) - 1
    <3>1. i - (Len(ws) - 1) \in 1 .. Len(box) /\ i = Len(Tail(ws)) + (i - (Len(ws) - 1))
          /\ i + 1 = Len(ws) + (i - (Len(ws) - 1))
      BY <1>1, <2>2
    <3> QED
      BY <1>2, <1>3, <3>1
  <2> QED
    BY <1>1, <1>2, <2>1, <2>2
<1>5. Len(Tail(ws)) + Len(box) = Len(cs) - 1 /\ Len(cs) \in Nat /\ Len(cs) > 0
  BY <1>1, <1>2
<1> QED
  BY <1>1, <1>2, <1>3, <1>4, <1>5

\* The answer at the front is taken: the others are still in order, and nothing
\* upsets the catch-up that awaited it.
LEMMA HeadTaken ==
    ASSUME NEW S, NEW T, NEW ws \in Seq(S), NEW box \in Seq(T), ws # <<>>, Asks(ws[1]),
           NEW held, NEW ntc, NEW await, Ordered(ws \o box, held, ntc, await)
    PROVE  /\ Flight(Tail(ws) \o box) = Flight(ws \o box) \ {ws[1].req}
           /\ ws[1].req \in Flight(ws \o box)
           /\ Ordered(Tail(ws) \o box, held, ntc, await)
           /\ ws[1].req = await => Calm(Tail(ws) \o box, held, ntc)
           /\ Calm(ws \o box, held, ntc) => Calm(Tail(ws) \o box, held, ntc)
<1> DEFINE cs == ws \o box  ds == Tail(ws) \o box
<1>0. /\ Len(cs) \in Nat /\ DOMAIN cs = 1 .. Len(cs) /\ Len(cs) > 0
      /\ DOMAIN ds = 1 .. Len(cs) - 1 /\ cs[1] = ws[1]
      /\ \A i \in 1 .. Len(cs) - 1 : ds[i] = cs[i + 1]
  BY TailCourse
<1>a. Ordered(cs, held, ntc, await)
  OBVIOUS
<1> HIDE DEF cs, ds
<1>1. \A i \in DOMAIN ds : i + 1 \in DOMAIN cs /\ ds[i] = cs[i + 1] /\ 1 < i + 1 /\ 1 \in DOMAIN cs
  BY <1>0
<1>2. \A i \in DOMAIN cs : i = 1 \/ (i - 1 \in DOMAIN ds /\ ds[i - 1] = cs[i] /\ 1 < i)
  <2>1. ASSUME NEW i \in DOMAIN cs, i # 1
        PROVE  i - 1 \in DOMAIN ds /\ ds[i - 1] = cs[i] /\ 1 < i
    <3>1. i - 1 \in 1 .. Len(cs) - 1 /\ (i - 1) + 1 = i /\ 1 < i
      BY <1>0, <2>1
    <3> QED
      BY <1>0, <3>1
  <2> QED
    BY <2>1
<1>3. \A i \in DOMAIN ds : Orderly(cs[1], ds[i], held, ntc, await)
  BY <1>1, <1>a DEF Ordered
<1>4. Flight(ds) = Flight(cs) \ {cs[1].req}
  <2>1. ASSUME NEW r \in Flight(ds) PROVE r \in Flight(cs) \ {cs[1].req}
    <3>1. PICK i \in DOMAIN ds : Asks(ds[i]) /\ r = ds[i].req
      BY <2>1 DEF Flight
    <3>2. r # cs[1].req
      BY <1>0, <1>3, <3>1 DEF Orderly
    <3> QED
      BY <1>1, <3>1, <3>2 DEF Flight
  <2>2. ASSUME NEW r \in Flight(cs), r # cs[1].req PROVE r \in Flight(ds)
    <3>1. PICK i \in DOMAIN cs : Asks(cs[i]) /\ r = cs[i].req
      BY <2>2 DEF Flight
    <3>2. i - 1 \in DOMAIN ds /\ ds[i - 1] = cs[i]
      BY <1>2, <2>2, <3>1
    <3> QED
      BY <3>1, <3>2 DEF Flight
  <2> QED
    BY <2>1, <2>2
<1>5. cs[1].req \in Flight(cs)
  BY <1>0 DEF Flight
<1>6. Ordered(ds, held, ntc, await)
  <2> SUFFICES ASSUME NEW i \in DOMAIN ds, NEW j \in DOMAIN ds, i < j
               PROVE  Orderly(ds[i], ds[j], held, ntc, await)
    BY DEF Ordered
  <2>1. i + 1 < j + 1
    BY <1>0
  <2>2. Orderly(cs[i + 1], cs[j + 1], held, ntc, await)
    BY <1>1, <1>a, <2>1 DEF Ordered
  <2> QED
    BY <1>1, <2>2
<1>7. cs[1].req = await => Calm(ds, held, ntc)
  BY <1>0, <1>3 DEF Calm, Orderly, Fresh
<1>8. Calm(cs, held, ntc) => Calm(ds, held, ntc)
  BY <1>1 DEF Calm
<1> QED
  BY <1>0, <1>4, <1>5, <1>6, <1>7, <1>8 DEF cs, ds

\* What is held moves on, and so do the messages to come.
Advances(h, ep, ws, q, h2, ep2, ws2, q2) ==
  /\ h # NoRange /\ h2 # NoRange => Upto(h.epoch, h.end, h2.epoch, h2.end)
  /\ h # NoRange /\ h2 = NoRange => h.epoch < ep2 /\ Waits(h.epoch + 1, 0, ws2, q2)
  /\ h = NoRange /\ h2 # NoRange => \A e \in Nat : e <= ep /\ Waits(e, 0, ws, q) => e <= h2.epoch
  /\ h = NoRange /\ h2 = NoRange =>
       ep <= ep2 /\ \A e \in Nat : e <= ep /\ Waits(e, 0, ws, q) => Waits(e, 0, ws2, q2)

\* A request that was founded stays so while what is held moves on.
LEMMA FoundedMoves ==
    ASSUME NEW h \in Ranges, NEW ep \in Nat, NEW ws, NEW q, NEW h2 \in Ranges, NEW ep2 \in Nat,
           NEW ws2 \in Seq(Outbound), NEW q2 \in Seq(Rows),
           Advances(h, ep, ws, q, h2, ep2, ws2, q2),
           NEW req \in Requests, Founded(req, h, ep, ws, q)
    PROVE  /\ Founded(req, h2, ep2, ws2, q2)
           /\ req.dir = "after" /\ Spent(req, h) => Spent(req, h2)
<1> SUFFICES ASSUME req.dir = "after"
             PROVE  /\ IF h2 = NoRange THEN req.epoch < ep2 /\ Waits(req.epoch + 1, 0, ws2, q2)
                       ELSE Upto(req.epoch, req.seq, h2.epoch, h2.end)
                    /\ Spent(req, h) => Spent(req, h2)
  BY DEF Founded
<1>1. req.epoch \in Nat /\ req.seq \in Nat
  <2>1. req \in Reqs
    BY DEF Reqs, NoReq
  <2> QED
    BY <2>1, ReqFields
<1>2. /\ h.epoch \in Nat /\ h.end \in Nat /\ h2.epoch \in Nat /\ h2.end \in Nat
  BY RangeFields
<1>3. CASE h # NoRange
  <2>1. Upto(req.epoch, req.seq, h.epoch, h.end)
    BY <1>3 DEF Founded
  <2>2. CASE h2 # NoRange
    <3>1. Upto(h.epoch, h.end, h2.epoch, h2.end)
      BY <1>3, <2>2 DEF Advances
    <3>2. Upto(req.epoch, req.seq, h2.epoch, h2.end)
      BY <1>1, <1>2, <2>1, <3>1, UptoTransitive
    <3>3. Spent(req, h) => Spent(req, h2)
      BY <1>1, <1>2, <1>3, <3>1 DEF Spent, Upto
    <3> QED
      BY <2>2, <3>2, <3>3
  <2>3. CASE h2 = NoRange
    <3>1. h.epoch < ep2 /\ Waits(h.epoch + 1, 0, ws2, q2)
      BY <1>3, <2>3 DEF Advances
    <3>2. req.epoch <= h.epoch
      BY <1>1, <1>2, <2>1 DEF Upto
    <3>3. Upto(req.epoch + 1, 0, h.epoch + 1, 0)
      BY <1>1, <1>2, <3>2 DEF Upto
    <3>4. req.epoch + 1 \in Nat /\ h.epoch + 1 \in Nat /\ 0 \in Nat
      BY <1>1, <1>2
    <3>5. Waits(req.epoch + 1, 0, ws2, q2)
      BY <3>1, <3>3, <3>4, WaitsTransitive
    <3>6. req.epoch < ep2
      BY <1>1, <1>2, <3>1, <3>2
    <3> QED
      BY <2>3, <3>5, <3>6 DEF Spent
  <2> QED
    BY <2>2, <2>3
<1>4. CASE h = NoRange
  <2>1. req.epoch < ep /\ Waits(req.epoch + 1, 0, ws, q)
    BY <1>4 DEF Founded
  <2>2. req.epoch + 1 \in Nat /\ req.epoch + 1 <= ep
    BY <1>1, <2>1
  <2>3. CASE h2 # NoRange
    <3>1. req.epoch + 1 <= h2.epoch
      BY <1>4, <2>1, <2>2, <2>3 DEF Advances
    <3> QED
      BY <1>1, <1>2, <2>3, <3>1 DEF Upto, Spent
  <2>4. CASE h2 = NoRange
    <3>1. Waits(req.epoch + 1, 0, ws2, q2) /\ ep <= ep2
      BY <1>4, <2>1, <2>2, <2>4 DEF Advances
    <3>2. req.epoch < ep2
      BY <1>1, <2>1, <3>1
    <3> QED
      BY <2>4, <3>1, <3>2 DEF Spent
  <2> QED
    BY <2>3, <2>4
<1> QED
  BY <1>3, <1>4

\* The catch-up and what it asked for stay founded.
LEMMA GroundsMove ==
    ASSUME NEW h \in Ranges, NEW ep \in Nat, NEW ws, NEW q, NEW h2 \in Ranges, NEW ep2 \in Nat,
           NEW ws2 \in Seq(Outbound), NEW q2 \in Seq(Rows),
           Advances(h, ep, ws, q, h2, ep2, ws2, q2),
           NEW s \in Syncs, NEW fl \in SUBSET Reqs, AllFounded(s, fl, h, ep, ws, q)
    PROVE  /\ AllFounded(s, fl, h2, ep2, ws2, q2)
           /\ \A r \in fl : r.dir = "after" /\ Spent(r, h) => Spent(r, h2)
<1>1. s.req \in Requests /\ s.await \in Requests /\ s.pending \in Requests
  BY SyncFields, CatchUpFields
<1>2. \A r \in fl : r \in Requests
  BY DEF Reqs
<1>3. Founded(s.req, h2, ep2, ws2, q2)
  BY <1>1, FoundedMoves DEF AllFounded
<1>4. Founded(s.await, h2, ep2, ws2, q2)
  BY <1>1, FoundedMoves DEF AllFounded
<1>5. Founded(s.pending, h2, ep2, ws2, q2)
  BY <1>1, FoundedMoves DEF AllFounded
<1>6. ASSUME NEW r \in fl
      PROVE  /\ Founded(r, h2, ep2, ws2, q2)
             /\ r.dir = "after" /\ Spent(r, h) => Spent(r, h2)
  BY <1>2, FoundedMoves DEF AllFounded
<1> QED
  BY <1>3, <1>4, <1>5, <1>6 DEF AllFounded

-----------------------------------------------------------------------------
(* Steps that leave the catch-up alone, and what they do to the course.    *)

Hears(ws, ack) == \A i \in DOMAIN ws : ws[i].kind \in {"row", "notice"} =>
                    ack \/ \E j \in DOMAIN ws : j < i /\ ws[j].kind = "subscribed"

LEMMA HearsAlike ==
    ASSUME NEW ws, NEW vs, AllAlike(vs, ws), NEW ack, Hears(ws, ack)
    PROVE  Hears(vs, ack)
BY DEF Hears, AllAlike, Alike

LEMMA HearsTail ==
    ASSUME NEW S, NEW ws \in Seq(S), ws # <<>>, ws[1].kind # "subscribed", NEW ack, Hears(ws, ack)
    PROVE  Hears(Tail(ws), ack)
<1>1. /\ DOMAIN Tail(ws) = 1 .. Len(ws) - 1 /\ Len(ws) \in Nat /\ DOMAIN ws = 1 .. Len(ws)
      /\ \A i \in 1 .. Len(ws) - 1 : Tail(ws)[i] = ws[i + 1]
  BY ThinnedTail
<1> SUFFICES ASSUME NEW i \in DOMAIN Tail(ws), Tail(ws)[i].kind \in {"row", "notice"}, ~ ack
             PROVE  \E j \in DOMAIN Tail(ws) : j < i /\ Tail(ws)[j].kind = "subscribed"
  BY DEF Hears
<1>2. i + 1 \in DOMAIN ws /\ Tail(ws)[i] = ws[i + 1]
  BY <1>1
<1>3. PICK j \in DOMAIN ws : j < i + 1 /\ ws[j].kind = "subscribed"
  BY <1>2 DEF Hears
<1>4. j # 1
  BY <1>3
<1>5. j - 1 \in DOMAIN Tail(ws) /\ j - 1 < i /\ (j - 1) + 1 = j /\ j - 1 \in 1 .. Len(ws) - 1
  BY <1>1, <1>3, <1>4
<1>6. Tail(ws)[j - 1] = ws[j]
  BY <1>1, <1>5
<1> QED
  BY <1>3, <1>5, <1>6

LEMMA HearsSent ==
    ASSUME NEW ws \in Seq(Outbound), NEW m \in Outbound, NEW ack, Hears(ws, ack),
           m.kind \in {"row", "notice"} => ack \/ AcksIn(ws)
    PROVE  Hears(Append(ws, m), ack)
<1>1. /\ Len(ws) \in Nat /\ DOMAIN ws = 1 .. Len(ws) /\ DOMAIN Append(ws, m) = 1 .. Len(ws) + 1
      /\ \A i \in 1 .. Len(ws) : Append(ws, m)[i] = ws[i]
      /\ Append(ws, m)[Len(ws) + 1] = m
  OBVIOUS
<1> DEFINE vs == Append(ws, m)
<1>1a. /\ DOMAIN vs = 1 .. Len(ws) + 1 /\ \A i \in 1 .. Len(ws) : vs[i] = ws[i]
       /\ vs[Len(ws) + 1] = m
  BY <1>1
<1> HIDE DEF vs
<1> SUFFICES ASSUME NEW i \in DOMAIN vs, vs[i].kind \in {"row", "notice"}, ~ ack
             PROVE  \E j \in DOMAIN vs : j < i /\ vs[j].kind = "subscribed"
  BY DEF Hears, vs
<1>2. CASE i \in 1 .. Len(ws)
  <2>1. PICK j \in DOMAIN ws : j < i /\ ws[j].kind = "subscribed"
    BY <1>1, <1>1a, <1>2 DEF Hears
  <2> QED
    BY <1>1, <1>1a, <2>1
<1>3. CASE i = Len(ws) + 1
  <2>1. PICK j \in DOMAIN ws : ws[j].kind = "subscribed"
    BY <1>1a, <1>3 DEF AcksIn
  <2>2. j < i /\ j \in DOMAIN vs /\ vs[j] = ws[j]
    BY <1>1, <1>1a, <1>3, <2>1
  <2> QED
    BY <2>1, <2>2
<1> QED
  BY <1>1, <1>1a, <1>2, <1>3

LEMMA HeraldedIs ==
    Heralded <=> Hears(wire, acked)
BY DEF Heralded, Hears

LEMMA NoticesThinned ==
    ASSUME NEW ws \in Seq(Outbound), NEW vs \in Seq(Outbound), Thinned(vs, ws),
           \A i \in DOMAIN ws : ws[i].kind = "notice" => chat.synced
    PROVE  \A i \in DOMAIN vs : vs[i].kind = "notice" => chat.synced
<1>1. \A i \in DOMAIN vs : \E j \in DOMAIN ws : Alike(vs[i], ws[j])
  BY ThinnedIs
<1> QED
  BY <1>1 DEF Alike

\* The range stays, while the daemon goes on.
LEMMA AdvancesStay ==
    ASSUME NEW h \in Ranges, NEW ep \in Nat, NEW ep2 \in Nat, ep <= ep2, NEW ws, NEW q, NEW ws2, NEW q2,
           \A e \in Nat : e <= ep /\ Waits(e, 0, ws, q) => Waits(e, 0, ws2, q2)
    PROVE  Advances(h, ep, ws, q, h, ep2, ws2, q2)
<1>1. h.epoch \in Nat /\ h.end \in Nat
  BY RangeFields
<1> QED
  BY <1>1 DEF Advances, Upto

LEMMA WaitsSent ==
    ASSUME NEW e \in Nat, NEW ep \in Nat, NEW s \in Nat, e <= ep, NEW ws \in Seq(Outbound),
           NEW q \in Seq(Rows), Waits(e, 0, ws, q),
           NEW m \in Outbound, Ahead(ep, s, m)
    PROVE  Waits(e, 0, Append(ws, m), q)
<1>1. Upto(e, 0, ep, s)
  BY DEF Upto
<1>2. Ahead(e, 0, m)
  BY <1>1, AheadTransitive
<1>3. \A i \in DOMAIN Append(ws, m) : Append(ws, m)[i] = m \/ (i \in DOMAIN ws /\ Append(ws, m)[i] = ws[i])
  OBVIOUS
<1>4. ASSUME NEW i \in DOMAIN Append(ws, m)
      PROVE  Ahead(e, 0, Append(ws, m)[i])
  BY <1>2, <1>3 DEF Waits
<1> QED
  BY <1>4 DEF Waits

\* Nothing changes for the catch-up, nor does what it asked for.
LEMMA QuietCatchesUp ==
    ASSUME Shape, Shape', CatchesUp,
           UNCHANGED <<sync, chat, cached, noticed, forced>>, CanCatchUp' <=> CanCatchUp,
           Drawn(Course', Course, noticed), Drawn(Course, Course', FALSE),
           epoch <= epoch',
           \A e \in Nat : e <= epoch /\ Waits(e, 0, wire, queue) => Waits(e, 0, wire', queue'),
           Notices', Heralded'
    PROVE  CatchesUp'
<1>1. Held' = Held /\ Held \in Ranges
  BY ChatFields DEF Held, CurrentRange, Shape
<1>2. Flight(Course') = Flight(Course)
  <2>1. Flight(Course') \subseteq Flight(Course)
    BY DrawnFlight
  <2>2. Flight(Course) \subseteq Flight(Course')
    BY DrawnFlight
  <2> QED
    BY <2>1, <2>2
<1>3. Course \in Seq(Msgs)
  <2>1. wire \in Seq(Msgs) /\ inbox \in Seq(Msgs)
    BY DEF Shape, Msgs
  <2> QED
    BY <2>1 DEF Course
<1>4. Flight(Course) \in SUBSET Reqs
  BY <1>3, FlightsIn
<1>5. /\ epoch \in Nat /\ epoch' \in Nat /\ sync \in Syncs
      /\ wire' \in Seq(Outbound) /\ queue' \in Seq(Rows)
  BY DEF Shape, Daemons
<1>6. Advances(Held, epoch, wire, queue, Held, epoch', wire', queue')
  BY <1>1, <1>5, AdvancesStay
<1>7. AllFounded(sync, Flight(Course), Held, epoch, wire, queue)
  BY DEF CatchesUp, Grounds
<1>8. AllFounded(sync, Flight(Course), Held, epoch', wire', queue')
  BY <1>1, <1>4, <1>5, <1>6, <1>7, GroundsMove
<1>9. Grounds'
  BY <1>1, <1>2, <1>8 DEF Grounds
<1>10. Control'
  <2>1. Controlled(sync, chat, cached, Flight(Course), CanCatchUp, forced, noticed)
    BY DEF CatchesUp, Control
  <2>2. Controlled(sync', chat', cached', Flight(Course'), CanCatchUp', forced', noticed')
    BY <1>2, <2>1 DEF Controlled
  <2> QED
    BY <2>2 DEF Control
<1>11. Streams'
  <2>1. Ordered(Course, Held, noticed, sync.await)
        /\ (sync.status \in {"complete", "error"} => Calm(Course, Held, noticed))
    BY DEF CatchesUp, Streams, Flows
  <2>2. Ordered(Course', Held, noticed, sync.await)
        /\ (sync.status \in {"complete", "error"} => Calm(Course', Held, noticed))
    BY <2>1, OrderedDrawn
  <2> QED
    BY <1>1, <2>2 DEF Streams, Flows
<1> QED
  BY <1>9, <1>10, <1>11 DEF CatchesUp

LEMMA CourseDrawn ==
    ASSUME Shape, Shape', NEW ntc
    PROVE  /\ Drawn(wire', wire, ntc) /\ Drawn(inbox', inbox, ntc) => Drawn(Course', Course, ntc)
           /\ Drawn(wire, wire', ntc) /\ Drawn(inbox, inbox', ntc) => Drawn(Course, Course', ntc)
<1>1. /\ wire \in Seq(Outbound) /\ wire' \in Seq(Outbound)
      /\ inbox \in Seq(Inbound) /\ inbox' \in Seq(Inbound)
  BY DEF Shape
<1>2. Course' = wire' \o inbox' /\ Course = wire \o inbox
  BY DEF Course
<1>3. Drawn(wire', wire, ntc) /\ Drawn(inbox', inbox, ntc) => Drawn(wire' \o inbox', wire \o inbox, ntc)
  BY <1>1, DrawnTogether
<1>4. Drawn(wire, wire', ntc) /\ Drawn(inbox, inbox', ntc) => Drawn(wire \o inbox, wire' \o inbox', ntc)
  BY <1>1, DrawnTogether
<1> QED
  BY <1>2, <1>3, <1>4

LEMMA WaitsMoved ==
    ASSUME NEW e, NEW ws \in Seq(Outbound), NEW q \in Seq(Rows), ws # <<>>, ws[1].kind = "row",
           ws[1].row \in Rows, Waits(e, 0, ws, q)
    PROVE  Waits(e, 0, Tail(ws), Append(q, ws[1].row))
<1>1. /\ DOMAIN Tail(ws) = 1 .. Len(ws) - 1 /\ Len(ws) \in Nat /\ DOMAIN ws = 1 .. Len(ws)
      /\ \A i \in 1 .. Len(ws) - 1 : Tail(ws)[i] = ws[i + 1]
      /\ 1 \in DOMAIN ws
  BY ThinnedTail
<1>2. ASSUME NEW i \in DOMAIN Tail(ws) PROVE Ahead(e, 0, Tail(ws)[i])
  BY <1>1 DEF Waits
<1>3. Below(e, 0, ws[1].row.epoch, ws[1].row.seq)
  BY <1>1 DEF Waits, Ahead
<1>4. \A i \in DOMAIN Append(q, ws[1].row) :
        Append(q, ws[1].row)[i] = ws[1].row \/ (i \in DOMAIN q /\ Append(q, ws[1].row)[i] = q[i])
  OBVIOUS
<1>5. ASSUME NEW i \in DOMAIN Append(q, ws[1].row)
      PROVE  Below(e, 0, Append(q, ws[1].row)[i].epoch, Append(q, ws[1].row)[i].seq)
  BY <1>3, <1>4 DEF Waits
<1> QED
  BY <1>2, <1>5 DEF Waits

\* The daemon sends a message that is no answer, or none.
LEMMA SentCatchesUp ==
    ASSUME Shape, Shape', Links, CatchesUp, epoch <= epoch', Len(rows[epoch]) \in Nat,
           UNCHANGED <<up, inbox, appVars>>,
           NEW m \in Outbound, ~ Asks(m), Ahead(epoch, Len(rows[epoch]), m),
           m.kind \in {"row", "notice"} => subscribed,
           m.kind = "notice" => chat.synced,
           wire' = Append(wire, m)
    PROVE  CatchesUp'
<1>1. /\ wire \in Seq(Outbound) /\ inbox \in Seq(Inbound) /\ epoch \in Nat /\ queue \in Seq(Rows)
  BY DEF Shape, Daemons
<1>2. Drawn(wire', wire, noticed) /\ Drawn(wire, wire', FALSE)
  BY <1>1, DrawnSent
<1>3. Drawn(inbox', inbox, noticed) /\ Drawn(inbox, inbox', FALSE)
  BY <1>1, DrawnItself
<1>4. Drawn(Course', Course, noticed) /\ Drawn(Course, Course', FALSE)
  BY <1>2, <1>3, CourseDrawn
<1>5. ASSUME NEW e \in Nat, e <= epoch, Waits(e, 0, wire, queue)
      PROVE  Waits(e, 0, wire', queue')
  <2>1. Waits(e, 0, Append(wire, m), queue)
    BY <1>1, <1>5, WaitsSent
  <2> QED
    BY <2>1 DEF appVars
<1>6. Notices'
  <2>1. \A i \in DOMAIN wire' : wire'[i] = m \/ (i \in DOMAIN wire /\ wire'[i] = wire[i])
    BY <1>1
  <2>2. chat' = chat
    BY DEF appVars
  <2> QED
    BY <2>1, <2>2 DEF CatchesUp, Notices
<1>7. Heralded'
  <2>1. Hears(wire, acked)
    BY HeraldedIs DEF CatchesUp
  <2>2. m.kind \in {"row", "notice"} => acked \/ AcksIn(wire)
    BY DEF Links
  <2>3. Hears(Append(wire, m), acked)
    BY <1>1, <2>1, <2>2, HearsSent
  <2>4. acked' = acked
    BY DEF appVars
  <2> QED
    BY <2>3, <2>4 DEF Heralded, Hears
<1> QED
  <2>1. UNCHANGED <<sync, chat, cached, noticed, forced>> /\ (CanCatchUp' <=> CanCatchUp)
    BY DEF appVars, CanCatchUp
  <2> QED
    BY <1>4, <1>5, <1>6, <1>7, <2>1, QuietCatchesUp

\* A step that only the daemon's rows, the faults and the device may notice.
LEMMA StillCatchesUp ==
    ASSUME Shape, Shape', CatchesUp, epoch <= epoch', UNCHANGED <<up, inbox, wire, appVars>>
    PROVE  CatchesUp'
<1>1. /\ wire \in Seq(Outbound) /\ inbox \in Seq(Inbound)
  BY DEF Shape
<1>2. Drawn(wire', wire, noticed) /\ Drawn(wire, wire', FALSE)
  BY <1>1, DrawnItself
<1>3. Drawn(inbox', inbox, noticed) /\ Drawn(inbox, inbox', FALSE)
  BY <1>1, DrawnItself
<1>4. Drawn(Course', Course, noticed) /\ Drawn(Course, Course', FALSE)
  BY <1>2, <1>3, CourseDrawn
<1>5. Notices' /\ Heralded'
  BY DEF CatchesUp, Notices, Heralded, appVars
<1>6. UNCHANGED <<sync, chat, cached, noticed, forced>> /\ (CanCatchUp' <=> CanCatchUp)
      /\ wire' = wire /\ queue' = queue
  BY DEF appVars, CanCatchUp
<1>7. \A e \in Nat : e <= epoch /\ Waits(e, 0, wire, queue) => Waits(e, 0, wire', queue')
  BY <1>6
<1> QED
  BY <1>4, <1>5, <1>6, <1>7, QuietCatchesUp
==============================================================================
