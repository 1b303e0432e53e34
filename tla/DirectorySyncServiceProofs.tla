---------------------- MODULE DirectorySyncServiceProofs ----------------------
(***************************************************************************)
(* Proofs about the readers of a VersionedCollection, for every set of ids *)
(* and contents, any number of readers and of remembered removals.         *)
(***************************************************************************)
EXTENDS DirectorySyncService, CollectionsProofs

-----------------------------------------------------------------------------
(***************************************************************************)
(* The inductive invariant.  CaughtUpHoldsAll speaks of readers at the     *)
(* head only; what makes it so is that a reader behind it lacks exactly    *)
(* the changes numbered above its cursor, and that an answer on its way    *)
(* will have told it all up to the answer's head, however much the         *)
(* collection changes before it arrives.                                   *)
(***************************************************************************)
CollectionOK == collection \in Collection /\ WellNumbered(collection) /\ Distinct(collection)

GenerationsPast ==
    /\ \A r \in Readers : cursor[r] # None => cursor[r].generation <= generation
    /\ \A r \in Readers : answer[r] # None => answer[r].generation <= generation

ReadersTold ==
    \A r \in Readers : Current(r) => Tells(collection, held[r], cursor[r].seq)

AnswersTell ==
    \A r \in Readers :
        (answer[r] # None /\ answer[r].generation = generation) =>
            Tells(collection, Merge(held[r], answer[r].read), answer[r].read.head)

IInv == TypeOK /\ CollectionOK /\ GenerationsPast /\ ReadersTold /\ AnswersTell

\* The empty daemon and its empty readers.
LEMMA InitIInv == Init => IInv
<1> SUFFICES ASSUME Init PROVE IInv
  OBVIOUS
<1>1. Unknown \in Entry /\ WellFormed(Unknown) /\ Unknown.seq = 0 /\ Unknown.kind = "unknown"
  BY DEF Unknown, Entry, WellFormed
<1>2. collection \in Collection /\ WellNumbered(collection) /\ Distinct(collection)
  BY <1>1 DEF Init, EmptyCollection, Collection, WellNumbered, Distinct
<1>3. TypeOK
  BY <1>2 DEF Init, TypeOK, Collection, WellNumbered, Snapshots
<1>4. GenerationsPast /\ ReadersTold /\ AnswersTell
  BY DEF Init, GenerationsPast, ReadersTold, AnswersTell, Current
<1> QED
  BY <1>2, <1>3, <1>4 DEF IInv, CollectionOK

\* A change of the collection alone keeps the invariant.
LEMMA ChangeIInv ==
    ASSUME IInv, Advances(collection, collection'), UNCHANGED <<generation, cursor, held>>,
           \A r \in Readers : answer'[r] = answer[r] \/
                (/\ answer'[r].generation = generation
                 /\ Tells(collection', Merge(held[r], answer'[r].read), answer'[r].read.head)),
           answer' \in [Readers -> {None} \cup [generation : Nat, read : Reads]]
    PROVE  IInv'
<1>1. /\ collection \in Collection /\ WellNumbered(collection)
      /\ collection' \in Collection /\ WellNumbered(collection') /\ Distinct(collection')
      /\ Evolves(collection, collection')
  BY DEF IInv, CollectionOK, Advances
<1>2. CollectionOK'
  BY <1>1 DEF CollectionOK
<1>3. TypeOK'
  BY <1>1 DEF IInv, TypeOK, Collection, WellNumbered
<1>4. GenerationsPast'
  BY DEF IInv, TypeOK, GenerationsPast
<1>5. ReadersTold'
  <2>1. SUFFICES ASSUME NEW r \in Readers, cursor[r] # None, cursor[r].generation = generation
                 PROVE  Tells(collection', held[r], cursor[r].seq)
    BY DEF ReadersTold, Current
  <2>2. cursor[r].seq \in Nat
    BY <2>1 DEF IInv, TypeOK
  <2>3. Tells(collection, held[r], cursor[r].seq)
    BY <2>1 DEF IInv, ReadersTold, Current
  <2> QED
    BY <2>2, <2>3, <1>1, TellsLemma
<1>6. AnswersTell'
  <2>1. SUFFICES ASSUME NEW r \in Readers, answer'[r] # None, answer'[r].generation = generation
                 PROVE  Tells(collection', Merge(held[r], answer'[r].read), answer'[r].read.head)
    BY DEF AnswersTell
  <2>2. CASE answer'[r] = answer[r]
    <3>1. answer[r].read.head \in Nat
      BY <2>1, <2>2 DEF IInv, TypeOK, Reads
    <3>2. Tells(collection, Merge(held[r], answer[r].read), answer[r].read.head)
      BY <2>1, <2>2 DEF IInv, AnswersTell
    <3>3. Tells(collection', Merge(held[r], answer[r].read), answer[r].read.head)
      BY <3>1, <3>2, <1>1, TellsLemma
    <3> QED
      BY <2>2, <3>3
  <2>3. CASE answer'[r] # answer[r]
    BY <2>3
  <2> QED
    BY <2>2, <2>3
<1> QED
  BY <1>2, <1>3, <1>4, <1>5, <1>6 DEF IInv

\* Each step keeps the invariant.
LEMMA NextIInv == IInv /\ [Next]_vars => IInv'
<1> SUFFICES ASSUME IInv, [Next]_vars PROVE IInv'
  OBVIOUS
<1> USE DEF CollectionOK
<1>t. /\ generation \in Nat /\ collection \in Collection /\ WellNumbered(collection)
      /\ answer \in [Readers -> {None} \cup [generation : Nat, read : Reads]]
      /\ cursor \in [Readers -> {None} \cup [generation : Nat, seq : Nat]]
      /\ held \in [Readers -> Snapshots]
  BY DEF IInv, TypeOK
<1>1. ASSUME NEW id \in Ids, NEW value \in Contents, SequenceUpsert(id, value)
      PROVE  IInv'
  <2>1. Advances(collection, collection')
    BY <1>1, <1>t, ReplaceLemma DEF SequenceUpsert
  <2> QED
    BY <1>1, <1>t, <2>1, ChangeIInv DEF SequenceUpsert
<1>2. ASSUME NEW id \in Ids, SequenceRemove(id)
      PROVE  IInv'
  <2>1. Advances(collection, collection')
    BY <1>2, <1>t, RemoveLemma DEF SequenceRemove
  <2> QED
    BY <1>2, <1>t, <2>1, ChangeIInv DEF SequenceRemove
<1>3. ASSUME NEW r \in Readers, NEW snapshot \in Snapshots,
             NEW order \in Orders(collection, snapshot), Synchronize(r, snapshot, order)
      PROVE  IInv'
  <2>1. Advances(collection, collection')
    BY <1>3, <1>t, ReplaceAllLemma DEF Synchronize
  <2>2. collection' \in Collection /\ WellNumbered(collection') /\ Evolves(collection, collection')
    BY <2>1 DEF Advances
  <2> DEFINE read == Read(collection', generation, cursor[r])
  <2>3. (cursor[r] # None /\ cursor[r].generation = generation)
            => Tells(collection', held[r], cursor[r].seq)
    <3>1. SUFFICES ASSUME cursor[r] # None, cursor[r].generation = generation
                   PROVE  Tells(collection', held[r], cursor[r].seq)
      OBVIOUS
    <3>2. cursor[r].seq \in Nat
      BY <3>1, <1>t
    <3>3. Tells(collection, held[r], cursor[r].seq)
      BY <3>1 DEF IInv, ReadersTold, Current
    <3> QED
      BY <3>2, <3>3, <2>2, <1>t, TellsLemma
  <2>4. /\ read \in Reads
        /\ read.head = collection'.head
        /\ Tells(collection', Merge(held[r], read), collection'.head)
    <3>1. cursor[r] \in {None} \cup [generation : Nat, seq : Nat] /\ held[r] \in Snapshots
      BY <1>t
    <3> QED
      BY <3>1, <1>t, <2>2, <2>3, ReadLemma
  <2>5. answer' = [answer EXCEPT ![r] = [generation |-> generation, read |-> read]]
        /\ UNCHANGED <<generation, cursor, held>>
    BY <1>3 DEF Synchronize
  <2> HIDE DEF read
  <2>6. answer' \in [Readers -> {None} \cup [generation : Nat, read : Reads]]
    BY <2>4, <2>5, <1>t
  <2>7. \A x \in Readers : answer'[x] = answer[x] \/
                (/\ answer'[x].generation = generation
                 /\ Tells(collection', Merge(held[x], answer'[x].read), answer'[x].read.head))
    BY <2>4, <2>5, <1>t
  <2> QED
    BY <2>1, <2>5, <2>6, <2>7, ChangeIInv
<1>4. ASSUME NEW r \in Readers, Receive(r)
      PROVE  IInv'
  <2>1. /\ answer[r] # None
        /\ held' = [held EXCEPT ![r] = Merge(held[r], answer[r].read)]
        /\ cursor' = [cursor EXCEPT ![r] = [generation |-> answer[r].generation,
                                          seq |-> answer[r].read.head]]
        /\ answer' = [answer EXCEPT ![r] = None]
        /\ generation' = generation /\ collection' = collection
    BY <1>4 DEF Receive, Cursor
  <2>2. answer[r].generation \in Nat /\ answer[r].read \in Reads
    BY <2>1, <1>t
  <2>3. answer[r].read.head \in Nat /\ Merge(held[r], answer[r].read) \in Snapshots
    BY <2>2, <1>t, MergeType DEF Reads
  <2>4. TypeOK'
    BY <2>1, <2>2, <2>3, <1>t DEF IInv, TypeOK
  <2>5. GenerationsPast'
    BY <2>1, <1>t DEF IInv, GenerationsPast
  <2>6. ReadersTold'
    <3>1. SUFFICES ASSUME NEW x \in Readers, cursor'[x] # None, cursor'[x].generation = generation
                   PROVE  Tells(collection, held'[x], cursor'[x].seq)
      BY <2>1 DEF ReadersTold, Current
    <3>2. CASE x = r
      <4>1. /\ cursor'[x].seq = answer[r].read.head
            /\ held'[x] = Merge(held[r], answer[r].read)
            /\ answer[r].generation = generation
        BY <3>1, <3>2, <2>1, <1>t
      <4> QED
        BY <4>1, <2>1 DEF IInv, AnswersTell
    <3>3. CASE x # r
      <4>1. cursor'[x] = cursor[x] /\ held'[x] = held[x]
        BY <3>3, <2>1, <1>t
      <4> QED
        BY <3>1, <4>1 DEF IInv, ReadersTold, Current
    <3> QED
      BY <3>2, <3>3
  <2>7. AnswersTell'
    <3>1. SUFFICES ASSUME NEW x \in Readers, answer'[x] # None, answer'[x].generation = generation
                   PROVE  Tells(collection, Merge(held'[x], answer'[x].read), answer'[x].read.head)
      BY <2>1 DEF AnswersTell
    <3>2. x # r /\ answer'[x] = answer[x] /\ held'[x] = held[x]
      BY <3>1, <2>1, <1>t
    <3> QED
      BY <3>1, <3>2 DEF IInv, AnswersTell
  <2>8. CollectionOK'
    BY <2>1 DEF IInv
  <2> QED
    BY <2>4, <2>5, <2>6, <2>7, <2>8 DEF IInv
<1>5. ASSUME NEW r \in Readers, Lose(r)
      PROVE  IInv'
  <2>1. /\ answer' = [answer EXCEPT ![r] = None]
        /\ generation' = generation /\ collection' = collection
        /\ held' = held /\ cursor' = cursor
    BY <1>5 DEF Lose
  <2>2. TypeOK'
    BY <2>1, <1>t DEF IInv, TypeOK
  <2>3. \A x \in Readers : answer'[x] = answer[x] \/ answer'[x] = None
    BY <2>1, <1>t
  <2>4. CollectionOK' /\ ReadersTold'
    BY <2>1 DEF IInv, ReadersTold, Current
  <2>5. GenerationsPast'
    BY <2>1, <2>3 DEF IInv, GenerationsPast
  <2>6. AnswersTell'
    BY <2>1, <2>3 DEF IInv, AnswersTell
  <2> QED
    BY <2>2, <2>4, <2>5, <2>6 DEF IInv
<1>6. ASSUME Restart
      PROVE  IInv'
  <2>1. /\ generation' = generation + 1 /\ collection' = EmptyCollection
        /\ answer' = answer /\ held' = held /\ cursor' = cursor
    BY <1>6 DEF Restart
  <2>2. Unknown \in Entry /\ WellFormed(Unknown) /\ Unknown.seq = 0 /\ Unknown.kind = "unknown"
    BY DEF Unknown, Entry, WellFormed
  <2>3. CollectionOK'
    BY <2>1, <2>2 DEF EmptyCollection, Collection, WellNumbered, Distinct
  <2>4. TypeOK'
    BY <2>1, <2>3, <1>t DEF IInv, TypeOK, Collection, WellNumbered
  <2>5. \A x \in Readers :
            /\ cursor[x] # None => cursor[x].generation <= generation /\ cursor[x].generation \in Nat
            /\ answer[x] # None => answer[x].generation <= generation /\ answer[x].generation \in Nat
    BY <1>t DEF IInv, GenerationsPast
  <2>6. GenerationsPast'
    BY <2>1, <2>5, <1>t DEF GenerationsPast
  <2>7. ReadersTold' /\ AnswersTell'
    BY <2>1, <2>5, <1>t DEF ReadersTold, AnswersTell, Current
  <2> QED
    BY <2>3, <2>4, <2>6, <2>7 DEF IInv
<1>7. ASSUME UNCHANGED vars
      PROVE  IInv'
  <2>1. /\ generation' = generation /\ collection' = collection
        /\ answer' = answer /\ held' = held /\ cursor' = cursor
    BY <1>7 DEF vars
  <2>2. TypeOK' /\ CollectionOK' /\ GenerationsPast'
    BY <2>1 DEF IInv, TypeOK, GenerationsPast
  <2>3. ReadersTold' /\ AnswersTell'
    BY <2>1 DEF IInv, ReadersTold, AnswersTell, Current
  <2> QED
    BY <2>2, <2>3 DEF IInv
<1> QED
  BY <1>1, <1>2, <1>3, <1>4, <1>5, <1>6, <1>7 DEF Next

\* The invariant holds always.
THEOREM Invariance == Spec => []IInv
<1> QED
  BY InitIInv, NextIInv, PTL DEF Spec

\* Every variable keeps its type (the state of DirectorySyncService).
THEOREM TypeCorrect == Spec => []TypeOK
<1>1. IInv => TypeOK
  BY DEF IInv
<1> QED
  BY Invariance, <1>1, PTL

(***************************************************************************)
(* A reader whose cursor is at the head holds exactly the collection,      *)
(* whatever was forgotten, lost or restarted on the way                    *)
(* (VersionedCollection.readAfter).                                        *)
(***************************************************************************)
THEOREM CaughtUpIsComplete == Spec => []CaughtUpHoldsAll
<1>1. ASSUME IInv PROVE CaughtUpHoldsAll
  <2>1. SUFFICES ASSUME NEW r \in Readers, Current(r), cursor[r].seq = collection.head
                 PROVE  held[r] = View(collection)
    BY DEF CaughtUpHoldsAll
  <2>2. Tells(collection, held[r], collection.head)
    BY <1>1, <2>1 DEF IInv, ReadersTold
  <2>3. /\ collection.head \in Nat /\ collection.expired <= collection.head
        /\ \A id \in Ids : /\ collection.entry[id].seq <= collection.head
                           /\ collection.entry[id].kind = "unknown" => collection.entry[id].value = None
    BY <1>1 DEF IInv, CollectionOK, Collection, WellNumbered, WellFormed, Entry
  <2>4. \A id \in Ids : held[r][id] = collection.entry[id].value
    BY <2>2, <2>3 DEF Tells
  <2>5. held[r] \in [Ids -> Contents \cup {None}]
    BY <1>1 DEF IInv, TypeOK, Snapshots
  <2> QED
    BY <2>4, <2>5 DEF View
<1> QED
  BY Invariance, <1>1, PTL

\* No version is given to two entities or reused (VersionedCollection.advance).
THEOREM VersionsAreUnique == Spec => []VersionsIdentify
<1>1. ASSUME IInv PROVE VersionsIdentify
  <2>1. /\ Distinct(collection)
        /\ \A id \in Ids : /\ collection.entry[id].seq \in Nat
                           /\ collection.entry[id].seq <= collection.head
    BY <1>1 DEF IInv, CollectionOK, Collection, WellNumbered, Entry
  <2> QED
    BY <2>1, ServiceAssumption DEF VersionsIdentify, SequenceFor, Distinct
<1> QED
  BY Invariance, <1>1, PTL

\* Versions of an entity only rise (replace, remove and trimTombstones).
THEOREM VersionsRise == Spec => VersionsOnlyRise
<1> DEFINE Rises == generation' = generation =>
        \A id \in Ids :
            \/ collection'.entry[id] = collection.entry[id]
            \/ collection'.entry[id].seq > collection.entry[id].seq
            \/ collection'.entry[id] = Unknown /\ collection'.expired >= collection.entry[id].seq
<1>1. ASSUME IInv, [Next]_vars PROVE [Rises]_vars
  <2>1. collection \in Collection /\ WellNumbered(collection)
    BY <1>1 DEF IInv, CollectionOK
  <2>2. ASSUME Advances(collection, collection') PROVE Rises
    <3>1. /\ collection' \in Collection /\ Evolves(collection, collection')
      BY <2>2 DEF Advances
    <3>2. \A id \in Ids : /\ collection.entry[id].seq \in Nat /\ collection'.entry[id].seq \in Nat
                         /\ collection.entry[id].seq <= collection.head
      BY <2>1, <3>1 DEF Collection, Entry, WellNumbered
    <3>3. collection.head \in Nat /\ collection'.expired \in Nat
      BY <2>1, <3>1 DEF Collection
    <3> QED
      BY <3>1, <3>2, <3>3 DEF Evolves
  <2>3. ASSUME NEW id \in Ids, NEW value \in Contents, SequenceUpsert(id, value) PROVE Rises
    BY <2>1, <2>2, <2>3, ReplaceLemma DEF SequenceUpsert
  <2>4. ASSUME NEW id \in Ids, SequenceRemove(id) PROVE Rises
    BY <2>1, <2>2, <2>4, RemoveLemma DEF SequenceRemove
  <2>5. ASSUME NEW r \in Readers, NEW snapshot \in Snapshots,
               NEW order \in Orders(collection, snapshot), Synchronize(r, snapshot, order)
        PROVE  Rises
    BY <2>1, <2>2, <2>5, ReplaceAllLemma DEF Synchronize
  <2>6. ASSUME NEW r \in Readers, Receive(r) \/ Lose(r) PROVE Rises
    BY <2>6 DEF Receive, Lose
  <2>7. ASSUME Restart PROVE Rises
    <3>1. generation \in Nat /\ generation' = generation + 1
      BY <1>1, <2>7 DEF IInv, TypeOK, Restart
    <3> QED
      BY <3>1
  <2>8. ASSUME UNCHANGED vars PROVE [Rises]_vars
    BY <2>8
  <2> HIDE DEF Rises
  <2> QED
    BY <1>1, <2>3, <2>4, <2>5, <2>6, <2>7, <2>8 DEF Next
<1>2. [][Rises]_vars => VersionsOnlyRise
  BY DEF VersionsOnlyRise
<1> HIDE DEF Rises
<1> QED
  BY Invariance, <1>1, <1>2, PTL DEF Spec
=============================================================================
