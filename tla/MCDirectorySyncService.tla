----------------------- MODULE MCDirectorySyncService -----------------------
EXTENDS DirectorySyncService, Sequences, TLC

Seqs == INSTANCE SequencesExt

\* replaceAll as the code writes it: one loop over the listed values, one
\* over the ids that were not listed.
LoopReplaceAll(c, snapshot, listed, unlisted) ==
    Seqs!FoldLeft(LAMBDA acc, id : Remove(acc, id),
        Seqs!FoldLeft(LAMBDA acc, id : Replace(acc, id, snapshot[id]), c, listed),
        unlisted)

\* The order in which the two loops number what they change.
LoopOrder(c, snapshot, listed, unlisted) ==
    LET changed == SelectSeq(listed, LAMBDA id : id \in Upserts(c, snapshot))
                        \o SelectSeq(unlisted, LAMBDA id : id \in Removals(c, snapshot))
    IN  [id \in Seqs!ToSet(changed) |-> CHOOSE i \in DOMAIN changed : changed[i] = id]

Unread == generation = 0 /\ \A r \in Readers : answer[r] = None /\ cursor[r] = None

(***************************************************************************)
(* Numbering all changes at once gives what the two loops of replaceAll    *)
(* give, whatever order they run in, tombstones and their expiry included. *)
(* Readers do not change the collection: every collection is met before    *)
(* the first of them reads, and is looked at then.                         *)
(***************************************************************************)
ReplaceAllIsItsLoops ==
    Unread => \A snapshot \in Snapshots :
        LET present == {id \in Ids : snapshot[id] # None}
        IN  \A listed \in Seqs!SetToSeqs(present), unlisted \in Seqs!SetToSeqs(Ids \ present) :
                LET order == LoopOrder(collection, snapshot, listed, unlisted)
                IN  /\ order \in Orders(collection, snapshot)
                    /\ ReplaceAll(collection, snapshot, order)
                        = LoopReplaceAll(collection, snapshot, listed, unlisted)

Symmetry == Permutations(Ids) \cup Permutations(Contents)
=============================================================================
