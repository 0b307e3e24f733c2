--------------------------- MODULE MCTwoPhaseCommit ---------------------------
(***************************************************************************)
(* Small instances of TwoPhaseCommit for TLC.  A scenario says which nodes *)
(* each transaction updates, removes, fetches and adds.                    *)
(***************************************************************************)
EXTENDS TwoPhaseCommit, TLC

CONSTANTS t1, t2, t3, n1, n2, n3

None == [t \in Txn |-> {}]
With(f) == [t \in Txn |-> IF t \in DOMAIN f THEN f[t] ELSE {}]

\* Two writers that share two nodes, and one of them again with a third writer.
RivalsUpdates == With(t1 :> {n1, n2} @@ t2 :> {n2} @@ t3 :> {n1})
RivalsFetches == With(t2 :> {n1})

\* A node merge and split against an update of the same nodes.
MergeUpdates == With(t1 :> {n1} @@ t2 :> {n1, n2})
MergeRemoves == With(t1 :> {n2})
MergeAdds    == With(t1 :> {n3})

\* A writer of two nodes, a writer of one of them, and a reader.
UnevenUpdates == With(t1 :> {n1, n2} @@ t2 :> {n1})
ReaderFetches == With(t3 :> {n1, n2})

\* A writer that also removes a node, and an updater of that node.
ShrinkUpdates == With(t1 :> {n1} @@ t2 :> {n2})
ShrinkRemoves == With(t1 :> {n2})

\* An updater and a remover of one node.
RemoverUpdates == With(t1 :> {n1})
RemoverRemoves == With(t2 :> {n1})

SameItems == {<<t1, t3>>, <<t3, t1>>}
NoPairs == {}

NoCrash == {}
\* From the removal of the priority log until deleteObsoleteEntries is logged.
CommittedGap == {"unlock", "logObsolete"}
\* The store's count and the log entry that says it changed; and from the moment a rollback
\* or a recovery changes it back until the log is removed.
CountGap == {"logBefore", "rbNodes", "rbRemoved", "rbRead", "rbUpdated", "rbLogs",
             "rcAdded", "rcRemoved", "rcUpdated", "rcLogs"}
CountedCrashes == Points \ ({"committed", "aborted", "crashed", "recovered"}
                              \cup CommittedGap \cup CountGap)
\* The recovery may die too, before and after it writes the handles it has read.
SafeCrashes == CountedCrashes \cup {"rcRemoved", "rcUpdated"}

NoFailure == {}
WriteFails == {"phase1", "flip"}
AnyFailure == {"phase1", "flip", "restore", "plogRemove"}

NoLapse == {}
\* From the reservation of the nodes to the check of the locks before phase 2, and in a
\* rollback.
Staging == {"stage", "logUpdated", "logRemoved", "remove", "logAdded", "add", "addBlobs",
            "logStore", "store", "logBefore", "plog", "check",
            "rbStores", "rbNodes", "rbRemoved", "rbRead", "rbUpdated"}
AnyLapse == Points \ Ended
=============================================================================
