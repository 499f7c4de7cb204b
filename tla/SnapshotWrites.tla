---------------------------- MODULE SnapshotWrites ----------------------------
(***************************************************************************)
(* What the incident table promises under concurrency, and no more.  Every *)
(* update is one edge away from SOME version the row has had: the writer's *)
(* own snapshot, not necessarily the current contents.  Only the increment *)
(* of duplicateCount starts from the current contents.                     *)
(***************************************************************************)
EXTENDS IncidentContract

CONSTANTS Incidents, NoRow

VARIABLES rows,     \* the table
          hist      \* every version each row has had

SnapshotInit == /\ rows = [i \in Incidents |-> NoRow]
                /\ hist = [i \in Incidents |-> {}]

Store(i, e) == /\ rows' = [rows EXCEPT ![i] = e]
               /\ hist' = [hist EXCEPT ![i] = @ \cup {e}]

CreateRow(i) == rows[i] = NoRow /\ \E e \in Fresh : Store(i, e)

WriteFromSnapshot(i) == /\ \E v \in hist[i] : Edge(v, rows'[i])
                        /\ Store(i, rows'[i])

CountDuplicate(i) == /\ rows[i] # NoRow
                     /\ Counted(rows[i], rows'[i])
                     /\ Store(i, rows'[i])

SnapshotNext ==
    \E i \in Incidents : CreateRow(i) \/ WriteFromSnapshot(i) \/ CountDuplicate(i)

SnapshotSpec == SnapshotInit /\ [][SnapshotNext]_<<rows, hist>>
=============================================================================
