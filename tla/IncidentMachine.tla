---------------------------- MODULE IncidentMachine ----------------------------
(***************************************************************************)
(* The incident table as the State pattern promises it: every change of a  *)
(* row is one edge of the diagram from the row's CURRENT contents.         *)
(***************************************************************************)
EXTENDS IncidentContract

CONSTANTS Incidents, NoRow

VARIABLE rows

MachineInit == rows = [i \in Incidents |-> NoRow]

Report(i) == rows[i] = NoRow /\ rows'[i] \in Fresh

Transition(i) == rows[i] # NoRow /\ (Edge(rows[i], rows'[i]) \/ Counted(rows[i], rows'[i]))

MachineNext == \E i \in Incidents : /\ Report(i) \/ Transition(i)
                                    /\ rows' = [rows EXCEPT ![i] = rows'[i]]

MachineSpec == MachineInit /\ [][MachineNext]_rows
=============================================================================
