------------------------------ MODULE Commands ------------------------------
(***************************************************************************)
(* An administrator's commands with undo.  AssignIncidentCommand captures  *)
(* the assignment when it is constructed, changes the objects in memory    *)
(* and then saves; BroadcastAlertCommand stores and emits; the invoker     *)
(* writes an audit row after either.  Each await is a step of its own.     *)
(***************************************************************************)
EXTENDS Integers, Sequences, FiniteSets

CONSTANTS
    Workers,            \* staff an incident may be given to
    AssignCommands,
    AlertCommands,
    MaxInvocations,     \* bound on execute and undo calls
    Nobody

ASSUME CommandsAssumption ==
    /\ Nobody \notin Workers
    /\ AssignCommands \cap AlertCommands = {}
    /\ MaxInvocations \in Nat

VARIABLES
    origin,          \* whom the incident was with at first
    assignedTo,     \* of the incident in memory
    tasks,          \* worker -> activeTaskCount in memory, from its start
    storedTo,       \* assignedToId of the row
    alerts,         \* rows of Alert, by id: "active" or "retracted"
    command,        \* command -> what it captured and where it is
    audit,          \* AuditLog: <<type, command, alertId>>
    unwritten,      \* entries whose write was refused
    done,           \* in an orderly session: executed and not undone, in order
    orderly,        \* calls came one at a time, on the assignment captured,
                    \* all succeeded, and undo took the last executed
    invocations

commandVars ==
    <<origin, assignedTo, tasks, storedTo, alerts, command, audit, unwritten, done, orderly, invocations>>

AllCommands == AssignCommands \cup AlertCommands

Resting == {"none", "made"}

(* alertId = 0 is null. *)
NewCommand(stage, to, previous) ==
    [stage |-> stage, to |-> to, previous |-> previous, saving |-> Nobody, alertId |-> 0]

CommandsInit ==
    /\ origin \in Workers \cup {Nobody}
    /\ assignedTo = origin
    /\ tasks = [w \in Workers |-> IF w = assignedTo THEN 1 ELSE 0]
    /\ storedTo = assignedTo
    /\ alerts = <<>>
    /\ command = [c \in AllCommands |-> NewCommand("none", Nobody, Nobody)]
    /\ audit = {}
    /\ unwritten = {}
    /\ done = <<>>
    /\ orderly = TRUE
    /\ invocations = 0

(* The constructor. *)
Construct(c, w) ==
    /\ command[c].stage = "none"
    /\ command' = [command EXCEPT ![c] = NewCommand("made", w, assignedTo)]
    /\ UNCHANGED <<origin, assignedTo, tasks, storedTo, alerts, audit, unwritten, done, orderly, invocations>>

Invoke(c) ==
    /\ command[c].stage = "made"
    /\ invocations < MaxInvocations
    /\ invocations' = invocations + 1

Alone == \A c \in AllCommands : command[c].stage \in Resting

Last(c) == done # <<>> /\ done[Len(done)] = c

(* The task counts after the incident moved between two workers. *)
Moved(from, to) ==
    [w \in Workers |-> tasks[w] + (IF w = to THEN 1 ELSE 0) - (IF w = from THEN 1 ELSE 0)]

Executes(c) ==
    /\ orderly' = (orderly /\ Alone /\ c \notin {done[i] : i \in DOMAIN done}
                   /\ (c \in AssignCommands => command[c].previous = assignedTo))
    /\ done' = IF orderly' THEN Append(done, c) ELSE <<>>

Undoes(c) ==
    /\ orderly' = (orderly /\ Alone /\ Last(c))
    /\ done' = IF orderly' THEN SubSeq(done, 1, Len(done) - 1) ELSE <<>>

(* execute(): the objects change before the save is awaited. *)
ExecuteAssign(c) ==
    /\ c \in AssignCommands
    /\ Invoke(c)
    /\ Executes(c)
    /\ assignedTo' = command[c].to
    /\ tasks' = Moved(command[c].previous, command[c].to)
    /\ command' = [command EXCEPT ![c].stage = "save", ![c].saving = command[c].to]
    /\ UNCHANGED <<origin, storedTo, alerts, audit, unwritten>>

(* (mutant) an undo that forgets the worker the incident goes back to. *)
UndoAssignCountsOne(c) ==
    /\ c \in AssignCommands
    /\ Invoke(c)
    /\ Undoes(c)
    /\ assignedTo' = command[c].previous
    /\ tasks' = Moved(command[c].to, Nobody)
    /\ command' = [command EXCEPT ![c].stage = "saveUndo", ![c].saving = command[c].previous]
    /\ UNCHANGED <<origin, storedTo, alerts, audit, unwritten>>

(* undo(): back to what was captured, whatever happened since. *)
UndoAssign(c) ==
    /\ c \in AssignCommands
    /\ Invoke(c)
    /\ Undoes(c)
    /\ assignedTo' = command[c].previous
    /\ tasks' = Moved(command[c].to, command[c].previous)
    /\ command' = [command EXCEPT ![c].stage = "saveUndo", ![c].saving = command[c].previous]
    /\ UNCHANGED <<origin, storedTo, alerts, audit, unwritten>>

Saved(c) ==
    /\ command[c].stage \in {"save", "saveUndo"}
    /\ storedTo' = command[c].saving
    /\ command' = [command EXCEPT ![c].stage = IF @ = "save" THEN "audit" ELSE "auditUndo"]
    /\ UNCHANGED <<origin, assignedTo, tasks, alerts, audit, unwritten, done, orderly, invocations>>

(* execute() of an alert: a row of its own each time, then the emit. *)
ExecuteBroadcast(c) ==
    /\ c \in AlertCommands
    /\ Invoke(c)
    /\ Executes(c)
    /\ alerts' = Append(alerts, "active")
    /\ command' = [command EXCEPT ![c].stage = "audit", ![c].alertId = Len(alerts) + 1]
    /\ UNCHANGED <<origin, assignedTo, tasks, storedTo, audit, unwritten>>

(* (mutant) an undo that emits and does not update the row. *)
UndoBroadcastUnstored(c) ==
    /\ c \in AlertCommands
    /\ Invoke(c)
    /\ command[c].alertId # 0
    /\ Undoes(c)
    /\ command' = [command EXCEPT ![c].stage = "auditUndo"]
    /\ UNCHANGED <<origin, assignedTo, tasks, storedTo, alerts, audit, unwritten>>

(* undo() of an alert: throws unless there is one to retract. *)
UndoBroadcast(c) ==
    /\ c \in AlertCommands
    /\ Invoke(c)
    /\ command[c].alertId # 0
    /\ Undoes(c)
    /\ alerts' = [alerts EXCEPT ![command[c].alertId] = "retracted"]
    /\ command' = [command EXCEPT ![c].stage = "auditUndo"]
    /\ UNCHANGED <<origin, assignedTo, tasks, storedTo, audit, unwritten>>

Auditing == {"audit", "auditUndo"}

(* getAuditEntry(), and the prefix undo puts before its type. *)
AuditEntry(c) ==
    <<IF command[c].stage = "auditUndo" THEN "UNDO" ELSE "DO", c, command[c].alertId>>

(* The invoker's auditLog.create. *)
WriteAudit(c) ==
    /\ command[c].stage \in Auditing
    /\ audit' = audit \cup {AuditEntry(c)}
    /\ command' = [command EXCEPT ![c].stage = "made"]
    /\ UNCHANGED <<origin, assignedTo, tasks, storedTo, alerts, unwritten, done, orderly, invocations>>

(* A write rejects: what was done before it stays. *)
WriteFails(c) ==
    /\ command[c].stage \notin Resting
    /\ unwritten' = unwritten \cup (IF command[c].stage \in Auditing THEN {AuditEntry(c)} ELSE {})
    /\ command' = [command EXCEPT ![c].stage = "made"]
    /\ orderly' = FALSE
    /\ done' = <<>>
    /\ UNCHANGED <<origin, assignedTo, tasks, storedTo, alerts, audit, invocations>>

CommandsNext ==
    \/ \E c \in AllCommands, w \in Workers : Construct(c, w)
    \/ \E c \in AllCommands :
        \/ ExecuteAssign(c)
        \/ UndoAssign(c)
        \/ Saved(c)
        \/ ExecuteBroadcast(c)
        \/ UndoBroadcast(c)
        \/ WriteAudit(c)
        \/ WriteFails(c)

CommandsSpec == CommandsInit /\ [][CommandsNext]_commandVars

-----------------------------------------------------------------------------

(* Whom the first n commands of a session leave the incident with. *)
Assigned(n, w) ==
    \/ w = origin /\ \A i \in 1..n : done[i] \notin AssignCommands
    \/ \E i \in 1..n :
        /\ done[i] \in AssignCommands /\ w = command[done[i]].to
        /\ \A j \in (i + 1)..n : done[j] \notin AssignCommands

(* Undo restores: in an orderly session every task counted belongs to the  *)
(* worker the incident is with, the row agrees with the object when nobody *)
(* runs, and the incident is with whom the last command that is not undone *)
(* gave it to, or where the first found it.                                *)
UndoRestores ==
    orderly =>
        /\ \A w \in Workers : tasks[w] = IF w = assignedTo THEN 1 ELSE 0
        /\ Alone => storedTo = assignedTo
        /\ Assigned(Len(done), assignedTo)

(* Written, refused, or about to be. *)
Reported(e) ==
    \/ e \in audit \cup unwritten
    \/ command[e[2]].stage \in Auditing /\ AuditEntry(e[2]) = e

(* The audit and the alerts tell the same story, in any session: an entry  *)
(* names an alert that was stored, and one that is retracted when the      *)
(* entry is of an undo; and no alert is stored or retracted without an     *)
(* entry, unless the write of that very entry was refused.                 *)
AuditIsTrue ==
    /\ \A e \in audit : e[2] \in AlertCommands =>
        /\ e[3] \in DOMAIN alerts
        /\ e[1] = "UNDO" => alerts[e[3]] = "retracted"
    /\ \A a \in DOMAIN alerts :
        /\ \E c \in AlertCommands : Reported(<<"DO", c, a>>)
        /\ alerts[a] = "retracted" => \E c \in AlertCommands : Reported(<<"UNDO", c, a>>)

=============================================================================
