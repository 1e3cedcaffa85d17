----------------------------- MODULE DbManager -----------------------------
(***************************************************************************)
(* The database manager (go/internal/database/manager.go): Initialize and  *)
(* Reset, called by several goroutines, and the lock they try.  The tables *)
(* are migrated and dropped one after the other; either may fail between   *)
(* two tables.  Only the start of the controller (app.go:354) and the      *)
(* tests call these.                                                       *)
(***************************************************************************)
EXTENDS Naturals, FiniteSets

CONSTANTS Callers, DbModels, MaxManagerCalls, MaxManagerFaults

ASSUME ManagerAssumption ==
    "free" \notin Callers /\ MaxManagerCalls \in Nat /\ MaxManagerFaults \in Nat

VARIABLES
    tables,    \* the tables there are
    initLock,  \* who holds initLock, or "free"
    task,      \* task[c]: what caller c is doing
    replied,   \* the last call that ended: what it was for, and whether it failed
    managerCalls, managerFaults   \* what is left of the bounds

managerVars == <<tables, initLock, task, replied, managerCalls, managerFaults>>

Doing == {"nothing", "migrate", "drop"}
Reply(what, ok) == [what |-> what, ok |-> ok]

ManagerTypeOK ==
    /\ tables \subseteq DbModels /\ initLock \in Callers \cup {"free"}
    /\ \A c \in Callers : task[c].do \in Doing
    /\ managerCalls \in 0..MaxManagerCalls /\ managerFaults \in 0..MaxManagerFaults

Nothing == [do |-> "nothing", what |-> "none", left |-> {}]

ManagerInit ==
    /\ tables \in {{}, DbModels} /\ initLock = "free" /\ task = [c \in Callers |-> Nothing]
    /\ replied = Reply("none", TRUE) /\ managerCalls = MaxManagerCalls /\ managerFaults = MaxManagerFaults

\* The end of a call of c: the deferred Unlock, and its answer.
Returns(c, what, ok) ==
    /\ task' = [task EXCEPT ![c] = Nothing] /\ initLock' = "free"
    /\ replied' = Reply(what, ok)

\* TryLock: a second call fails at once.
Called(c, do, what) ==
    /\ task[c] = Nothing /\ managerCalls > 0 /\ managerCalls' = managerCalls - 1
    /\ IF initLock = "free"
       THEN /\ initLock' = c /\ task' = [task EXCEPT ![c] = [do |-> do, what |-> what, left |-> DbModels]]
            /\ UNCHANGED replied
       ELSE replied' = Reply(what, FALSE) /\ UNCHANGED <<initLock, task>>
    /\ UNCHANGED <<tables, managerFaults>>

Initialize(c) == Called(c, "migrate", "initialize")
Reset(c)      == Called(c, "drop", "reset") \/ Called(c, "drop", "recreate")

MigrateOne(c) ==
    /\ task[c].do = "migrate" /\ task[c].left # {}
    /\ \/ /\ \E t \in task[c].left : /\ tables' = tables \cup {t}
                                     /\ task' = [task EXCEPT ![c].left = @ \ {t}]
          /\ UNCHANGED <<initLock, replied, managerFaults>>
       \/ /\ managerFaults > 0 /\ managerFaults' = managerFaults - 1
          /\ Returns(c, task[c].what, FALSE) /\ UNCHANGED tables
    /\ UNCHANGED managerCalls

Migrated(c) ==
    /\ task[c].do = "migrate" /\ task[c].left = {} /\ Returns(c, task[c].what, TRUE)
    /\ UNCHANGED <<tables, managerCalls, managerFaults>>

DropOne(c) ==
    /\ task[c].do = "drop" /\ task[c].left # {}
    /\ \/ /\ \E t \in task[c].left : /\ tables' = tables \ {t}
                                     /\ task' = [task EXCEPT ![c].left = @ \ {t}]
          /\ UNCHANGED <<initLock, replied, managerFaults>>
       \/ /\ managerFaults > 0 /\ managerFaults' = managerFaults - 1
          /\ Returns(c, task[c].what, FALSE) /\ UNCHANGED tables
    /\ UNCHANGED managerCalls

\* Reset calls Initialize, which tries the lock that Reset holds.
DroppedIgnored(c) ==   \* a mutant: the answer of Initialize is not looked at
    /\ task[c].do = "drop" /\ task[c].left = {} /\ Returns(c, task[c].what, TRUE)
    /\ UNCHANGED <<tables, managerCalls, managerFaults>>

Dropped(c) ==
    /\ task[c].do = "drop" /\ task[c].left = {}
    /\ Returns(c, task[c].what, task[c].what = "reset")
    /\ UNCHANGED <<tables, managerCalls, managerFaults>>

ManagerNext == \E c \in Callers :
    Initialize(c) \/ Reset(c) \/ MigrateOne(c) \/ Migrated(c) \/ DropOne(c) \/ Dropped(c)

ManagerSpec == ManagerInit /\ [][ManagerNext]_managerVars

----------------------------------------------------------------------------
(* Properties. *)

\* A call that reports success leaves the tables as it was asked to, all of them
\* or none, whoever else calls and whatever fails half way: what is left half done
\* is reported as a failure.  (A Reset that shall recreate the tables is, always:
\* its Initialize finds the lock taken, and the tables stay dropped; the comment of
\* manager.go:116 promises more.)
SuccessTellsTables ==
    [][\A c \in Callers : (task[c] # Nothing /\ task'[c] = Nothing /\ replied'.ok)
        => tables' = IF replied'.what = "reset" THEN {} ELSE DbModels]_managerVars
============================================================================
