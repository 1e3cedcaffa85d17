---------------------------- MODULE Checkpoints ----------------------------
(***************************************************************************)
(* One LangGraph thread: a graph that runs in supersteps and keeps its     *)
(* state through the checkpointer (kagent-langgraph/.../_checkpointer.py)  *)
(* in the controller (httpserver/handlers/checkpoints.go,                  *)
(* database/client.go).  After each task of a superstep its writes are     *)
(* stored beside the checkpoint the step began with; when all are done     *)
(* they are applied and the next checkpoint is stored.  The pod may end    *)
(* anywhere, a request of it may arrive later; the next request loads the  *)
(* newest checkpoint and its pending writes and runs the tasks that have   *)
(* none.  The thread may be deleted meanwhile.                             *)
(*                                                                         *)
(* LangGraph itself is outside: Pregel* stand for it.                      *)
(***************************************************************************)
EXTENDS Rows

CONSTANTS LgTasks,      \* the tasks of each superstep, numbers
          Writes,       \* per task how many channels it writes
          MaxSteps, MaxLgCrashes, MaxLgDeletes   \* bounds

VARIABLES ckpts,    \* lg_checkpoint, of one user, thread and namespace
          writes,   \* lg_checkpoint_write
          newId,    \* the next checkpoint id: they grow with time
          graphRun, \* the graph: pc, the checkpoint, its state, the step's pending writes
          mail,     \* the request under way
          oldMail,  \* the request that was under way when the pod ended
          listed,   \* HandleListCheckpoints at work: the checkpoint it has read
          acked,    \* the last checkpoint acknowledged to an engine, and writes for it
          lgCrashes, lgDeletes   \* what is left of the bounds

lgVars == <<ckpts, writes, newId, graphRun, mail, oldMail, listed, acked, lgCrashes, lgDeletes>>

\* A write of a task: its index is that in the task's list, an interrupt has a
\* fixed one of its own (WRITES_IDX_MAP).
InterruptIdx == -3
PutWrite(id, task, idx, value) == [id |-> id, idx |-> idx, task |-> task, value |-> value]
TaskWrites(id, task) == [i \in 1..Writes[task] |-> PutWrite(id, task, i - 1, i)]
Interrupt(id, task)  == <<PutWrite(id, task, InterruptIdx, 0)>>
NoMail == [kind |-> "none"]
NoRun  == [pc |-> "off", id |-> 0, state |-> <<>>, pending |-> {}]

ASSUME CheckpointsAssumption ==
    /\ LgTasks \subseteq Nat \ {0} /\ Writes \in [LgTasks -> Nat \ {0}]
    /\ MaxSteps \in Nat /\ MaxLgCrashes \in Nat /\ MaxLgDeletes \in Nat

LgInit ==
    /\ ckpts = {} /\ writes = {} /\ newId = 1
    /\ graphRun = NoRun /\ mail = NoMail /\ oldMail = NoMail /\ listed = 0
    /\ acked = [id |-> 0, writes |-> {}]
    /\ lgCrashes = MaxLgCrashes /\ lgDeletes = MaxLgDeletes

----------------------------------------------------------------------------
(* The controller. *)

\* HandlePutCheckpoint.
StoreCheckpoint(c) == ckpts' = Saved(ckpts, {"id"}, c, newId) /\ writes' = writes

\* The primary key of a write has no task.
WriteKey == {"id", "idx"}

\* Mutant: without the transaction the first writes may be all that is stored.
StoreSomeWrites(ws) ==
    /\ \E n \in 1..Len(ws) : writes' = SavedAll(writes, WriteKey, Range(SubSeq(ws, 1, n)), newId)
    /\ ckpts' = ckpts

\* HandlePutWrites: in one transaction.
StoreCheckpointWrites(ws) ==
    writes' = SavedAll(writes, WriteKey, Range(ws), newId) /\ ckpts' = ckpts

Handle(m) ==
    \/ m.kind = "checkpoint" /\ StoreCheckpoint([id |-> m.id, state |-> m.state])
    \/ m.kind = "writes" /\ StoreCheckpointWrites(m.writes)

\* HandleDeleteThread.
DeleteGraphThread ==
    /\ lgDeletes > 0 /\ lgDeletes' = lgDeletes - 1
    /\ ckpts' = Deleted(ckpts, <<>>) /\ writes' = Deleted(writes, <<>>)
    /\ UNCHANGED <<newId, graphRun, mail, oldMail, listed, acked, lgCrashes>>

\* HandleListCheckpoints: by task, and every write is given the task of the last one.
Tuple(id) ==
    LET rows == Plain(Found(writes, [id |-> id]))
        last == CHOOSE w \in rows : \A o \in rows : o.task <= w.task IN
    {[w EXCEPT !.task = last.task] : w \in rows}

----------------------------------------------------------------------------
(* The engine. *)

\* Mutant: without the descending order.
AgetOldest ==
    /\ graphRun.pc = "off" /\ newId <= MaxSteps
    /\ LET ids == {c.id : c \in Plain(Found(ckpts, <<>>))} IN
       /\ listed' = IF ids = {} THEN 0 ELSE Min(ids)
       /\ graphRun' = [NoRun EXCEPT !.pc = IF ids = {} THEN "put" ELSE "load"]
    /\ UNCHANGED <<ckpts, writes, newId, mail, oldMail, acked, lgCrashes, lgDeletes>>

\* aget_tuple, limit 1: the newest checkpoint is read first, outside the
\* transaction.
AgetTuple ==
    /\ graphRun.pc = "off" /\ newId <= MaxSteps
    /\ LET ids == {c.id : c \in Plain(Found(ckpts, <<>>))} IN
       /\ listed' = IF ids = {} THEN 0 ELSE Max(ids)
       /\ graphRun' = [NoRun EXCEPT !.pc = IF ids = {} THEN "put" ELSE "load"]
    /\ UNCHANGED <<ckpts, writes, newId, mail, oldMail, acked, lgCrashes, lgDeletes>>

\* Then its writes.  Interrupts are no results of a task.
Loaded ==
    /\ graphRun.pc = "load"
    /\ LET c == (CHOOSE r \in ckpts : r.row.id = listed).row
           pending == {w \in Tuple(listed) : w.idx # InterruptIdx} IN
       graphRun' = [pc |-> "step", id |-> c.id, state |-> c.state, pending |-> pending]
    /\ listed' = 0
    /\ UNCHANGED <<ckpts, writes, newId, mail, oldMail, acked, lgCrashes, lgDeletes>>

\* A task has run: aput_writes of what it wrote, or of its interrupt.
PregelTask(t) ==
    /\ graphRun.pc = "step" /\ mail = NoMail
    /\ \A w \in graphRun.pending : w.task # t
    /\ \E ws \in {TaskWrites(graphRun.id, t), Interrupt(graphRun.id, t)} :
        mail' = [kind |-> "writes", writes |-> ws]
    /\ UNCHANGED <<ckpts, writes, newId, graphRun, oldMail, listed, acked, lgCrashes, lgDeletes>>

\* The step ends: its writes are applied, aput stores the next checkpoint.
PregelStep ==
    /\ mail = NoMail
    /\ \/ graphRun.pc = "put"
       \/ graphRun.pc = "step" /\ LgTasks = {w.task : w \in graphRun.pending}
    /\ newId <= MaxSteps
    /\ LET state == IF graphRun.pc = "put" THEN <<>> ELSE Append(graphRun.state, graphRun.pending) IN
       /\ mail' = [kind |-> "checkpoint", id |-> newId, state |-> state]
       /\ graphRun' = [graphRun EXCEPT !.pc = "next", !.state = state]
    /\ newId' = newId + 1
    /\ UNCHANGED <<ckpts, writes, oldMail, listed, acked, lgCrashes, lgDeletes>>

\* The handler answers.  An interrupt stops the graph.
Answered ==
    /\ mail # NoMail /\ Handle(mail)
    /\ mail' = NoMail
    /\ IF mail.kind = "checkpoint"
       THEN /\ graphRun' = [graphRun EXCEPT !.pc = "step", !.id = mail.id, !.pending = {}]
            /\ acked' = [id |-> mail.id, writes |-> {}]
       ELSE LET results == {w \in Range(mail.writes) : w.idx # InterruptIdx} IN
            /\ graphRun' = IF results = {} THEN NoRun ELSE [graphRun EXCEPT !.pending = @ \cup results]
            /\ acked' = [id |-> graphRun.id,
                         writes |-> results \cup IF acked.id = graphRun.id THEN acked.writes ELSE {}]
    /\ UNCHANGED <<newId, oldMail, listed, lgCrashes, lgDeletes>>

\* The pod ends, its request is under way still.
PodEnds ==
    /\ lgCrashes > 0 /\ lgCrashes' = lgCrashes - 1
    /\ graphRun.pc # "off" /\ oldMail = NoMail
    /\ graphRun' = NoRun /\ mail' = NoMail /\ oldMail' = mail /\ listed' = 0
    /\ UNCHANGED <<ckpts, writes, newId, acked, lgDeletes>>

\* It arrives, or never does.
LateRequest ==
    /\ oldMail # NoMail /\ oldMail' = NoMail
    /\ Handle(oldMail) \/ UNCHANGED <<ckpts, writes>>
    /\ UNCHANGED <<newId, graphRun, mail, listed, acked, lgCrashes, lgDeletes>>

LgNext ==
    \/ DeleteGraphThread \/ AgetTuple \/ Loaded \/ PregelStep \/ Answered \/ PodEnds \/ LateRequest
    \/ \E t \in LgTasks : PregelTask(t)

LgSpec == LgInit /\ [][LgNext]_lgVars

----------------------------------------------------------------------------
(* Properties. *)

Results(t) == {[idx |-> i - 1, task |-> t, value |-> i] : i \in 1..Writes[t]}

\* In every checkpoint that is stored, and so in whatever a thread is recovered
\* from, each superstep has applied what each of its tasks wrote, all of it and
\* under the task's own name, after crashes, late requests and deletions of the
\* thread.
StepsApplied ==
    \A r \in ckpts : \A s \in DOMAIN r.row.state :
        {[idx |-> w.idx, task |-> w.task, value |-> w.value] : w \in r.row.state[s]}
            = UNION {Results(t) : t \in LgTasks}

\* What an engine was told is stored is what the thread is recovered with: no
\* step whose checkpoint was acknowledged and no task whose writes were runs
\* again, and every write is given to the task it is of.  Not so if the thread
\* was deleted.
WritesRecovered ==
    graphRun.pc = "step" /\ lgDeletes = MaxLgDeletes =>
        /\ graphRun.id >= acked.id
        /\ graphRun.id = acked.id => acked.writes \subseteq graphRun.pending
=============================================================================
