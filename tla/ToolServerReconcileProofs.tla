--------------------- MODULE ToolServerReconcileProofs ---------------------
(***************************************************************************)
(* Proofs about the tool-server controllers, for any set of servers of the *)
(* three kinds, any set of tools and every bound.                          *)
(***************************************************************************)
EXTENDS ToolServerReconcile, TLAPS

----------------------------------------------------------------------------
(* The inductive invariants. *)

\* A cache nothing has happened to since tells what the API server holds, and a
\* pass whose copy is current works on what both of them hold; it deletes rows
\* only if it found no server.
CopiesInv ==
    /\ \A s \in Servers : fresh[s] => cached[s] = res[s]
    /\ \A k \in KindNames :
          /\ w[k].pc # "idle" /\ w[k].current => fresh[w[k].srv] /\ w[k].me = res[w[k].srv]
          /\ w[k].pc \in {"delServer", "delTools"} => w[k].me = Absent

\* A worker is in a pass, and a key in the queue, only while the controller runs; the copy of a
\* RemoteMCPServer that is behind is one that an event is still to come for, or
\* that is queued again.
NoticedInv ==
    /\ ~up => queue = {} /\ \A k \in KindNames : w[k].pc = "idle"
    /\ \A s \in Servers :
          /\ KindOf[s] = "RemoteMCPServer" /\ res[s] # Absent
          /\ w[KindOf[s]].srv = s /\ ~w[KindOf[s]].current
          => ~fresh[s] \/ s \in queue

\* The rows of a server, has and held, at each point v of the pass of the worker
\* k over it.
RowsOK(v, k, has, held) ==
    /\ v.pc \in {"lock", "list", "refresh"} => ~v.failed
    /\ v.pc = "recall" => v.failed
    /\ v.pc \in {"recall", "status"} => k = "RemoteMCPServer"
    /\ v.pc \in {"list", "refresh"} => has
    /\ v.pc = "refresh" =>
          /\ v.save \subseteq v.got /\ v.got \cap v.drop = {}
          /\ v.got \ v.save \subseteq held /\ held \subseteq v.got \cup v.drop
    /\ v.pc = "status" =>
          /\ v.got \subseteq held
          /\ ~v.failed => has /\ v.got = held

RowsInv == \A k \in KindNames : RowsOK(w[k], k, srow[w[k].srv], trow[w[k].srv])

StatusParts == CopiesInv /\ NoticedInv /\ RowsInv /\ StatusTellsRows

\* As long as the controller has not crashed, a server with rows that has a
\* period is queued, waits for its period to end, or is being worked on.
AttendedInv ==
    crashes = MaxCrashes =>
        \A s \in Servers :
            Periodic(s) /\ (srow[s] \/ trow[s] # {}) =>
                s \in queue \cup later \/ w[KindOf[s]].srv = s

----------------------------------------------------------------------------
(* Type correctness. *)

\* A worker's record keeps its shape through what a pass changes in it.
LEMMA WorkerChange ==
    ASSUME NEW v \in Worker
    PROVE  /\ [v EXCEPT !.current = FALSE] \in Worker
           /\ \A p \in {"delTools", "list", "refresh", "recall", "status"} :
                 [v EXCEPT !.pc = p] \in Worker
           /\ [v EXCEPT !.pc = "recall", !.failed = TRUE] \in Worker
           /\ \A T \in SUBSET Tools : /\ [v EXCEPT !.save = T] \in Worker
                                     /\ [v EXCEPT !.drop = T] \in Worker
                                     /\ [v EXCEPT !.pc = "status", !.got = T] \in Worker
           /\ \A T, D \in SUBSET Tools :
                 [v EXCEPT !.pc = "refresh", !.got = T, !.save = T, !.drop = D] \in Worker
BY DEF Worker

LEMMA IdleType == IdleWorker \in Worker
BY DEF IdleWorker, Worker

LEMMA KindType == \A s \in Servers : KindOf[s] \in KindNames
BY ServersAssumption

LEMMA InitType == Init => TypeOK
<1> SUFFICES ASSUME Init PROVE TypeOK
  OBVIOUS
<1>1. res \in [Servers -> Resource \cup {Absent}]
  <2>1. ASSUME NEW r \in [gen : {1}, enabled : BOOLEAN, valid : {TRUE},
                          acc : {"none"}, observed : {0}, tools : {{}}]
        PROVE  r \in Resource
    <3>1. PICK e \in BOOLEAN : r = [gen |-> 1, enabled |-> e, valid |-> TRUE, acc |-> "none",
                                    observed |-> 0, tools |-> {}]
      OBVIOUS
    <3> QED
      BY <3>1 DEF Resource
  <2> QED
    BY <2>1 DEF Init
<1>2. w \in [KindNames -> Worker]
  BY IdleType DEF Init
<1>3. \A k \in KindNames : w[k].pc = "idle" /\ w[k].srv = Absent
  BY DEF Init, IdleWorker
<1>4. cached \in [Servers -> Resource \cup {Absent}]
  BY DEF Init
<1>5. offered \in [Servers -> SUBSET Tools] /\ trow \in [Servers -> SUBSET Tools]
  BY DEF Init
<1>6. fresh \in [Servers -> BOOLEAN] /\ srow \in [Servers -> BOOLEAN]
  BY DEF Init
<1>7. env \in 0..MaxEnv /\ faults \in 0..MaxFaults /\ crashes \in 0..MaxCrashes
  BY ServersAssumption DEF Init
<1>8. up \in BOOLEAN /\ queue \subseteq Servers /\ later \subseteq Servers /\ lock \in KindNames \cup {Free}
  BY DEF Init
<1> QED
  BY <1>1, <1>2, <1>3, <1>4, <1>5, <1>6, <1>7, <1>8 DEF TypeOK

\* A worker stays one: v's fields are kept or put right.
PassTypeOK(v, k) ==
    /\ v.pc = "idle" => v.srv = Absent
    /\ v.pc # "idle" => v.srv \in Servers /\ KindOf[v.srv] = k
    /\ v.pc \in {"lock", "list", "refresh", "recall", "status"} => v.me \in Resource

WorkersTypeOK == w \in [KindNames -> Worker] /\ \A k \in KindNames : PassTypeOK(w[k], k)

\* One worker's step: what the pass over s makes of its worker.
LEMMA StepType ==
    ASSUME TypeOK, NEW k \in KindNames, NEW v \in Worker, PassTypeOK(v, k),
           w' = [w EXCEPT ![k] = v]
    PROVE  /\ WorkersTypeOK'
           /\ w'[k] = v /\ \A j \in KindNames \ {k} : w'[j] = w[j]
BY DEF TypeOK, PassTypeOK, WorkersTypeOK

LEMMA OutdateType ==
    ASSUME TypeOK, NEW s \in Servers, Outdate(s)
    PROVE  WorkersTypeOK'
<1>1. \A k \in KindNames : w[k] \in Worker /\ PassTypeOK(w[k], k)
  BY DEF TypeOK, PassTypeOK
<1>2. \A k \in KindNames : w'[k] = w[k] \/ w'[k] = [w[k] EXCEPT !.current = FALSE]
  BY DEF Outdate
<1>3. ASSUME NEW k \in KindNames, NEW v \in Worker, PassTypeOK(v, k)
      PROVE  PassTypeOK([v EXCEPT !.current = FALSE], k)
  BY <1>3 DEF PassTypeOK, Worker
<1>4. ASSUME NEW k \in KindNames
      PROVE  w'[k] \in Worker /\ PassTypeOK(w'[k], k)
  <2>1. CASE w'[k] = w[k]
    BY <1>1, <2>1
  <2>2. CASE w'[k] = [w[k] EXCEPT !.current = FALSE]
    <3>1. PassTypeOK([w[k] EXCEPT !.current = FALSE], k)
      BY <1>1, <1>3
    <3>2. [w[k] EXCEPT !.current = FALSE] \in Worker
      BY <1>1, WorkerChange
    <3> QED
      BY <2>2, <3>1, <3>2
  <2> QED
    BY <1>2, <2>1, <2>2
<1> QED
  BY <1>4 DEF Outdate, WorkersTypeOK

LEMMA PutType ==
    ASSUME TypeOK, NEW s \in Servers, NEW r \in Resource \cup {Absent}, Put(s, r)
    PROVE  res' \in [Servers -> Resource \cup {Absent}] /\ fresh' \in [Servers -> BOOLEAN]
BY DEF TypeOK, Put

LEMMA BoundsType ==
    ASSUME TypeOK, Change \/ Fault \/ UNCHANGED bounds
    PROVE  /\ env' \in 0..MaxEnv /\ faults' \in 0..MaxFaults
           /\ crashes' \in 0..MaxCrashes /\ crashes' = crashes
BY ServersAssumption DEF TypeOK, Change, Fault, bounds

\* What can happen to a server in the cluster.
ClusterChange(s) ==
    /\ \E r \in Resource \cup {Absent} : Put(s, r)
    /\ Outdate(s) /\ Change
    /\ UNCHANGED <<offered, cached, rows, up, keys, lock>>

LEMMA EnvironmentSteps ==
    ASSUME TypeOK, Environment
    PROVE  \/ \E s \in Servers : ClusterChange(s)
           \/ /\ Change /\ offered' \in [Servers -> SUBSET Tools]
              /\ UNCHANGED <<res, cache, rows, up, keys, w, lock>>
           \/ Crash
<1>1. ASSUME NEW s \in Servers, CreateServer(s) PROVE ClusterChange(s)
  <2>1. PICK e \in BOOLEAN, v \in BOOLEAN :
          Put(s, [gen |-> 1, enabled |-> e, valid |-> v, acc |-> "none",
                  observed |-> 0, tools |-> {}])
    BY <1>1 DEF CreateServer
  <2>2. [gen |-> 1, enabled |-> e, valid |-> v, acc |-> "none",
         observed |-> 0, tools |-> {}] \in Resource
    BY DEF Resource
  <2> QED
    BY <1>1, <2>1, <2>2 DEF CreateServer, ClusterChange
<1>2. ASSUME NEW s \in Servers, UpdateServer(s) PROVE ClusterChange(s)
  <2>1. PICK v \in BOOLEAN : Put(s, [res[s] EXCEPT !.gen = @ + 1, !.valid = v])
    BY <1>2 DEF UpdateServer
  <2>2. res[s] \in Resource
    BY <1>2 DEF UpdateServer, TypeOK
  <2>3. res[s].gen + 1 \in Nat
    BY <2>2 DEF Resource
  <2>4. [res[s] EXCEPT !.gen = @ + 1, !.valid = v] \in Resource
    BY <2>2, <2>3 DEF Resource
  <2> QED
    BY <1>2, <2>1, <2>4 DEF UpdateServer, ClusterChange
<1>3. ASSUME NEW s \in Servers, Relabel(s) PROVE ClusterChange(s)
  <2>1. res[s] \in Resource
    BY <1>3 DEF Relabel, TypeOK
  <2>2. [res[s] EXCEPT !.enabled = ~@] \in Resource
    BY <2>1 DEF Resource
  <2> QED
    BY <1>3, <2>2 DEF Relabel, ClusterChange
<1>4. ASSUME NEW s \in Servers, DeleteServer(s) PROVE ClusterChange(s)
  BY <1>4 DEF DeleteServer, ClusterChange
<1>5. ASSUME NEW s \in Servers, NEW T \in SUBSET Tools, Offer(s, T)
      PROVE  /\ Change /\ offered' \in [Servers -> SUBSET Tools]
             /\ UNCHANGED <<res, cache, rows, up, keys, w, lock>>
  BY <1>5 DEF Offer, TypeOK
<1> QED
  BY <1>1, <1>2, <1>3, <1>4, <1>5 DEF Environment

LEMMA EnvironmentType ==
    ASSUME TypeOK, Environment
    PROVE  TypeOK'
<1>1. ASSUME NEW s \in Servers, ClusterChange(s) PROVE TypeOK'
  <2>1. res' \in [Servers -> Resource \cup {Absent}] /\ fresh' \in [Servers -> BOOLEAN]
    BY <1>1, PutType DEF ClusterChange
  <2>2. WorkersTypeOK'
    BY <1>1, OutdateType DEF ClusterChange
  <2> QED
    BY <1>1, <2>1, <2>2, BoundsType DEF ClusterChange, TypeOK, WorkersTypeOK, PassTypeOK, rows, keys
<1>2. CASE Change /\ offered' \in [Servers -> SUBSET Tools] /\ UNCHANGED <<res, cache, rows, up, keys, w, lock>>
  BY <1>2, BoundsType DEF TypeOK, rows, keys, cache
<1>3. CASE Crash
  <2>1. w' \in [KindNames -> Worker] /\ \A k \in KindNames : w'[k] = IdleWorker
    BY <1>3, IdleType DEF Crash
  <2>2. \A k \in KindNames : w'[k].pc = "idle" /\ w'[k].srv = Absent
    BY <2>1 DEF IdleWorker
  <2>3. cached' \in [Servers -> Resource \cup {Absent}] /\ fresh' \in [Servers -> BOOLEAN]
    BY <1>3 DEF Crash
  <2>4. crashes' \in 0..MaxCrashes
    BY <1>3, ServersAssumption DEF Crash, TypeOK
  <2> QED
    BY <1>3, <2>1, <2>2, <2>3, <2>4 DEF Crash, TypeOK, rows
<1> QED
  BY <1>1, <1>2, <1>3, EnvironmentSteps

\* The worker of a server somebody works on.
LEMMA BusyType ==
    ASSUME TypeOK, NEW s \in Servers, NEW p, Busy(s, p)
    PROVE  /\ KindOf[s] \in KindNames /\ w[KindOf[s]] \in Worker
           /\ w[KindOf[s]].srv = s /\ w[KindOf[s]].pc = p
           /\ p \in {"lock", "list", "refresh", "recall", "status"} => w[KindOf[s]].me \in Resource
BY KindType DEF TypeOK, Busy

\* A step of a pass over s goes on with the copy it has, or ends the pass: then
\* s is queued, or waits for its period if it has one.
Continues(s, v) ==
    \/ v = IdleWorker /\ (Periodic(s) => s \in queue' \cup later')
    \/ /\ v.srv = s /\ v.me = w[KindOf[s]].me /\ v.current = w[KindOf[s]].current
       /\ \/ v.pc \in {"list", "refresh", "recall", "status"} /\ w[KindOf[s]].me \in Resource
          \/ v.pc = "delTools" /\ w[KindOf[s]].pc = "delServer"

\* All that a step of a pass changes, but for the rows, the mutex and the bounds.
PassStep(s) ==
    /\ w[KindOf[s]].srv = s /\ w[KindOf[s]].pc # "idle"
    /\ \E v \in Worker : w' = [w EXCEPT ![KindOf[s]] = v] /\ Continues(s, v)
    /\ UNCHANGED <<offered, cached, up>>
    /\ \/ UNCHANGED <<res, fresh>>
       \/ /\ w[KindOf[s]].pc = "status" /\ w[KindOf[s]].current
          /\ Put(s, NewStatus(s)) /\ w' = [w EXCEPT ![KindOf[s]] = IdleWorker]
    /\ queue' \in {queue, queue \cup {s}} /\ later' \in {later, later \cup {s}}

LEMMA EndStep ==
    ASSUME TypeOK, NEW s \in Servers, Return(s) \/ Requeue(s)
    PROVE  /\ w' = [w EXCEPT ![KindOf[s]] = IdleWorker]
           /\ queue' \in {queue, queue \cup {s}} /\ later' \in {later, later \cup {s}}
           /\ Periodic(s) => s \in queue' \cup later'
BY DEF Return, Requeue

LEMMA UpsertFailedStep ==
    ASSUME TypeOK, NEW s \in Servers, UpsertFailed(s),
           NEW p \in {"lock", "list", "refresh"}, Busy(s, p)
    PROVE  /\ \E v \in Worker : w' = [w EXCEPT ![KindOf[s]] = v] /\ Continues(s, v)
           /\ queue' \in {queue, queue \cup {s}} /\ later' \in {later, later \cup {s}}
<1> DEFINE k == KindOf[s]
           v == [w[k] EXCEPT !.pc = "recall", !.failed = TRUE]
<1>1. k \in KindNames /\ w[k] \in Worker /\ w[k].srv = s /\ w[k].me \in Resource
  BY BusyType
<1>2. CASE KindOf[s] = "RemoteMCPServer"
  <2>1. w' = [w EXCEPT ![k] = v]
    BY <1>1, <1>2 DEF UpsertFailed, TypeOK
  <2>2. v \in Worker
    BY <1>1, WorkerChange
  <2>3. Continues(s, v)
    BY <1>1 DEF Worker, Continues
  <2> HIDE DEF v
  <2> QED
    BY <1>2, <2>1, <2>2, <2>3 DEF UpsertFailed, keys
<1>3. CASE KindOf[s] # "RemoteMCPServer"
  BY <1>3, IdleType DEF UpsertFailed, Requeue, Continues
<1> QED
  BY <1>2, <1>3

\* A step that only moves the worker on, to v.
LEMMA MoveStep ==
    ASSUME TypeOK, NEW s \in Servers, NEW p, Busy(s, p), p # "idle", NEW v \in Worker,
           w' = [w EXCEPT ![KindOf[s]] = v], Continues(s, v),
           UNCHANGED <<res, offered, cached, fresh, up, queue, later>>
    PROVE  PassStep(s)
BY DEF PassStep, Busy

LEMMA DeletionStep ==
    ASSUME TypeOK, NEW s \in Servers, DeleteServerRow(s) \/ DeleteToolRows(s)
    PROVE  PassStep(s)
<1>1. CASE DeleteServerRow(s)
  <2> DEFINE v == [w[KindOf[s]] EXCEPT !.pc = "delTools"]
  <2>1. Busy(s, "delServer") /\ w' = [w EXCEPT ![KindOf[s]] = v]
    BY <1>1 DEF DeleteServerRow, Goto
  <2>2. w[KindOf[s]] \in Worker /\ w[KindOf[s]].srv = s /\ w[KindOf[s]].pc = "delServer"
    BY <2>1, BusyType
  <2>3. v \in Worker
    BY <2>2, WorkerChange
  <2>4. Continues(s, v)
    BY <2>2 DEF Worker, Continues
  <2> HIDE DEF v
  <2> QED
    BY <1>1, <2>1, <2>3, <2>4, MoveStep DEF DeleteServerRow, cache, keys
<1>2. CASE DeleteToolRows(s)
  BY <1>2, EndStep, IdleType DEF DeleteToolRows, Busy, PassStep, Continues, cache
<1> QED
  BY <1>1, <1>2

LEMMA LockAndStoreStep ==
    ASSUME TypeOK, NEW s \in Servers, LockAndStore(s)
    PROVE  PassStep(s)
<1> DEFINE v == [w[KindOf[s]] EXCEPT !.pc = "list"]
<1>1. w[KindOf[s]] \in Worker /\ w[KindOf[s]].srv = s /\ w[KindOf[s]].me \in Resource /\ Busy(s, "lock")
  BY BusyType DEF LockAndStore
<1>2. CASE w' = [w EXCEPT ![KindOf[s]] = v] /\ UNCHANGED keys
  <2>1. v \in Worker
    BY <1>1, WorkerChange
  <2>2. Continues(s, v)
    BY <1>1 DEF Worker, Continues
  <2> HIDE DEF v
  <2> QED
    BY <1>1, <1>2, <2>1, <2>2, MoveStep DEF LockAndStore, cache, keys
<1>3. CASE UpsertFailed(s)
  BY <1>1, <1>3, UpsertFailedStep DEF LockAndStore, Busy, PassStep, cache
<1> QED
  BY <1>2, <1>3 DEF LockAndStore, Goto

LEMMA ListToolsStep ==
    ASSUME TypeOK, NEW s \in Servers, ListTools(s)
    PROVE  PassStep(s)
<1> DEFINE k == KindOf[s]
           v == [w[k] EXCEPT !.pc = "refresh", !.got = offered[s],
                             !.save = offered[s], !.drop = trow[s] \ offered[s]]
<1>1. w[k] \in Worker /\ w[k].srv = s /\ w[k].me \in Resource /\ Busy(s, "list")
  BY BusyType DEF ListTools
<1>2. CASE w' = [w EXCEPT ![k] = v] /\ UNCHANGED keys
  <2>1. offered[s] \in SUBSET Tools /\ trow[s] \ offered[s] \in SUBSET Tools
    BY DEF TypeOK
  <2>2. v \in Worker
    BY <1>1, <2>1, WorkerChange
  <2>3. Continues(s, v)
    BY <1>1 DEF Worker, Continues
  <2> HIDE DEF v
  <2> QED
    BY <1>1, <1>2, <2>2, <2>3, MoveStep DEF ListTools, cache, keys
<1>3. CASE UpsertFailed(s)
  BY <1>1, <1>3, UpsertFailedStep DEF ListTools, Busy, PassStep, cache
<1> QED
  BY <1>2, <1>3 DEF ListTools

LEMMA RefreshStep ==
    ASSUME TypeOK, NEW s \in Servers, NEW t \in Tools, SaveTool(s, t) \/ DropTool(s, t)
    PROVE  PassStep(s)
<1> DEFINE k == KindOf[s]
<1>1. w[k] \in Worker /\ w[k].srv = s /\ w[k].me \in Resource /\ w[k].pc = "refresh" /\ Busy(s, "refresh")
  BY BusyType DEF SaveTool, DropTool
<1>2. ASSUME NEW v \in Worker, v.srv = s, v.me = w[k].me, v.current = w[k].current, v.pc = "refresh",
             w' = [w EXCEPT ![k] = v], UNCHANGED keys
      PROVE  PassStep(s)
  <2>1. Continues(s, v)
    BY <1>1, <1>2 DEF Continues
  <2> QED
    BY <1>1, <1>2, <2>1, MoveStep DEF SaveTool, DropTool, cache, keys
<1>3. w[k].save \ {t} \in SUBSET Tools /\ w[k].drop \ {t} \in SUBSET Tools
  BY <1>1 DEF Worker
<1>4. CASE w' = [w EXCEPT ![k].save = @ \ {t}] /\ UNCHANGED keys
  <2> DEFINE v == [w[k] EXCEPT !.save = w[k].save \ {t}]
  <2>1. w' = [w EXCEPT ![k] = v]
    BY <1>1, <1>4
  <2>2. v \in Worker
    BY <1>1, <1>3, WorkerChange
  <2>3. v.srv = s /\ v.me = w[k].me /\ v.current = w[k].current /\ v.pc = "refresh"
    BY <1>1 DEF Worker
  <2> HIDE DEF v
  <2> QED
    BY <1>2, <1>4, <2>1, <2>2, <2>3
<1>5. CASE w' = [w EXCEPT ![k].drop = @ \ {t}] /\ UNCHANGED keys
  <2> DEFINE v == [w[k] EXCEPT !.drop = w[k].drop \ {t}]
  <2>1. w' = [w EXCEPT ![k] = v]
    BY <1>1, <1>5
  <2>2. v \in Worker
    BY <1>1, <1>3, WorkerChange
  <2>3. v.srv = s /\ v.me = w[k].me /\ v.current = w[k].current /\ v.pc = "refresh"
    BY <1>1 DEF Worker
  <2> HIDE DEF v
  <2> QED
    BY <1>2, <1>5, <2>1, <2>2, <2>3
<1>6. CASE UpsertFailed(s)
  BY <1>1, <1>6, UpsertFailedStep DEF SaveTool, DropTool, Busy, PassStep, cache
<1> QED
  BY <1>4, <1>5, <1>6 DEF SaveTool, DropTool

LEMMA ReportStep ==
    ASSUME TypeOK, NEW s \in Servers, Unconvertible(s) \/ Upserted(s) \/ Recall(s)
    PROVE  PassStep(s)
<1> DEFINE k == KindOf[s]
<1>1. CASE Unconvertible(s)
  BY <1>1, EndStep, IdleType DEF Unconvertible, Busy, PassStep, Continues, cache
<1>2. CASE Upserted(s)
  <2>1. w[k] \in Worker /\ w[k].srv = s /\ w[k].me \in Resource /\ Busy(s, "refresh")
    BY <1>2, BusyType DEF Upserted
  <2>2. CASE KindOf[s] = "RemoteMCPServer"
    <3> DEFINE v == [w[k] EXCEPT !.pc = "status"]
    <3>1. w' = [w EXCEPT ![k] = v] /\ UNCHANGED keys
      BY <1>2, <2>2 DEF Upserted, Goto
    <3>2. v \in Worker
      BY <2>1, WorkerChange
    <3>3. Continues(s, v)
      BY <2>1 DEF Worker, Continues
    <3> HIDE DEF v
    <3> QED
      BY <1>2, <2>1, <3>1, <3>2, <3>3, MoveStep DEF Upserted, cache, keys
  <2>3. CASE KindOf[s] # "RemoteMCPServer"
    BY <1>2, <2>3, EndStep, IdleType DEF Upserted, Busy, PassStep, Continues, cache
  <2> QED
    BY <2>2, <2>3
<1>3. CASE Recall(s)
  <2>1. w[k] \in Worker /\ w[k].srv = s /\ w[k].me \in Resource /\ Busy(s, "recall") /\ k \in KindNames
    BY <1>3, BusyType DEF Recall
  <2>2. PICK T \in SUBSET Tools : w' = [w EXCEPT ![k].pc = "status", ![k].got = T]
    BY <1>3 DEF Recall, TypeOK
  <2> DEFINE v == [w[k] EXCEPT !.pc = "status", !.got = T]
  <2>3. w' = [w EXCEPT ![k] = v]
    BY <2>1, <2>2 DEF TypeOK
  <2>4. v \in Worker
    BY <2>1, WorkerChange
  <2>5. Continues(s, v)
    BY <2>1 DEF Worker, Continues
  <2> HIDE DEF v
  <2> QED
    BY <1>3, <2>1, <2>3, <2>4, <2>5, MoveStep DEF Recall, cache, keys
<1> QED
  BY <1>1, <1>2, <1>3

LEMMA UpdateStatusStep ==
    ASSUME TypeOK, NEW s \in Servers, UpdateStatus(s)
    PROVE  PassStep(s)
<1>1. w[KindOf[s]].srv = s /\ w[KindOf[s]].pc = "status"
  BY DEF UpdateStatus, Busy
<1>2. Continues(s, IdleWorker)
  BY EndStep DEF UpdateStatus, Continues
<1>3. UNCHANGED <<res, fresh>> \/ (Put(s, NewStatus(s)) /\ w[KindOf[s]].current)
  BY DEF UpdateStatus, bounds
<1>4. /\ w' = [w EXCEPT ![KindOf[s]] = IdleWorker]
      /\ queue' \in {queue, queue \cup {s}} /\ later' \in {later, later \cup {s}}
  BY EndStep DEF UpdateStatus
<1>5. UNCHANGED <<offered, cached, up>>
  BY DEF UpdateStatus
<1> QED
  BY <1>1, <1>2, <1>3, <1>4, <1>5, IdleType DEF PassStep

\* What a step of a pass does to rows, mutex and bounds.
LEMMA RowsType ==
    ASSUME TypeOK, NEW s \in Servers, Pass(s)
    PROVE  /\ srow' \in [Servers -> BOOLEAN] /\ trow' \in [Servers -> SUBSET Tools]
           /\ lock' \in KindNames \cup {Free}
           /\ Fault \/ UNCHANGED bounds
<1> USE DEF rows, TypeOK
<1>1. CASE Begin(s)
  BY <1>1 DEF Begin
<1>2. CASE DeleteServerRow(s) \/ DeleteToolRows(s)
  BY <1>2 DEF DeleteServerRow, DeleteToolRows
<1>3. CASE Unconvertible(s) \/ Upserted(s) \/ Recall(s) \/ UpdateStatus(s)
  BY <1>3 DEF Unconvertible, Upserted, Recall, UpdateStatus
<1>4. CASE LockAndStore(s)
  <2>1. lock' = KindOf[s] \/ lock' = Free
    BY <1>4 DEF LockAndStore, UpsertFailed
  <2>2. srow' = [srow EXCEPT ![s] = TRUE] \/ srow' = srow
    BY <1>4 DEF LockAndStore
  <2>3. trow' = trow /\ (Fault \/ UNCHANGED bounds)
    BY <1>4 DEF LockAndStore
  <2> QED
    BY <2>1, <2>2, <2>3, KindType
<1>5. CASE ListTools(s)
  BY <1>5 DEF ListTools, UpsertFailed
<1>6. ASSUME NEW t \in Tools, SaveTool(s, t) \/ DropTool(s, t)
      PROVE  /\ srow' \in [Servers -> BOOLEAN] /\ trow' \in [Servers -> SUBSET Tools]
             /\ lock' \in KindNames \cup {Free}
             /\ Fault \/ UNCHANGED bounds
  BY <1>6 DEF SaveTool, DropTool, UpsertFailed
<1> QED
  BY <1>1, <1>2, <1>3, <1>4, <1>5, <1>6 DEF Pass

\* A step of a pass over s begins it or is as PassStep says.
LEMMA PassSteps ==
    ASSUME TypeOK, NEW s \in Servers, Pass(s)
    PROVE  Begin(s) \/ PassStep(s)
BY DeletionStep, LockAndStoreStep, ListToolsStep, RefreshStep, ReportStep, UpdateStatusStep DEF Pass

LEMMA BeginType ==
    ASSUME TypeOK, NEW s \in Servers, Begin(s)
    PROVE  TypeOK'
<1> DEFINE k == KindOf[s]
           v == [IdleWorker EXCEPT !.pc = IF Found(s) THEN "lock" ELSE "delServer",
                                   !.srv = s, !.me = cached[s], !.current = fresh[s]]
<1>1. k \in KindNames
  BY KindType
<1>2. cached[s] \in Resource \cup {Absent} /\ fresh[s] \in BOOLEAN
  BY DEF TypeOK
<1>3. v \in Worker
  BY <1>2 DEF Worker, IdleWorker
<1>4. PassTypeOK(v, k)
  BY <1>2 DEF PassTypeOK, IdleWorker, Found
<1>5. w' = [w EXCEPT ![k] = v]
  BY DEF Begin
<1> HIDE DEF v
<1>6. WorkersTypeOK'
  BY <1>1, <1>3, <1>4, <1>5, StepType
<1> QED
  BY <1>6 DEF Begin, TypeOK, WorkersTypeOK, PassTypeOK, rows, cache, bounds

LEMMA PassType ==
    ASSUME TypeOK, NEW s \in Servers, Pass(s)
    PROVE  TypeOK'
<1>1. CASE Begin(s)
  BY <1>1, BeginType
<1>2. CASE PassStep(s)
  <2> DEFINE k == KindOf[s]
  <2>1. k \in KindNames /\ w[k] \in Worker
    BY KindType DEF TypeOK
  <2>2. PICK v \in Worker : w' = [w EXCEPT ![k] = v] /\ Continues(s, v)
    BY <1>2 DEF PassStep
  <2>3. PassTypeOK(v, k)
    BY <2>2 DEF Continues, PassTypeOK, IdleWorker
  <2>4. WorkersTypeOK'
    BY <2>1, <2>2, <2>3, StepType
  <2>5. res' \in [Servers -> Resource \cup {Absent}] /\ fresh' \in [Servers -> BOOLEAN]
    <3>1. CASE UNCHANGED <<res, fresh>>
      BY <3>1 DEF TypeOK
    <3>2. CASE w[k].pc = "status" /\ Put(s, NewStatus(s))
      <4>1. w[k].me \in Resource /\ w[k].got \in SUBSET Tools
        BY <2>1, <3>2 DEF TypeOK, Worker
      <4>2. w[k].me.gen \in Nat
        BY <4>1 DEF Resource
      <4>3. NewStatus(s) \in Resource
        BY <4>1, <4>2 DEF NewStatus, Resource
      <4> QED
        BY <3>2, <4>3, PutType
    <3> QED
      BY <1>2, <3>1, <3>2 DEF PassStep
  <2>6. queue' \subseteq Servers /\ later' \subseteq Servers /\ UNCHANGED <<offered, cached, up>>
    BY <1>2 DEF PassStep, TypeOK
  <2> QED
    BY <2>4, <2>5, <2>6, RowsType, BoundsType DEF TypeOK, WorkersTypeOK, PassTypeOK
<1> QED
  BY <1>1, <1>2, PassSteps

LEMMA InformerType ==
    ASSUME TypeOK, NEW s \in Servers, Sync(s) \/ Timer(s)
    PROVE  TypeOK'
<1>1. CASE Sync(s)
  BY <1>1, BoundsType DEF Sync, TypeOK, rows
<1>2. CASE Timer(s)
  BY <1>2, BoundsType DEF Timer, TypeOK, rows, cache
<1> QED
  BY <1>1, <1>2

LEMMA StartType ==
    ASSUME TypeOK, Start
    PROVE  TypeOK'
<1>1. queue' \subseteq Servers /\ cached' \in [Servers -> Resource \cup {Absent}]
      /\ fresh' \in [Servers -> BOOLEAN]
  BY DEF Start, TypeOK
<1> QED
  BY <1>1, BoundsType DEF Start, TypeOK, rows

LEMMA StutterType ==
    ASSUME TypeOK, UNCHANGED vars
    PROVE  TypeOK'
BY DEF vars, TypeOK, rows, cache, keys, bounds

\* What the controllers keep in the API server, in the caches, in the rows and in
\* their workers is what it should be, whatever the steps and their order: no
\* pass goes on without the copy it began with, and each works on a server of
\* its own kind (reconciler.go, the three controllers).
THEOREM TypeCorrect == Spec => []TypeOK
<1>1. TypeOK /\ [Next]_vars => TypeOK'
  BY EnvironmentType, PassType, InformerType, StartType, StutterType DEF Next
<1> QED
  BY <1>1, InitType, PTL DEF Spec

----------------------------------------------------------------------------
(* The copies of the resources. *)

\* A change in the cluster: what it changes of s and of the workers.
LEMMA ClusterStep ==
    ASSUME TypeOK, NEW s \in Servers, NEW r, Put(s, r), Outdate(s)
    PROVE  /\ ~fresh'[s] /\ \A q \in Servers \ {s} : res'[q] = res[q] /\ fresh'[q] = fresh[q]
           /\ \A k \in KindNames :
                 /\ w'[k].pc = w[k].pc /\ w'[k].srv = w[k].srv /\ w'[k].me = w[k].me
                 /\ w'[k].got = w[k].got /\ w'[k].save = w[k].save /\ w'[k].drop = w[k].drop
                 /\ w'[k].failed = w[k].failed
                 /\ w[k].srv = s => ~w'[k].current
                 /\ w[k].srv # s => w'[k] = w[k]
<1>1. ~fresh'[s] /\ \A q \in Servers \ {s} : res'[q] = res[q] /\ fresh'[q] = fresh[q]
  BY DEF Put, TypeOK
<1>2. ASSUME NEW k \in KindNames
      PROVE  /\ w'[k].pc = w[k].pc /\ w'[k].srv = w[k].srv /\ w'[k].me = w[k].me
             /\ w'[k].got = w[k].got /\ w'[k].save = w[k].save /\ w'[k].drop = w[k].drop
             /\ w'[k].failed = w[k].failed
             /\ w[k].srv = s => ~w'[k].current
             /\ w[k].srv # s => w'[k] = w[k]
  <2>1. w'[k] = IF w[k].srv = s THEN [w[k] EXCEPT !.current = FALSE] ELSE w[k]
    BY DEF Outdate
  <2>2. w[k] \in Worker
    BY DEF TypeOK
  <2> QED
    BY <2>1, <2>2 DEF Worker
<1> QED
  BY <1>1, <1>2

\* A step of a pass leaves the workers of the other kinds, and what they work on,
\* alone.
LEMMA OtherWorkers ==
    ASSUME TypeOK, NEW s \in Servers, Pass(s)
    PROVE  /\ KindOf[s] \in KindNames
           /\ \A k \in KindNames \ {KindOf[s]} : w'[k] = w[k] /\ w[k].srv # s
<1>1. KindOf[s] \in KindNames
  BY KindType
<1>2. \E v \in Worker : w' = [w EXCEPT ![KindOf[s]] = v]
  <2>1. CASE Begin(s)
    <3>1. w' = [w EXCEPT ![KindOf[s]] = w'[KindOf[s]]] /\ w'[KindOf[s]] \in Worker
      BY <1>1, <2>1, BeginType DEF Begin, TypeOK
    <3> QED
      BY <3>1
  <2> QED
    BY <2>1, PassSteps DEF PassStep
<1>3. \A k \in KindNames : w[k].srv = s => KindOf[s] = k
  BY ServersAssumption DEF TypeOK
<1> QED
  BY <1>1, <1>2, <1>3 DEF TypeOK

\* What the beginning of a pass makes of the worker.
LEMMA BeginWorker ==
    ASSUME TypeOK, NEW s \in Servers, Begin(s)
    PROVE  /\ w'[KindOf[s]].srv = s /\ w'[KindOf[s]].me = cached[s]
           /\ w'[KindOf[s]].current = fresh[s] /\ ~w'[KindOf[s]].failed
           /\ w'[KindOf[s]].pc = IF cached[s] # Absent THEN "lock" ELSE "delServer"
           /\ w[KindOf[s]].pc = "idle" /\ w[KindOf[s]].srv = Absent
BY KindType DEF Begin, TypeOK, IdleWorker, Found

LEMMA CopiesStep ==
    ASSUME TypeOK, CopiesInv, [Next]_vars
    PROVE  CopiesInv'
<1>1. ASSUME NEW s \in Servers, ClusterChange(s) PROVE CopiesInv'
  <2>1. PICK r \in Resource \cup {Absent} : Put(s, r)
    BY <1>1 DEF ClusterChange
  <2>2. /\ ~fresh'[s] /\ \A q \in Servers \ {s} : res'[q] = res[q] /\ fresh'[q] = fresh[q]
        /\ \A k \in KindNames :
              /\ w'[k].pc = w[k].pc /\ w'[k].srv = w[k].srv /\ w'[k].me = w[k].me
              /\ w[k].srv = s => ~w'[k].current
              /\ w[k].srv # s => w'[k] = w[k]
    BY <1>1, <2>1, ClusterStep DEF ClusterChange
  <2>3. cached' = cached
    BY <1>1 DEF ClusterChange
  <2>4. \A k \in KindNames : w[k].pc # "idle" => w[k].srv \in Servers
    BY DEF TypeOK
  <2> QED
    BY <2>2, <2>3, <2>4 DEF CopiesInv
<1>2. CASE Crash
  BY <1>2 DEF Crash, CopiesInv, IdleWorker
<1>3. ASSUME NEW s \in Servers, Sync(s) PROVE CopiesInv'
  BY <1>3 DEF Sync, CopiesInv, TypeOK
<1>4. CASE Start
  BY <1>4 DEF Start, CopiesInv, TypeOK
<1>5. ASSUME NEW s \in Servers, Begin(s) PROVE CopiesInv'
  <2>1. KindOf[s] \in KindNames /\ \A k \in KindNames \ {KindOf[s]} : w'[k] = w[k]
    BY <1>5, OtherWorkers DEF Pass
  <2> DEFINE k == KindOf[s]
  <2>2. UNCHANGED <<res, cached, fresh>>
    BY <1>5 DEF Begin, cache
  <2>3. w'[k].current => fresh'[w'[k].srv] /\ w'[k].me = res'[w'[k].srv]
    BY <1>5, <2>2, BeginWorker DEF CopiesInv
  <2>4. w'[k].pc \in {"delServer", "delTools"} => w'[k].me = Absent
    BY <1>5, BeginWorker
  <2> QED
    BY <2>1, <2>2, <2>3, <2>4 DEF CopiesInv
<1>6. ASSUME NEW s \in Servers, Pass(s), PassStep(s) PROVE CopiesInv'
  <2> DEFINE k == KindOf[s]
  <2>1. k \in KindNames /\ \A j \in KindNames \ {k} : w'[j] = w[j] /\ w[j].srv # s
    BY <1>6, OtherWorkers
  <2>2. PICK v \in Worker : w' = [w EXCEPT ![k] = v] /\ Continues(s, v)
    BY <1>6 DEF PassStep
  <2>3. w'[k] = v
    BY <2>1, <2>2 DEF TypeOK
  <2>4. \A j \in KindNames : w[j].pc # "idle" => w[j].srv \in Servers
    BY DEF TypeOK
  <2>5. CASE UNCHANGED <<res, fresh>>
    BY <1>6, <2>1, <2>2, <2>3, <2>5 DEF PassStep, Continues, CopiesInv, IdleWorker
  <2>6. CASE Put(s, NewStatus(s)) /\ w' = [w EXCEPT ![k] = IdleWorker]
    <3>1. ~fresh'[s] /\ \A q \in Servers \ {s} : res'[q] = res[q] /\ fresh'[q] = fresh[q]
      BY <2>6 DEF Put, TypeOK
    <3>2. w'[k] = IdleWorker /\ cached' = cached
      BY <1>6, <2>1, <2>6 DEF TypeOK, PassStep
    <3> QED
      BY <2>1, <2>4, <3>1, <3>2 DEF CopiesInv, IdleWorker
  <2> QED
    BY <1>6, <2>5, <2>6 DEF PassStep
<1>7. CASE UNCHANGED <<res, cache, w>>
  BY <1>7 DEF CopiesInv, cache
<1>8. \A s \in Servers : Timer(s) => UNCHANGED <<res, cache, w>>
  BY DEF Timer
<1>9. UNCHANGED vars => UNCHANGED <<res, cache, w>>
  BY DEF vars
<1> QED
  BY <1>1, <1>2, <1>3, <1>4, <1>5, <1>6, <1>7, <1>8, <1>9, EnvironmentSteps, PassSteps DEF Next

LEMMA NoticedStep ==
    ASSUME TypeOK, NoticedInv, [Next]_vars
    PROVE  NoticedInv'
<1>1. ASSUME NEW s \in Servers, ClusterChange(s) PROVE NoticedInv'
  <2>1. PICK r \in Resource \cup {Absent} : Put(s, r)
    BY <1>1 DEF ClusterChange
  <2>2. /\ ~fresh'[s] /\ \A q \in Servers \ {s} : res'[q] = res[q] /\ fresh'[q] = fresh[q]
        /\ \A k \in KindNames :
              /\ w'[k].pc = w[k].pc /\ w'[k].srv = w[k].srv
              /\ w[k].srv # s => w'[k] = w[k]
    BY <1>1, <2>1, ClusterStep DEF ClusterChange
  <2>3. UNCHANGED <<up, queue>>
    BY <1>1 DEF ClusterChange, keys
  <2>4. \A q \in Servers : KindOf[q] \in KindNames
    BY KindType
  <2> QED
    BY <2>2, <2>3, <2>4 DEF NoticedInv
<1>2. CASE Crash
  <2>1. \A k \in KindNames : w'[k].pc = "idle" /\ w'[k].srv = Absent
    BY <1>2 DEF Crash, IdleWorker
  <2>2. queue' = {}
    BY <1>2 DEF Crash
  <2> QED
    BY <2>1, <2>2, KindType, ServersAssumption DEF NoticedInv
<1>3. ASSUME NEW s \in Servers, Sync(s) PROVE NoticedInv'
  <2>1. KindOf[s] = "RemoteMCPServer" /\ res[s] # Absent => s \in queue'
    BY <1>3 DEF Sync, Notifies
  <2>2. \A q \in Servers \ {s} : fresh'[q] = fresh[q] /\ (q \in queue => q \in queue')
    BY <1>3 DEF Sync, TypeOK
  <2> QED
    BY <1>3, <2>1, <2>2 DEF Sync, NoticedInv
<1>4. ASSUME NEW s \in Servers, Timer(s) PROVE NoticedInv'
  BY <1>4 DEF Timer, NoticedInv, cache
<1>5. CASE Start
  <2>1. \A k \in KindNames : w'[k].srv = Absent
    BY <1>5 DEF Start, NoticedInv, TypeOK
  <2> QED
    BY <1>5, <2>1, KindType, ServersAssumption DEF Start, NoticedInv
<1>6. ASSUME NEW s \in Servers, Begin(s) PROVE NoticedInv'
  <2>1. KindOf[s] \in KindNames /\ \A k \in KindNames \ {KindOf[s]} : w'[k] = w[k]
    BY <1>6, OtherWorkers DEF Pass
  <2>2. UNCHANGED <<res, fresh>> /\ queue' = queue \ {s} /\ up'
    BY <1>6 DEF Begin, cache
  <2>3. w'[KindOf[s]].srv = s /\ w'[KindOf[s]].current = fresh[s]
    BY <1>6, BeginWorker
  <2>4. ASSUME NEW q \in Servers, KindOf[q] = "RemoteMCPServer", res'[q] # Absent,
               w'[KindOf[q]].srv = q, ~w'[KindOf[q]].current
        PROVE  ~fresh'[q] \/ q \in queue'
    <3>1. CASE q = s
      BY <2>2, <2>3, <2>4, <3>1
    <3>2. CASE q # s
      <4>1. KindOf[q] # KindOf[s]
        BY <2>3, <2>4, <3>2
      <4>2. w'[KindOf[q]] = w[KindOf[q]]
        BY <2>1, <4>1, KindType
      <4> QED
        BY <2>2, <2>4, <3>2, <4>2 DEF NoticedInv
    <3> QED
      BY <3>1, <3>2
  <2> QED
    BY <2>2, <2>4 DEF NoticedInv
<1>7. ASSUME NEW s \in Servers, Pass(s), PassStep(s) PROVE NoticedInv'
  <2> DEFINE k == KindOf[s]
  <2>1. k \in KindNames /\ \A j \in KindNames \ {k} : w'[j] = w[j] /\ w[j].srv # s
    BY <1>7, OtherWorkers
  <2>2. PICK v \in Worker : w' = [w EXCEPT ![k] = v] /\ Continues(s, v)
    BY <1>7 DEF PassStep
  <2>3. w'[k] = v /\ (v.srv = Absent \/ (v.srv = s /\ v.current = w[k].current /\ v # IdleWorker))
    BY <2>1, <2>2 DEF TypeOK, Continues, IdleWorker
  <2>4. up /\ up' = up /\ queue \subseteq queue' /\ w[k].srv = s
    BY <1>7, <2>1 DEF PassStep, NoticedInv
  <2>5. /\ \A q \in Servers \ {s} : res'[q] = res[q] /\ fresh'[q] = fresh[q]
        /\ w'[k].srv = s => res'[s] = res[s] /\ fresh'[s] = fresh[s]
    <3>1. CASE UNCHANGED <<res, fresh>>
      BY <3>1
    <3>2. CASE Put(s, NewStatus(s)) /\ w' = [w EXCEPT ![k] = IdleWorker]
      <4>1. w'[k].srv = Absent
        BY <2>1, <3>2 DEF TypeOK, IdleWorker
      <4> QED
        BY <3>2, <4>1, ServersAssumption DEF Put, TypeOK
    <3> QED
      BY <1>7, <3>1, <3>2 DEF PassStep
  <2>6. ASSUME NEW q \in Servers, KindOf[q] = "RemoteMCPServer", res'[q] # Absent,
               w'[KindOf[q]].srv = q, ~w'[KindOf[q]].current
        PROVE  ~fresh'[q] \/ q \in queue'
    <3>1. CASE q = s
      BY <2>3, <2>4, <2>5, <2>6, <3>1, ServersAssumption DEF NoticedInv
    <3>2. CASE q # s
      <4>1. KindOf[q] # k
        BY <2>3, <2>6, <3>2, ServersAssumption
      <4>2. w'[KindOf[q]] = w[KindOf[q]]
        BY <2>1, <4>1, KindType
      <4> QED
        BY <2>4, <2>5, <2>6, <3>2, <4>2 DEF NoticedInv
    <3> QED
      BY <3>1, <3>2
  <2> QED
    BY <2>4, <2>6 DEF NoticedInv
<1>8. CASE UNCHANGED <<res, fresh, up, queue, w>>
  BY <1>8 DEF NoticedInv
<1>9. UNCHANGED vars => UNCHANGED <<res, fresh, up, queue, w>>
  BY DEF vars, cache, keys
<1>10. UNCHANGED <<res, cache, rows, up, keys, w, lock>> => UNCHANGED <<res, fresh, up, queue, w>>
  BY DEF cache, keys
<1> QED
  BY <1>1, <1>2, <1>3, <1>4, <1>5, <1>6, <1>7, <1>8, <1>9, <1>10, EnvironmentSteps, PassSteps DEF Next

----------------------------------------------------------------------------
(* The rows. *)

\* Only rows of s change, and they are as the pass over s says.
RowsChange(s) ==
    LET v == w'[KindOf[s]] IN
    /\ \A q \in Servers \ {s} : srow'[q] = srow[q] /\ trow'[q] = trow[q]
    /\ v.srv \in {s, Absent} /\ (v.srv = Absent => v.pc = "idle")
    /\ v.srv = s => RowsOK(v, KindOf[s], srow'[s], trow'[s])

LEMMA IdleRows ==
    ASSUME TypeOK, NEW s \in Servers, w' = [w EXCEPT ![KindOf[s]] = IdleWorker],
           \A q \in Servers \ {s} : srow'[q] = srow[q] /\ trow'[q] = trow[q]
    PROVE  RowsChange(s)
<1>1. w'[KindOf[s]] = IdleWorker
  BY KindType DEF TypeOK
<1> QED
  BY <1>1, ServersAssumption DEF RowsChange, IdleWorker

LEMMA UpsertFailedRows ==
    ASSUME TypeOK, NEW s \in Servers, UpsertFailed(s), w[KindOf[s]].srv = s,
           \A q \in Servers \ {s} : srow'[q] = srow[q] /\ trow'[q] = trow[q]
    PROVE  RowsChange(s)
<1> DEFINE k == KindOf[s]
<1>1. CASE KindOf[s] = "RemoteMCPServer"
  <2>1. w' = [w EXCEPT ![k].pc = "recall", ![k].failed = TRUE] /\ k \in KindNames
    BY <1>1, KindType DEF UpsertFailed
  <2>2. w'[k].pc = "recall" /\ w'[k].failed /\ w'[k].srv = s
    BY <2>1 DEF TypeOK, Worker
  <2> QED
    BY <1>1, <2>2, ServersAssumption DEF RowsChange, RowsOK
<1>2. CASE KindOf[s] # "RemoteMCPServer"
  BY <1>2, IdleRows DEF UpsertFailed, Requeue
<1> QED
  BY <1>1, <1>2

LEMMA PassRows ==
    ASSUME TypeOK, RowsInv, NEW s \in Servers, Pass(s)
    PROVE  RowsChange(s)
<1> DEFINE k == KindOf[s]
<1>1. k \in KindNames /\ w[k] \in Worker /\ RowsOK(w[k], k, srow[w[k].srv], trow[w[k].srv])
  BY KindType DEF TypeOK, RowsInv
<1>2. CASE Begin(s)
  <2>1. UNCHANGED <<srow, trow>>
    BY <1>2 DEF Begin, rows
  <2>2. w'[k].srv = s /\ w'[k].pc \in {"lock", "delServer"} /\ ~w'[k].failed
    BY <1>2, BeginWorker
  <2> QED
    BY <2>1, <2>2, ServersAssumption DEF RowsChange, RowsOK
<1>3. CASE DeleteServerRow(s)
  <2>1. w'[k].srv = s /\ w'[k].pc = "delTools"
    BY <1>1, <1>3 DEF DeleteServerRow, Busy, Goto, TypeOK, Worker
  <2>2. \A q \in Servers \ {s} : srow'[q] = srow[q] /\ trow'[q] = trow[q]
    BY <1>3 DEF DeleteServerRow, TypeOK
  <2> QED
    BY <2>1, <2>2, ServersAssumption DEF RowsChange, RowsOK
<1>4. CASE DeleteToolRows(s)
  <2>1. \A q \in Servers \ {s} : srow'[q] = srow[q] /\ trow'[q] = trow[q]
    BY <1>4 DEF DeleteToolRows, TypeOK
  <2> QED
    BY <1>4, <2>1, IdleRows, EndStep DEF DeleteToolRows
<1>5. CASE Unconvertible(s)
  BY <1>5, IdleRows, EndStep DEF Unconvertible, rows
<1>6. CASE LockAndStore(s)
  <2>1. \A q \in Servers \ {s} : srow'[q] = srow[q] /\ trow'[q] = trow[q]
    BY <1>6 DEF LockAndStore, TypeOK
  <2>2. w[k].srv = s /\ w[k].pc = "lock"
    BY <1>6 DEF LockAndStore, Busy
  <2>3. CASE srow' = [srow EXCEPT ![s] = TRUE] /\ Goto(s, "list")
    <3>1. w'[k].srv = s /\ w'[k].pc = "list" /\ w'[k].failed = w[k].failed
      BY <1>1, <2>2, <2>3 DEF Goto, TypeOK, Worker
    <3>2. srow'[s] /\ ~w[k].failed
      BY <1>1, <2>2, <2>3 DEF TypeOK, RowsOK
    <3> QED
      BY <2>1, <3>1, <3>2, ServersAssumption DEF RowsChange, RowsOK
  <2>4. CASE UpsertFailed(s)
    BY <2>1, <2>2, <2>4, UpsertFailedRows
  <2> QED
    BY <1>6, <2>3, <2>4 DEF LockAndStore
<1>7. CASE ListTools(s)
  <2>1. UNCHANGED <<srow, trow>>
    BY <1>7 DEF ListTools, rows
  <2>2. w[k].srv = s /\ w[k].pc = "list"
    BY <1>7 DEF ListTools, Busy
  <2>3. CASE w' = [w EXCEPT ![k] = [@ EXCEPT !.pc = "refresh", !.got = offered[s],
                                             !.save = offered[s], !.drop = trow[s] \ offered[s]]]
    <3>1. /\ w'[k].srv = s /\ w'[k].pc = "refresh" /\ w'[k].failed = w[k].failed
          /\ w'[k].got = offered[s] /\ w'[k].save = offered[s] /\ w'[k].drop = trow[s] \ offered[s]
      BY <1>1, <2>2, <2>3 DEF TypeOK, Worker
    <3>2. srow'[s] /\ ~w[k].failed
      BY <1>1, <2>1, <2>2 DEF RowsOK
    <3> QED
      BY <2>1, <3>1, <3>2, ServersAssumption DEF RowsChange, RowsOK
  <2>4. CASE UpsertFailed(s)
    BY <2>1, <2>2, <2>4, UpsertFailedRows
  <2> QED
    BY <1>7, <2>3, <2>4 DEF ListTools
<1>8. ASSUME NEW t \in Tools, SaveTool(s, t) PROVE RowsChange(s)
  <2>1. \A q \in Servers \ {s} : srow'[q] = srow[q] /\ trow'[q] = trow[q]
    BY <1>8 DEF SaveTool, TypeOK
  <2>2. w[k].srv = s /\ w[k].pc = "refresh" /\ t \in w[k].save
    BY <1>8 DEF SaveTool, Busy
  <2>3. CASE trow' = [trow EXCEPT ![s] = @ \cup {t}] /\ w' = [w EXCEPT ![k].save = @ \ {t}]
    <3>1. /\ w'[k].srv = s /\ w'[k].pc = "refresh" /\ w'[k].failed = w[k].failed
          /\ w'[k].got = w[k].got /\ w'[k].save = w[k].save \ {t} /\ w'[k].drop = w[k].drop
      BY <1>1, <2>2, <2>3 DEF TypeOK, Worker
    <3>2. srow'[s] /\ ~w[k].failed /\ trow'[s] = trow[s] \cup {t}
      BY <1>1, <1>8, <2>2, <2>3 DEF RowsOK, SaveTool, TypeOK
    <3>3. /\ w[k].save \subseteq w[k].got /\ w[k].got \cap w[k].drop = {}
          /\ w[k].got \ w[k].save \subseteq trow[s] /\ trow[s] \subseteq w[k].got \cup w[k].drop
      BY <1>1, <2>2 DEF RowsOK
    <3> QED
      BY <2>1, <2>2, <3>1, <3>2, <3>3, ServersAssumption DEF RowsChange, RowsOK
  <2>4. CASE UpsertFailed(s)
    BY <2>1, <2>2, <2>4, UpsertFailedRows
  <2> QED
    BY <1>8, <2>3, <2>4 DEF SaveTool
<1>9. ASSUME NEW t \in Tools, DropTool(s, t) PROVE RowsChange(s)
  <2>1. \A q \in Servers \ {s} : srow'[q] = srow[q] /\ trow'[q] = trow[q]
    BY <1>9 DEF DropTool, TypeOK
  <2>2. w[k].srv = s /\ w[k].pc = "refresh" /\ t \in w[k].drop
    BY <1>9 DEF DropTool, Busy
  <2>3. CASE trow' = [trow EXCEPT ![s] = @ \ {t}] /\ w' = [w EXCEPT ![k].drop = @ \ {t}]
    <3>1. /\ w'[k].srv = s /\ w'[k].pc = "refresh" /\ w'[k].failed = w[k].failed
          /\ w'[k].got = w[k].got /\ w'[k].save = w[k].save /\ w'[k].drop = w[k].drop \ {t}
      BY <1>1, <2>2, <2>3 DEF TypeOK, Worker
    <3>2. srow'[s] /\ ~w[k].failed /\ trow'[s] = trow[s] \ {t}
      BY <1>1, <1>9, <2>2, <2>3 DEF RowsOK, DropTool, TypeOK
    <3>3. /\ w[k].save \subseteq w[k].got /\ w[k].got \cap w[k].drop = {}
          /\ w[k].got \ w[k].save \subseteq trow[s] /\ trow[s] \subseteq w[k].got \cup w[k].drop
      BY <1>1, <2>2 DEF RowsOK
    <3> QED
      BY <2>1, <2>2, <3>1, <3>2, <3>3, ServersAssumption DEF RowsChange, RowsOK
  <2>4. CASE UpsertFailed(s)
    BY <2>1, <2>2, <2>4, UpsertFailedRows
  <2> QED
    BY <1>9, <2>3, <2>4 DEF DropTool
<1>10. CASE Upserted(s)
  <2>1. UNCHANGED <<srow, trow>>
    BY <1>10 DEF Upserted, rows
  <2>2. w[k].srv = s /\ w[k].pc = "refresh" /\ w[k].save = {} /\ w[k].drop = {}
    BY <1>10 DEF Upserted, Refreshed, Busy
  <2>3. CASE KindOf[s] = "RemoteMCPServer"
    <3>1. w'[k].srv = s /\ w'[k].pc = "status" /\ w'[k].got = w[k].got
      BY <1>1, <1>10, <2>2, <2>3 DEF Upserted, Goto, TypeOK, Worker
    <3>2. srow[s] /\ w[k].got = trow[s]
      BY <1>1, <2>2 DEF RowsOK
    <3> QED
      BY <2>1, <2>3, <3>1, <3>2, ServersAssumption DEF RowsChange, RowsOK
  <2>4. CASE KindOf[s] # "RemoteMCPServer"
    BY <1>10, <2>1, <2>4, IdleRows, EndStep DEF Upserted
  <2> QED
    BY <2>3, <2>4
<1>11. CASE Recall(s)
  <2>1. UNCHANGED <<srow, trow>>
    BY <1>11 DEF Recall, rows
  <2>2. w[k].srv = s /\ w[k].pc = "recall" /\ w[k].failed /\ k = "RemoteMCPServer"
    BY <1>1, <1>11 DEF Recall, Busy, RowsOK
  <2>3. PICK T \in {trow[s], {}} : w' = [w EXCEPT ![k].pc = "status", ![k].got = T]
    BY <1>11 DEF Recall
  <2>4. w'[k].srv = s /\ w'[k].pc = "status" /\ w'[k].got = T /\ w'[k].failed = w[k].failed
    BY <1>1, <2>2, <2>3 DEF TypeOK, Worker
  <2> QED
    BY <2>1, <2>2, <2>3, <2>4, ServersAssumption DEF RowsChange, RowsOK
<1>12. CASE UpdateStatus(s)
  BY <1>12, IdleRows, EndStep DEF UpdateStatus, rows
<1> QED
  BY <1>2, <1>3, <1>4, <1>5, <1>6, <1>7, <1>8, <1>9, <1>10, <1>11, <1>12 DEF Pass

LEMMA RowsStep ==
    ASSUME TypeOK, RowsInv, [Next]_vars
    PROVE  RowsInv'
<1>1. ASSUME NEW s \in Servers, Pass(s) PROVE RowsInv'
  <2> DEFINE k == KindOf[s]
  <2>1. k \in KindNames /\ \A j \in KindNames \ {k} : w'[j] = w[j] /\ w[j].srv # s
    BY <1>1, OtherWorkers
  <2>2. RowsChange(s)
    BY <1>1, PassRows
  <2>3. ASSUME NEW j \in KindNames \ {k} PROVE RowsOK(w'[j], j, srow'[w'[j].srv], trow'[w'[j].srv])
    <3>1. w'[j] = w[j] /\ RowsOK(w[j], j, srow[w[j].srv], trow[w[j].srv])
      BY <2>1 DEF RowsInv
    <3>2. CASE w[j].pc = "idle"
      BY <3>1, <3>2 DEF RowsOK
    <3>3. CASE w[j].pc # "idle"
      <4>1. w[j].srv \in Servers \ {s}
        BY <2>1, <3>3 DEF TypeOK
      <4> QED
        BY <2>2, <3>1, <4>1 DEF RowsChange
    <3> QED
      BY <3>2, <3>3
  <2>4. RowsOK(w'[k], k, srow'[w'[k].srv], trow'[w'[k].srv])
    <3>1. CASE w'[k].srv = s
      BY <2>2, <3>1 DEF RowsChange
    <3>2. CASE w'[k].pc = "idle"
      BY <3>2 DEF RowsOK
    <3> QED
      BY <2>2, <3>1, <3>2 DEF RowsChange
  <2> QED
    BY <2>1, <2>3, <2>4 DEF RowsInv
<1>2. ASSUME NEW s \in Servers, ClusterChange(s) PROVE RowsInv'
  <2>1. PICK r \in Resource \cup {Absent} : Put(s, r)
    BY <1>2 DEF ClusterChange
  <2>2. \A k \in KindNames :
              /\ w'[k].pc = w[k].pc /\ w'[k].srv = w[k].srv
              /\ w'[k].got = w[k].got /\ w'[k].save = w[k].save /\ w'[k].drop = w[k].drop
              /\ w'[k].failed = w[k].failed
    BY <1>2, <2>1, ClusterStep DEF ClusterChange
  <2>3. UNCHANGED <<srow, trow>>
    BY <1>2 DEF ClusterChange, rows
  <2> QED
    BY <2>2, <2>3 DEF RowsInv, RowsOK
<1>3. CASE Crash
  BY <1>3 DEF Crash, RowsInv, RowsOK, IdleWorker
<1>4. CASE UNCHANGED <<srow, trow, w>>
  BY <1>4 DEF RowsInv
<1>5. (\E s \in Servers : Sync(s) \/ Timer(s)) \/ Start \/ UNCHANGED vars => UNCHANGED <<srow, trow, w>>
  BY DEF Sync, Timer, Start, vars, rows
<1>6. UNCHANGED <<res, cache, rows, up, keys, w, lock>> => UNCHANGED <<srow, trow, w>>
  BY DEF rows
<1> QED
  BY <1>1, <1>2, <1>3, <1>4, <1>5, <1>6, EnvironmentSteps DEF Next

\* What is so of a server at rest that has been given a status.
Told(s) ==
    /\ res[s].tools \subseteq trow[s]
    /\ res[s].acc = "True" => srow[s] /\ res[s].tools = trow[s]

\* A server that a step leaves alone is at rest behind it only if it was before.
LEMMA LeftAlone ==
    ASSUME StatusTellsRows, NEW s \in Servers,
           AtRest(s)' => AtRest(s),
           res'[s] = res[s] /\ srow'[s] = srow[s] /\ trow'[s] = trow[s],
           KindOf[s] = "RemoteMCPServer" /\ AtRest(s)' /\ res'[s] # Absent /\ res'[s].acc # "none"
    PROVE  Told(s)'
BY DEF StatusTellsRows, Told

\* A pass over a RemoteMCPServer that leaves it at rest ends with the status it has.
LEMMA PassTells ==
    ASSUME TypeOK, CopiesInv, NoticedInv, RowsInv, NEW s \in Servers, Pass(s),
           KindOf[s] = "RemoteMCPServer", AtRest(s)', res'[s] # Absent, res'[s].acc # "none"
    PROVE  Told(s)'
<1> DEFINE k == KindOf[s]
<1>1. k \in KindNames /\ w[k] \in Worker /\ RowsOK(w[k], k, srow[w[k].srv], trow[w[k].srv])
  BY KindType DEF TypeOK, RowsInv
<1>2. fresh'[s] /\ s \notin queue' /\ w'[k].srv # s
  BY DEF AtRest
<1>3. w[k].srv = s /\ w[k].pc # "idle" /\ (UNCHANGED <<res, fresh>> \/ Put(s, NewStatus(s))) /\ s \notin queue
  <2>1. ~Begin(s)
    BY <1>2, BeginWorker
  <2> QED
    BY <1>2, <2>1, PassSteps DEF PassStep
<1>4. UNCHANGED <<res, fresh>>
  BY <1>2, <1>3 DEF Put, TypeOK
<1>5. w[k].current /\ w[k].me = res[s] /\ res[s] # Absent
  <2>1. w[k].current
    BY <1>2, <1>3, <1>4 DEF NoticedInv
  <2> QED
    BY <1>1, <1>3, <1>4, <2>1 DEF CopiesInv
<1>6. w[k].pc = "status" /\ NewStatus(s) = w[k].me
  <2>1. CASE DeleteServerRow(s) \/ DeleteToolRows(s)
    BY <1>1, <1>5, <2>1 DEF CopiesInv, DeleteServerRow, DeleteToolRows, Busy
  <2>2. CASE UpdateStatus(s)
    <3>1. s \in queue' \/ NewStatus(s) = w[k].me \/ Put(s, NewStatus(s))
      BY <2>2 DEF UpdateStatus, Requeue
    <3>2. ~Put(s, NewStatus(s))
      BY <1>2 DEF Put, TypeOK
    <3> QED
      BY <1>2, <2>2, <3>1, <3>2 DEF UpdateStatus, Busy
  <2>3. CASE Begin(s)
    BY <1>2, <2>3, BeginWorker
  <2>4. CASE \E p \in {"list", "status"} : Goto(s, p)
    <3>1. w'[k].srv = w[k].srv
      BY <1>1, <2>4 DEF Goto, TypeOK, Worker
    <3> QED
      BY <1>2, <1>3, <3>1
  <2>5. CASE UpsertFailed(s)
    <3>1. w'[k].srv = w[k].srv
      BY <1>1, <2>5 DEF UpsertFailed, TypeOK, Worker
    <3> QED
      BY <1>2, <1>3, <3>1
  <2>6. ~Unconvertible(s)
    BY DEF Unconvertible
  <2>7. CASE LockAndStore(s) \/ Upserted(s)
    BY <2>4, <2>5, <2>7 DEF LockAndStore, Upserted
  <2>8. CASE ListTools(s)
    <3>1. CASE w' = [w EXCEPT ![k] = [@ EXCEPT !.pc = "refresh", !.got = offered[s],
                                               !.save = offered[s], !.drop = trow[s] \ offered[s]]]
      <4>1. w'[k].srv = w[k].srv
        BY <1>1, <3>1 DEF TypeOK, Worker
      <4> QED
        BY <1>2, <1>3, <4>1
    <3> QED
      BY <2>5, <2>8, <3>1 DEF ListTools
  <2>9. ASSUME NEW t \in Tools, SaveTool(s, t) \/ DropTool(s, t) PROVE FALSE
    <3>1. w'[k].srv = w[k].srv \/ UpsertFailed(s)
      BY <1>1, <2>9 DEF SaveTool, DropTool, TypeOK, Worker
    <3>2. UpsertFailed(s) => w'[k].srv = w[k].srv
      BY <1>1 DEF UpsertFailed, TypeOK, Worker
    <3> QED
      BY <1>2, <1>3, <3>1, <3>2
  <2>10. CASE Recall(s)
    <3>1. w'[k].srv = w[k].srv
      BY <1>1, <2>10 DEF Recall, TypeOK, Worker
    <3> QED
      BY <1>2, <1>3, <3>1
  <2> QED
    BY <2>1, <2>2, <2>3, <2>6, <2>7, <2>8, <2>9, <2>10 DEF Pass
<1>7. UNCHANGED <<srow, trow>>
  <2>1. UpdateStatus(s)
    BY <1>3, <1>6 DEF Pass, Begin, DeleteServerRow, DeleteToolRows, Unconvertible, LockAndStore,
       ListTools, SaveTool, DropTool, Upserted, Recall, Busy
  <2> QED
    BY <2>1 DEF UpdateStatus, rows
<1>8. /\ w[k].got \subseteq trow[s]
      /\ ~w[k].failed => srow[s] /\ w[k].got = trow[s]
  BY <1>1, <1>3, <1>6 DEF RowsOK
<1>9. /\ w[k].me.acc = (IF w[k].failed THEN "False" ELSE "True")
      /\ w[k].me.tools = w[k].got
  <2>1. w[k].me \in Resource
    BY <1>1, <1>6 DEF TypeOK
  <2>2. NewStatus(s).acc = (IF w[k].failed THEN "False" ELSE "True") /\ NewStatus(s).tools = w[k].got
    BY <2>1 DEF NewStatus, Resource
  <2> QED
    BY <1>6, <2>2
<1> QED
  BY <1>4, <1>5, <1>7, <1>8, <1>9 DEF Told

LEMMA StatusStep ==
    ASSUME TypeOK, CopiesInv, NoticedInv, RowsInv, StatusTellsRows, [Next]_vars
    PROVE  StatusTellsRows'
<1> SUFFICES ASSUME NEW s \in Servers, KindOf[s] = "RemoteMCPServer", AtRest(s)',
                    res'[s] # Absent, res'[s].acc # "none"
             PROVE  Told(s)'
  BY DEF StatusTellsRows, Told
<1>1. ASSUME NEW q \in Servers, Pass(q) PROVE Told(s)'
  <2>1. CASE q = s
    BY <1>1, <2>1, PassTells
  <2>2. CASE q # s
    <3>1. RowsChange(q)
      BY <1>1, PassRows
    <3>2. CASE Begin(q)
      <4>1. UNCHANGED <<res, fresh, up>> /\ queue' = queue \ {q}
        BY <3>2 DEF Begin, cache
      <4>2. w[KindOf[s]].srv # s
        <5>1. CASE KindOf[q] = KindOf[s]
          BY <3>2, <5>1, BeginWorker, ServersAssumption
        <5>2. CASE KindOf[q] # KindOf[s]
          BY <1>1, <5>2, OtherWorkers, KindType DEF AtRest
        <5> QED
          BY <5>1, <5>2
      <4> QED
        BY <2>2, <3>1, <4>1, <4>2, LeftAlone DEF AtRest, RowsChange
    <3>3. CASE PassStep(q)
      <4>1. res'[s] = res[s] /\ fresh'[s] = fresh[s] /\ up' = up /\ queue \subseteq queue'
        BY <2>2, <3>3 DEF PassStep, Put, TypeOK
      <4>2. w[KindOf[s]].srv # s
        <5>1. CASE KindOf[q] = KindOf[s]
          BY <2>2, <3>3, <5>1 DEF PassStep
        <5>2. CASE KindOf[q] # KindOf[s]
          BY <1>1, <5>2, OtherWorkers, KindType DEF AtRest
        <5> QED
          BY <5>1, <5>2
      <4> QED
        BY <2>2, <3>1, <4>1, <4>2, LeftAlone DEF AtRest, RowsChange
    <3> QED
      BY <1>1, <3>2, <3>3, PassSteps
  <2> QED
    BY <2>1, <2>2
<1>2. ASSUME NEW q \in Servers, ClusterChange(q) PROVE Told(s)'
  <2>1. PICK r \in Resource \cup {Absent} : Put(q, r)
    BY <1>2 DEF ClusterChange
  <2>2. /\ ~fresh'[q] /\ \A p \in Servers \ {q} : res'[p] = res[p] /\ fresh'[p] = fresh[p]
        /\ \A k \in KindNames : w'[k].srv = w[k].srv
    BY <1>2, <2>1, ClusterStep DEF ClusterChange
  <2>3. UNCHANGED <<srow, trow, up, queue>>
    BY <1>2 DEF ClusterChange, rows, keys
  <2>4. s # q
    BY <2>2 DEF AtRest
  <2> QED
    BY <2>2, <2>3, <2>4, KindType, LeftAlone DEF AtRest
<1>3. ~Crash
  BY DEF Crash, AtRest
<1>4. ASSUME NEW q \in Servers, Sync(q) PROVE Told(s)'
  <2>1. q # s
    BY <1>4 DEF Sync, Notifies, AtRest
  <2>2. fresh'[s] = fresh[s] /\ queue \subseteq queue' /\ UNCHANGED <<res, srow, trow, up, w>>
    BY <1>4, <2>1 DEF Sync, TypeOK, rows
  <2> QED
    BY <2>2, LeftAlone DEF AtRest
<1>5. ASSUME NEW q \in Servers, Timer(q) PROVE Told(s)'
  <2>1. queue \subseteq queue' /\ UNCHANGED <<res, fresh, srow, trow, up, w>>
    BY <1>5 DEF Timer, rows, cache
  <2> QED
    BY <2>1, LeftAlone DEF AtRest
<1>6. ~Start
  BY DEF Start, Notifies, AtRest
<1>7. CASE UNCHANGED <<res, fresh, srow, trow, up, queue, w>>
  BY <1>7, LeftAlone DEF AtRest
<1>8. UNCHANGED vars \/ UNCHANGED <<res, cache, rows, up, keys, w, lock>>
        => UNCHANGED <<res, fresh, srow, trow, up, queue, w>>
  BY DEF vars, cache, rows, keys
<1> QED
  BY <1>1, <1>2, <1>3, <1>4, <1>5, <1>6, <1>7, <1>8, EnvironmentSteps DEF Next

LEMMA InitStatus == Init => CopiesInv /\ NoticedInv /\ RowsInv /\ StatusTellsRows
BY KindType, ServersAssumption
   DEF Init, IdleWorker, CopiesInv, NoticedInv, RowsInv, RowsOK, StatusTellsRows, AtRest

\* A RemoteMCPServer at rest: the tools its status lists are in the database, and
\* if the status is without an error they are all the tool rows there are, beside
\* the row of the server.  So whatever was changed, redeployed or failed while a
\* pass was listing, storing or telling (reconciler.go:437-479, 575-624): a status
\* that is stale or wrong has an event, or a queued key, behind it.
THEOREM StatusIsRight == Spec => []StatusTellsRows
<1>1. TypeOK /\ StatusParts /\ [Next]_vars => StatusParts'
  BY CopiesStep, NoticedStep, RowsStep, StatusStep DEF StatusParts
<1>2. Init => StatusParts
  BY InitStatus DEF StatusParts
<1>3. StatusParts => StatusTellsRows
  BY DEF StatusParts
<1> QED
  BY <1>1, <1>2, <1>3, TypeCorrect, PTL DEF Spec

----------------------------------------------------------------------------
(* The rows of a server that is gone. *)

LEMMA AttendedStep ==
    ASSUME TypeOK, NoticedInv, RowsInv, AttendedInv, [Next]_vars
    PROVE  AttendedInv'
<1> SUFFICES ASSUME crashes' = MaxCrashes, NEW s \in Servers, Periodic(s), srow'[s] \/ trow'[s] # {}
             PROVE  s \in (queue \cup later)' \/ w'[KindOf[s]].srv = s
  BY DEF AttendedInv, Periodic
<1>1. ASSUME NEW q \in Servers, Pass(q)
      PROVE  s \in (queue \cup later)' \/ w'[KindOf[s]].srv = s
  <2>1. crashes = MaxCrashes
    BY <1>1, RowsType DEF Fault, bounds
  <2>2. CASE q = s
    <3>1. CASE Begin(s)
      BY <3>1, BeginWorker
    <3>2. CASE PassStep(s)
      <4>1. PICK v \in Worker : w' = [w EXCEPT ![KindOf[s]] = v] /\ Continues(s, v)
        BY <3>2 DEF PassStep
      <4>2. w'[KindOf[s]] = v
        BY <4>1, KindType DEF TypeOK
      <4> QED
        BY <4>1, <4>2 DEF Continues
    <3> QED
      BY <1>1, <2>2, <3>1, <3>2, PassSteps
  <2>3. CASE q # s
    <3>1. srow[s] \/ trow[s] # {}
      BY <1>1, <2>3, PassRows DEF RowsChange
    <3>2. s \in queue \cup later \/ w[KindOf[s]].srv = s
      BY <2>1, <3>1 DEF AttendedInv
    <3>3. s \in queue \cup later => s \in (queue \cup later)'
      BY <1>1, <2>3, PassSteps DEF Begin, PassStep
    <3>4. w[KindOf[s]].srv = s => w'[KindOf[s]].srv = s
      <4>1. KindOf[q] # KindOf[s] => w'[KindOf[s]] = w[KindOf[s]]
        BY <1>1, OtherWorkers, KindType
      <4>2. KindOf[q] = KindOf[s] => w[KindOf[s]].srv # s
        BY <1>1, <2>3, PassSteps, BeginWorker, ServersAssumption DEF PassStep
      <4> QED
        BY <4>1, <4>2
    <3> QED
      BY <3>2, <3>3, <3>4
  <2> QED
    BY <2>2, <2>3
<1>2. ASSUME \E q \in Servers : ClusterChange(q)
      PROVE  s \in (queue \cup later)' \/ w'[KindOf[s]].srv = s
  <2>1. PICK q \in Servers, r \in Resource \cup {Absent} : Put(q, r) /\ ClusterChange(q)
    BY <1>2 DEF ClusterChange
  <2>2. w'[KindOf[s]].srv = w[KindOf[s]].srv
    BY <2>1, ClusterStep, KindType DEF ClusterChange
  <2>3. UNCHANGED <<srow, trow, queue, later, crashes>>
    BY <2>1 DEF ClusterChange, rows, keys, Change
  <2> QED
    BY <2>2, <2>3 DEF AttendedInv
<1>3. ~Crash
  BY DEF Crash, TypeOK
<1>4. ASSUME NEW q \in Servers, Sync(q) \/ Timer(q)
      PROVE  s \in (queue \cup later)' \/ w'[KindOf[s]].srv = s
  <2>1. (queue \cup later) \subseteq (queue \cup later)' /\ UNCHANGED <<srow, trow, w, crashes>>
    BY <1>4 DEF Sync, Timer, rows, bounds
  <2> QED
    BY <2>1 DEF AttendedInv
<1>5. CASE Start
  <2>1. queue = {} /\ UNCHANGED <<later, srow, trow, w, crashes>>
    BY <1>5 DEF Start, NoticedInv, rows, bounds
  <2> QED
    BY <2>1 DEF AttendedInv
<1>6. CASE UNCHANGED <<srow, trow, queue, later, w, crashes>>
  BY <1>6 DEF AttendedInv
<1>7. UNCHANGED vars \/ (Change /\ UNCHANGED <<res, cache, rows, up, keys, w, lock>>)
        => UNCHANGED <<srow, trow, queue, later, w, crashes>>
  BY DEF vars, rows, keys, bounds, Change
<1> QED
  BY <1>1, <1>2, <1>3, <1>4, <1>5, <1>6, <1>7, EnvironmentSteps DEF Next

LEMMA InitAttended == Init => AttendedInv
BY DEF Init, AttendedInv

\* As long as the controller has not crashed, no row of a RemoteMCPServer or an
\* MCPServer that is gone is left for good: at rest it has none, or waits for the
\* end of its period and is looked at again, however often a deletion failed and
\* was only logged (reconciler.go:341-357, 377-399), and whatever pass was on its
\* way when the server went.
THEOREM DeletedRowsAttended == Spec => []DeletedRowsLeft
<1>1. TypeOK /\ StatusParts /\ AttendedInv /\ [Next]_vars => StatusParts' /\ AttendedInv'
  BY CopiesStep, NoticedStep, RowsStep, StatusStep, AttendedStep DEF StatusParts
<1>2. Init => StatusParts /\ AttendedInv
  BY InitStatus, InitAttended DEF StatusParts
<1>3. TypeOK /\ AttendedInv => DeletedRowsLeft
  <2> SUFFICES ASSUME TypeOK, AttendedInv, crashes = MaxCrashes, NEW s \in Servers,
                      AtRest(s), KindOf[s] # "Service", srow[s] \/ trow[s] # {}
               PROVE  s \in later
    BY DEF DeletedRowsLeft, TypeOK
  <2>1. Periodic(s)
    BY KindType DEF Periodic, KindNames
  <2> QED
    BY <2>1 DEF AttendedInv, AtRest
<1> QED
  BY <1>1, <1>2, <1>3, TypeCorrect, PTL DEF Spec

=============================================================================
