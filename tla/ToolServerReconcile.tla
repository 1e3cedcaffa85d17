------------------------ MODULE ToolServerReconcile ------------------------
(***************************************************************************)
(* The three tool-server controllers (RemoteMCPServer, MCPServer, labelled *)
(* Service): discovery of a server's tools, the tool_server and tool rows  *)
(* of the database, the status of a RemoteMCPServer, and the mutex         *)
(* upsertLock, which is held while a server is asked for its tools.        *)
(*                                                                         *)
(* Sources: go/internal/controller/reconciler/reconciler.go, the three     *)
(* controllers in go/internal/controller, database/client.go.              *)
(*                                                                         *)
(* Each controller has one worker.  The API server, the informers and the  *)
(* MCP servers are outside; the database calls are single steps.           *)
(***************************************************************************)
EXTENDS Naturals, FiniteSets

CONSTANTS
    Servers,    \* the resources, of all three kinds
    KindOf,     \* KindOf[s]: which controller reconciles s
    Tools,      \* names of tools
    Absent,     \* no such resource
    Free,       \* nobody holds the mutex
    MaxEnv, MaxFaults, MaxCrashes   \* bounds

VARIABLES
    res,     \* res[s]: the resource in the API server
    offered, \* offered[s]: the tools the MCP server behind s answers with
    cached,  \* cached[s]: the resource in the informer's cache
    fresh,   \* fresh[s]: nothing has happened to s that the cache has not seen
    srow,    \* srow[s]: there is a row for s in tool_server
    trow,    \* trow[s]: the tools there are rows for in tool
    up,      \* the controller manager runs
    queue,   \* keys in the work queues
    later,   \* keys queued with RequeueAfter
    w,       \* w[k]: the worker of the controller of kind k
    lock,    \* who holds upsertLock
    env, faults, crashes   \* what is left of the bounds

rows   == <<srow, trow>>
cache  == <<cached, fresh>>
keys   == <<queue, later>>
bounds == <<env, faults, crashes>>
vars   == <<res, offered, cache, rows, up, keys, w, lock, bounds>>

----------------------------------------------------------------------------
KindNames == {"RemoteMCPServer", "MCPServer", "Service"}

\* enabled: the label that has a Service discovered, or an MCPServer not left
\* out of discovery.  valid: it converts to a RemoteMCPServer spec.
\* acc, observed, tools: the status of a RemoteMCPServer.
Resource == [gen : Nat, enabled : BOOLEAN, valid : BOOLEAN,
             acc : {"none", "True", "False"}, observed : Nat, tools : SUBSET Tools]

IdleWorker ==
    [pc |-> "idle", srv |-> Absent, me |-> Absent, current |-> FALSE,
     got |-> {}, save |-> {}, drop |-> {}, failed |-> FALSE]

\* me: the copy the pass has of the resource; current: it is still the resource.
\* got: the tools for the status; save, drop: the rows still to save, to delete.
Worker == [pc : {"idle", "delServer", "delTools", "lock", "list", "refresh", "recall", "status"},
           srv : Servers \cup {Absent}, me : Resource \cup {Absent}, current : BOOLEAN,
           got : SUBSET Tools, save : SUBSET Tools, drop : SUBSET Tools, failed : BOOLEAN]

ASSUME ServersAssumption ==
    /\ KindOf \in [Servers -> KindNames]
    /\ Absent \notin Resource /\ Absent \notin Servers
    /\ Free \notin KindNames
    /\ MaxEnv \in Nat /\ MaxFaults \in Nat /\ MaxCrashes \in Nat

\* RequeueAfter: "loop forever because we need to refresh tools server status".
Periodic(s) == KindOf[s] \in {"RemoteMCPServer", "MCPServer"}

TypeOK ==
    /\ res \in [Servers -> Resource \cup {Absent}]
    /\ offered \in [Servers -> SUBSET Tools]
    /\ cached \in [Servers -> Resource \cup {Absent}]
    /\ fresh \in [Servers -> BOOLEAN]
    /\ srow \in [Servers -> BOOLEAN]
    /\ trow \in [Servers -> SUBSET Tools]
    /\ up \in BOOLEAN
    /\ queue \subseteq Servers /\ later \subseteq Servers
    /\ w \in [KindNames -> Worker]
    /\ \A k \in KindNames :
          /\ w[k].pc = "idle" => w[k].srv = Absent
          /\ w[k].pc # "idle" => w[k].srv \in Servers /\ KindOf[w[k].srv] = k
          /\ w[k].pc \in {"lock", "list", "refresh", "recall", "status"} => w[k].me \in Resource
    /\ lock \in KindNames \cup {Free}
    /\ env \in 0..MaxEnv /\ faults \in 0..MaxFaults /\ crashes \in 0..MaxCrashes

Init ==
    /\ res \in [Servers -> {Absent} \cup
                  [gen : {1}, enabled : BOOLEAN, valid : {TRUE},
                   acc : {"none"}, observed : {0}, tools : {{}}]]
    /\ \A s \in Servers :
          res[s] # Absent /\ KindOf[s] = "RemoteMCPServer" => res[s].enabled
    /\ offered \in [Servers -> SUBSET Tools]
    /\ cached = [s \in Servers |-> Absent]
    /\ fresh = [s \in Servers |-> FALSE]
    /\ srow = [s \in Servers |-> FALSE]
    /\ trow = [s \in Servers |-> {}]
    /\ up = FALSE
    /\ queue = {} /\ later = {}
    /\ w = [k \in KindNames |-> IdleWorker]
    /\ lock = Free
    /\ env = MaxEnv /\ faults = MaxFaults /\ crashes = MaxCrashes

----------------------------------------------------------------------------
(* The cluster and the MCP servers. *)

Change == env > 0 /\ env' = env - 1 /\ UNCHANGED <<faults, crashes>>
Fault  == faults > 0 /\ faults' = faults - 1 /\ UNCHANGED <<env, crashes>>

\* The resource becomes r: caches and a worker's copy of it are behind now.
Put(s, r) ==
    /\ res' = [res EXCEPT ![s] = r]
    /\ fresh' = [fresh EXCEPT ![s] = FALSE]

Outdate(s) ==
    w' = [k \in KindNames |->
            IF w[k].srv = s THEN [w[k] EXCEPT !.current = FALSE] ELSE w[k]]

\* With kubectl, or the handler of POST /api/toolservers.  A watch delivers a deletion
\* before the creation that follows it, so a server is only created anew once the cache
\* has seen it go.
CreateServer(s) ==
    /\ Change
    /\ res[s] = Absent /\ cached[s] = Absent
    /\ \E e \in BOOLEAN, v \in BOOLEAN :
          /\ KindOf[s] = "RemoteMCPServer" => e /\ v
          /\ Put(s, [gen |-> 1, enabled |-> e, valid |-> v, acc |-> "none",
                  observed |-> 0, tools |-> {}])
    /\ Outdate(s)
    /\ UNCHANGED <<offered, cached, rows, up, keys, lock>>

UpdateServer(s) ==
    /\ Change
    /\ res[s] # Absent
    /\ \E v \in BOOLEAN :
          /\ KindOf[s] = "RemoteMCPServer" => v
          /\ Put(s, [res[s] EXCEPT !.gen = @ + 1, !.valid = v])
    /\ Outdate(s)
    /\ UNCHANGED <<offered, cached, rows, up, keys, lock>>

Relabel(s) ==
    /\ Change
    /\ KindOf[s] # "RemoteMCPServer"
    /\ res[s] # Absent
    /\ Put(s, [res[s] EXCEPT !.enabled = ~@])
    /\ Outdate(s)
    /\ UNCHANGED <<offered, cached, rows, up, keys, lock>>

\* With kubectl, or the handler of DELETE /api/toolservers, which looks for its kind in
\* the rows and so only finds a server that has some.
DeleteServer(s) ==
    /\ Change
    /\ res[s] # Absent
    /\ Put(s, Absent)
    /\ Outdate(s)
    /\ UNCHANGED <<offered, cached, rows, up, keys, lock>>

\* The MCP server behind s is redeployed with other tools: no Kubernetes event.
Offer(s, T) ==
    /\ Change
    /\ offered[s] # T
    /\ offered' = [offered EXCEPT ![s] = T]
    /\ UNCHANGED <<res, cache, rows, up, keys, w, lock>>

----------------------------------------------------------------------------
(* Informers, predicates, timers, restarts. *)

\* RemoteMCPServer: no predicate.  MCPServer: the generation changed and
\* discovery is not disabled in the new object (the last one, for a deletion).
\* Service: the new object (the last one, for a deletion) carries the label.
Notifies(s, old, new) ==
    LET last == IF new = Absent THEN old ELSE new IN
    CASE KindOf[s] = "RemoteMCPServer" -> TRUE
      [] KindOf[s] = "MCPServer" ->
            /\ last.enabled
            /\ old # Absent /\ new # Absent => old.gen # new.gen
      [] KindOf[s] = "Service" -> last.enabled

Sync(s) ==
    /\ up
    /\ ~fresh[s]
    /\ cached' = [cached EXCEPT ![s] = res[s]]
    /\ fresh' = [fresh EXCEPT ![s] = TRUE]
    /\ queue' = IF (cached[s] # Absent \/ res[s] # Absent) /\ Notifies(s, cached[s], res[s])
                THEN queue \cup {s} ELSE queue
    /\ UNCHANGED <<res, offered, rows, up, later, w, lock, bounds>>

\* Sixty seconds after a pass.
Timer(s) ==
    /\ up
    /\ s \in later
    /\ later' = later \ {s}
    /\ queue' = queue \cup {s}
    /\ UNCHANGED <<res, offered, cache, rows, up, w, lock, bounds>>

Crash ==
    /\ up /\ crashes > 0
    /\ crashes' = crashes - 1
    /\ up' = FALSE
    /\ queue' = {} /\ later' = {}
    /\ cached' = [s \in Servers |-> Absent]
    /\ fresh' = [s \in Servers |-> FALSE]
    /\ w' = [k \in KindNames |-> IdleWorker]
    /\ lock' = Free
    /\ UNCHANGED <<res, offered, rows, env, faults>>

\* The first list is a creation event for every resource there is.
Start ==
    /\ ~up
    /\ up' = TRUE
    /\ cached' = res
    /\ fresh' = [s \in Servers |-> TRUE]
    /\ queue' = {s \in Servers : res[s] # Absent /\ Notifies(s, Absent, res[s])}
    /\ UNCHANGED <<res, offered, rows, later, w, lock, bounds>>

----------------------------------------------------------------------------
(* A worker's pass over server s. *)

Busy(s, pc) == w[KindOf[s]].srv = s /\ w[KindOf[s]].pc = pc

Goto(s, pc) == w' = [w EXCEPT ![KindOf[s]].pc = pc]

\* Mutant: the deletion of a server is not looked at again.
ReturnPresent(s) ==
    /\ w' = [w EXCEPT ![KindOf[s]] = IdleWorker]
    /\ later' = IF Periodic(s) /\ cached[s] # Absent THEN later \cup {s} ELSE later
    /\ UNCHANGED queue

\* Mutant: no RequeueAfter.
ReturnOnce(s) == w' = [w EXCEPT ![KindOf[s]] = IdleWorker] /\ UNCHANGED keys

\* The reconciler returns nil: with RequeueAfter, or, for a Service, without.
Return(s) ==
    /\ w' = [w EXCEPT ![KindOf[s]] = IdleWorker]
    /\ later' = IF Periodic(s) THEN later \cup {s} ELSE later
    /\ UNCHANGED queue

\* It returns an error, and RequeueAfter does not count.
Requeue(s) ==
    /\ w' = [w EXCEPT ![KindOf[s]] = IdleWorker]
    /\ queue' = queue \cup {s}
    /\ UNCHANGED later

\* Mutant: a resource that is gone is reconciled like any other.
FoundAlways(s) == TRUE

Found(s) == cached[s] # Absent

Begin(s) ==
    /\ up /\ s \in queue
    /\ w[KindOf[s]].pc = "idle"
    /\ queue' = queue \ {s}
    /\ w' = [w EXCEPT ![KindOf[s]] =
               [IdleWorker EXCEPT
                  !.pc = IF Found(s) THEN "lock" ELSE "delServer",
                  !.srv = s, !.me = cached[s], !.current = fresh[s]]]
    /\ UNCHANGED <<res, offered, cache, rows, up, later, lock, bounds>>

\* DeleteToolServer, then DeleteToolsForServer; an error is only logged.
DeleteServerRow(s) ==
    /\ Busy(s, "delServer")
    /\ \/ srow' = [srow EXCEPT ![s] = FALSE] /\ UNCHANGED bounds
       \/ Fault /\ UNCHANGED srow
    /\ Goto(s, "delTools")
    /\ UNCHANGED <<res, offered, cache, trow, up, keys, lock>>

DeleteToolRows(s) ==
    /\ Busy(s, "delTools")
    /\ \/ trow' = [trow EXCEPT ![s] = {}] /\ UNCHANGED bounds
       \/ Fault /\ UNCHANGED trow
    /\ Return(s)
    /\ UNCHANGED <<res, offered, cache, srow, up, lock>>

\* A Service or an MCPServer without a port cannot be converted: logged, and
\* nothing is written.
Unconvertible(s) ==
    /\ Busy(s, "lock")
    /\ KindOf[s] # "RemoteMCPServer"
    /\ ~w[KindOf[s]].me.valid
    /\ Return(s)
    /\ UNCHANGED <<res, offered, cache, rows, up, lock, bounds>>

Convertible(s) == KindOf[s] = "RemoteMCPServer" \/ w[KindOf[s]].me.valid

\* upsertToolServerForRemoteMCPServer failed: the mutex is released.  Only a
\* RemoteMCPServer has a status to say so in.
UpsertFailed(s) ==
    /\ lock' = Free
    /\ IF KindOf[s] = "RemoteMCPServer"
       THEN /\ w' = [w EXCEPT ![KindOf[s]].pc = "recall", ![KindOf[s]].failed = TRUE]
            /\ UNCHANGED keys
       ELSE Requeue(s)

\* upsertLock.Lock(); StoreToolServer.
LockAndStore(s) ==
    /\ Busy(s, "lock")
    /\ Convertible(s)
    /\ lock = Free
    /\ \/ /\ srow' = [srow EXCEPT ![s] = TRUE]
          /\ lock' = KindOf[s]
          /\ Goto(s, "list")
          /\ UNCHANGED <<keys, bounds>>
       \/ /\ Fault
          /\ UpsertFailed(s)
          /\ UNCHANGED srow
    /\ UNCHANGED <<res, offered, cache, trow, up>>

\* createMcpTransport, listTools, and the rows RefreshToolsForServer starts from.
ListTools(s) ==
    /\ Busy(s, "list")
    /\ \/ /\ w' = [w EXCEPT ![KindOf[s]] =
                     [@ EXCEPT !.pc = "refresh", !.got = offered[s],
                               !.save = offered[s], !.drop = trow[s] \ offered[s]]]
          /\ UNCHANGED <<keys, lock, bounds>>
       \/ /\ Fault
          /\ UpsertFailed(s)
    /\ UNCHANGED <<res, offered, cache, rows, up>>

\* RefreshToolsForServer, one row at a time, without a transaction: every tool
\* listed is saved, then every row of a tool not listed is deleted.
SaveTool(s, t) ==
    /\ Busy(s, "refresh")
    /\ t \in w[KindOf[s]].save
    /\ \/ /\ trow' = [trow EXCEPT ![s] = @ \cup {t}]
          /\ w' = [w EXCEPT ![KindOf[s]].save = @ \ {t}]
          /\ UNCHANGED <<keys, lock, bounds>>
       \/ /\ Fault
          /\ UpsertFailed(s)
          /\ UNCHANGED trow
    /\ UNCHANGED <<res, offered, cache, srow, up>>

DropTool(s, t) ==
    /\ Busy(s, "refresh")
    /\ w[KindOf[s]].save = {}
    /\ t \in w[KindOf[s]].drop
    /\ \/ /\ trow' = [trow EXCEPT ![s] = @ \ {t}]
          /\ w' = [w EXCEPT ![KindOf[s]].drop = @ \ {t}]
          /\ UNCHANGED <<keys, lock, bounds>>
       \/ /\ Fault
          /\ UpsertFailed(s)
          /\ UNCHANGED trow
    /\ UNCHANGED <<res, offered, cache, srow, up>>

\* Mutant: a row whose tool is not offered any more is taken as refreshed.
RefreshedAllSaved(s) == w[KindOf[s]].save = {}

Refreshed(s) == w[KindOf[s]].save = {} /\ w[KindOf[s]].drop = {}

Upserted(s) ==
    /\ Busy(s, "refresh")
    /\ Refreshed(s)
    /\ lock' = Free
    /\ IF KindOf[s] = "RemoteMCPServer"
       THEN Goto(s, "status") /\ UNCHANGED keys
       ELSE Return(s)
    /\ UNCHANGED <<res, offered, cache, rows, up, bounds>>

\* getDiscoveredMCPTools: after a failure the status tells what is stored.
Recall(s) ==
    /\ Busy(s, "recall")
    /\ \/ /\ w' = [w EXCEPT ![KindOf[s]].pc = "status", ![KindOf[s]].got = trow[s]]
          /\ UNCHANGED bounds
       \/ /\ Fault
          /\ w' = [w EXCEPT ![KindOf[s]].pc = "status", ![KindOf[s]].got = {}]
    /\ UNCHANGED <<res, offered, cache, rows, up, keys, lock>>

\* The status a pass over s comes to.
NewStatus(s) ==
    LET v == w[KindOf[s]] IN
    [v.me EXCEPT !.acc = IF v.failed THEN "False" ELSE "True", !.observed = v.me.gen, !.tools = v.got]

\* reconcileRemoteMCPServerStatus, against the copy read from the cache.
UpdateStatus(s) ==
    LET me == w[KindOf[s]].me IN
    /\ Busy(s, "status")
    /\ \/ /\ NewStatus(s) = me
          /\ Return(s)
          /\ UNCHANGED <<res, fresh, bounds>>
       \/ /\ NewStatus(s) # me
          /\ w[KindOf[s]].current
          /\ Put(s, NewStatus(s))
          /\ Return(s)
          /\ UNCHANGED bounds
       \/ /\ NewStatus(s) # me
          /\ ~w[KindOf[s]].current
          /\ Requeue(s)
          /\ UNCHANGED <<res, fresh, bounds>>
       \/ /\ NewStatus(s) # me
          /\ Fault
          /\ Requeue(s)
          /\ UNCHANGED <<res, fresh>>
    /\ UNCHANGED <<offered, cached, rows, up, lock>>

----------------------------------------------------------------------------
Pass(s) ==
    \/ Begin(s)
    \/ DeleteServerRow(s) \/ DeleteToolRows(s)
    \/ Unconvertible(s) \/ LockAndStore(s) \/ ListTools(s)
    \/ \E t \in Tools : SaveTool(s, t) \/ DropTool(s, t)
    \/ Upserted(s)
    \/ Recall(s) \/ UpdateStatus(s)

Environment ==
    \/ \E s \in Servers :
          \/ CreateServer(s) \/ UpdateServer(s) \/ Relabel(s) \/ DeleteServer(s)
          \/ \E T \in SUBSET Tools : Offer(s, T)
    \/ Crash

Next ==
    \/ Environment
    \/ \E s \in Servers : Sync(s) \/ Timer(s) \/ Pass(s)
    \/ Start

Spec == Init /\ [][Next]_vars

\* Workers, informers and timers run; a Lock() is granted in the end (Go's
\* mutex is fair); MCP servers answer in the end, or the call fails.
Fairness ==
    /\ WF_vars(Start)
    /\ \A s \in Servers : WF_vars(Sync(s)) /\ WF_vars(Timer(s)) /\ SF_vars(Pass(s))

FairSpec == Spec /\ Fairness

----------------------------------------------------------------------------
(* Properties. *)

\* Nothing is left to do for s before its next period.
AtRest(s) ==
    /\ up /\ fresh[s]
    /\ s \notin queue
    /\ w[KindOf[s]].srv # s

\* A status at rest lists no tool the database does not hold, and a status
\* without an error lists exactly the tools it holds.
StatusTellsRows ==
    \A s \in Servers :
        /\ KindOf[s] = "RemoteMCPServer" /\ AtRest(s) /\ res[s] # Absent
        /\ res[s].acc # "none"
        => /\ res[s].tools \subseteq trow[s]
           /\ res[s].acc = "True" => srow[s] /\ res[s].tools = trow[s]

\* At rest, and as long as there was no crash, the rows of a deleted server that is
\* looked at periodically (not of a Service) are gone, or will be looked at again.
DeletedRowsLeft ==
    \A s \in Servers :
        /\ AtRest(s) /\ res[s] = Absent
        /\ crashes = MaxCrashes
        /\ KindOf[s] # "Service"
        => (~srow[s] /\ trow[s] = {}) \/ s \in later

\* When changes end, the rows of a RemoteMCPServer that is still there are the
\* tools it offers, and so does its status tell, although no event announces
\* that an MCP server offers other tools.
ToolsConverge ==
    \A s \in Servers :
        KindOf[s] = "RemoteMCPServer" /\ <>[](res[s] # Absent)
            => <>[](/\ res[s] # Absent /\ res[s].acc = "True"
                    /\ res[s].tools = offered[s] /\ trow[s] = offered[s])

\* A RemoteMCPServer or MCPServer deleted while the controller runs loses its
\* rows in the end, although a failed deletion is only logged.
DeletedRowsRemoved ==
    \A s \in Servers :
        Periodic(s) /\ <>[](res[s] = Absent /\ crashes = MaxCrashes)
            => <>[](~srow[s] /\ trow[s] = {})

=============================================================================
