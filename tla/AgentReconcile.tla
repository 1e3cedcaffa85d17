--------------------------- MODULE AgentReconcile ---------------------------
(***************************************************************************)
(* The Agent controller: one Agent resource (one NamespacedName), the      *)
(* objects it owns, the database row the UI and the API read, the informer *)
(* caches the controller reads through, its work queue, and one reconcile  *)
(* worker (controller-runtime's default MaxConcurrentReconciles is 1).     *)
(*                                                                         *)
(* Sources: go/internal/controller/agent_controller.go,                    *)
(* reconciler/reconciler.go, reconciler/utils, translator/mutate.go.       *)
(*                                                                         *)
(* The API server, its garbage collector, the deployment controller and    *)
(* the informers are not this repository's code: they are modelled as the  *)
(* reconciler uses them.  Every read of the reconciler goes through the    *)
(* informer caches (mgr.GetClient()), every write goes to the API server.  *)
(***************************************************************************)
EXTENDS Naturals, Sequences

CONSTANTS
    Specs,        \* the values an Agent's spec may take
    Models,       \* the values the referenced ModelConfig may take
    Kinds,        \* kinds of object an Agent may own
    Manifest,     \* the kinds buildManifest emits, in its order
    ConfigKinds,  \* the kinds whose content depends on the rendered config
    Absent,       \* no such object
    Static,       \* the content of an object that carries no config
    Edited,       \* the content of an object edited by hand
    MaxEnv,       \* bound on changes made by users and the cluster
    MaxFaults,    \* bound on failed API and database calls
    MaxCrashes,   \* bound on crashes of the controller
    MaxRaces,     \* bound on cache changes in the middle of a pass
    MaxVersions   \* objects with more changes than this are not collected

VARIABLES
    agent,   \* the Agent in the API server
    model,   \* the ModelConfig in the API server
    obj,     \* obj[k]: the owned object of kind k in the API server
    ver,     \* ver[k]: changes made so far to objects of kind k
    pods,    \* what the agent's running pods were started with
    db,      \* the row of the agent table
    cagent, cmodel, cobj,  \* the informer caches
    cver,    \* cver[k]: how many of the changes ver[k] the cache has seen
    up,      \* the controller runs (and holds the leader lease)
    upsertLock,  \* a tool-server pass of this process holds upsertLock
    dirty,   \* the work queue holds this Agent's key
    pc,      \* where the worker is
    me,      \* the worker's copy of the Agent
    want,    \* the config the worker's manifest was rendered from
    owned,   \* ownedObjects: what is still to be pruned, by kind and UID
    at,      \* index in Manifest of the object to apply next
    err,     \* the error the pass ended with, or "none"
    skipped, \* history: a pass kept its status to itself because the status it
             \* compared with, the cache's, was no longer the API server's
    env, faults, crashes, races   \* what is left of the bounds

api    == <<agent, model, obj, ver, pods>>
cache  == <<cagent, cmodel, cobj, cver>>
worker == <<pc, me, want, owned, at, err>>
bounds == <<env, faults, crashes, races>>
agentVars == <<api, db, cache, up, dirty, worker, skipped, bounds>>
vars   == <<agentVars, upsertLock>>

----------------------------------------------------------------------------
(* Data. *)

\* What a manifest is rendered from: the spec and the ModelConfig.
Config == [spec : Specs, model : Models]

Content == Config \cup {Edited, Static}

\* The two conditions with the generation each was set for.
Status == [acc : {"none", "True", "translate", "apply", "prune", "store"},
           accGen : Nat,
           ready : {"none", "Unknown", "True", "False"},
           readyGen : Nat,
           observed : Nat]

AgentObj == [uid : Nat, rv : Nat, gen : Nat, spec : Specs, status : Status]
OwnedObj == [uid : Nat, rv : Nat, owner : Nat, content : Content, avail : BOOLEAN]
Row      == [cfg : Config, uid : Nat, gen : Nat]

NewStatus == [acc |-> "none", accGen |-> 0, ready |-> "none", readyGen |-> 0,
              observed |-> 0]

ASSUME ConstantsAssumption ==
    /\ Manifest \in Seq(Kinds) /\ Manifest # <<>>
    /\ ConfigKinds \subseteq Kinds
    /\ "Deployment" \in Kinds /\ "Secret" \in Kinds
    /\ "Agent" \notin Kinds
    /\ MaxEnv \in Nat /\ MaxFaults \in Nat /\ MaxCrashes \in Nat
    /\ MaxRaces \in Nat /\ MaxVersions \in Nat

ASSUME AbsentAssumption ==
    /\ Absent \notin AgentObj
    /\ Absent \notin OwnedObj
    /\ Absent \notin Row
    /\ Absent \notin Models

Emitted == {Manifest[i] : i \in DOMAIN Manifest}

\* The content MutateFuncFor gives an object of kind k.
Render(k, cfg) == IF k \in ConfigKinds THEN cfg ELSE Static

ApiTypeOK ==
    /\ agent \in AgentObj \cup {Absent}
    /\ model \in Models \cup {Absent}
    /\ obj \in [Kinds -> OwnedObj \cup {Absent}]
    /\ ver \in [Kinds \cup {"Agent"} -> Nat]
    /\ pods \in [dep : Nat, hash : Content, cfg : Content] \cup {Absent}
    /\ db \in Row \cup {Absent}

CacheTypeOK ==
    /\ cagent \in AgentObj \cup {Absent}
    /\ cmodel \in Models \cup {Absent}
    /\ cobj \in [Kinds -> OwnedObj \cup {Absent}]
    /\ cver \in [Kinds -> Nat]

WorkerTypeOK ==
    /\ pc \in {"idle", "remove", "apply", "prune", "store", "status"}
    /\ me \in AgentObj \cup {Absent}
    /\ pc \in {"apply", "prune", "store", "status"} => me \in AgentObj
    /\ want \in Config \cup {Absent}
    /\ pc \in {"apply", "prune", "store"} => want \in Config
    /\ owned \subseteq [kind : Kinds, uid : Nat]
    /\ at \in 1 .. Len(Manifest) + 1
    /\ pc = "apply" => at <= Len(Manifest)
    /\ pc = "idle" => at = 1
    /\ err \in {"none", "translate", "apply", "prune", "store"}

BoundsTypeOK == env \in Nat /\ faults \in Nat /\ crashes \in Nat /\ races \in Nat

TypeOK ==
    /\ ApiTypeOK /\ CacheTypeOK /\ WorkerTypeOK /\ BoundsTypeOK
    /\ up \in BOOLEAN /\ dirty \in BOOLEAN /\ skipped \in BOOLEAN
    /\ upsertLock \in BOOLEAN

----------------------------------------------------------------------------
(* The initial states: the controller is not running yet; the cluster is   *)
(* empty, or holds an Agent with an object an earlier release created for  *)
(* it and this one no longer emits.                                        *)

Init ==
    /\ model \in Models \cup {Absent}
    /\ \/ /\ agent = Absent
          /\ obj = [k \in Kinds |-> Absent]
          /\ ver = [k \in Kinds \cup {"Agent"} |-> 0]
       \/ \E s \in Specs :
          /\ agent = [uid |-> 1, rv |-> 1, gen |-> 1, spec |-> s, status |-> NewStatus]
          /\ obj = [k \in Kinds |->
                      IF k \in Emitted THEN Absent
                      ELSE [uid |-> 1, rv |-> 1, owner |-> 1,
                            content |-> Static, avail |-> FALSE]]
          /\ ver = [k \in Kinds \cup {"Agent"} |->
                      IF k \in Emitted THEN 0 ELSE 1]
    /\ pods = Absent
    /\ db = Absent
    /\ cagent = Absent /\ cmodel = Absent
    /\ cobj = [k \in Kinds |-> Absent]
    /\ cver = [k \in Kinds |-> 0]
    /\ skipped = FALSE
    /\ up = FALSE /\ upsertLock = FALSE
    /\ dirty = FALSE
    /\ pc = "idle"
    /\ me = Absent /\ want = Absent /\ owned = {} /\ at = 1 /\ err = "none"
    /\ env = MaxEnv /\ faults = MaxFaults /\ crashes = MaxCrashes /\ races = MaxRaces

----------------------------------------------------------------------------
(* The cluster: users, the garbage collector, the deployment controller.   *)

Change == env > 0 /\ env' = env - 1 /\ UNCHANGED <<faults, crashes, races>>

CreateAgent(s) ==
    /\ Change
    /\ agent = Absent
    /\ LET v == ver["Agent"] + 1 IN
       /\ agent' = [uid |-> v, rv |-> v, gen |-> 1, spec |-> s, status |-> NewStatus]
       /\ ver' = [ver EXCEPT !["Agent"] = v]
    /\ UNCHANGED <<model, obj, pods, db, cache, up, upsertLock, dirty, worker, skipped>>

UpdateAgent(s) ==
    /\ Change
    /\ agent # Absent
    /\ agent.spec # s
    /\ agent' = [agent EXCEPT !.spec = s, !.gen = @ + 1, !.rv = ver["Agent"] + 1]
    /\ ver' = [ver EXCEPT !["Agent"] = @ + 1]
    /\ UNCHANGED <<model, obj, pods, db, cache, up, upsertLock, dirty, worker, skipped>>

\* No finalizer: the Agent is gone at once, its objects are collected later.
DeleteAgent ==
    /\ Change
    /\ agent # Absent
    /\ agent' = Absent
    /\ UNCHANGED <<model, obj, ver, pods, db, cache, up, upsertLock, dirty, worker, skipped>>

SetModel(m) ==
    /\ Change
    /\ model # m
    /\ model' = m
    /\ UNCHANGED <<agent, obj, ver, pods, db, cache, up, upsertLock, dirty, worker, skipped>>

RemoveObject(k) ==
    /\ obj[k] # Absent
    /\ obj' = [obj EXCEPT ![k] = Absent]
    /\ ver' = [ver EXCEPT ![k] = @ + 1]

\* Someone deletes an owned object or edits it by hand.
DeleteObject(k) ==
    /\ Change
    /\ RemoveObject(k)
    /\ UNCHANGED <<agent, model, pods, db, cache, up, upsertLock, dirty, worker, skipped>>

EditObject(k) ==
    /\ Change
    /\ obj[k] # Absent
    /\ obj[k].content # Edited
    /\ obj' = [obj EXCEPT ![k].content = Edited, ![k].rv = ver[k] + 1]
    /\ ver' = [ver EXCEPT ![k] = @ + 1]
    /\ UNCHANGED <<agent, model, pods, db, cache, up, upsertLock, dirty, worker, skipped>>

\* The garbage collector removes what belongs to an Agent that is gone.  The
\* bound stops it from racing a controller whose cache still holds the Agent
\* for ever.
Collect(k) ==
    /\ obj[k] # Absent
    /\ ver[k] < MaxVersions
    /\ agent # Absent => obj[k].owner # agent.uid
    /\ RemoveObject(k)
    /\ UNCHANGED <<agent, model, pods, db, cache, up, upsertLock, dirty, worker, skipped, bounds>>

\* A new pod template is rolled out: new pods start and read the Secret as it
\* is now.  A rollout keeps the old pods until the new ones are there
\* (MaxUnavailable 0), so availability does not drop.
Rollout ==
    LET d == obj["Deployment"] IN
    /\ d # Absent
    /\ obj["Secret"] # Absent
    /\ pods # Absent => pods.dep # d.uid \/ pods.hash # d.content
    /\ pods' = [dep |-> d.uid, hash |-> d.content, cfg |-> obj["Secret"].content]
    /\ UNCHANGED <<agent, model, obj, ver, db, cache, up, upsertLock, dirty, worker, skipped, bounds>>

SetAvailable(b) ==
    /\ obj["Deployment"] # Absent
    /\ obj["Deployment"].avail # b
    /\ obj' = [obj EXCEPT !["Deployment"].avail = b,
                          !["Deployment"].rv = ver["Deployment"] + 1]
    /\ ver' = [ver EXCEPT !["Deployment"] = @ + 1]
    /\ UNCHANGED <<agent, model, pods, db, cache, up, upsertLock, dirty, worker, skipped>>

\* The deployment's pods pass their readiness probe.
BecomeAvailable == SetAvailable(TRUE) /\ UNCHANGED bounds

\* They fail it later.
LoseAvailability == Change /\ SetAvailable(FALSE)

----------------------------------------------------------------------------
(* The informers.  An event is handed to the handlers once the cache holds *)
(* the new state, so a cache catches up and the key is queued in one step. *)

\* Between two passes, or, MaxRaces times, in the middle of one.
Deliver ==
    /\ up
    /\ \/ pc = "idle" /\ UNCHANGED bounds
       \/ /\ pc # "idle" /\ races > 0
          /\ races' = races - 1
          /\ UNCHANGED <<env, faults, crashes>>

\* For(&Agent{}) with GenerationChangedPredicate or LabelChangedPredicate:
\* a status update does not queue the key, a creation or deletion does.
AgentEvent(old, new) ==
    \/ old = Absent
    \/ new = Absent
    \/ old.uid # new.uid
    \/ old.gen # new.gen

SyncAgent ==
    /\ Deliver
    /\ cagent # agent
    /\ cagent' = agent
    /\ dirty' = (dirty \/ AgentEvent(cagent, agent))
    /\ UNCHANGED <<api, db, cmodel, cobj, cver, up, upsertLock, worker, skipped>>

\* Mutant: deletions filtered out like creations.
OwnedEventWithoutDeletions(k) ==
    obj[k] # Absent /\ (cobj[k] # Absent \/ ver[k] > cver[k] + 1)

\* Owns(...) with ownedObjectPredicate: creations are ignored, every other
\* change counts, also one the cache sees together with a creation.
OwnedEvent(k) == cobj[k] # Absent \/ obj[k] = Absent \/ ver[k] > cver[k] + 1

SyncObject(k) ==
    /\ Deliver
    /\ cver[k] # ver[k]
    /\ cobj' = [cobj EXCEPT ![k] = obj[k]]
    /\ cver' = [cver EXCEPT ![k] = ver[k]]
    /\ dirty' = (dirty \/ OwnedEvent(k))
    /\ UNCHANGED <<api, db, cagent, cmodel, up, upsertLock, worker, skipped>>

\* Watches(&ModelConfig{}): every Agent the cache lists as using it is queued
\* (findAgentsUsingModelConfig).
SyncModel ==
    /\ Deliver
    /\ cmodel # model
    /\ cmodel' = model
    /\ dirty' = (dirty \/ cagent # Absent)
    /\ UNCHANGED <<api, db, cagent, cobj, cver, up, upsertLock, worker, skipped>>

\* The worker's call returns, or dies with the process: its locals are gone.
Finish ==
    /\ pc' = "idle"
    /\ me' = Absent /\ want' = Absent /\ owned' = {} /\ at' = 1 /\ err' = "none"

\* The process dies, or loses the lease: queue, caches and pass are lost.
Crash ==
    /\ up
    /\ crashes > 0
    /\ crashes' = crashes - 1
    /\ up' = FALSE /\ upsertLock' = FALSE
    /\ dirty' = FALSE
    /\ cagent' = Absent /\ cmodel' = Absent
    /\ cobj' = [k \in Kinds |-> Absent]
    /\ cver' = [k \in Kinds |-> 0]
    /\ Finish
    /\ UNCHANGED <<api, db, skipped, env, faults, races>>

\* The caches are filled before the worker starts; the first list gives a
\* creation event for every Agent there is.
Start ==
    /\ ~up
    /\ up' = TRUE /\ upsertLock' = FALSE
    /\ cagent' = agent /\ cmodel' = model /\ cobj' = obj
    /\ cver' = [k \in Kinds |-> ver[k]]
    /\ dirty' = (agent # Absent)
    /\ UNCHANGED <<api, db, worker, skipped, bounds>>

----------------------------------------------------------------------------
(* The worker: ReconcileKagentAgent on the dequeued key.  The work queue   *)
(* never hands out a key that is being worked on; a key added meanwhile    *)
(* stays queued.                                                           *)

\* Mutant: the error is logged and dropped.
RequeueNothing == Finish /\ UNCHANGED dirty

\* An error returned to controller-runtime queues the key again.
Requeue == Finish /\ dirty' = TRUE

\* Mutant: reconcileAgentStatus hands the error of the pass back.
ReturnPassError == Finish /\ dirty' = (dirty \/ err # "none")

\* No error is returned: reconcileAgentStatus keeps the error of the pass to
\* itself, so a failed pass is not queued again on its own account.
Return == Finish /\ UNCHANGED dirty

Fault == faults > 0 /\ faults' = faults - 1 /\ UNCHANGED <<env, crashes, races>>

\* Mutant: a ModelConfig that is not there is not an error.
TranslatesAlways == TRUE

\* TranslateAgent fails when the ModelConfig cannot be read.
Translates == cmodel # Absent

\* What the cache lists as owned by the Agent's UID.
FindOwnedObjects ==
    {[kind |-> k, uid |-> cobj[k].uid] :
       k \in {x \in Kinds : cobj[x] # Absent /\ cobj[x].owner = cagent.uid}}

\* Get; TranslateAgent; FindOwnedObjects.  All three read the caches.
Begin ==
    /\ up /\ dirty /\ pc = "idle"
    /\ dirty' = FALSE
    /\ \/ /\ cagent = Absent
          /\ pc' = "remove"
          /\ UNCHANGED <<me, want, owned, at, err>>
       \/ /\ cagent # Absent
          /\ ~Translates
          /\ me' = cagent
          /\ err' = "translate"
          /\ pc' = "status"
          /\ UNCHANGED <<want, owned, at>>
       \/ /\ cagent # Absent
          /\ Translates
          /\ me' = cagent
          /\ want' = [spec |-> cagent.spec, model |-> cmodel]
          /\ owned' = FindOwnedObjects
          /\ pc' = "apply"
          /\ UNCHANGED <<at, err>>
    /\ UNCHANGED <<api, db, cache, up, upsertLock, skipped, bounds>>

\* handleAgentDeletion.
Remove ==
    /\ pc = "remove"
    /\ \/ /\ db' = Absent
          /\ Return
          /\ UNCHANGED bounds
       \/ /\ Fault
          /\ Requeue
          /\ UNCHANGED db
    /\ UNCHANGED <<api, cache, up, upsertLock, skipped>>

\* reconcileDesiredObjects goes on with the next object after a failure, and
\* prunes only if there was none.
NextObject(e, rest) ==
    /\ err' = e
    /\ owned' = rest
    /\ at' = at + 1
    /\ pc' = IF at < Len(Manifest) THEN "apply"
             ELSE IF e # "none" THEN "status"
             ELSE IF rest = {} THEN "store" ELSE "prune"
    /\ UNCHANGED <<me, want>>

\* What Update stores; writing what is stored already changes nothing.
Written(o, k) == [o EXCEPT !.content = Render(k, want), !.owner = me.uid]

\* The kinds that never compare equal to what is read back: mutateSecret moves
\* the data to StringData, which the server never returns; mutateDeployment and
\* mutateService put values without the server's defaults over defaulted ones.
Rewritten == {"Secret", "Deployment", "Service"}

\* ObjectsEqual looks at labels, annotations and the fields beside the metadata:
\* an owner reference alone makes no difference.
NeedsUpdate(k) == k \in Rewritten \/ cobj[k].content # Render(k, want)

ApplyCreate(k) ==
    /\ cobj[k] = Absent
    /\ obj[k] = Absent
    /\ LET v == ver[k] + 1 IN
       /\ obj' = [obj EXCEPT ![k] = [uid |-> v, rv |-> v, owner |-> me.uid,
                                     content |-> Render(k, want), avail |-> FALSE]]
       /\ ver' = [ver EXCEPT ![k] = v]
    /\ NextObject(err, owned)
    /\ UNCHANGED bounds

ApplyUpdate(k) ==
    /\ cobj[k] # Absent
    /\ NeedsUpdate(k)
    /\ obj[k] # Absent
    /\ obj[k].rv = cobj[k].rv
    /\ IF Written(obj[k], k) = obj[k]
       THEN UNCHANGED <<obj, ver>>
       ELSE /\ obj' = [obj EXCEPT ![k] = [Written(@, k) EXCEPT !.rv = ver[k] + 1]]
            /\ ver' = [ver EXCEPT ![k] = @ + 1]
    /\ NextObject(err, owned \ {[kind |-> k, uid |-> cobj[k].uid]})
    /\ UNCHANGED bounds

ApplyNothing(k) ==
    /\ cobj[k] # Absent
    /\ ~NeedsUpdate(k)
    /\ NextObject(err, owned \ {[kind |-> k, uid |-> cobj[k].uid]})
    /\ UNCHANGED <<obj, ver, bounds>>

\* The cache lags: Create finds the object there, or Update conflicts with a
\* newer version until RetryOnConflict gives up, or finds it gone.
ApplyRejected(k) ==
    /\ cobj[k] = Absent => obj[k] # Absent
    /\ cobj[k] # Absent =>
          NeedsUpdate(k) /\ (obj[k] # Absent => obj[k].rv # cobj[k].rv)
    /\ NextObject("apply", owned)
    /\ UNCHANGED <<obj, ver, bounds>>

\* The API call fails.
ApplyFails(k) ==
    /\ Fault
    /\ cobj[k] # Absent => NeedsUpdate(k)
    /\ NextObject("apply", owned)
    /\ UNCHANGED <<obj, ver>>

\* createOrUpdate on the next object of the manifest.
Apply ==
    /\ pc = "apply"
    /\ LET k == Manifest[at] IN
       \/ ApplyCreate(k) \/ ApplyUpdate(k) \/ ApplyNothing(k)
       \/ ApplyRejected(k) \/ ApplyFails(k)
    /\ UNCHANGED <<agent, model, pods, db, cache, up, upsertLock, dirty, skipped>>

\* deleteObjects: Delete names the object, not its UID; an object that is
\* gone already is an error.
Prune(o) ==
    /\ pc = "prune"
    /\ o \in owned
    /\ owned' = owned \ {o}
    /\ \/ /\ RemoveObject(o.kind)
          /\ UNCHANGED <<err, bounds>>
       \/ /\ obj[o.kind] = Absent
          /\ err' = "prune"
          /\ UNCHANGED <<obj, ver, bounds>>
       \/ /\ Fault
          /\ err' = "prune"
          /\ UNCHANGED <<obj, ver>>
    /\ pc' = IF owned' # {} THEN "prune" ELSE IF err' = "none" THEN "store" ELSE "status"
    /\ UNCHANGED <<agent, model, pods, db, cache, up, upsertLock, dirty, skipped, me, want, at>>

\* The tool-server controllers of this process take upsertLock for the whole of
\* upsertToolServerForRemoteMCPServer, which asks a server without a deadline.
ToolPass ==
    /\ up
    /\ upsertLock' = ~upsertLock
    /\ UNCHANGED agentVars

\* upsertAgent, under the same lock.
Store ==
    /\ pc = "store"
    /\ ~upsertLock
    /\ pc' = "status"
    /\ \/ /\ db' = [cfg |-> want, uid |-> me.uid, gen |-> me.gen]
          /\ UNCHANGED <<err, bounds>>
       \/ /\ Fault
          /\ err' = "store"
          /\ UNCHANGED db
    /\ UNCHANGED <<api, cache, up, upsertLock, dirty, skipped, me, want, owned, at>>

\* Mutant: the error never reaches the condition.
AcceptedAlways == "True"

Accepted == IF err = "none" THEN "True" ELSE err

AcceptedChanged == me.status.acc # Accepted \/ me.status.accGen # me.gen

Available ==
    IF cobj["Deployment"] = Absent THEN "Unknown"
    ELSE IF cobj["Deployment"].avail THEN "True" ELSE "False"

\* reconcileAgentStatus sets Accepted; "conditionChanged || SetStatusCondition"
\* then sets Ready only if Accepted did not change.
Conditions ==
    IF AcceptedChanged
    THEN [me.status EXCEPT !.acc = Accepted, !.accGen = me.gen]
    ELSE [me.status EXCEPT !.ready = Available, !.readyGen = me.gen]

StatusUnchanged == Conditions = me.status /\ me.status.observed = me.gen

\* The status is written only if it changed, and only over the version read.
UpdateStatus ==
    /\ pc = "status"
    /\ \/ /\ StatusUnchanged
          /\ skipped' = (skipped \/ (agent # Absent /\ agent.rv # me.rv))
          /\ Return
          /\ UNCHANGED <<agent, ver, bounds>>
       \/ /\ ~StatusUnchanged
          /\ agent # Absent
          /\ agent.rv = me.rv
          /\ agent' = [agent EXCEPT !.status = [Conditions EXCEPT !.observed = me.gen],
                                    !.rv = ver["Agent"] + 1]
          /\ ver' = [ver EXCEPT !["Agent"] = @ + 1]
          /\ Return
          /\ UNCHANGED <<skipped, bounds>>
       \/ /\ ~StatusUnchanged
          /\ agent # Absent => agent.rv # me.rv
          /\ Requeue
          /\ UNCHANGED <<agent, ver, skipped, bounds>>
       \/ /\ ~StatusUnchanged
          /\ Fault
          /\ Requeue
          /\ UNCHANGED <<agent, ver, skipped>>
    /\ UNCHANGED <<model, obj, pods, db, cache, up, upsertLock>>

----------------------------------------------------------------------------
Cluster ==
    \/ \E s \in Specs : CreateAgent(s) \/ UpdateAgent(s)
    \/ DeleteAgent
    \/ \E m \in Models \cup {Absent} : SetModel(m)
    \/ \E k \in Kinds : DeleteObject(k) \/ Collect(k)
    \/ \E k \in ConfigKinds : EditObject(k)
    \/ Rollout \/ BecomeAvailable \/ LoseAvailability

Informers == SyncAgent \/ SyncModel \/ \E k \in Kinds : SyncObject(k)

Worker ==
    \/ Begin \/ Remove \/ Apply
    \/ \E o \in owned : Prune(o)
    \/ Store \/ UpdateStatus

Next == Cluster \/ Informers \/ Worker \/ Crash \/ Start \/ ToolPass

Spec == Init /\ [][Next]_vars

\* The worker runs whenever it has work, the informers deliver, a stopped
\* controller is started again and the cluster's own controllers act.  Users,
\* failures and crashes owe nothing, nor does a tool-server pass: it may hold
\* upsertLock for ever.  The worker's fairness is strong because a Go mutex that
\* is given up again and again is handed to who waits for it.  Informers do not
\* wait for the worker to be idle: their fairness is strong because Deliver, for
\* the sake of the bound, does.
Fairness ==
    /\ SF_vars(Worker) /\ SF_vars(Informers)
    /\ \A k \in Kinds : WF_vars(Collect(k))
    /\ WF_vars(Rollout) /\ WF_vars(BecomeAvailable)
    /\ WF_vars(Start)

FairSpec == Spec /\ Fairness

----------------------------------------------------------------------------
(* Properties. *)

\* Everything the controller could still learn has reached it, the garbage
\* collector has nothing to collect, and the worker has nothing to do.
Quiescent ==
    /\ up /\ ~dirty /\ pc = "idle"
    /\ cagent = agent /\ cmodel = model
    /\ \A k \in Kinds : cver[k] = ver[k]
    /\ \A k \in Kinds :
          obj[k] # Absent => agent # Absent /\ obj[k].owner = agent.uid

\* The cluster and the database are what the Agent and its ModelConfig say.
Converged ==
    /\ model # Absent
    /\ LET cfg == [spec |-> agent.spec, model |-> model] IN
       /\ db # Absent /\ db.cfg = cfg
       /\ \A k \in Kinds :
             IF k \in Emitted
             THEN obj[k] # Absent /\ obj[k].content = Render(k, cfg)
             ELSE obj[k] = Absent

\* When nothing is left to do, an Agent reported as accepted really is
\* deployed, stored and pruned as its spec and ModelConfig say.
AcceptedIsConverged ==
    Quiescent /\ agent # Absent /\ agent.status.acc = "True" => Converged

\* The same, unless a pass did not write the status it found.
QuiescentAcceptedConverged == ~skipped => AcceptedIsConverged

\* Accepted=True for a generation is only reported once the database holds the
\* row of that generation, or of a later one, of this very Agent.
AcceptedMeansStored ==
    agent # Absent /\ agent.status.acc = "True" =>
        db # Absent /\ db.uid = agent.uid /\ db.gen >= agent.status.accGen

\* The row of a deleted Agent does not outlive what the controller still has to
\* do, unless it crashed: there is no finalizer, and a deletion it did not see
\* is never seen again.
NoOrphanRow ==
    Quiescent /\ agent = Absent /\ crashes = MaxCrashes => db = Absent

\* Whoever waits for upsertLock finds it given up again and again.
LockComesFree == []<>~upsertLock

\* Once the cluster stops changing the controller comes to rest, if no tool
\* server it is asking keeps it waiting for ever: it does not queue itself again
\* and again, in spite of writes that never compare equal and of conflicts.
Settles == LockComesFree => <>[](up => ~dirty /\ pc = "idle")

\* An Agent deleted for good while the controller runs loses its row, however
\* often the database refuses, with the same exception: the one worker may be
\* waiting for the lock to store a row.
DeletedRowRemoved ==
    LockComesFree /\ <>[](agent = Absent /\ crashes = MaxCrashes) => <>[](db = Absent)

----------------------------------------------------------------------------
(* What comments in the code say and the code does not do. *)

\* "update the status if it has changed or the generation has changed": when
\* nothing is left to do, and no pass compared with a status that was out of date,
\* the Ready condition is "True" exactly if the deployment the cache holds is
\* available.
ReadyIsCurrent ==
    Quiescent /\ ~skipped /\ agent # Absent /\ agent.status.ready # "none"
    => (agent.status.ready = "True" <=> Available = "True")

\* "force rollout on agent config or model config secret changes": when nothing
\* is left to do and the pods of the current template are running, they run the
\* config the template's hash annotation was computed from, not an earlier one.
PodsRunConfig ==
    LET d == obj["Deployment"] IN
    /\ Quiescent
    /\ agent # Absent /\ agent.status.acc = "True"
    /\ d # Absent /\ d.content \in Config
    /\ pods # Absent /\ pods.dep = d.uid /\ pods.hash = d.content /\ pods.cfg \in Config
    => pods.cfg = pods.hash
=============================================================================
