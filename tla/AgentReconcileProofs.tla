------------------------ MODULE AgentReconcileProofs ------------------------
(***************************************************************************)
(* Proofs about the Agent controller, for every manifest, every number of  *)
(* specs and models, and every bound.                                      *)
(***************************************************************************)
EXTENDS AgentReconcile, TLAPS

----------------------------------------------------------------------------
(* The inductive invariant. *)

\* A resource version is never given out twice: two copies of the Agent with
\* the same version are copies of the same Agent.
SameVersionSameAgent(x) ==
    /\ x # Absent => x.rv <= ver["Agent"] /\ x.uid <= ver["Agent"]
    /\ x # Absent /\ agent # Absent /\ x.rv = agent.rv => x.uid = agent.uid

\* A copy is never of a later generation than the Agent itself.
NotNewer(x) ==
    x # Absent /\ agent # Absent /\ x.uid = agent.uid => x.gen <= agent.gen

\* The worker has a copy of the Agent exactly while it is in a pass over one,
\* and only while the controller runs.
WorkerInv ==
    /\ me # Absent <=> pc \in {"apply", "prune", "store", "status"}
    /\ pc # "idle" => up

\* An Agent that was given a verdict is in the cache of the running
\* controller, in the generation of the verdict or a later one.
CacheInv ==
    agent # Absent /\ agent.status.acc # "none" =>
        /\ agent.status.accGen <= agent.gen
        /\ up => /\ cagent # Absent
                 /\ cagent.uid = agent.uid
                 /\ cagent.gen >= agent.status.accGen

\* The copy the worker holds is not behind the verdict, nor ahead of the cache.
PassInv ==
    me # Absent /\ agent # Absent =>
        /\ me.uid = agent.uid =>
              cagent # Absent /\ cagent.uid = agent.uid /\ cagent.gen >= me.gen
        /\ agent.status.acc # "none" =>
              me.uid = agent.uid /\ me.gen >= agent.status.accGen

\* The row is only removed while the Agent has no verdict yet.
RemoveInv ==
    pc = "remove" /\ agent # Absent => agent.status.acc = "none"

\* A pass that ended without an error has left its row in the database.
StoredInv ==
    pc = "status" /\ err = "none" =>
        db # Absent /\ db.uid = me.uid /\ db.gen >= me.gen

AcceptedParts ==
    /\ SameVersionSameAgent(agent) /\ SameVersionSameAgent(cagent) /\ SameVersionSameAgent(me)
    /\ NotNewer(cagent) /\ NotNewer(me)
    /\ WorkerInv /\ CacheInv /\ PassInv /\ RemoveInv /\ StoredInv
    /\ AcceptedMeansStored

\* Until the controller has crashed once, a row whose Agent is not in the cache
\* (or that a pass is about to write) is one the queue or the worker still has
\* to deal with.
RowInv ==
    /\ crashes <= MaxCrashes
    /\ crashes = MaxCrashes =>
          /\ ~up => db = Absent
          /\ up /\ cagent = Absent /\ (db # Absent \/ me # Absent) =>
                dirty \/ pc = "remove"

----------------------------------------------------------------------------
(* Type correctness. *)

\* The object createOrUpdate works on is of a kind the Agent may own.
LEMMA NextKind ==
    ASSUME WorkerTypeOK, pc = "apply"
    PROVE  Manifest[at] \in Kinds
BY ConstantsAssumption DEF WorkerTypeOK

\* MutateFuncFor's content is content an object may have.
LEMMA RenderType ==
    ASSUME NEW k \in Kinds, NEW cfg \in Config
    PROVE  Render(k, cfg) \in Content
BY DEF Render, Content

LEMMA NextObjectType ==
    ASSUME WorkerTypeOK, pc = "apply",
           NEW e \in {"none", "translate", "apply", "prune", "store"},
           NEW rest \in SUBSET owned,
           NextObject(e, rest)
    PROVE  WorkerTypeOK'
<1>1. Len(Manifest) \in Nat
  BY ConstantsAssumption
<1>2. at' \in 1 .. Len(Manifest) + 1 /\ (pc' = "apply" => at' <= Len(Manifest))
  BY <1>1 DEF WorkerTypeOK, NextObject
<1>3. pc' \in {"apply", "status", "store", "prune"}
  BY DEF NextObject
<1> QED
  BY <1>2, <1>3 DEF WorkerTypeOK, NextObject

\* Objects keep their shape through what the reconciler writes.
LEMMA WrittenType ==
    ASSUME NEW k \in Kinds, NEW o \in OwnedObj, NEW v \in Nat,
           want \in Config, me \in AgentObj
    PROVE  [Written(o, k) EXCEPT !.rv = v] \in OwnedObj
<1>1. Render(k, want) \in Content
  BY RenderType
<1>2. Written(o, k) \in OwnedObj
  BY <1>1 DEF Written, OwnedObj, AgentObj
<1> QED
  BY <1>2 DEF OwnedObj

\* An object keeps its shape through any change of its fields.
LEMMA ChangeType ==
    /\ \A o \in OwnedObj, v \in Nat, c \in Content :
          [o EXCEPT !.content = c, !.rv = v] \in OwnedObj
    /\ \A o \in OwnedObj, v \in Nat, b \in BOOLEAN :
          [o EXCEPT !.avail = b, !.rv = v] \in OwnedObj
    /\ \A a \in AgentObj, v \in Nat, s \in Specs :
          [a EXCEPT !.spec = s, !.gen = @ + 1, !.rv = v] \in AgentObj
    /\ \A a \in AgentObj, v \in Nat, s \in Status :
          [a EXCEPT !.status = s, !.rv = v] \in AgentObj
<1>1. ASSUME NEW o \in OwnedObj, NEW v \in Nat, NEW c \in Content
      PROVE  [o EXCEPT !.content = c, !.rv = v] \in OwnedObj
  BY DEF OwnedObj
<1>2. ASSUME NEW o \in OwnedObj, NEW v \in Nat, NEW b \in BOOLEAN
      PROVE  [o EXCEPT !.avail = b, !.rv = v] \in OwnedObj
  BY DEF OwnedObj
<1>3. ASSUME NEW a \in AgentObj, NEW v \in Nat, NEW s \in Specs
      PROVE  [a EXCEPT !.spec = s, !.gen = @ + 1, !.rv = v] \in AgentObj
  <2>1. a.gen + 1 \in Nat
    BY DEF AgentObj
  <2> QED
    BY <2>1 DEF AgentObj
<1>4. ASSUME NEW a \in AgentObj, NEW v \in Nat, NEW s \in Status
      PROVE  [a EXCEPT !.status = s, !.rv = v] \in AgentObj
  BY DEF AgentObj
<1> QED
  BY <1>1, <1>2, <1>3, <1>4

LEMMA ConditionsType ==
    ASSUME WorkerTypeOK, pc = "status"
    PROVE  [Conditions EXCEPT !.observed = me.gen] \in Status
<1>1. me \in AgentObj /\ me.gen \in Nat /\ me.status \in Status
  BY DEF WorkerTypeOK, AgentObj
<1>2. Accepted \in {"none", "True", "translate", "apply", "prune", "store"}
  BY DEF WorkerTypeOK, Accepted
<1>3. Available \in {"none", "Unknown", "True", "False"}
  BY DEF Available
<1>4. Conditions \in Status
  BY <1>1, <1>2, <1>3 DEF Conditions, Status
<1> QED
  BY <1>1, <1>4 DEF Status

\* One change of one object.
LEMMA ObjectsType ==
    ASSUME ApiTypeOK, NEW k \in Kinds, NEW o \in OwnedObj \cup {Absent}
    PROVE  /\ [obj EXCEPT ![k] = o] \in [Kinds -> OwnedObj \cup {Absent}]
           /\ [ver EXCEPT ![k] = @ + 1] \in [Kinds \cup {"Agent"} -> Nat]
           /\ ver[k] \in Nat
BY DEF ApiTypeOK

LEMMA RemoveObjectType ==
    ASSUME ApiTypeOK, NEW k \in Kinds, RemoveObject(k)
    PROVE  /\ obj' \in [Kinds -> OwnedObj \cup {Absent}]
           /\ ver' \in [Kinds \cup {"Agent"} -> Nat]
BY DEF ApiTypeOK, RemoveObject

LEMMA BoundsType ==
    ASSUME BoundsTypeOK, UNCHANGED bounds \/ Change \/ Fault \/ Deliver
    PROVE  BoundsTypeOK'
BY DEF BoundsTypeOK, bounds, Change, Fault, Deliver

LEMMA FinishType ==
    ASSUME Finish
    PROVE  WorkerTypeOK'
<1>1. Len(Manifest) \in Nat
  BY ConstantsAssumption
<1> QED
  BY <1>1 DEF Finish, WorkerTypeOK

LEMMA InitType == Init => TypeOK
<1> SUFFICES ASSUME Init PROVE TypeOK
  OBVIOUS
<1>1. Len(Manifest) \in Nat /\ Len(Manifest) >= 1
  BY ConstantsAssumption
<1>2. NewStatus \in Status
  BY DEF NewStatus, Status
<1>3. agent \in AgentObj \cup {Absent}
  BY <1>2 DEF Init, AgentObj
<1>4. obj \in [Kinds -> OwnedObj \cup {Absent}]
  <2>1. [uid |-> 1, rv |-> 1, owner |-> 1, content |-> Static, avail |-> FALSE] \in OwnedObj
    BY DEF OwnedObj, Content
  <2> QED
    BY <2>1 DEF Init
<1>5. ver \in [Kinds \cup {"Agent"} -> Nat]
  BY DEF Init
<1>6. ApiTypeOK
  BY <1>3, <1>4, <1>5 DEF Init, ApiTypeOK
<1>7. CacheTypeOK
  BY DEF Init, CacheTypeOK
<1>8. WorkerTypeOK
  BY <1>1 DEF Init, WorkerTypeOK
<1>9. BoundsTypeOK
  BY ConstantsAssumption DEF Init, BoundsTypeOK
<1> QED
  BY <1>6, <1>7, <1>8, <1>9 DEF Init, TypeOK

\* Users, the garbage collector and the deployment controller.
LEMMA ClusterType == TypeOK /\ Cluster => TypeOK'
<1> SUFFICES ASSUME TypeOK, Cluster PROVE TypeOK'
  OBVIOUS
<1> USE DEF TypeOK
<1>1. BoundsTypeOK'
  BY BoundsType DEF Cluster, CreateAgent, UpdateAgent, DeleteAgent, SetModel,
     DeleteObject, Collect, EditObject, Rollout, BecomeAvailable, LoseAvailability
<1>2. UNCHANGED <<cache, worker, up, upsertLock, dirty, skipped>>
  BY DEF Cluster, CreateAgent, UpdateAgent, DeleteAgent, SetModel, DeleteObject,
     Collect, EditObject, Rollout, BecomeAvailable, LoseAvailability, SetAvailable
<1>3. CacheTypeOK' /\ WorkerTypeOK'
  BY <1>2 DEF CacheTypeOK, WorkerTypeOK, cache, worker
<1>4. ApiTypeOK'
  <2>1. ASSUME NEW s \in Specs, CreateAgent(s) PROVE ApiTypeOK'
    <3>1. NewStatus \in Status
      BY DEF NewStatus, Status
    <3>2. agent' \in AgentObj /\ ver' \in [Kinds \cup {"Agent"} -> Nat]
      BY <2>1, <3>1 DEF CreateAgent, AgentObj, ApiTypeOK
    <3> QED
      BY <2>1, <3>2 DEF CreateAgent, ApiTypeOK
  <2>2. ASSUME NEW s \in Specs, UpdateAgent(s) PROVE ApiTypeOK'
    <3>1. agent \in AgentObj /\ ver["Agent"] \in Nat
      BY <2>2 DEF UpdateAgent, ApiTypeOK
    <3>2. agent' \in AgentObj
      <4>1. ver["Agent"] + 1 \in Nat
        BY <3>1
      <4> QED
        BY <2>2, <3>1, <4>1, ChangeType DEF UpdateAgent
    <3>3. ver' \in [Kinds \cup {"Agent"} -> Nat]
      BY <2>2 DEF UpdateAgent, ApiTypeOK
    <3> QED
      BY <2>2, <3>2, <3>3 DEF UpdateAgent, ApiTypeOK
  <2>3. ASSUME DeleteAgent PROVE ApiTypeOK'
    BY <2>3 DEF DeleteAgent, ApiTypeOK
  <2>4. ASSUME NEW m \in Models \cup {Absent}, SetModel(m) PROVE ApiTypeOK'
    BY <2>4 DEF SetModel, ApiTypeOK
  <2>5. ASSUME NEW k \in Kinds, DeleteObject(k) \/ Collect(k) PROVE ApiTypeOK'
    BY <2>5, RemoveObjectType DEF DeleteObject, Collect, ApiTypeOK
  <2>6. ASSUME NEW k \in ConfigKinds, EditObject(k) PROVE ApiTypeOK'
    <3>1. k \in Kinds
      BY ConstantsAssumption
    <3>2. obj[k] \in OwnedObj /\ ver[k] + 1 \in Nat
      BY <2>6, <3>1 DEF EditObject, ApiTypeOK
    <3>3. [obj[k] EXCEPT !.content = Edited, !.rv = ver[k] + 1] \in OwnedObj
      BY <3>2, ChangeType DEF Content
    <3> QED
      BY <2>6, <3>1, <3>3, ObjectsType DEF EditObject, ApiTypeOK
  <2>7. ASSUME Rollout PROVE ApiTypeOK'
    <3>1. pods' \in [dep : Nat, hash : Content, cfg : Content]
      BY <2>7, ConstantsAssumption DEF Rollout, OwnedObj, ApiTypeOK
    <3> QED
      BY <2>7, <3>1 DEF Rollout, ApiTypeOK
  <2>8. ASSUME NEW b \in BOOLEAN, SetAvailable(b) PROVE ApiTypeOK'
    <3>1. "Deployment" \in Kinds
      BY ConstantsAssumption
    <3>2. obj["Deployment"] \in OwnedObj /\ ver["Deployment"] + 1 \in Nat
      BY <2>8, <3>1 DEF SetAvailable, ApiTypeOK
    <3>3. [obj["Deployment"] EXCEPT !.avail = b, !.rv = ver["Deployment"] + 1] \in OwnedObj
      BY <3>2, ChangeType
    <3> QED
      BY <2>8, <3>1, <3>3, ObjectsType DEF SetAvailable, ApiTypeOK
  <2> QED
    BY <2>1, <2>2, <2>3, <2>4, <2>5, <2>6, <2>7, <2>8
    DEF Cluster, BecomeAvailable, LoseAvailability
<1> QED
  BY <1>1, <1>2, <1>3, <1>4

LEMMA InformersType == TypeOK /\ Informers => TypeOK'
<1> SUFFICES ASSUME TypeOK, Informers PROVE TypeOK'
  OBVIOUS
<1> USE DEF TypeOK
<1>1. BoundsTypeOK'
  BY BoundsType DEF Informers, SyncAgent, SyncModel, SyncObject
<1>2. UNCHANGED <<api, worker, db, up, upsertLock, skipped>>
  BY DEF Informers, SyncAgent, SyncModel, SyncObject
<1>3. ApiTypeOK' /\ WorkerTypeOK'
  BY <1>2 DEF ApiTypeOK, WorkerTypeOK, api, worker
<1>4. CacheTypeOK' /\ dirty' \in BOOLEAN
  BY DEF Informers, SyncAgent, SyncModel, SyncObject, ApiTypeOK, CacheTypeOK
<1> QED
  BY <1>1, <1>2, <1>3, <1>4

\* The reconcile worker.
LEMMA WorkerType == TypeOK /\ Worker => TypeOK'
<1> SUFFICES ASSUME TypeOK, Worker PROVE TypeOK'
  OBVIOUS
<1> USE DEF TypeOK
<1>1. BoundsTypeOK'
  BY BoundsType DEF Worker, Begin, Remove, Apply, ApplyCreate, ApplyUpdate,
     ApplyNothing, ApplyRejected, ApplyFails, Prune, Store, UpdateStatus
<1>2. UNCHANGED <<model, pods, cache, up, upsertLock>>
  BY DEF Worker, Begin, Remove, Apply, Prune, Store, UpdateStatus, api
<1>3. CacheTypeOK'
  BY <1>2 DEF CacheTypeOK, cache
<1>4. dirty' \in BOOLEAN /\ skipped' \in BOOLEAN
  BY DEF Worker, Begin, Remove, Apply, Prune, Store, UpdateStatus, Requeue, Return
<1>5. ASSUME Begin PROVE ApiTypeOK' /\ WorkerTypeOK'
  <2>1. ApiTypeOK'
    BY <1>5 DEF Begin, api, ApiTypeOK
  <2>2. CASE cagent = Absent
    <3>1. pc' = "remove" /\ UNCHANGED <<me, want, owned, at, err>>
      BY <1>5, <2>2 DEF Begin
    <3> QED
      BY <2>1, <3>1 DEF WorkerTypeOK
  <2>3. CASE cagent # Absent /\ ~Translates
    <3>1. cagent \in AgentObj
      BY <2>3 DEF CacheTypeOK
    <3>2. /\ pc' = "status" /\ me' = cagent /\ err' = "translate"
          /\ UNCHANGED <<want, owned, at>>
      BY <1>5, <2>3 DEF Begin
    <3> QED
      BY <2>1, <3>1, <3>2 DEF WorkerTypeOK
  <2>4. CASE cagent # Absent /\ Translates
    <3>1. cagent \in AgentObj /\ me' = cagent
      BY <1>5, <2>4 DEF Begin, CacheTypeOK
    <3>2. want' \in Config
      BY <1>5, <2>4, <3>1 DEF Begin, Translates, Config, CacheTypeOK, AgentObj
    <3>3. owned' \subseteq [kind : Kinds, uid : Nat]
      <4>1. \A k \in Kinds : cobj[k] # Absent => cobj[k].uid \in Nat
        BY DEF CacheTypeOK, OwnedObj
      <4> QED
        BY <1>5, <2>4, <4>1 DEF Begin, FindOwnedObjects
    <3>4. Len(Manifest) \in Nat /\ Len(Manifest) >= 1
      BY ConstantsAssumption
    <3> QED
      BY <1>5, <2>1, <2>4, <3>1, <3>2, <3>3, <3>4 DEF Begin, WorkerTypeOK
  <2> QED
    BY <2>1, <2>2, <2>3, <2>4
<1>6. ASSUME Remove PROVE ApiTypeOK' /\ WorkerTypeOK'
  BY <1>6, FinishType DEF Remove, Return, Requeue, ApiTypeOK, api
<1>7. ASSUME Apply PROVE ApiTypeOK' /\ WorkerTypeOK'
  <2> DEFINE k == Manifest[at]
  <2>1. k \in Kinds /\ want \in Config /\ me \in AgentObj /\ pc = "apply"
    BY <1>7, NextKind DEF Apply, WorkerTypeOK
  <2>2. WorkerTypeOK'
    <3>1. \E e \in {err, "apply"}, rest \in SUBSET owned : NextObject(e, rest)
      BY <1>7 DEF Apply, ApplyCreate, ApplyUpdate, ApplyNothing, ApplyRejected, ApplyFails
    <3>2. err \in {"none", "translate", "apply", "prune", "store"}
      BY DEF WorkerTypeOK
    <3> QED
      BY <2>1, <3>1, <3>2, NextObjectType
  <2>3. /\ obj' \in [Kinds -> OwnedObj \cup {Absent}]
        /\ ver' \in [Kinds \cup {"Agent"} -> Nat]
    <3>1. ver[k] \in Nat /\ ver[k] + 1 \in Nat
      BY <2>1 DEF ApiTypeOK
    <3>2. CASE ApplyCreate(k)
      <4>1. Render(k, want) \in Content
        BY <2>1, RenderType
      <4>2. [uid |-> ver[k] + 1, rv |-> ver[k] + 1, owner |-> me.uid,
             content |-> Render(k, want), avail |-> FALSE] \in OwnedObj
        BY <2>1, <3>1, <4>1 DEF OwnedObj, AgentObj
      <4> QED
        BY <2>1, <3>2, <4>2 DEF ApplyCreate, ApiTypeOK
    <3>3. CASE ApplyUpdate(k)
      <4>1. obj[k] \in OwnedObj
        BY <2>1, <3>3 DEF ApplyUpdate, ApiTypeOK
      <4>2. [Written(obj[k], k) EXCEPT !.rv = ver[k] + 1] \in OwnedObj
        BY <2>1, <3>1, <4>1, WrittenType
      <4> QED
        BY <2>1, <3>3, <4>2 DEF ApplyUpdate, ApiTypeOK
    <3>4. CASE ApplyNothing(k) \/ ApplyRejected(k) \/ ApplyFails(k)
      BY <3>4 DEF ApplyNothing, ApplyRejected, ApplyFails, ApiTypeOK
    <3> QED
      BY <1>7, <3>2, <3>3, <3>4 DEF Apply
  <2> QED
    BY <1>7, <2>2, <2>3 DEF Apply, ApiTypeOK
<1>8. ASSUME NEW o \in owned, Prune(o) PROVE ApiTypeOK' /\ WorkerTypeOK'
  <2>1. o.kind \in Kinds
    BY DEF WorkerTypeOK
  <2>2. ApiTypeOK'
    BY <1>8, <2>1, RemoveObjectType DEF Prune, ApiTypeOK
  <2> QED
    BY <1>8, <2>2 DEF Prune, WorkerTypeOK
<1>9. ASSUME Store PROVE ApiTypeOK' /\ WorkerTypeOK'
  <2>1. [cfg |-> want, uid |-> me.uid, gen |-> me.gen] \in Row
    BY <1>9 DEF Store, WorkerTypeOK, Row, AgentObj
  <2> QED
    BY <1>9, <2>1 DEF Store, ApiTypeOK, WorkerTypeOK, api
<1>10. ASSUME UpdateStatus PROVE ApiTypeOK' /\ WorkerTypeOK'
  <2>0. UNCHANGED <<model, obj, pods, db>>
    BY <1>10 DEF UpdateStatus
  <2>1. WorkerTypeOK'
    BY <1>10, FinishType DEF UpdateStatus, Return, Requeue
  <2>2. CASE UNCHANGED <<agent, ver>>
    BY <2>0, <2>1, <2>2 DEF ApiTypeOK
  <2>3. CASE /\ agent # Absent
             /\ agent' = [agent EXCEPT !.status = [Conditions EXCEPT !.observed = me.gen],
                                       !.rv = ver["Agent"] + 1]
             /\ ver' = [ver EXCEPT !["Agent"] = @ + 1]
    <3>1. agent \in AgentObj /\ ver["Agent"] \in Nat
      BY <2>3 DEF ApiTypeOK
    <3>2. [Conditions EXCEPT !.observed = me.gen] \in Status
      BY <1>10, ConditionsType DEF UpdateStatus
    <3>3. agent' \in AgentObj
      <4>1. ver["Agent"] + 1 \in Nat
        BY <3>1
      <4> QED
        BY <2>3, <3>1, <3>2, <4>1, ChangeType
    <3>4. ver' \in [Kinds \cup {"Agent"} -> Nat]
      BY <2>3 DEF ApiTypeOK
    <3> QED
      BY <2>0, <2>1, <3>3, <3>4 DEF ApiTypeOK
  <2> QED
    BY <1>10, <2>1, <2>2, <2>3 DEF UpdateStatus
<1> QED
  BY <1>1, <1>2, <1>3, <1>4, <1>5, <1>6, <1>7, <1>8, <1>9, <1>10 DEF Worker

LEMMA LifeType == TypeOK /\ (Crash \/ Start) => TypeOK'
<1> SUFFICES ASSUME TypeOK, Crash \/ Start PROVE TypeOK'
  OBVIOUS
<1> USE DEF TypeOK
<1>1. CASE Crash
  <2>1. WorkerTypeOK'
    BY <1>1, FinishType DEF Crash
  <2>2. CacheTypeOK' /\ ApiTypeOK' /\ BoundsTypeOK'
    BY <1>1 DEF Crash, CacheTypeOK, ApiTypeOK, BoundsTypeOK, api
  <2> QED
    BY <1>1, <2>1, <2>2 DEF Crash
<1>2. CASE Start
  <2>1. CacheTypeOK'
    BY <1>2 DEF Start, CacheTypeOK, ApiTypeOK
  <2>2. ApiTypeOK' /\ WorkerTypeOK' /\ BoundsTypeOK'
    BY <1>2 DEF Start, ApiTypeOK, WorkerTypeOK, BoundsTypeOK, api, worker, bounds
  <2> QED
    BY <1>2, <2>1, <2>2 DEF Start
<1> QED
  BY <1>1, <1>2

\* A tool-server pass takes the lock or gives it back.
LEMMA StutterType == TypeOK /\ (ToolPass \/ UNCHANGED vars) => TypeOK'
<1> SUFFICES ASSUME TypeOK, UNCHANGED agentVars, upsertLock' \in BOOLEAN PROVE TypeOK'
  BY DEF ToolPass, vars, TypeOK
<1> QED
  BY DEF agentVars, TypeOK, ApiTypeOK, CacheTypeOK, WorkerTypeOK, BoundsTypeOK, api, cache, worker, bounds

\* Every variable keeps its type: in particular no pass goes on without the
\* config it was rendered from, or past the end of its manifest.
THEOREM TypeCorrect == Spec => []TypeOK
<1>1. TypeOK /\ [Next]_vars => TypeOK'
  BY ClusterType, InformersType, WorkerType, LifeType, StutterType DEF Next
<1> QED
  BY <1>1, InitType, PTL DEF Spec

----------------------------------------------------------------------------
(* Accepted means stored. *)

\* Where the worker is while it is in a pass over an Agent.
Passing == {"apply", "prune", "store", "status"}

LEMMA AgentVersion == TypeOK => ver["Agent"] \in Nat
BY DEF TypeOK, ApiTypeOK

\* A step that leaves the Agent, its copies and its row alone and does not end
\* the pass disturbs nothing.
LEMMA QuietStep ==
    ASSUME TypeOK, AcceptedParts,
           UNCHANGED <<agent, cagent, me, db, up>>, ver'["Agent"] = ver["Agent"],
           \/ UNCHANGED <<pc, err>>
           \/ pc \in Passing /\ pc' \in Passing /\ (pc' = "status" => err' # "none")
    PROVE  AcceptedParts'
BY DEF AcceptedParts, SameVersionSameAgent, NotNewer, WorkerInv, CacheInv, PassInv,
   RemoveInv, StoredInv, AcceptedMeansStored, Passing

LEMMA InitAccepted == Init => AcceptedParts
<1> SUFFICES ASSUME Init PROVE AcceptedParts
  OBVIOUS
<1>1. agent # Absent => /\ agent.uid = 1 /\ agent.rv = 1 /\ agent.gen = 1
                        /\ agent.status.acc = "none" /\ ver["Agent"] = 1
  BY ConstantsAssumption DEF Init, NewStatus, Emitted
<1> QED
  BY <1>1 DEF Init, AcceptedParts, SameVersionSameAgent, NotNewer, WorkerInv, CacheInv,
     PassInv, RemoveInv, StoredInv, AcceptedMeansStored

\* Users, the garbage collector and the deployment controller.
LEMMA ClusterAccepted == TypeOK /\ AcceptedParts /\ Cluster => AcceptedParts'
<1> SUFFICES ASSUME TypeOK, AcceptedParts, Cluster PROVE AcceptedParts'
  OBVIOUS
<1>0. UNCHANGED <<db, cagent, up, me, pc, err>>
  BY DEF Cluster, CreateAgent, UpdateAgent, DeleteAgent, SetModel, DeleteObject,
     Collect, EditObject, Rollout, BecomeAvailable, LoseAvailability, SetAvailable,
     cache, worker
<1>1. ASSUME NEW s \in Specs, CreateAgent(s) PROVE AcceptedParts'
  <2>1. /\ agent = Absent /\ agent' # Absent
        /\ agent'.uid = ver["Agent"] + 1 /\ agent'.rv = ver["Agent"] + 1
        /\ agent'.status.acc = "none" /\ ver'["Agent"] = ver["Agent"] + 1
    <3>1. NewStatus \in Status /\ NewStatus.acc = "none"
      BY DEF NewStatus, Status
    <3>2. agent' \in AgentObj
      BY <1>1, <3>1, AgentVersion DEF CreateAgent, AgentObj
    <3> QED
      BY <1>1, <3>1, <3>2, AbsentAssumption DEF CreateAgent, TypeOK, ApiTypeOK
  <2> QED
    BY <1>0, <2>1, AgentVersion DEF AcceptedParts, SameVersionSameAgent, NotNewer, WorkerInv,
       CacheInv, PassInv, RemoveInv, StoredInv, AcceptedMeansStored, TypeOK,
       CacheTypeOK, WorkerTypeOK, AgentObj
<1>2. ASSUME NEW s \in Specs, UpdateAgent(s) PROVE AcceptedParts'
  <2>1. /\ agent # Absent /\ agent' # Absent
        /\ agent.gen \in Nat
        /\ agent'.uid = agent.uid /\ agent'.rv = ver["Agent"] + 1
        /\ agent'.gen = agent.gen + 1
        /\ agent'.status = agent.status /\ ver'["Agent"] = ver["Agent"] + 1
    <3>1. agent \in AgentObj /\ ver["Agent"] + 1 \in Nat
      BY <1>2, AgentVersion DEF UpdateAgent, TypeOK, ApiTypeOK
    <3>2. agent' \in AgentObj
      BY <1>2, <3>1, ChangeType DEF UpdateAgent
    <3> QED
      BY <1>2, <3>1, <3>2, AbsentAssumption
      DEF UpdateAgent, TypeOK, ApiTypeOK, AgentObj
  <2>2. /\ ver["Agent"] \in Nat
        /\ \A x \in {cagent, me} : x # Absent => x.rv \in Nat /\ x.gen \in Nat /\ x.uid \in Nat
        /\ agent.uid \in Nat /\ agent.status.accGen \in Nat
    BY <2>1, AgentVersion DEF TypeOK, ApiTypeOK, CacheTypeOK, WorkerTypeOK, AgentObj, Status
  <2>3. /\ SameVersionSameAgent(agent)' /\ SameVersionSameAgent(cagent)'
        /\ SameVersionSameAgent(me)'
    BY <1>0, <2>1, <2>2 DEF AcceptedParts, SameVersionSameAgent
  <2>4. NotNewer(cagent)' /\ NotNewer(me)'
    BY <1>0, <2>1, <2>2 DEF AcceptedParts, NotNewer
  <2>5. CacheInv'
    BY <1>0, <2>1, <2>2 DEF AcceptedParts, CacheInv
  <2> QED
    BY <1>0, <2>1, <2>3, <2>4, <2>5 DEF AcceptedParts, WorkerInv, PassInv, RemoveInv,
       StoredInv, AcceptedMeansStored
<1>3. ASSUME DeleteAgent PROVE AcceptedParts'
  BY <1>0, <1>3 DEF DeleteAgent, AcceptedParts, SameVersionSameAgent, NotNewer, WorkerInv,
     CacheInv, PassInv, RemoveInv, StoredInv, AcceptedMeansStored
<1>4. ASSUME NEW k \in Kinds, RemoveObject(k) PROVE ver'["Agent"] = ver["Agent"]
  BY <1>4, ConstantsAssumption DEF RemoveObject, TypeOK, ApiTypeOK
<1>5. ASSUME NEW k \in ConfigKinds, EditObject(k)
      PROVE UNCHANGED agent /\ ver'["Agent"] = ver["Agent"]
  BY <1>5, ConstantsAssumption DEF EditObject, TypeOK, ApiTypeOK
<1>6. ASSUME NEW b \in BOOLEAN, SetAvailable(b)
      PROVE UNCHANGED agent /\ ver'["Agent"] = ver["Agent"]
  BY <1>6, ConstantsAssumption DEF SetAvailable, TypeOK, ApiTypeOK
<1> QED
  BY <1>0, <1>1, <1>2, <1>3, <1>4, <1>5, <1>6, QuietStep
  DEF Cluster, SetModel, DeleteObject, Collect, Rollout, BecomeAvailable, LoseAvailability

LEMMA InformersAccepted == TypeOK /\ AcceptedParts /\ Informers => AcceptedParts'
<1> SUFFICES ASSUME TypeOK, AcceptedParts, Informers PROVE AcceptedParts'
  OBVIOUS
<1>1. CASE SyncAgent
  BY <1>1, AgentVersion DEF SyncAgent, api, worker, AcceptedParts, SameVersionSameAgent, NotNewer,
     WorkerInv, CacheInv, PassInv, RemoveInv, StoredInv, AcceptedMeansStored, TypeOK,
     ApiTypeOK, WorkerTypeOK, AgentObj, Status
<1>2. CASE SyncModel \/ \E k \in Kinds : SyncObject(k)
  BY <1>2, QuietStep DEF SyncModel, SyncObject, api, worker
<1> QED
  BY <1>1, <1>2 DEF Informers

LEMMA LifeAccepted == TypeOK /\ AcceptedParts /\ (Crash \/ Start) => AcceptedParts'
<1> SUFFICES ASSUME TypeOK, AcceptedParts, Crash \/ Start PROVE AcceptedParts'
  OBVIOUS
<1>1. CASE Crash
  BY <1>1 DEF Crash, Finish, api, AcceptedParts, SameVersionSameAgent, NotNewer,
     WorkerInv, CacheInv, PassInv, RemoveInv, StoredInv, AcceptedMeansStored
<1>2. CASE Start
  <2>1. pc = "idle" /\ me = Absent
    BY <1>2 DEF Start, AcceptedParts, WorkerInv, TypeOK, WorkerTypeOK
  <2> QED
    BY <1>2, <2>1, AgentVersion DEF Start, api, worker, AcceptedParts, SameVersionSameAgent, NotNewer,
       WorkerInv, CacheInv, PassInv, RemoveInv, StoredInv, AcceptedMeansStored, TypeOK,
       ApiTypeOK, AgentObj, Status
<1> QED
  BY <1>1, <1>2

LEMMA WorkerAccepted == TypeOK /\ AcceptedParts /\ Worker => AcceptedParts'
<1> SUFFICES ASSUME TypeOK, AcceptedParts, Worker PROVE AcceptedParts'
  OBVIOUS
<1>1. CASE Begin
  <2>1. UNCHANGED <<agent, ver, db, cagent, up>> /\ up /\ me = Absent
    BY <1>1 DEF Begin, api, cache, AcceptedParts, WorkerInv
  <2>2. CASE cagent = Absent
    <3>1. pc' = "remove" /\ UNCHANGED <<me, err>>
      BY <1>1, <2>2 DEF Begin
    <3> QED
      BY <2>1, <2>2, <3>1 DEF AcceptedParts, SameVersionSameAgent, NotNewer, WorkerInv,
         CacheInv, PassInv, RemoveInv, StoredInv, AcceptedMeansStored
  <2>3. CASE cagent # Absent
    <3>1. /\ me' = cagent /\ pc' \in Passing /\ (pc' = "status" => err' # "none")
      BY <1>1, <2>3 DEF Begin, Passing
    <3>2. cagent.gen \in Nat
      BY <2>3 DEF TypeOK, CacheTypeOK, AgentObj
    <3> QED
      BY <2>1, <2>3, <3>1, <3>2 DEF AcceptedParts, SameVersionSameAgent, NotNewer, WorkerInv,
         CacheInv, PassInv, RemoveInv, StoredInv, AcceptedMeansStored, Passing
  <2> QED
    BY <2>2, <2>3
<1>2. CASE Remove
  <2>1. UNCHANGED <<agent, ver, cagent, up>> /\ pc' = "idle" /\ me' = Absent
    BY <1>2 DEF Remove, Return, Requeue, Finish, api, cache
  <2>2. agent # Absent => agent.status.acc = "none"
    BY <1>2 DEF Remove, AcceptedParts, RemoveInv
  <2> QED
    BY <2>1, <2>2 DEF AcceptedParts, SameVersionSameAgent, NotNewer, WorkerInv,
       CacheInv, PassInv, RemoveInv, StoredInv, AcceptedMeansStored
<1>3. CASE Apply
  <2>1. /\ UNCHANGED <<agent, cagent, me, db, up>>
        /\ pc' \in Passing /\ (pc' = "status" => err' # "none")
    BY <1>3 DEF Apply, ApplyCreate, ApplyUpdate, ApplyNothing, ApplyRejected, ApplyFails,
       NextObject, cache, Passing
  <2>2. ver'["Agent"] = ver["Agent"]
    <3>1. Manifest[at] # "Agent"
      BY <1>3, NextKind, ConstantsAssumption DEF Apply, TypeOK
    <3> QED
      BY <1>3, <3>1 DEF Apply, ApplyCreate, ApplyUpdate, ApplyNothing, ApplyRejected,
         ApplyFails, TypeOK, ApiTypeOK
  <2> QED
    BY <1>3, <2>1, <2>2, QuietStep DEF Apply, Passing
<1>4. ASSUME NEW o \in owned, Prune(o) PROVE AcceptedParts'
  <2>1. /\ UNCHANGED <<agent, cagent, me, db, up>>
        /\ pc' \in Passing /\ (pc' = "status" => err' # "none")
    BY <1>4 DEF Prune, cache, Passing
  <2>2. ver'["Agent"] = ver["Agent"]
    <3>1. o.kind # "Agent"
      BY ConstantsAssumption DEF TypeOK, WorkerTypeOK
    <3> QED
      BY <1>4, <3>1 DEF Prune, RemoveObject, TypeOK, ApiTypeOK
  <2> QED
    BY <1>4, <2>1, <2>2, QuietStep DEF Prune, Passing
<1>5. CASE Store
  <2>1. /\ UNCHANGED <<agent, cagent, me, up, ver>>
        /\ pc = "store" /\ pc' = "status"
    BY <1>5 DEF Store, api, cache
  <2>2. CASE UNCHANGED db
    <3>1. CASE err' # "none"
      BY <2>1, <2>2, <3>1, QuietStep DEF Passing
    <3>2. CASE err' = "none"
      <4>1. db' # Absent /\ db'.uid = me.uid /\ db'.gen = me.gen /\ me.gen \in Nat
        BY <1>5, <3>2, AbsentAssumption DEF Store, TypeOK, WorkerTypeOK, AgentObj, Row
      <4> QED
        BY <2>1, <2>2, <4>1 DEF AcceptedParts, SameVersionSameAgent, NotNewer,
           WorkerInv, CacheInv, PassInv, RemoveInv, StoredInv, AcceptedMeansStored
    <3> QED
      BY <3>1, <3>2
  <2>3. CASE db' = [cfg |-> want, uid |-> me.uid, gen |-> me.gen]
    <3>1. db' # Absent /\ db'.uid = me.uid /\ db'.gen = me.gen /\ me.gen \in Nat
      BY <1>5, <2>3, AbsentAssumption DEF Store, TypeOK, WorkerTypeOK, AgentObj, Row
    <3>2. me # Absent
      BY <2>1 DEF AcceptedParts, WorkerInv
    <3> QED
      BY <2>1, <3>1, <3>2 DEF AcceptedParts, SameVersionSameAgent, NotNewer,
         WorkerInv, CacheInv, PassInv, RemoveInv, StoredInv, AcceptedMeansStored
  <2> QED
    BY <1>5, <2>2, <2>3 DEF Store
<1>6. CASE UpdateStatus
  <2>1. /\ UNCHANGED <<cagent, db, up>> /\ pc = "status"
        /\ pc' = "idle" /\ me' = Absent /\ me # Absent /\ up
    BY <1>6 DEF UpdateStatus, Return, Requeue, Finish, cache, AcceptedParts, WorkerInv
  <2>2. CASE UNCHANGED <<agent, ver>>
    BY <2>1, <2>2 DEF AcceptedParts, SameVersionSameAgent, NotNewer,
       WorkerInv, CacheInv, PassInv, RemoveInv, StoredInv, AcceptedMeansStored
  <2>3. CASE /\ agent # Absent /\ agent.rv = me.rv
             /\ agent' = [agent EXCEPT !.status = [Conditions EXCEPT !.observed = me.gen],
                                       !.rv = ver["Agent"] + 1]
             /\ ver' = [ver EXCEPT !["Agent"] = @ + 1]
    <3>1. agent \in AgentObj /\ me \in AgentObj /\ ver["Agent"] + 1 \in Nat
      BY <2>1, <2>3, AgentVersion DEF TypeOK, ApiTypeOK, WorkerTypeOK
    <3>2. [Conditions EXCEPT !.observed = me.gen] \in Status
      BY <2>1, ConditionsType DEF TypeOK
    <3>3. agent' \in AgentObj
      BY <2>3, <3>1, <3>2, ChangeType
    <3>4. agent' # Absent /\ agent'.uid = agent.uid /\ agent'.gen = agent.gen
      BY <2>3, <3>1, <3>3, AbsentAssumption DEF AgentObj
    <3>5. agent'.rv = ver["Agent"] + 1 /\ ver'["Agent"] = ver["Agent"] + 1
      BY <2>3, <3>1 DEF AgentObj, TypeOK, ApiTypeOK
    <3>6. agent'.status.acc = Accepted /\ agent'.status.accGen = me.gen
      <4>1. agent'.status = [Conditions EXCEPT !.observed = me.gen]
        BY <2>3, <3>1 DEF AgentObj
      <4>2. me.status \in Status
        BY <3>1 DEF AgentObj
      <4>3. Conditions.acc = Accepted /\ Conditions.accGen = me.gen
        BY <4>2 DEF Conditions, AcceptedChanged, Status
      <4> QED
        BY <4>1, <4>2, <4>3 DEF Conditions, Status
    <3>7. Accepted = "True" => err = "none"
      BY DEF Accepted, TypeOK, WorkerTypeOK
    <3>8. me.uid = agent.uid /\ me.gen <= agent.gen
      BY <2>1, <2>3 DEF AcceptedParts, SameVersionSameAgent, NotNewer
    <3>9. cagent # Absent /\ cagent.uid = agent.uid /\ cagent.gen >= me.gen
      BY <2>1, <2>3, <3>8 DEF AcceptedParts, PassInv
    <3>10. /\ SameVersionSameAgent(agent)' /\ SameVersionSameAgent(cagent)'
           /\ SameVersionSameAgent(me)'
      <4>1. cagent.rv \in Nat /\ cagent.uid \in Nat /\ agent.uid \in Nat /\ ver["Agent"] \in Nat
        BY <3>1, <3>9, AgentVersion DEF TypeOK, CacheTypeOK, AgentObj
      <4> QED
        BY <2>1, <2>3, <3>4, <3>5, <4>1 DEF AcceptedParts, SameVersionSameAgent
    <3>11. NotNewer(cagent)' /\ NotNewer(me)'
      BY <2>1, <2>3, <3>4 DEF AcceptedParts, NotNewer
    <3>12. CacheInv' /\ PassInv' /\ RemoveInv' /\ WorkerInv' /\ StoredInv'
      BY <2>1, <2>3, <3>4, <3>6, <3>8, <3>9
      DEF CacheInv, PassInv, RemoveInv, WorkerInv, StoredInv
    <3>13. AcceptedMeansStored'
      BY <2>1, <3>4, <3>6, <3>7, <3>8 DEF AcceptedMeansStored, AcceptedParts, StoredInv
    <3> QED
      BY <3>10, <3>11, <3>12, <3>13 DEF AcceptedParts
  <2> QED
    BY <1>6, <2>2, <2>3 DEF UpdateStatus
<1> QED
  BY <1>1, <1>2, <1>3, <1>4, <1>5, <1>6 DEF Worker

LEMMA StutterAccepted == TypeOK /\ AcceptedParts /\ (ToolPass \/ UNCHANGED vars) => AcceptedParts'
BY QuietStep DEF ToolPass, agentVars, vars, api, cache, worker

\* An Agent is only reported as accepted while the row of its present
\* incarnation, in the generation reported or a later one, is in the database,
\* whatever fails, crashes or changes meanwhile.
THEOREM AcceptedStored == Spec => []AcceptedMeansStored
<1>1. TypeOK /\ AcceptedParts /\ [Next]_vars => AcceptedParts'
  BY ClusterAccepted, InformersAccepted, WorkerAccepted, LifeAccepted, StutterAccepted DEF Next
<1>2. AcceptedParts => AcceptedMeansStored
  BY DEF AcceptedParts
<1> QED
  BY <1>1, <1>2, InitAccepted, TypeCorrect, PTL DEF Spec

----------------------------------------------------------------------------
(* No orphan row. *)

\* A step that leaves the cached Agent and the row alone, and neither takes the
\* key from the queue nor starts or ends anything but a pass.
LEMMA QuietRow ==
    ASSUME RowInv,
           UNCHANGED <<cagent, db, up>>, crashes' = crashes, dirty => dirty',
           \/ UNCHANGED <<me, pc>>
           \/ pc # "remove" /\ me' = me
           \/ pc # "remove" /\ me' = Absent
    PROVE  RowInv'
BY DEF RowInv

LEMMA InitRow == Init => RowInv
BY ConstantsAssumption DEF Init, RowInv

LEMMA ClusterRow == RowInv /\ Cluster => RowInv'
<1>1. Cluster => UNCHANGED <<cagent, db, up, dirty, me, pc, crashes>>
  BY DEF Cluster, CreateAgent, UpdateAgent, DeleteAgent, SetModel, DeleteObject,
     Collect, EditObject, Rollout, BecomeAvailable, LoseAvailability, SetAvailable,
     Change, cache, worker, bounds
<1> QED
  BY <1>1, QuietRow

LEMMA InformersRow == WorkerInv /\ RowInv /\ Informers => RowInv'
<1> SUFFICES ASSUME WorkerInv, RowInv, Informers PROVE RowInv'
  OBVIOUS
<1>1. UNCHANGED <<db, up, me, pc, crashes>> /\ (dirty => dirty')
  BY DEF Informers, SyncAgent, SyncModel, SyncObject, Deliver, worker, bounds
<1>2. CASE SyncAgent
  <2>1. agent = Absent => dirty'
    BY <1>2 DEF SyncAgent, AgentEvent
  <2>2. cagent' = agent
    BY <1>2 DEF SyncAgent
  <2> QED
    BY <1>1, <2>1, <2>2 DEF RowInv
<1>3. CASE SyncModel \/ \E k \in Kinds : SyncObject(k)
  BY <1>1, <1>3, QuietRow DEF SyncModel, SyncObject
<1> QED
  BY <1>2, <1>3 DEF Informers

LEMMA LifeRow == TypeOK /\ WorkerInv /\ RowInv /\ (Crash \/ Start) => RowInv'
<1> SUFFICES ASSUME TypeOK, WorkerInv, RowInv, Crash \/ Start PROVE RowInv'
  OBVIOUS
<1>1. CASE Crash
  BY <1>1, ConstantsAssumption DEF Crash, RowInv, TypeOK, BoundsTypeOK
<1>2. CASE Start
  BY <1>2 DEF Start, RowInv, WorkerInv, TypeOK, WorkerTypeOK, bounds, worker
<1> QED
  BY <1>1, <1>2

LEMMA WorkerRow == TypeOK /\ WorkerInv /\ RowInv /\ Worker => RowInv'
<1> SUFFICES ASSUME TypeOK, WorkerInv, RowInv, Worker PROVE RowInv'
  OBVIOUS
<1>1. UNCHANGED <<cagent, up, crashes>>
  BY DEF Worker, Begin, Remove, Apply, ApplyCreate, ApplyUpdate, ApplyNothing,
     ApplyRejected, ApplyFails, Prune, Store, UpdateStatus, Fault, cache, bounds
<1>2. CASE Begin
  <2>1. CASE cagent = Absent
    BY <1>1, <1>2, <2>1 DEF Begin, RowInv
  <2>2. CASE cagent # Absent
    BY <1>1, <1>2, <2>2 DEF Begin, RowInv
  <2> QED
    BY <2>1, <2>2
<1>3. CASE Remove
  <2>1. me' = Absent /\ (db' = Absent \/ dirty' = TRUE)
    BY <1>3 DEF Remove, Return, Requeue, Finish
  <2> QED
    BY <1>1, <1>3, <2>1 DEF Remove, RowInv, WorkerInv
<1>4. CASE Apply \/ \E o \in owned : Prune(o)
  BY <1>1, <1>4, QuietRow DEF Apply, ApplyCreate, ApplyUpdate, ApplyNothing, ApplyRejected,
     ApplyFails, NextObject, Prune
<1>5. CASE Store
  BY <1>1, <1>5 DEF Store, RowInv, WorkerInv
<1>6. CASE UpdateStatus
  <2>1. UNCHANGED db /\ pc = "status" /\ me' = Absent /\ (dirty => dirty')
    BY <1>6 DEF UpdateStatus, Return, Requeue, Finish
  <2> QED
    BY <1>1, <2>1, QuietRow
<1> QED
  BY <1>2, <1>3, <1>4, <1>5, <1>6 DEF Worker

LEMMA StutterRow == RowInv /\ (ToolPass \/ UNCHANGED vars) => RowInv'
BY QuietRow DEF ToolPass, agentVars, vars, api, cache, worker, bounds

\* As long as the controller has not crashed, it does not come to rest while
\* the row of a deleted Agent is still in the database.
THEOREM OrphanRowsRemoved == Spec => []NoOrphanRow
<1>1. Spec => [](TypeOK /\ WorkerInv)
  <2>1. TypeOK /\ AcceptedParts /\ [Next]_vars => AcceptedParts'
    BY ClusterAccepted, InformersAccepted, WorkerAccepted, LifeAccepted, StutterAccepted
    DEF Next
  <2>2. AcceptedParts => WorkerInv
    BY DEF AcceptedParts
  <2> QED
    BY <2>1, <2>2, InitAccepted, TypeCorrect, PTL DEF Spec
<1>2. TypeOK /\ WorkerInv /\ RowInv /\ [Next]_vars => RowInv'
  BY ClusterRow, InformersRow, LifeRow, WorkerRow, StutterRow DEF Next
<1>3. RowInv => NoOrphanRow
  BY DEF RowInv, NoOrphanRow, Quiescent
<1> QED
  BY <1>1, <1>2, <1>3, InitRow, PTL DEF Spec

----------------------------------------------------------------------------
(* Accepted means converged. *)

\* The resource version tells how many changes there were: a cache that has
\* seen them all holds the object as it is.
VersionsInv ==
    \A k \in Kinds :
        /\ cver[k] <= ver[k]
        /\ obj[k] # Absent => obj[k].rv = ver[k]
        /\ cobj[k] # Absent => cobj[k].rv = cver[k]
        /\ up /\ cver[k] = ver[k] => cobj[k] = obj[k]

\* A copy of the Agent's version is the Agent, one of its generation has its
\* spec.
SameCopy(x) ==
    x # Absent /\ agent # Absent =>
        /\ x.rv = agent.rv => x = agent
        /\ x.uid = agent.uid /\ x.gen = agent.gen => x.spec = agent.spec

\* Kinds the manifest no longer has are not created, so none is in the cluster
\* that the cache has not heard of.
LeftInv ==
    up => \A k \in Kinds \ Emitted : cobj[k] = Absent => obj[k] = Absent

\* The object is what cfg says, or an event about it will reach the queue.
Applied(k, cfg) ==
    \/ cobj[k] # Absent /\ (cver[k] # ver[k] \/ cobj[k].content = Render(k, cfg))
    \/ cobj[k] = Absent /\ cver[k] + 1 < ver[k]
    \/ cobj[k] = Absent /\ cver[k] + 1 = ver[k] /\ obj[k] # Absent /\ obj[k].content = Render(k, cfg)

\* The object is not one of the cached Agent's, or an event will come.
Disowned(k) == cobj[k] # Absent /\ cobj[k].owner = cagent.uid => cver[k] # ver[k]

CachedConfig == [spec |-> cagent.spec, model |-> cmodel]

\* How far a pass without an error has got, as long as nothing has queued the
\* key again.
PassDone ==
    pc \in Passing /\ err = "none" /\ ~dirty =>
        /\ cagent # Absent /\ cmodel # Absent /\ want = CachedConfig
        /\ pc # "apply" => at = Len(Manifest) + 1
        /\ \A i \in 1 .. at - 1 : Applied(Manifest[i], want)
        /\ \A k \in Kinds \ Emitted :
              Disowned(k) \/ [kind |-> k, uid |-> cobj[k].uid] \in owned
        /\ pc \in {"store", "status"} => owned = {}
        /\ pc = "status" => db # Absent /\ db.cfg = want

\* What an accepted Agent's last pass has left behind.
AllDone ==
    /\ cmodel # Absent
    /\ db # Absent /\ db.cfg = CachedConfig
    /\ \A k \in Emitted : Applied(k, CachedConfig)
    /\ \A k \in Kinds \ Emitted : Disowned(k)

\* The Agent is still gone when its row is removed, or the key is queued again.
RemoveDone == pc = "remove" /\ ~dirty => cagent = Absent

IdleDone ==
    /\ ~skipped /\ up /\ ~dirty /\ pc = "idle"
    /\ cagent # Absent /\ agent # Absent /\ agent.uid = cagent.uid
    /\ agent.status.acc = "True"
    => AllDone

ConvergedParts ==
    /\ VersionsInv /\ SameCopy(cagent) /\ SameCopy(me) /\ LeftInv
    /\ PassDone /\ RemoveDone /\ IdleDone

\* A change of one object: removed, or stored as o.
ObjectChanges(k, o) ==
    /\ obj' = [obj EXCEPT ![k] = o]
    /\ ver' = [ver EXCEPT ![k] = @ + 1]
    /\ o # Absent => o.rv = ver[k] + 1

NoneChanged == obj' = obj /\ \A k \in Kinds : ver'[k] = ver[k]

\* What was applied stays so, or there will be an event.
LEMMA ChangedObject ==
    ASSUME TypeOK, VersionsInv, NEW k \in Kinds, NEW o, ObjectChanges(k, o),
           UNCHANGED <<cobj, cver, up, cagent, cmodel, want>>
    PROVE  /\ VersionsInv'
           /\ \A j \in Kinds : Applied(j, want) => Applied(j, want)'
           /\ \A j \in Kinds : Applied(j, CachedConfig) => Applied(j, CachedConfig)'
           /\ \A j \in Kinds : Disowned(j) => Disowned(j)'
           /\ cver'[k] # ver'[k]
<1>1. /\ \A j \in Kinds : ver[j] \in Nat /\ cver[j] \in Nat /\ cver[j] <= ver[j]
      /\ ver'[k] = ver[k] + 1 /\ obj'[k] = o
      /\ \A j \in Kinds : j # k => ver'[j] = ver[j] /\ obj'[j] = obj[j]
  BY DEF TypeOK, ApiTypeOK, CacheTypeOK, VersionsInv, ObjectChanges
<1>2. cver'[k] < ver'[k] /\ cver'[k] # ver'[k]
  BY <1>1
<1>3. VersionsInv'
  BY <1>1, <1>2 DEF VersionsInv, ObjectChanges
<1>4. ASSUME NEW j \in Kinds, Applied(j, want) PROVE Applied(j, want)'
  BY <1>1, <1>2, <1>4 DEF Applied
<1>5. ASSUME NEW j \in Kinds, Applied(j, CachedConfig) PROVE Applied(j, CachedConfig)'
  BY <1>1, <1>2, <1>5 DEF Applied, CachedConfig
<1>6. ASSUME NEW j \in Kinds, Disowned(j) PROVE Disowned(j)'
  BY <1>1, <1>2, <1>6 DEF Disowned
<1> QED
  BY <1>2, <1>3, <1>4, <1>5, <1>6

LEMMA UnchangedObjects ==
    ASSUME VersionsInv, NoneChanged, UNCHANGED <<cobj, cver, up, cagent, cmodel, want>>
    PROVE  /\ VersionsInv'
           /\ \A j \in Kinds : Applied(j, want) => Applied(j, want)'
           /\ \A j \in Kinds : Applied(j, CachedConfig) => Applied(j, CachedConfig)'
           /\ \A j \in Kinds : Disowned(j) => Disowned(j)'
BY DEF NoneChanged, VersionsInv, Applied, CachedConfig, Disowned

\* What the cluster does to the objects.
LEMMA ClusterObjects ==
    ASSUME TypeOK, Cluster
    PROVE  /\ UNCHANGED <<cobj, cver, up, cagent, cmodel, dirty, db, skipped, worker>>
           /\ \/ NoneChanged
              \/ \E k \in Kinds, o \in OwnedObj \cup {Absent} :
                    ObjectChanges(k, o) /\ (o # Absent => obj[k] # Absent)
<1>1. UNCHANGED <<cobj, cver, up, cagent, cmodel, dirty, db, skipped, worker>>
  BY DEF Cluster, CreateAgent, UpdateAgent, DeleteAgent, SetModel, DeleteObject, Collect,
         EditObject, Rollout, BecomeAvailable, LoseAvailability, SetAvailable, cache
<1>2. ASSUME NEW s \in Specs, CreateAgent(s) \/ UpdateAgent(s) PROVE NoneChanged
  BY <1>2, ConstantsAssumption DEF CreateAgent, UpdateAgent, NoneChanged, TypeOK, ApiTypeOK
<1>3. ASSUME NEW k \in Kinds, RemoveObject(k) PROVE ObjectChanges(k, Absent)
  BY <1>3 DEF RemoveObject, ObjectChanges
<1>4. ASSUME NEW k \in ConfigKinds, EditObject(k)
      PROVE  \E o \in OwnedObj : ObjectChanges(k, o) /\ obj[k] # Absent /\ k \in Kinds
  <2>1. k \in Kinds
    BY ConstantsAssumption
  <2>2. obj[k] # Absent /\ obj[k] \in OwnedObj /\ ver[k] + 1 \in Nat
    BY <1>4, <2>1 DEF EditObject, TypeOK, ApiTypeOK
  <2> DEFINE o == [obj[k] EXCEPT !.content = Edited, !.rv = ver[k] + 1]
  <2>3. o \in OwnedObj /\ o.rv = ver[k] + 1
    <3>1. o \in OwnedObj
      BY <2>2, ChangeType DEF Content
    <3> QED
      BY <2>2, <3>1 DEF OwnedObj
  <2>4. obj' = [obj EXCEPT ![k] = o] /\ ver' = [ver EXCEPT ![k] = @ + 1]
    BY <1>4 DEF EditObject
  <2> HIDE DEF o
  <2> QED
    BY <2>1, <2>2, <2>3, <2>4 DEF ObjectChanges
<1>5. ASSUME NEW b \in BOOLEAN, SetAvailable(b)
      PROVE  \E k \in Kinds, o \in OwnedObj : ObjectChanges(k, o) /\ obj[k] # Absent
  <2>1. "Deployment" \in Kinds
    BY ConstantsAssumption
  <2>2. obj["Deployment"] # Absent /\ obj["Deployment"] \in OwnedObj /\ ver["Deployment"] + 1 \in Nat
    BY <1>5, <2>1 DEF SetAvailable, TypeOK, ApiTypeOK
  <2> DEFINE o == [obj["Deployment"] EXCEPT !.avail = b, !.rv = ver["Deployment"] + 1]
  <2>3. o \in OwnedObj /\ o.rv = ver["Deployment"] + 1
    <3>1. o \in OwnedObj
      BY <2>2, ChangeType
    <3> QED
      BY <2>2, <3>1 DEF OwnedObj
  <2>4. obj' = [obj EXCEPT !["Deployment"] = o] /\ ver' = [ver EXCEPT !["Deployment"] = @ + 1]
    BY <1>5 DEF SetAvailable
  <2> HIDE DEF o
  <2> QED
    BY <2>1, <2>2, <2>3, <2>4 DEF ObjectChanges
<1>6. ASSUME DeleteAgent \/ (\E m \in Models \cup {Absent} : SetModel(m)) \/ Rollout PROVE NoneChanged
  BY <1>6 DEF DeleteAgent, SetModel, Rollout, NoneChanged
<1> QED
  BY <1>1, <1>2, <1>3, <1>4, <1>5, <1>6
  DEF Cluster, DeleteObject, Collect, BecomeAvailable, LoseAvailability

\* What the cluster does to the Agent.
LEMMA ClusterAgent ==
    ASSUME TypeOK, AcceptedParts, SameCopy(cagent), SameCopy(me), Cluster
    PROVE  /\ SameCopy(cagent)' /\ SameCopy(me)'
           /\ agent' # Absent /\ agent'.status.acc = "True" =>
                 agent # Absent /\ agent.status.acc = "True" /\ agent'.uid = agent.uid
<1>1. UNCHANGED <<cagent, me>>
  BY ClusterObjects DEF worker
<1>2. CASE UNCHANGED agent
  BY <1>1, <1>2 DEF SameCopy
<1>3. /\ ver["Agent"] \in Nat
      /\ agent # Absent => agent \in AgentObj
      /\ \A x \in {cagent, me} : x # Absent => x \in AgentObj
  BY AgentVersion DEF TypeOK, ApiTypeOK, CacheTypeOK, WorkerTypeOK
<1>4. \A x \in {cagent, me} : x # Absent => /\ x.rv \in Nat /\ x.gen \in Nat /\ x.uid \in Nat
                                            /\ x.rv <= ver["Agent"] /\ x.uid <= ver["Agent"]
  BY <1>3 DEF AgentObj, AcceptedParts, SameVersionSameAgent
<1>5. ASSUME NEW s \in Specs, CreateAgent(s)
      PROVE  agent'.rv = ver["Agent"] + 1 /\ agent'.uid = ver["Agent"] + 1 /\ agent'.status.acc = "none"
  BY <1>5 DEF CreateAgent, NewStatus
<1>6. ASSUME NEW s \in Specs, UpdateAgent(s)
      PROVE  /\ agent # Absent /\ agent'.rv = ver["Agent"] + 1
             /\ agent'.uid = agent.uid /\ agent'.status = agent.status
             /\ \A x \in {cagent, me} : x # Absent /\ x.uid = agent'.uid => x.gen # agent'.gen
  <2>1. agent \in AgentObj /\ agent # Absent
    BY <1>3, <1>6 DEF UpdateAgent
  <2>2. agent.gen \in Nat /\ agent'.rv = ver["Agent"] + 1 /\ agent'.uid = agent.uid
        /\ agent'.status = agent.status /\ agent'.gen = agent.gen + 1
    BY <1>6, <2>1 DEF UpdateAgent, AgentObj
  <2>3. \A x \in {cagent, me} : x # Absent /\ x.uid = agent.uid => x.gen <= agent.gen
    BY <2>1 DEF AcceptedParts, NotNewer
  <2> QED
    BY <1>4, <2>1, <2>2, <2>3
<1>7. ASSUME DeleteAgent PROVE agent' = Absent
  BY <1>7 DEF DeleteAgent
<1>8. UNCHANGED agent \/ DeleteAgent \/ \E s \in Specs : CreateAgent(s) \/ UpdateAgent(s)
  BY DEF Cluster, SetModel, DeleteObject, Collect, EditObject, Rollout, BecomeAvailable,
         LoseAvailability, SetAvailable
<1>9. ASSUME NEW s \in Specs, CreateAgent(s) PROVE SameCopy(cagent)' /\ SameCopy(me)'
  BY <1>1, <1>3, <1>4, <1>5, <1>9 DEF SameCopy
<1>10. ASSUME NEW s \in Specs, UpdateAgent(s) PROVE SameCopy(cagent)' /\ SameCopy(me)'
  BY <1>1, <1>3, <1>4, <1>6, <1>10 DEF SameCopy
<1>11. ASSUME DeleteAgent PROVE SameCopy(cagent)' /\ SameCopy(me)'
  BY <1>1, <1>7, <1>11 DEF SameCopy
<1> QED
  BY <1>2, <1>5, <1>6, <1>7, <1>8, <1>9, <1>10, <1>11

LEMMA InitConverged == Init => ConvergedParts
<1> SUFFICES ASSUME Init PROVE ConvergedParts
  OBVIOUS
<1>1. /\ up = FALSE /\ pc = "idle" /\ cagent = Absent /\ me = Absent
      /\ \A k \in Kinds : cobj[k] = Absent /\ cver[k] = 0
  BY DEF Init
<1>2. \A k \in Kinds : ver[k] \in Nat /\ (obj[k] # Absent => obj[k].rv = ver[k])
  BY DEF Init
<1> QED
  BY <1>1, <1>2 DEF ConvergedParts, VersionsInv, SameCopy, LeftInv, PassDone, RemoveDone, IdleDone, Passing

LEMMA ClusterConverged == TypeOK /\ AcceptedParts /\ ConvergedParts /\ Cluster => ConvergedParts'
<1> SUFFICES ASSUME TypeOK, AcceptedParts, ConvergedParts, Cluster PROVE ConvergedParts'
  OBVIOUS
<1>1. UNCHANGED <<cobj, cver, up, cagent, cmodel, dirty, db, skipped, pc, me, want, owned, at, err>>
  BY ClusterObjects DEF worker
<1>2. /\ VersionsInv'
      /\ \A j \in Kinds : Applied(j, want) => Applied(j, want)'
      /\ \A j \in Kinds : Applied(j, CachedConfig) => Applied(j, CachedConfig)'
      /\ \A j \in Kinds : Disowned(j) => Disowned(j)'
  BY <1>1, ClusterObjects, ChangedObject, UnchangedObjects DEF ConvergedParts
<1>3. /\ SameCopy(cagent)' /\ SameCopy(me)'
      /\ agent' # Absent /\ agent'.status.acc = "True" =>
            agent # Absent /\ agent.status.acc = "True" /\ agent'.uid = agent.uid
  BY ClusterAgent DEF ConvergedParts
<1>4. LeftInv'
  <2>1. ASSUME NEW k \in Kinds, NEW o, ObjectChanges(k, o), o # Absent => obj[k] # Absent
        PROVE  \A j \in Kinds : obj[j] = Absent => obj'[j] = Absent
    BY <2>1 DEF ObjectChanges, TypeOK, ApiTypeOK
  <2>2. \A j \in Kinds : obj[j] = Absent => obj'[j] = Absent
    BY <2>1, ClusterObjects DEF NoneChanged
  <2> QED
    BY <1>1, <2>2 DEF ConvergedParts, LeftInv
<1>5. PassDone'
  <2> SUFFICES ASSUME pc \in Passing, err = "none", ~dirty
               PROVE  PassDone'
    BY <1>1 DEF PassDone, Passing
  <2>1. \A i \in 1 .. at - 1 : Manifest[i] \in Kinds
    BY ConstantsAssumption DEF TypeOK, WorkerTypeOK
  <2> QED
    BY <1>1, <1>2, <2>1 DEF ConvergedParts, PassDone, CachedConfig
<1>6. IdleDone'
  <2>1. \A k \in Emitted : k \in Kinds
    BY ConstantsAssumption DEF Emitted
  <2> QED
    BY <1>1, <1>2, <1>3, <2>1 DEF ConvergedParts, IdleDone, AllDone, CachedConfig
<1>7. RemoveDone'
  BY <1>1 DEF ConvergedParts, RemoveDone
<1> QED
  BY <1>2, <1>3, <1>4, <1>5, <1>6, <1>7 DEF ConvergedParts

LEMMA InformersConverged == TypeOK /\ AcceptedParts /\ ConvergedParts /\ Informers => ConvergedParts'
<1> SUFFICES ASSUME TypeOK, AcceptedParts, ConvergedParts, Informers PROVE ConvergedParts'
  OBVIOUS
<1>1. /\ UNCHANGED <<agent, model, obj, ver, pc, me, want, owned, at, err, db, up, skipped>>
      /\ up /\ (dirty => dirty')
  BY DEF Informers, SyncAgent, SyncModel, SyncObject, Deliver, api, worker
<1>2. \A i \in 1 .. at - 1 : Manifest[i] \in Kinds
  BY ConstantsAssumption DEF TypeOK, WorkerTypeOK
<1>3. \A k \in Emitted : k \in Kinds
  BY ConstantsAssumption DEF Emitted
<1>4. CASE SyncAgent
  <2>1. UNCHANGED <<cmodel, cobj, cver>> /\ cagent' = agent
        /\ dirty' = (dirty \/ AgentEvent(cagent, agent))
    BY <1>4 DEF SyncAgent
  <2>2. VersionsInv' /\ LeftInv' /\ SameCopy(cagent)' /\ SameCopy(me)'
    BY <1>1, <2>1 DEF ConvergedParts, VersionsInv, LeftInv, SameCopy
  <2>3. ~dirty' => /\ cagent # Absent /\ cagent' # Absent
                   /\ cagent'.uid = cagent.uid /\ cagent'.spec = cagent.spec
    <3>1. ~dirty' => agent # Absent /\ cagent # Absent /\ cagent.uid = agent.uid /\ cagent.gen = agent.gen
      BY <2>1 DEF AgentEvent
    <3> QED
      BY <2>1, <3>1 DEF ConvergedParts, SameCopy
  <2>4. \A j \in Kinds : /\ Applied(j, want) => Applied(j, want)'
                         /\ ~dirty' /\ Applied(j, CachedConfig) => Applied(j, CachedConfig)'
                         /\ ~dirty' /\ Disowned(j) => Disowned(j)'
    BY <1>1, <2>1, <2>3 DEF Applied, CachedConfig, Disowned
  <2>5. PassDone'
    <3> SUFFICES ASSUME pc \in Passing, err = "none", ~dirty' PROVE PassDone'
      BY <1>1 DEF PassDone, Passing
    <3> QED
      BY <1>1, <1>2, <2>1, <2>3, <2>4 DEF ConvergedParts, PassDone, CachedConfig
  <2>6. IdleDone'
    BY <1>1, <1>3, <2>1, <2>3, <2>4 DEF ConvergedParts, IdleDone, AllDone, CachedConfig
  <2>7. RemoveDone'
    BY <1>1, <2>3 DEF ConvergedParts, RemoveDone
  <2> QED
    BY <2>2, <2>5, <2>6, <2>7 DEF ConvergedParts
<1>5. CASE SyncModel
  <2>1. UNCHANGED <<cagent, cobj, cver>> /\ (~dirty' => cagent = Absent)
    BY <1>5 DEF SyncModel
  <2>2. VersionsInv' /\ LeftInv' /\ SameCopy(cagent)' /\ SameCopy(me)'
    BY <1>1, <2>1 DEF ConvergedParts, VersionsInv, LeftInv, SameCopy
  <2>3. PassDone' /\ IdleDone'
    BY <1>1, <2>1 DEF ConvergedParts, PassDone, IdleDone, Passing
  <2>4. RemoveDone'
    BY <1>1, <2>1 DEF ConvergedParts, RemoveDone
  <2> QED
    BY <2>2, <2>3, <2>4 DEF ConvergedParts
<1>6. ASSUME NEW k \in Kinds, SyncObject(k) PROVE ConvergedParts'
  <2>1. /\ UNCHANGED <<cagent, cmodel>> /\ cver[k] # ver[k]
        /\ cobj'[k] = obj[k] /\ cver'[k] = ver[k]
        /\ \A j \in Kinds : j # k => cobj'[j] = cobj[j] /\ cver'[j] = cver[j]
        /\ dirty' = (dirty \/ OwnedEvent(k))
    BY <1>6 DEF SyncObject, TypeOK, CacheTypeOK
  <2>2. VersionsInv' /\ LeftInv' /\ SameCopy(cagent)' /\ SameCopy(me)'
    <3>1. VersionsInv'
      BY <1>1, <2>1 DEF ConvergedParts, VersionsInv, TypeOK, ApiTypeOK
    <3>2. LeftInv'
      BY <1>1, <2>1 DEF ConvergedParts, LeftInv
    <3> QED
      BY <1>1, <2>1, <3>1, <3>2 DEF ConvergedParts, SameCopy
  <2>3. ~dirty' => cobj[k] = Absent /\ obj[k] # Absent /\ cver[k] + 1 = ver[k]
    <3>1. cver[k] \in Nat /\ ver[k] \in Nat /\ cver[k] <= ver[k]
      BY DEF ConvergedParts, VersionsInv, TypeOK, ApiTypeOK, CacheTypeOK
    <3>2. ~dirty' => ~OwnedEvent(k)
      BY <2>1
    <3>3. ~OwnedEvent(k) => cobj[k] = Absent /\ obj[k] # Absent /\ ~(ver[k] > cver[k] + 1)
      BY DEF OwnedEvent
    <3>4. ~(ver[k] > cver[k] + 1) => cver[k] + 1 = ver[k]
      BY <2>1, <3>1
    <3> QED
      BY <3>2, <3>3, <3>4
  <2>4. ~dirty' => k \in Emitted
    BY <1>1, <2>3 DEF ConvergedParts, LeftInv
  <2>5. \A j \in Kinds : /\ ~dirty' /\ Applied(j, want) => Applied(j, want)'
                         /\ ~dirty' /\ Applied(j, CachedConfig) => Applied(j, CachedConfig)'
    <3>1. ASSUME NEW j \in Kinds, ~dirty', Applied(j, want) PROVE Applied(j, want)'
      <4>1. CASE j = k
        <5>1. obj[k].content = Render(k, want)
          BY <2>3, <3>1, <4>1 DEF Applied, TypeOK, ApiTypeOK, CacheTypeOK
        <5> QED
          BY <1>1, <2>1, <2>3, <3>1, <4>1, <5>1 DEF Applied
      <4>2. CASE j # k
        BY <1>1, <2>1, <3>1, <4>2 DEF Applied
      <4> QED
        BY <4>1, <4>2
    <3>2. ASSUME NEW j \in Kinds, ~dirty', Applied(j, CachedConfig) PROVE Applied(j, CachedConfig)'
      <4>0. CachedConfig' = CachedConfig
        BY <2>1 DEF CachedConfig
      <4>1. CASE j = k
        <5>1. obj[k].content = Render(k, CachedConfig)
          BY <2>3, <3>2, <4>1 DEF Applied, TypeOK, ApiTypeOK, CacheTypeOK
        <5> QED
          BY <1>1, <2>1, <2>3, <3>2, <4>0, <4>1, <5>1 DEF Applied
      <4>2. CASE j # k
        BY <1>1, <2>1, <3>2, <4>0, <4>2 DEF Applied
      <4> QED
        BY <4>1, <4>2
    <3> QED
      BY <3>1, <3>2
  <2>6. \A j \in Kinds \ Emitted : /\ ~dirty' => cobj'[j] = cobj[j]
                                   /\ ~dirty' /\ Disowned(j) => Disowned(j)'
    BY <1>1, <2>1, <2>4 DEF Disowned
  <2>7. PassDone'
    <3> SUFFICES ASSUME pc \in Passing, err = "none", ~dirty' PROVE PassDone'
      BY <1>1 DEF PassDone, Passing
    <3> QED
      BY <1>1, <1>2, <2>1, <2>5, <2>6 DEF ConvergedParts, PassDone, CachedConfig
  <2>8. IdleDone'
    BY <1>1, <1>3, <2>1, <2>5, <2>6 DEF ConvergedParts, IdleDone, AllDone, CachedConfig
  <2>9. RemoveDone'
    BY <1>1, <2>1 DEF ConvergedParts, RemoveDone
  <2> QED
    BY <2>2, <2>7, <2>8, <2>9 DEF ConvergedParts
<1> QED
  BY <1>4, <1>5, <1>6 DEF Informers

LEMMA LifeConverged == TypeOK /\ AcceptedParts /\ ConvergedParts /\ (Crash \/ Start) => ConvergedParts'
<1> SUFFICES ASSUME TypeOK, AcceptedParts, ConvergedParts, Crash \/ Start PROVE ConvergedParts'
  OBVIOUS
<1>1. CASE Crash
  <2>1. /\ UNCHANGED <<agent, obj, ver>> /\ up' = FALSE /\ pc' = "idle"
        /\ cagent' = Absent /\ me' = Absent
        /\ \A k \in Kinds : cobj'[k] = Absent /\ cver'[k] = 0 /\ ver[k] \in Nat
    BY <1>1 DEF Crash, Finish, api, TypeOK, ApiTypeOK
  <2> QED
    BY <2>1 DEF ConvergedParts, VersionsInv, SameCopy, LeftInv, PassDone, RemoveDone, IdleDone, Passing
<1>2. CASE Start
  <2>1. /\ UNCHANGED <<agent, obj, ver, me, pc>> /\ cagent' = agent
        /\ dirty' = (agent # Absent)
        /\ cobj' = obj /\ \A k \in Kinds : cver'[k] = ver[k] /\ ver[k] \in Nat
    BY <1>2 DEF Start, api, worker, TypeOK, ApiTypeOK
  <2>2. pc = "idle"
    BY <1>2 DEF Start, AcceptedParts, WorkerInv, TypeOK, WorkerTypeOK
  <2>3. VersionsInv' /\ SameCopy(cagent)' /\ SameCopy(me)' /\ LeftInv'
    BY <2>1 DEF ConvergedParts, VersionsInv, SameCopy, LeftInv
  <2> QED
    BY <2>1, <2>2, <2>3 DEF ConvergedParts, PassDone, RemoveDone, IdleDone, Passing
<1> QED
  BY <1>1, <1>2

\* Where a pass begins.
LEMMA BeginConverged == TypeOK /\ AcceptedParts /\ ConvergedParts /\ Begin => ConvergedParts'
<1> SUFFICES ASSUME TypeOK, AcceptedParts, ConvergedParts, Begin PROVE ConvergedParts'
  OBVIOUS
<1>1. /\ UNCHANGED <<agent, obj, ver, cagent, cmodel, cobj, cver, db, up, skipped, at>>
      /\ pc = "idle" /\ at = 1
  BY DEF Begin, api, cache, TypeOK, WorkerTypeOK
<1>2. VersionsInv' /\ SameCopy(cagent)' /\ LeftInv'
  BY <1>1 DEF ConvergedParts, VersionsInv, SameCopy, LeftInv
<1>3. CASE cagent = Absent \/ ~Translates
  <2>1. /\ (pc' = "remove" /\ cagent = Absent) \/ (pc' = "status" /\ err' = "translate")
        /\ me' = me \/ me' = cagent
    BY <1>3 DEF Begin
  <2>2. SameCopy(me)'
    BY <1>1, <2>1 DEF ConvergedParts, SameCopy
  <2> QED
    BY <1>1, <1>2, <2>1, <2>2 DEF ConvergedParts, PassDone, RemoveDone, IdleDone, Passing
<1>4. CASE cagent # Absent /\ Translates
  <2>1. /\ me' = cagent /\ want' = CachedConfig /\ owned' = FindOwnedObjects
        /\ pc' = "apply" /\ cmodel # Absent
    BY <1>4 DEF Begin, CachedConfig, Translates
  <2>2. SameCopy(me)'
    BY <1>1, <2>1 DEF ConvergedParts, SameCopy
  <2>3. \A k \in Kinds \ Emitted : Disowned(k)' \/ [kind |-> k, uid |-> cobj'[k].uid] \in owned'
    BY <1>1, <2>1 DEF Disowned, FindOwnedObjects
  <2>4. 1 .. at' - 1 = {}
    BY <1>1
  <2>5. PassDone'
    BY <1>1, <1>4, <2>1, <2>3, <2>4 DEF PassDone, CachedConfig, Disowned
  <2> QED
    BY <1>2, <2>1, <2>2, <2>5 DEF ConvergedParts, RemoveDone, IdleDone
<1> QED
  BY <1>3, <1>4

\* What createOrUpdate leaves behind when it succeeds.
LEMMA ApplyObject ==
    ASSUME TypeOK, ConvergedParts, pc = "apply", up, NEW k \in Kinds,
           ApplyCreate(k) \/ ApplyUpdate(k) \/ ApplyNothing(k),
           UNCHANGED <<cobj, cver, want>>
    PROVE  /\ Applied(k, want)'
           /\ NoneChanged \/ \E o \in OwnedObj : ObjectChanges(k, o)
           /\ \E rest : /\ NextObject(err, rest)
                        /\ \A j \in Kinds \ {k} : \A u : [kind |-> j, uid |-> u] \in owned => [kind |-> j, uid |-> u] \in rest
<1>1. /\ ver[k] \in Nat /\ cver[k] \in Nat /\ cver[k] <= ver[k] /\ obj \in [Kinds -> OwnedObj \cup {Absent}]
      /\ k \in DOMAIN obj /\ k \in DOMAIN ver /\ ver[k] + 1 \in Nat /\ Absent \notin OwnedObj
  BY AbsentAssumption DEF TypeOK, ApiTypeOK, CacheTypeOK, ConvergedParts, VersionsInv
<1>2. want \in Config /\ me \in AgentObj
  BY DEF TypeOK, WorkerTypeOK
<1>3. CASE ApplyCreate(k)
  <2> DEFINE o == [uid |-> ver[k] + 1, rv |-> ver[k] + 1, owner |-> me.uid,
                   content |-> Render(k, want), avail |-> FALSE]
  <2>1. o \in OwnedObj /\ o.rv = ver[k] + 1 /\ o.content = Render(k, want)
    BY <1>1, <1>2, RenderType DEF OwnedObj, AgentObj
  <2>2. /\ obj' = [obj EXCEPT ![k] = o] /\ ver' = [ver EXCEPT ![k] = ver[k] + 1]
        /\ cobj[k] = Absent /\ NextObject(err, owned)
    BY <1>3 DEF ApplyCreate
  <2> HIDE DEF o
  <2>3. ObjectChanges(k, o)
    BY <2>1, <2>2 DEF ObjectChanges
  <2>4. obj'[k] = o /\ ver'[k] = ver[k] + 1 /\ o # Absent
    BY <1>1, <2>1, <2>2
  <2>5. cver[k] + 1 < ver'[k] \/ cver[k] + 1 = ver'[k]
    BY <1>1, <2>4
  <2>6. Applied(k, want)'
    BY <2>1, <2>2, <2>4, <2>5 DEF Applied
  <2> QED
    BY <2>1, <2>2, <2>3, <2>6
<1>4. CASE ApplyUpdate(k)
  <2>1. /\ cobj[k] # Absent /\ obj[k] # Absent /\ obj[k].rv = cobj[k].rv /\ obj[k] \in OwnedObj
        /\ NextObject(err, owned \ {[kind |-> k, uid |-> cobj[k].uid]})
    BY <1>1, <1>4 DEF ApplyUpdate
  <2>2. CASE Written(obj[k], k) = obj[k]
    <3>1. UNCHANGED <<obj, ver>>
      BY <1>4, <2>2 DEF ApplyUpdate
    <3>2. cobj[k] = obj[k]
      BY <2>1 DEF ConvergedParts, VersionsInv
    <3>3. obj[k].content = Render(k, want)
      <4>1. Written(obj[k], k).content = Render(k, want)
        BY <2>1 DEF Written, OwnedObj
      <4> QED
        BY <2>2, <4>1
    <3> QED
      BY <2>1, <3>1, <3>2, <3>3 DEF Applied, NoneChanged
  <2>3. CASE Written(obj[k], k) # obj[k]
    <3> DEFINE o == [Written(obj[k], k) EXCEPT !.rv = ver[k] + 1]
    <3>1. o \in OwnedObj
      BY <1>1, <1>2, <2>1, WrittenType
    <3>2. o.rv = ver[k] + 1
      BY <1>1, <2>1, <3>1 DEF Written, OwnedObj
    <3>3. obj' = [obj EXCEPT ![k] = o] /\ ver' = [ver EXCEPT ![k] = @ + 1]
      BY <1>4, <2>3 DEF ApplyUpdate
    <3> HIDE DEF o
    <3>4. ObjectChanges(k, o)
      BY <3>1, <3>2, <3>3 DEF ObjectChanges
    <3>5. ver'[k] = ver[k] + 1 /\ cver[k] # ver'[k]
      BY <1>1, <3>3
    <3>6. Applied(k, want)'
      BY <2>1, <3>5 DEF Applied
    <3> QED
      BY <2>1, <3>1, <3>4, <3>6
  <2> QED
    BY <2>2, <2>3
<1>5. CASE ApplyNothing(k)
  <2>1. /\ cobj[k] # Absent /\ cobj[k].content = Render(k, want) /\ UNCHANGED <<obj, ver>>
        /\ NextObject(err, owned \ {[kind |-> k, uid |-> cobj[k].uid]})
    BY <1>5 DEF ApplyNothing, NeedsUpdate
  <2> QED
    BY <2>1 DEF Applied, NoneChanged
<1> QED
  BY <1>3, <1>4, <1>5

LEMMA ApplyConverged == TypeOK /\ AcceptedParts /\ ConvergedParts /\ Apply => ConvergedParts'
<1> SUFFICES ASSUME TypeOK, AcceptedParts, ConvergedParts, Apply PROVE ConvergedParts'
  OBVIOUS
<1>1. /\ UNCHANGED <<agent, cagent, cmodel, cobj, cver, db, up, dirty, skipped, me, want>>
      /\ pc = "apply" /\ up
  BY DEF Apply, ApplyCreate, ApplyUpdate, ApplyNothing, ApplyRejected, ApplyFails, NextObject, cache,
         AcceptedParts, WorkerInv
<1>0. PICK k \in Kinds : k = Manifest[at]
  BY <1>1, NextKind DEF TypeOK
<1>2. k \in Kinds /\ k \in Emitted /\ at \in Nat /\ at >= 1 /\ at <= Len(Manifest) /\ Len(Manifest) \in Nat
  BY <1>0, <1>1, ConstantsAssumption DEF Emitted, TypeOK, WorkerTypeOK
<1>3. SameCopy(cagent)' /\ SameCopy(me)'
  BY <1>1 DEF ConvergedParts, SameCopy
<1>4. CASE ApplyRejected(k) \/ ApplyFails(k)
  <2>1. UNCHANGED <<obj, ver>> /\ err' # "none" /\ pc' \in Passing
    BY <1>4 DEF ApplyRejected, ApplyFails, NextObject, Passing
  <2>2. VersionsInv' /\ LeftInv'
    BY <1>1, <2>1 DEF ConvergedParts, VersionsInv, LeftInv
  <2> QED
    BY <1>3, <2>1, <2>2 DEF ConvergedParts, PassDone, RemoveDone, IdleDone, Passing
<1>5. CASE ApplyCreate(k) \/ ApplyUpdate(k) \/ ApplyNothing(k)
  <2>1. /\ Applied(k, want)'
        /\ NoneChanged \/ \E o \in OwnedObj : ObjectChanges(k, o)
    BY <1>1, <1>2, <1>5, ApplyObject
  <2>2. PICK rest :
          /\ NextObject(err, rest)
          /\ \A j \in Kinds \ {k} : \A u : [kind |-> j, uid |-> u] \in owned => [kind |-> j, uid |-> u] \in rest
    BY <1>1, <1>2, <1>5, ApplyObject
  <2>3. /\ VersionsInv'
        /\ \A j \in Kinds : Applied(j, want) => Applied(j, want)'
        /\ \A j \in Kinds : Disowned(j) => Disowned(j)'
    BY <1>1, <1>2, <2>1, ChangedObject, UnchangedObjects DEF ConvergedParts
  <2>4. LeftInv'
    <3>1. \A j \in Kinds : j # k => obj'[j] = obj[j]
      BY <2>1 DEF NoneChanged, ObjectChanges, TypeOK, ApiTypeOK
    <3> QED
      BY <1>1, <1>2, <3>1 DEF ConvergedParts, LeftInv
  <2>5. /\ err' = err /\ owned' = rest /\ at' = at + 1
        /\ pc' = IF at < Len(Manifest) THEN "apply"
                 ELSE IF err # "none" THEN "status"
                 ELSE IF rest = {} THEN "store" ELSE "prune"
    BY <2>2 DEF NextObject
  <2>6. PassDone'
    <3> SUFFICES ASSUME err = "none", ~dirty PROVE PassDone'
      BY <1>1, <2>5 DEF PassDone
    <3>1. /\ cagent # Absent /\ cmodel # Absent /\ want = CachedConfig
          /\ \A i \in 1 .. at - 1 : Applied(Manifest[i], want)
          /\ \A j \in Kinds \ Emitted : Disowned(j) \/ [kind |-> j, uid |-> cobj[j].uid] \in owned
      BY <1>1 DEF ConvergedParts, PassDone, Passing
    <3>2. ASSUME NEW i \in 1 .. at' - 1 PROVE Applied(Manifest[i], want)'
      <4>1. CASE i = at
        BY <1>0, <2>1, <4>1
      <4>2. CASE i # at
        <5>1. i \in 1 .. at - 1 /\ Manifest[i] \in Kinds
          BY <1>2, <2>5, <4>2, ConstantsAssumption
        <5> QED
          BY <2>3, <3>1, <5>1
      <4> QED
        BY <4>1, <4>2
    <3>3. \A j \in Kinds \ Emitted : Disowned(j)' \/ [kind |-> j, uid |-> cobj'[j].uid] \in owned'
      BY <1>1, <1>2, <2>2, <2>3, <2>5, <3>1
    <3>4. pc' # "apply" => at' = Len(Manifest) + 1
      BY <1>2, <2>5
    <3>5. pc' # "status" /\ (pc' = "store" => owned' = {})
      BY <2>5
    <3>6. CachedConfig' = want'
      BY <1>1, <3>1 DEF CachedConfig
    <3> QED
      BY <1>1, <3>1, <3>2, <3>3, <3>4, <3>5, <3>6 DEF PassDone
  <2>7. pc' # "idle" /\ pc' # "remove"
    BY <2>5
  <2> QED
    BY <1>3, <2>3, <2>4, <2>6, <2>7 DEF ConvergedParts, RemoveDone, IdleDone
<1> QED
  BY <1>0, <1>4, <1>5 DEF Apply

LEMMA PruneConverged ==
    ASSUME TypeOK, AcceptedParts, ConvergedParts, NEW o \in owned, Prune(o)
    PROVE  ConvergedParts'
<1>1. /\ UNCHANGED <<agent, cagent, cmodel, cobj, cver, db, up, dirty, skipped, me, want, at>>
      /\ pc = "prune" /\ owned' = owned \ {o} /\ o.kind \in Kinds
      /\ pc' = IF owned' # {} THEN "prune" ELSE IF err' = "none" THEN "store" ELSE "status"
  BY DEF Prune, cache, TypeOK, WorkerTypeOK
<1>2. \/ NoneChanged /\ err' = "prune"
      \/ ObjectChanges(o.kind, Absent) /\ err' = err
  BY DEF Prune, RemoveObject, ObjectChanges, NoneChanged
<1>3. /\ VersionsInv'
      /\ \A j \in Kinds : Applied(j, want) => Applied(j, want)'
      /\ \A j \in Kinds : Disowned(j) => Disowned(j)'
      /\ err' = err => cver'[o.kind] # ver'[o.kind] \/ err = "prune"
  BY <1>1, <1>2, ChangedObject, UnchangedObjects DEF ConvergedParts
<1>4. SameCopy(cagent)' /\ SameCopy(me)'
  BY <1>1 DEF ConvergedParts, SameCopy
<1>5. LeftInv'
  <2>1. \A j \in Kinds : obj[j] = Absent => obj'[j] = Absent
    BY <1>1, <1>2 DEF ObjectChanges, NoneChanged, TypeOK, ApiTypeOK
  <2> QED
    BY <1>1, <2>1 DEF ConvergedParts, LeftInv
<1>6. PassDone'
  <2> SUFFICES ASSUME err' = "none", ~dirty PROVE PassDone'
    BY <1>1 DEF PassDone
  <2>1. err = "none" /\ cver'[o.kind] # ver'[o.kind]
    BY <1>2, <1>3
  <2>2. /\ cagent # Absent /\ cmodel # Absent /\ want = CachedConfig
        /\ at = Len(Manifest) + 1
        /\ \A i \in 1 .. at - 1 : Applied(Manifest[i], want)
        /\ \A j \in Kinds \ Emitted : Disowned(j) \/ [kind |-> j, uid |-> cobj[j].uid] \in owned
    BY <1>1, <2>1 DEF ConvergedParts, PassDone, Passing
  <2>3. \A i \in 1 .. at - 1 : Applied(Manifest[i], want)'
    <3>1. \A i \in 1 .. at - 1 : Manifest[i] \in Kinds
      BY ConstantsAssumption DEF TypeOK, WorkerTypeOK
    <3> QED
      BY <1>3, <2>2, <3>1
  <2>4. ASSUME NEW j \in Kinds \ Emitted
        PROVE  Disowned(j)' \/ [kind |-> j, uid |-> cobj'[j].uid] \in owned'
    <3>1. CASE [kind |-> j, uid |-> cobj[j].uid] = o
      <4>1. o.kind = j
        BY <3>1
      <4> QED
        BY <2>1, <4>1 DEF Disowned
    <3>2. CASE [kind |-> j, uid |-> cobj[j].uid] # o
      BY <1>1, <1>3, <2>2, <3>2
    <3> QED
      BY <3>1, <3>2
  <2>5. pc' \in {"prune", "store"} /\ (pc' = "store" => owned' = {})
    BY <1>1
  <2>6. CachedConfig' = want'
    BY <1>1, <2>2 DEF CachedConfig
  <2> QED
    BY <1>1, <2>2, <2>3, <2>4, <2>5, <2>6 DEF PassDone
<1>7. pc' # "idle" /\ pc' # "remove"
  BY <1>1
<1> QED
  BY <1>3, <1>4, <1>5, <1>6, <1>7 DEF ConvergedParts, RemoveDone, IdleDone

LEMMA StoreConverged == TypeOK /\ AcceptedParts /\ ConvergedParts /\ Store => ConvergedParts'
<1> SUFFICES ASSUME TypeOK, AcceptedParts, ConvergedParts, Store PROVE ConvergedParts'
  OBVIOUS
<1>1. /\ UNCHANGED <<agent, obj, ver, cagent, cmodel, cobj, cver, up, dirty, skipped, me, want, owned, at>>
      /\ pc = "store" /\ pc' = "status"
      /\ (err' = err /\ db' = [cfg |-> want, uid |-> me.uid, gen |-> me.gen]) \/ err' = "store"
  BY DEF Store, api, cache
<1>2. VersionsInv' /\ SameCopy(cagent)' /\ SameCopy(me)' /\ LeftInv'
  BY <1>1 DEF ConvergedParts, VersionsInv, SameCopy, LeftInv
<1>3. PassDone'
  <2> SUFFICES ASSUME err' = "none", ~dirty PROVE PassDone'
    BY <1>1 DEF PassDone
  <2>1. db' # Absent /\ db'.cfg = want /\ err = "none"
    <3>1. want \in Config /\ me.uid \in Nat /\ me.gen \in Nat
      BY <1>1 DEF TypeOK, WorkerTypeOK, AgentObj
    <3>2. db' = [cfg |-> want, uid |-> me.uid, gen |-> me.gen] /\ err = "none"
      BY <1>1
    <3> QED
      BY <3>1, <3>2, AbsentAssumption DEF Row
  <2>2. /\ cagent # Absent /\ cmodel # Absent /\ want = CachedConfig
        /\ at = Len(Manifest) + 1 /\ owned = {}
        /\ \A i \in 1 .. at - 1 : Applied(Manifest[i], want)
        /\ \A j \in Kinds \ Emitted : Disowned(j) \/ [kind |-> j, uid |-> cobj[j].uid] \in owned
    BY <1>1, <2>1 DEF ConvergedParts, PassDone, Passing
  <2> QED
    BY <1>1, <2>1, <2>2 DEF PassDone, Applied, Disowned, CachedConfig
<1> QED
  BY <1>1, <1>2, <1>3 DEF ConvergedParts, RemoveDone, IdleDone

LEMMA RemoveConverged == TypeOK /\ AcceptedParts /\ ConvergedParts /\ Remove => ConvergedParts'
<1> SUFFICES ASSUME TypeOK, AcceptedParts, ConvergedParts, Remove PROVE ConvergedParts'
  OBVIOUS
<1>1. /\ UNCHANGED <<agent, obj, ver, cagent, cmodel, cobj, cver, up>>
      /\ pc = "remove" /\ pc' = "idle" /\ me' = Absent /\ (dirty => dirty')
  BY DEF Remove, Return, Requeue, Finish, api, cache
<1>2. VersionsInv' /\ SameCopy(cagent)' /\ SameCopy(me)' /\ LeftInv'
  BY <1>1 DEF ConvergedParts, VersionsInv, SameCopy, LeftInv
<1>3. ~dirty' => cagent' = Absent
  BY <1>1 DEF ConvergedParts, RemoveDone
<1> QED
  BY <1>1, <1>2, <1>3 DEF ConvergedParts, PassDone, RemoveDone, IdleDone, Passing

\* The verdict on the pass.
LEMMA StatusConverged == TypeOK /\ AcceptedParts /\ ConvergedParts /\ UpdateStatus => ConvergedParts'
<1> SUFFICES ASSUME TypeOK, AcceptedParts, ConvergedParts, UpdateStatus PROVE ConvergedParts'
  OBVIOUS
<1>1. /\ UNCHANGED <<obj, cagent, cmodel, cobj, cver, db, up>>
      /\ pc = "status" /\ pc' = "idle" /\ me' = Absent /\ me # Absent /\ me \in AgentObj
      /\ (dirty => dirty') /\ (skipped => skipped')
      /\ \A k \in Kinds : ver'[k] = ver[k]
  <2>1. "Agent" \notin Kinds
    BY ConstantsAssumption
  <2> QED
    BY <2>1, AbsentAssumption DEF UpdateStatus, Return, Requeue, Finish, cache, TypeOK, ApiTypeOK, WorkerTypeOK
<1>2. VersionsInv' /\ LeftInv' /\ SameCopy(me)'
  BY <1>1 DEF ConvergedParts, VersionsInv, SameCopy, LeftInv
<1>3. CachedConfig' = CachedConfig
      /\ \A k \in Kinds : (Applied(k, CachedConfig) => Applied(k, CachedConfig)') /\ (Disowned(k) => Disowned(k)')
  BY <1>1 DEF Applied, CachedConfig, Disowned
<1>4. err = "none" /\ ~dirty' => AllDone'
  <2> SUFFICES ASSUME err = "none", ~dirty PROVE AllDone'
    BY <1>1
  <2>1. /\ cmodel # Absent /\ want = CachedConfig /\ at = Len(Manifest) + 1 /\ owned = {}
        /\ \A i \in 1 .. at - 1 : Applied(Manifest[i], want)
        /\ \A j \in Kinds \ Emitted : Disowned(j) \/ [kind |-> j, uid |-> cobj[j].uid] \in owned
        /\ db # Absent /\ db.cfg = want
    BY <1>1 DEF ConvergedParts, PassDone, Passing
  <2>2. \A k \in Emitted : k \in Kinds /\ Applied(k, CachedConfig)
    BY <2>1, ConstantsAssumption DEF Emitted
  <2> QED
    BY <1>1, <1>3, <2>1, <2>2 DEF AllDone
<1>5. Accepted = "True" => err = "none"
  BY DEF Accepted, TypeOK, WorkerTypeOK
<1>6. me.status \in Status /\ Conditions.acc = Accepted
  <2>1. me.status \in Status
    BY <1>1 DEF AgentObj
  <2> QED
    BY <2>1 DEF Conditions, AcceptedChanged, Status
<1>7. CASE StatusUnchanged /\ UNCHANGED <<agent, ver>>
           /\ skipped' = (skipped \/ (agent # Absent /\ agent.rv # me.rv))
  <2>1. SameCopy(cagent)'
    BY <1>1, <1>7 DEF ConvergedParts, SameCopy
  <2>2. ~skipped' /\ agent # Absent => agent.status = me.status
    BY <1>1, <1>7 DEF ConvergedParts, SameCopy
  <2>3. StatusUnchanged => me.status.acc = Accepted
    BY <1>6 DEF StatusUnchanged
  <2>4. IdleDone'
    BY <1>4, <1>5, <1>7, <2>2, <2>3 DEF IdleDone
  <2> QED
    BY <1>1, <1>2, <2>1, <2>4 DEF ConvergedParts, PassDone, RemoveDone, Passing
<1>8. CASE /\ agent # Absent
           /\ agent' = [agent EXCEPT !.status = [Conditions EXCEPT !.observed = me.gen],
                                     !.rv = ver["Agent"] + 1]
  <2>1. agent \in AgentObj /\ ver["Agent"] \in Nat
    BY <1>8, AgentVersion DEF TypeOK, ApiTypeOK
  <2>2. /\ agent'.rv = ver["Agent"] + 1 /\ agent'.uid = agent.uid /\ agent'.gen = agent.gen
        /\ agent'.spec = agent.spec /\ agent'.status = [Conditions EXCEPT !.observed = me.gen]
    BY <1>8, <2>1 DEF AgentObj
  <2>3. SameCopy(cagent)'
    <3>1. cagent # Absent => cagent.rv \in Nat /\ cagent.rv <= ver["Agent"]
      BY DEF AcceptedParts, SameVersionSameAgent, TypeOK, CacheTypeOK, AgentObj
    <3> QED
      BY <1>1, <1>8, <2>1, <2>2, <3>1 DEF ConvergedParts, SameCopy
  <2>4. agent'.status.acc = Accepted
    <3>1. Conditions \in Status
      <4>1. Available \in {"Unknown", "True", "False"} /\ me.gen \in Nat
        BY <1>1 DEF Available, AgentObj
      <4>2. Accepted \in {"True", "translate", "apply", "prune", "store"}
        BY DEF Accepted, TypeOK, WorkerTypeOK
      <4> QED
        BY <1>6, <4>1, <4>2 DEF Conditions, Status
    <3> QED
      BY <1>6, <2>2, <3>1 DEF Status
  <2>5. IdleDone'
    BY <1>4, <1>5, <2>4 DEF IdleDone
  <2> QED
    BY <1>1, <1>2, <2>3, <2>5 DEF ConvergedParts, PassDone, RemoveDone, Passing
<1>9. CASE UNCHANGED <<agent, ver>> /\ dirty' = TRUE
  BY <1>1, <1>2, <1>9 DEF ConvergedParts, SameCopy, PassDone, RemoveDone, IdleDone, Passing
<1> QED
  BY <1>7, <1>8, <1>9 DEF UpdateStatus, Requeue

LEMMA StutterConverged == ConvergedParts /\ (ToolPass \/ UNCHANGED vars) => ConvergedParts'
<1> SUFFICES ASSUME ConvergedParts, UNCHANGED agentVars PROVE ConvergedParts'
  BY DEF ToolPass, vars
<1> QED
  BY DEF ConvergedParts, VersionsInv, SameCopy, LeftInv, PassDone, RemoveDone, IdleDone, AllDone, Applied,
       Disowned, CachedConfig, agentVars, api, cache, worker

\* A controller at rest has nothing left to learn, so what it applied is what is
\* there.
LEMMA RestIsConverged ==
    ASSUME TypeOK, ConvergedParts, Quiescent, ~skipped, agent # Absent, agent.status.acc = "True"
    PROVE  Converged
<1>1. AllDone /\ cagent = agent /\ cmodel = model /\ up /\ \A k \in Kinds : cver[k] = ver[k]
  BY DEF ConvergedParts, IdleDone, Quiescent
<1>2. \A k \in Kinds : cobj[k] = obj[k] /\ cver[k] \in Nat
  BY <1>1 DEF ConvergedParts, VersionsInv, TypeOK, CacheTypeOK
<1>3. CachedConfig = [spec |-> agent.spec, model |-> model]
  BY <1>1 DEF CachedConfig
<1>4. ASSUME NEW k \in Kinds, k \in Emitted
      PROVE  obj[k] # Absent /\ obj[k].content = Render(k, CachedConfig)
  BY <1>1, <1>2, <1>4 DEF AllDone, Applied
<1>5. ASSUME NEW k \in Kinds, k \notin Emitted PROVE obj[k] = Absent
  BY <1>1, <1>2, <1>5 DEF AllDone, Disowned, Quiescent
<1> QED
  BY <1>1, <1>3, <1>4, <1>5 DEF Converged, AllDone

\* When nothing is left to do, an Agent reported as accepted really is deployed,
\* stored and pruned as its spec and ModelConfig say, for any manifest and any
\* failures, crashes, edits and delays, unless a pass kept its status to itself.
\* Whatever the worker applied is what it rendered, or the cache will tell of
\* another change, and then the key is queued again.
THEOREM AcceptedConverges == Spec => []QuiescentAcceptedConverged
<1>1. Spec => [](TypeOK /\ AcceptedParts)
  <2>1. TypeOK /\ AcceptedParts /\ [Next]_vars => AcceptedParts'
    BY ClusterAccepted, InformersAccepted, WorkerAccepted, LifeAccepted, StutterAccepted
    DEF Next
  <2> QED
    BY <2>1, InitAccepted, TypeCorrect, PTL DEF Spec
<1>2. TypeOK /\ AcceptedParts /\ ConvergedParts /\ [Next]_vars => ConvergedParts'
  BY ClusterConverged, InformersConverged, LifeConverged, BeginConverged, ApplyConverged, PruneConverged,
     StoreConverged, RemoveConverged, StatusConverged, StutterConverged DEF Next, Worker
<1>3. TypeOK /\ ConvergedParts => QuiescentAcceptedConverged
  BY RestIsConverged DEF QuiescentAcceptedConverged, AcceptedIsConverged
<1> QED
  BY <1>1, <1>2, <1>3, InitConverged, PTL DEF Spec
=============================================================================
