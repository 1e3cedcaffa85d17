# Formal models of kagent (maduro)

TLA+ models of the Kubernetes controller (`go/`) and of the agent engines
(`python/`) of this repository, with the TLC configurations that check them on
small instances and TLAPS proofs of the results that matter most. Paths below
are relative to the repository.

## 1. The system

| Component | State it keeps | Operations | Talks to |
|---|---|---|---|
| Agent controller (`go/internal/controller/agent_controller.go`, `reconciler/reconciler.go`) | an Agent's owned objects, its status, the `agent` row; informer caches and a work queue | reconcile an Agent, delete its row, watch Agents, owned objects, ModelConfigs, tool servers | API server, database |
| Tool-server controllers (`remote_mcp_server_controller.go`, `mcp_server_tool_controller.go`, `service_controller.go`) | the `toolserver` and `tool` rows, a RemoteMCPServer's status; the mutex `upsertLock` | discover tools, refresh rows, periodic requeue, deletion | API server, MCP servers, database |
| ModelConfig controller (`modelconfig_controller.go`) | the status' secret hash | reconcile, watch Secrets | API server; its status is an input of Agents |
| Agent translator (`translator/agent/adk_api_translator.go`) | none | validate the agent graph, render the manifest | API server (reads) |
| Database (`go/internal/database`) | all rows; `initLock` | upsert, soft delete, lists, reset | controllers, handlers |
| HTTP server and handlers (`go/internal/httpserver`) | none | CRUD, sessions, tasks, checkpoints, memory | database, API server |
| A2A registrar and mux (`go/internal/a2a`) | the handler of each Agent | informer events, request routing | agents' pods |
| Engines (`python/packages`): ADK, LangGraph, CrewAI executors | one execution per request, the event queue, `_save_events` | execute, interrupt, resume, save the task | A2A server, HTTP API |
| Session and checkpoint services (Python) | none of their own | sessions, events, checkpoints, writes | HTTP API |
| CLI, UI, Helm charts, samples | little | I/O | HTTP API |

Nothing spans these parts but the rows and objects they share: there are no
transactions across the API server and the database, reads of the controllers
come from caches that lag, and every process may end at any time. The hard
behaviours are therefore stale reads, one step of several failing, retries that
do or do not happen, restarts, and the asyncio interleavings of an engine.
`PROJECT.json` lists each of them at its line under `hazards`.

What makes a component correct:

- Agent controller: at rest, an accepted Agent is what the cluster and the
  database hold; no row outlives its Agent; it comes to rest.
- Tool servers: rows and status come to be what the MCP server offers; rows of
  deleted servers go.
- Engines: the stored task tells how the execution stands; a decision is given
  to the question it answers; requests end.
- Sessions and checkpoints: what is read back is what was written, nothing is
  missing in between, and what an engine adds stands behind it in its order.
- Agent graph: accepted Agents do not call each other in a circle, and an Agent
  is not rejected for less.
- Watches: a change queues exactly the Agents that use the changed object.
- Registrar: the mux serves exactly the Agents there are.

## 2. Modules

One module per component. Modules that interact through rows share `Rows`; the
others meet only in objects somebody else keeps, so each models what it sees of
them. The MC modules give the constants their values; `MCControlPlane` and
`MCEngines` also put the small components side by side, so that a behaviour of
the whole is a behaviour of each part, which is proved (`ControlIsParts`,
`EnginesSumProofs`).

| Module | Models | Run in |
|---|---|---|
| `AgentReconcile` (theorems in `AgentReconcileProofs`) | the Agent controller, its caches and queue, owned objects, status, row | `MCAgentReconcile`, `MCControlPlane` |
| `AgentGraph` (theorems in `AgentGraphProofs`) | `validateAgent`: the agents an Agent may call, while they change | `MCAgentGraph` |
| `ToolServerReconcile` (theorems in `ToolServerReconcileProofs`) | the three tool-server controllers and the mutex they share | `MCToolServerReconcile` |
| `ToolWatches` (theorems in `ControlProofs`) | the watches of the Agent controller against what the translator reads | `MCControlPlane` |
| `ModelConfigs` (theorems in `ControlProofs`) | a ModelConfig or Memory: its handlers, its controller, its Secrets | `MCControlPlane`, by itself |
| `AgentApi` (theorems in `ControlProofs`) | POST, PUT and DELETE of Agents | `MCControlPlane` |
| `A2AHandlers` (theorems in `ControlProofs`) | the A2A registrar and its mux | `MCControlPlane` |
| `DbManager` (theorems in `ControlProofs`) | `Initialize` and `Reset` of the database | `MCControlPlane` |
| `Rows` | a table behind `database/service.go`: upsert, soft delete, order | the modules that EXTEND it |
| `DatabaseClient`, `FakeClient` (theorem in `DatabaseProofs`) | the database client, and the client of the handlers' tests it implements | `MCEngines` |
| `Sessions` (theorems in `EngineProofs`) | a session and its events: handlers, ADK session service, executor | `MCEngines` |
| `Checkpoints` (theorem in `EngineProofs`) | a LangGraph thread: checkpointer and handlers | `MCEngines`, `MCCheckpoints` |
| `CrewRuns` (theorems in `EngineProofs`) | requests that share a crew: executor, listeners, memory, flow state | `MCEngines` |
| `TaskExecution`, `TaskDialog` (theorems in `EngineProofs`) | LangGraph executor, human-in-the-loop, task store, and the dialog of a task they implement | `MCTaskExecution`, `MCEngines` |
| `TaskRuns`, `TaskLife` (theorems in `EngineProofs`) | ADK executor and result aggregator, and the life of a task they implement | `MCEngines` |
| `AgentDeploy` (theorems in `ClientProofs`) | `kagent deploy` | `MCEngines` |
| `TerminalChat` (theorems in `ClientProofs`) | the workspace of the terminal UI | `MCEngines` |
| `ServerWizard` (theorems in `ClientProofs`) | the form that describes an MCP server | `MCEngines` |
| `McpAdd` (theorems in `ClientProofs`) | `kagent add-mcp` | `MCEngines` |
| `MCControlPlane` (theorems in `ControlProofs`) | the controllers, handlers, mux and manager side by side | itself |
| `MCEngines` (theorems in `EnginesSumProofs`) | the engines, their stores and the commands side by side | itself |

### AgentReconcile

One Agent (one `NamespacedName`). `agent`, `model` and `obj` are the API
server's objects, `cagent`, `cmodel`, `cobj` the informer caches every read of
the reconciler goes through (`mgr.GetClient()`); `ver`/`cver` number the changes
of an object so that a merged event is told from one that was seen. `dirty` is
the work queue, `pc`, `me`, `want`, `owned`, `at`, `err` the locals of
`ReconcileKagentAgent`. A pass is `Begin` (read, translate, `FindOwnedObjects`),
one `Apply` per object of the manifest (`createOrUpdate`, with the `continue` of
`reconcileDesiredObjects`), one `Prune` per object no longer wanted, `Store`
(`upsertAgent`) and `UpdateStatus` (`reconcileAgentStatus`); an Agent that is
gone takes `Remove`. Each of those is one call to the API server or the
database, so events, edits and crashes fall between them. Abstracted: the
manifest is a function `Render` of kind, spec and ModelConfig (what is asked of
it is only whether it is the current one); messages of conditions; all kinds but
those of the constant `Manifest`.

`createOrUpdate` writes an object when the mutated copy differs from the cached
one (`NeedsUpdate`). Secret, Deployment and Service (`Rewritten`) always differ:
the mutations put back values the API server had defaulted (`mutate.go:91-121`),
so they are written in every pass, and with a cache that lags each write can meet
a conflict. The other kinds compare equal once they are rendered. Owner
references are written by the mutation as well, but are not among what is
compared (`reconciler_utils.go:81-86`).

`upsertLock` is the mutex `Store` needs (`reconciler.go:625`). The tool-server
controllers hold it while they ask an MCP server, without a deadline of their
own; `ToolPass` is one of them taking it and giving it up, at any time and with
no fairness.

`SetModel` stands for every change that queues the Agent from outside: the
ModelConfig's spec or its secret hash. The watches on tool servers queue the
same key in the same way; which keys they queue is the subject of `ToolWatches`.

### ToolServerReconcile

A set of servers of the three kinds, one worker `w[kind]` per controller, the
queue and the keys that come back after 60 seconds (`later`). A pass is
`LockAndStore`, `ListTools`, one `SaveTool`/`DropTool` per row (the TODO at
`database/client.go:265` says there is no transaction), `Upserted`, and for a
RemoteMCPServer `Recall` after a failure and `UpdateStatus`. `Notifies` is the
predicate of each controller. `enabled` is the label: `kagent.dev/mcp-service`
for a Service, `kagent.dev/discovery` for an MCPServer. The order of the tools
in a status is left out. The HTTP handlers for tool servers create and delete
the same objects with one call each, which is what `CreateServer` and `DeleteServer` of a
user are here.

### TaskExecution

One task. The engine runs on one asyncio loop, so an action is the code between
two awaits that really wait: publishing to the event queue does not, which is
why `GraphInterrupt` publishes `input_required` and enters `_save_events` in one
step. The consumer (`Take`, `Save`, `SaveFails`) belongs to a2a-sdk: it saves
the task after each event, stops behind a final event or an error, and the
request ends when consumer and executor have. The graph is external as well: it
may say something, interrupt, raise, end or hang. Interrupts are numbered to
tell one question from another; a stored `input_required` carries the number of
its question. The model assumes that the request context carries the task store
(`context.task_store`, `_executor.py:161`), that an interrupt is the last update
of a stream, and that requests of one task do not overlap.

`TaskDialog` is what a client that polls the store may rely on: a task asks only
while it works, each time something it never asked before; until the next message
nothing happens to a task that asks but that it fails; a task that is over stays
over. `LifeOfDialog` says that `TaskExecution` implements it, with the state the
task is stored in as `life`, its question as `question`, all the questions that
were stored as `questions`. The phase of the request (`DialogPhase`) is read off
what is not saved yet (`Unsaved`): a task asks until the consumer comes to a
`working` again.

### AgentGraph

The Agents of one namespace and the agent tools of each (`spec`, the informer
cache). `validateAgent` recurses: `stack` holds its calls, `state` the `tState`
they all share, because `with` returns the pointer it was called on. `Visit` is
one turn of the loop (one `Get`), `Return` the end of a call, `Translate` one
`Get` of `translateInlineAgent`, `UpdateStatus` the Accepted condition with the
conflict it meets when the Agent changed meanwhile (`touched`). Users create,
edit and delete Agents between any two of these steps; only the Agent that
changed is queued. `visitedAgents` is a set here, being asked for membership
only. A status update that fails because the API server is ahead of the cache
only repeats a pass, and is left out.

`Acceptable` is the reference definition of what the walk accepts: nobody
missing, at most `MAX_DEPTH` mentions of agents in the whole graph, no Agent with
agent tools of its own mentioned twice. That is a tree but for its leaves, which
is less than the acyclic graphs of `DagAccepted`.

### ToolWatches

Agents (`spec`), the objects they use (`things`, numbered versions) and a lagging
cache of each. An informer event runs a finder (`EnqueueRequestsFromMapFunc`)
some time after the cache changed, and the finder lists the Agents of *its*
cache. A pass (`BeginRender`, one `ReadNext` per `Get` of the translator) reads
the objects at different times; `rendered` is what it made of them. Finders and
translator each parse a reference in a way of their own: `Target` is the
translator's, the finders' are in `find...`. A reference is its `form`
(apiGroup/kind as written) and a name. `Unfollowed` names the forms for which
the two differ, `/MCPServer`, no kind at all, Services of the `core` group, and a
RemoteMCPServer listed behind a tool of another type: such an Agent is not
rendered anew when its tool server changes.

### ModelConfigs

A ModelConfig `m`, the Secret of its name with the API key, and a second Secret
(`ca`). Requests (`client[c]`) are a read of the cache and one step per write;
between them others, kubectl (`EditSecret`), the garbage collector and the
controller act. The controller's pass is `ReconcileModelConfig` (read),
`computeStatusSecretHash` (one Secret after the other) and
`reconcileModelConfigStatus` (write, if the cached status differs). `sort`
chooses a Memory instead, whose handlers have the same shape.

### AgentApi

The Agents of a namespace as the handlers see them: a cache, and requests
between their read and their write (`request[c]`). A POST is validated over a
client that holds the new Agent already (`WithNew`); a PUT only carries the
resource version it read. `validated` remembers which Agents were stored while
what they were validated against still held.

### A2AHandlers, DbManager

`told` is the informer's queue of changes for the registrar's three functions;
a lost watch shows as one update that spans a deletion and a creation.
`Changed` is the comparison of `UpdateFunc`. `Initialize` and `Reset` of the
database try the lock, migrate or drop one table at a time, and `Reset` calls
`Initialize` with the lock in its hands.

### Rows, DatabaseClient, FakeClient

A table is a set of rows with `created_at` and a deletion mark. `DatabaseClient`
is which columns each method saves, asks for and deletes by; `FakeClient` is the
mutex and the maps of `database/fake`, against which the handlers are tested.
`RefinesFake` is the refinement: `maps` and `stream` are what the tables show,
and each call has the same answer. The guards of `DbNext` and
`SamplesAssumption` name where the two differ, which is what the handlers' tests
cannot see: a checkpoint stored again, writes and memories (lists in one, upserts
in the other), tool servers of one name in two groups, the owner of a task, and
the order of events.

### Sessions, Checkpoints, CrewRuns

Each is one conversation of one engine: the tables behind the HTTP handlers, a
handler that makes two database calls in two steps, and the Python service that
calls it. `Sessions`: two agents and a user at one session; `Load` builds the
session from the events newest first and appends each once more
(`_session_service.py:101`). `MemoryTellsSession` speaks of what is there and
what stands behind it; in which order and how often the events from before
the agent joined are listed it leaves open.
`Checkpoints`: supersteps of tasks, each storing its writes (`Send` of a request,
`Answered`), a pod that ends anywhere (`PodEnds`), and a request that arrives
when the thread was taken up again (`LateRequest`). `CrewRuns`: requests
that bind the one `long_term_memory` of a crew and hang listeners on the event
bus of the process; the crew may save, search (`Containing`: which descriptions
hold the words searched for), reset and report in any order. A flow may save its
state, but a load that finds one fails: the answer has no `flow_uuid`, which
`KagentFlowStatePayload` requires (`_state.py:10-14`).
google-adk, LangGraph and CrewAI are outside and chosen freely within what their
callbacks allow.

### TaskRuns, TaskLife

`TaskRuns` is the ADK executor at one task: the events an agent may emit in any
order (`Emits`), their conversion, the aggregator that rewrites them to working
and keeps the worst, the final status and artifact, and the consumer that saves
each. `TaskLife` is what a client may see of a task, in six lines; `LifeOfTask`
says that `TaskRuns` implements it.

### AgentDeploy, TerminalChat

`AgentDeploy`: a command writes the agent and then each server of its manifest,
for each of them the Secrets and then the object that refers to them
(`Secrets`, `ObjectOf`), each with a `Look` (Get) and a `CreateOrUpdate`, and
ends with the restart; several commands overlap, any call may fail, and the
controller, the rollout and the kubelet act meanwhile. The headers of a server
are a Go map, so their Secrets are written in any order. A manifest's servers
have different names (`ManifestsAssumption`): `add-mcp` refuses a second of a
name (`add_mcp.go:104`), though the check of a manifest that is loaded does not
(`manifest_manager.go:101`); of two servers of one name the second would
overwrite the first. A server may be named as the agent, and then shares the
agent's Secret, where one of its variables may take the place of a key of the env
file (`SparesEnvFile` excludes it). Names and keys of Secrets are what
`sanitizeForSecretName`, `sanitizeForSecretKey` and `strings.ToLower` make of
headers and variables, three functions the model is given, so that two headers
may share a Secret and two variables a key; of variables with one key the Go map
decides which is written (`wins`). The image keeps its name and the pull policy
is IfNotPresent, so a pod starts with the registry's program or with one its
node has already (`nodeImages`, `StartPods`).

`TerminalChat`: `Update` takes one message at a time from `inbox`, which the
commands in `running` fill in any order; a key is `Press...`. An open dialog
takes every message (`Captured`).

### ServerWizard, McpAdd

`ServerWizard`: `Enter...` is Enter on each page, `Esc` goes back, `Tab` and
`Type` go to the inputs in `focused`. What the code does there is surprising in
several places, and modelled so: `Focus` takes focus from no other input, so a
second header's name is also typed into its value, and a page come to again may
have two inputs with focus; Tab on the page of a package goes to the command,
which is not shown; Tab on the page of a build panics, and that page cannot be
completed, since Enter is not handed to its file picker; "q" quits wherever it
is typed; a user who came back from a remote server keeps its URL and headers in
the result. `astray` marks the first three. `leftover` remembers which inputs
hold a text of a way that was gone back over.

`McpAdd`: a command is `LoadManifest`, `Asked`, `SaveManifest`, and then the
files made from `kagent.yaml`: `regenerateMcpToolsFile`,
`ensureMcpServerDirectory` per server, `RegenerateDockerCompose`, each one write
that may fail (`AddFault`) and leave the rest undone. `os.WriteFile` truncates
before it writes, so the file may be left as it was or cut short (`CutShort`):
with some of its servers, none, or text that does not parse (`parses`), after
which no command gets past `LoadManifest`. Of two commands that
overlap the second saves what it read before the first saved, and a server is
lost; a command that stopped half-way cannot be repeated, for the name exists.
`reported` and `whole` name the commands these do not concern; `reported` begins
anew when `kagent.yaml` is cut short.

## 3. Runs

| Run | Instance | Shows |
|---|---|---|
| `agent_reconcile` | 2 specs; Secret and Deployment and a leftover ConfigMap; 1 change, 1 fault, 1 crash, 1 cache update inside a pass; symmetric in the specs; 1,300,983 states | type invariant; an Agent accepted at rest is converged; accepted means stored; no orphan row |
| `agent_ready` | 2 specs, 2 kinds, 2 changes, violation | a pass that sees the ModelConfig gone and the Deployment available together writes neither: Ready stays out of date until the next event |
| `agent_rollout` | 2 specs, 2 kinds, 1 change, 1 fault, violation | a failed Secret write rolls the pods with the old config, for good |
| `agent_graph` | 3 agents, lists of up to 2 tools, limit 3; 1 change, 1 restart; symmetric in the agents | the walk's verdict is its reference definition; accepted agents form no circle at rest; the recursion stays within its limit |
| `agent_dag` | 4 agents, limit 10, violation | a diamond is rejected as a cycle |
| `toolservers` | a RemoteMCPServer and a Service, 2 tools; 1 change, 1 fault, 1 crash; symmetric in the tools | statuses at rest tell the rows; rows of deleted servers are gone or looked at again |
| `toolserver_liveness` | a RemoteMCPServer and an MCPServer, 1 tool, fair | rows and status converge to what is offered; rows of deleted servers go |
| `control_plane` | the Agent controller (1 spec; Secret, ServiceAccount and Deployment; 1 change, 1 fault), a ModelConfig (2 clients, 2 requests, edits and faults in all), watches (1 Agent, 5 kinds of objects, 2 changes), registrar (2 Agents, 4 changes, 1 failure, 1 restart), database manager (2 callers, 2 tables, 3 calls, 1 failure), Agents' API (2 clients, 2 Agents, 3 requests, 1 edit); fair; 409,185 states | the controller settles and rows of deleted Agents go; hashes and keys of ModelConfigs; renderings at rest; the mux; what a successful call of the manager means; no cycle through POSTs |
| `model_hash` | no clients, 3 edits by kubectl, violation | the hash of a Secret that was changed twice stays behind |
| `engines` | LangGraph task (5 messages, 4 sends, 3 interrupts, 1 failed save, 1 crash), ADK task (2 requests, 3 events, 1 fault), session (2 agents, 2 events, 2 edits, 1 lost answer), thread (3 steps, 2 crashes, 1 deletion), crew (2 requests of 2 sessions, 2 tasks, 3 calls), database client (3 saves of every kind of row), deploys (2 people, 3 manifests, 2 commands, 1 fault), terminal (2 agents, 2 sessions, 6 keys, 2 messages, 1 fault), form (3 typed texts, 2 steps back, 1 Tab), add-mcp (2 people, 3 servers, 3 commands, 1 fault); fair; 361,202 states | tasks in the store tell how the run stands; requests end; sessions, checkpoints and memories give back what was saved; the three refinements; a deploy that reports success is whole; one conversation per chat; what the form gives out is checked and shown; a server that was added stays |
| `task_resume` | 3 messages, 2 interrupts, 1 failed save, violation | an approval reaches a question that was never stored |
| `checkpoint_writes` | 2 tasks with 2 and 1 writes, violation | writes of two tasks of one checkpoint overwrite each other |

The parts of `control_plane` and of `engines` do not touch each other: what they
share (rows, objects) is inside each part, with everyone who writes it. A part
at rest keeps its initial state, so a run's states are the sum of its parts', and
an invariant of one part is checked on that part's whole state space.

Bounds. One change, one fault and one crash may fall at every point of a pass,
before it and after it; the hazards listed are each a race of one change or one
failure with one pass, and the passes themselves are not bounded. Two specs are
needed to tell a stale object from a current one; two tools for a refresh that
stops half-way (with one there is nothing in between); three interrupts for an
old question, a new one and an answered one; two requests of two sessions for
a crew that goes from one session to the other, and three calls for a memory
that is saved, reset and saved; two descriptions, one within the other, for a
search that finds more than its own; three steps and two
crashes for a checkpoint, a newer one and a late write to the first. A row of
each kind that agrees with another in all but one column of a key shows every
difference between keys. Three typed texts
fill the longest way through the form twice over, and two steps back reach each
page from the one behind it; three servers let two commands overlap and a third
come after. Three agents
with two tools each span every shape the walk tells apart (self, circle of two
and of three, two ways to a leaf and to an inner agent, a missing agent) and a
limit of 3 is met by some of them; every graph is an initial state, so one change
is enough to come from any graph to any neighbour. Two Agents suffice for a
cycle that two requests close together. `MaxVersions` stops counting
changes of owned objects, whose number the controller itself does not bound,
for it writes two of them in every pass: with 2 in `agent_reconcile` an object
that one pass made is collected, one that a later pass changed may stay, and
with 1 in `control_plane`, where no property needs them gone, none is. In
`agent_reconcile` the garbage collector matters to `NoOrphanRow` only, which
speaks of a cluster in which nothing is left to collect. The run's view leaves
out the pods, which no action reads, and the lock, since nothing can be done
while it is held that cannot be done while it is free. Two events of a session
are enough for each of two agents to store one while the other has read the list.
`MaxUnderWay` bounds the commands of the terminal that have not ended. Deadlock is
not checked where the bounds make the system stop, which is every run.
Symmetry is used in the runs without liveness only.

Fairness. A worker, an informer and a timer of controller-runtime run when they
can (weak fairness; strong for the informers of `AgentReconcile`, which a bound of
the model, and not the code, keeps from delivering inside a pass too often, and
for its worker, which shares a mutex);
`sync.Mutex` is fair in Go (starvation mode), hence strong
fairness of a worker that takes `upsertLock`; an HTTP call answers or fails; the
garbage collector and the deployment controller do their work. The engine's
loop runs what is ready, its timers fire, and the consumer takes what is queued.
Nothing is assumed of users, of faults, or of the graph an agent runs. That an
MCP server answers is no assumption of the Agent controller: `Settles` and
`DeletedRowRemoved` have the hypothesis `LockComesFree`, that who waits for
`upsertLock` finds it free again and again, for a tool-server pass that waits for
ever keeps every Agent from being stored. Under
`ControlFairness` and `Fairness` the other parts of a sum have none.

Violations. Each of the six quotes a sentence of the repository that the code
does not keep; `findings` in `PROJECT.json` has the sentence and the trace's
meaning. What the runs that pass leave out with a history variable is the same
kind of thing. One has a sentence of the repository against it: `overlapped` in
`CrewRuns`, two requests at a time that share a crew, of which
`kagent-crewai/README.md:10,55` promises memories scoped by session. For the
others we know of none: `stale` and `loose` in
`ModelConfigs`, `skipped` in `AgentReconcile`, `Unfollowed` in `ToolWatches`,
`unset` in `A2AHandlers`, `mixed`, `dropped` and `foreign` in `TerminalChat`,
`told` in `AgentDeploy`, `validated` in `AgentApi`, `astray` in `ServerWizard`,
`reported` and `whole` in `McpAdd`. Each names the smallest
circumstance under which the property is lost, and the hazards it stands for
have a note that says so.

Where the repository contradicts itself and no run shows it: the key of a crew's
memory is user and session (`models.go:184`), so each save replaces the one
before, while `kagent-crewai/README.md:55-57` speaks of a search among several
and the tests' client appends (`fake/client.go:744`); and no flow state can be
loaded (`_state.py:10-14`), while `kagent-crewai/README.md:11,63` promises that
it is. `MemoryFindsLast` holds with and without older memories; of flow states
there is no property.

## 4. Proofs

Every theorem is proved for all values of the constants that the named
assumptions of its module allow. Each follows from an inductive invariant that
TLC has checked on the instance of the run. What a property says is
in the table of runs; here is what has to be added to make it inductive, and why.

`AgentReconcileProofs` (any specs, kinds, manifest and bounds):

- `TypeCorrect`: `TypeOK`, in four parts, so that each action only touches what
  it changes.
- `AcceptedStored`: `AcceptedMeansStored`. Not inductive by itself: the row is
  written two steps before the status is, by a pass whose Agent may meanwhile
  have been deleted and created anew. The inductive invariant bounds every
  incarnation and generation a copy may carry (cache, worker, row, status) by
  the API server's, and relates the worker's position to the row it has
  written.
- `OrphanRowsRemoved`: `NoOrphanRow`, with the invariant that a row without an
  Agent has its key queued, its deletion still to be delivered, or its pass
  under way, until the first crash.
- `AcceptedConverges`: `QuiescentAcceptedConverged`. The cache lags, so "what the
  worker applied is what the cluster holds" is not an invariant; "it is, or the
  cache will tell of another change, and then the key is queued" is (`Applied`,
  `Disowned`). `PassDone` says so of the prefix of the manifest a pass has come
  to, `AllDone` of all of it when the pass has ended. It rests on `VersionsInv`
  (a cache that is up to date is the object), `SameCopy` (a copy of the Agent's
  version is the Agent) and `LeftInv` (nothing the manifest no longer has
  is created).

`AgentGraphProofs` (any finite set of Agents, graph and limit below 255,
`GraphAssumption`):

- `TypeCorrect`: `TypeOK`, and with it that the recursion is never deeper than
  the limit allows and the `uint8` never wraps. It needs that the stack is no
  deeper than the count of calls.
- `AcceptedNoCircle`: `AcceptedAcyclic`. The invariant says it of the Agents
  whose verdict stands (accepted, not queued, not under way) at every moment. A
  walk that is complete has seen all its Agent may call, apart from Agents that
  changed since, which are queued; what it saw is closed under calls and does not
  call the Agent itself. In any set of standing Agents together with the new one,
  some Agent therefore calls none of the set. `WalkInv` is that statement
  in the middle of the recursion: each tool of an Agent the walk has met is still
  to be looked at, or was called.
- `VerdictIsExact`: `VerdictExact`, both ways, of a pass during which nothing
  changes. `Acceptable` is about paths, the code about a count, so the invariant
  (`ExactInv`) names the mentions a walk has looked at: `state.depth` is their
  number, each call has the last tools of its Agent before it (`FrameExact`), and
  no Agent with tools was named twice (`Tells`). A walk that ends has looked at
  all mentions there are and what it called is closed; one that is refused has
  found the mention that `Acceptable` rules out.

`ToolServerReconcileProofs` (any servers, tools and bounds):

- `TypeCorrect`: `TypeOK`; a worker keeps the copy it began its pass with.
- `StatusIsRight`: `StatusTellsRows`. The status is written from a list taken
  after the rows were, so `RowsInv` gives the rows at each point of a pass (of a
  refresh: what is saved, what is still to save and to drop), `CopiesInv` says
  whose copy a worker holds, `NoticedInv` that a copy behind its server has an
  event or a queued key behind it. That the mutex keeps the three controllers
  apart is not needed: they write rows of different servers.
- `DeletedRowsAttended`: `DeletedRowsLeft`, from `AttendedInv`: until a crash,
  each server with rows and a period is queued, waits for its period, or is being
  worked on.

`EngineProofs`, of `TaskExecution`, `CrewRuns`, `TaskRuns`, `Sessions` and
`Checkpoints` (any messages, requests, sessions, methods, engines, events and
bounds):

- `TaskTypeCorrect`: every question in the queue, in the consumer's hands or in
  the store is about an interrupt that happened (`AsksInv`).
- `StoredIsRight`: `StoredTellsGraph`. The store is written by the consumer long
  after the executor has gone on, so the invariant is about the last event there
  is: it is among the `Outcomes` of how the graph stands, no final event goes
  before it (or the consumer would stop early, `FinalIsLast`), and it is in the
  queue, in the consumer's hands, or in the store (`LastIs`).
- `TaskDialogImplemented`: `LifeOfDialog`, the refinement, failed saves, timeouts
  and crashes included. A save is a step of the dialog if what is saved fits
  what is stored, and by then the executor has gone on; so `DialogInv` says of
  the whole sequence that is not saved yet that each event may follow the one
  before it (`Follow`, `GoesOn`), where it ends (`LastState`, by where the
  executor is), that none but the last is final (`Going`), and that it holds one
  question at most, and a new one (`NewQuestion`). Publishing appends to that
  sequence and saving takes its head, and each has lemmas that say what it keeps.
- `CrewTypeCorrect`; `OneRequestApart`: `SessionsApart`, which needs that the
  memory is bound to the one request that runs (`OneAtATime`).
- `MemoryHoldsLast`: `MemoryFindsLast`. The property allows older memories, the
  code keeps none; the invariant says what it does keep, the last save or,
  after a reset, nothing (`HoldsKept`).
- `AdkTypeCorrect`; `FinalIsRight`: `FinalTellsRun`. `Aggregated` says what the
  aggregator makes of all that was emitted, whatever the order; `QueueInOrder`
  that the final status is last and the artifact right before it;
  `AdkProgress` how far an undisturbed request has come.
- `TaskLifeImplemented`: `LifeOfTask`, the refinement. `PhaseFacts` reads the
  phase of `TaskLife` off queue, store and executor, and each action of `TaskRuns`
  is shown to be a step of `TaskLife` or none; only `AdkConsume` is both.
- `SessionTypeCorrect`; `MemoryIsTheSession`: `MemoryTellsSession`. The database
  gives each event an instant of its own (`EventsNumbered`) and no event is sent
  by two engines (`SentOnce`); a memory is what was loaded and then what was
  added, and an event that was stored and not acknowledged
  yet is newer than all of it. `Rows` defines the order of a query by rank, the
  row with i rows up to it, since nothing can be proved of a sort by recursion.
- `StepsAreApplied`: `StepsApplied`, under the hypothesis that a superstep runs
  one task. The results of a task are all stored or none (`WritesRight`), in one
  transaction (`SavedAll`), and a state is a sequence of whole supersteps. With
  two tasks it is false: the primary key of a write lacks the task, which is the
  finding of the run `checkpoint_writes`.

`ControlProofs`, of `ToolWatches`, `ModelConfigs`, `AgentApi`, `A2AHandlers`,
`DbManager` and their sum:

- `WatchTypeCorrect`; `CurrentRendered`: `RenderedIsCurrent`. `ReadingFits` and
  `RenderedFits` say of each object a pass has read, and each a rendering was
  made of, that it is current or news of it are on their way, unless the Agent
  itself is going to be rendered again.
- `ConfigTypeCorrect`; `PromiseIsKept`: `PromisedKeyIsStored`. Between a client's
  read and its writes anything may happen, so the invariant tells a request whose
  update will be granted (its copy is the config, `GrantsHold`) from one that
  will be refused, whose key may be left (`loose`). Deletion and creation of a
  config of the same name need `NumbersFresh`: no two incarnations share a uid.
- `HashIsRight`: `HashTellsSecrets`: `PassTells` says it of the Secrets a pass
  has hashed so far, or news of them are on their way; `StatusTells` at rest.
- `ApiTypeCorrect`; `PostsCannotCloseCycle`: `PostsCloseNoCycle`. Reachability is
  defined as the least closed set here, so that no recursion is met:
  every set of validated Agents has one that calls none of the set
  (`NoValidatedCycle`), because a POST was validated by a walk over a store that
  still holds what its callees were when it is granted (`PostsWalk`).
- `MuxTypeCorrect` (`MuxTypes`: also of the changes that are still to be told);
  `MuxIsRight`: `MuxServesAgents`: of each Agent, the changes still to be told
  form a chain from how the mux serves it (`FirstIsServed`) over each other
  (`EachFollows`) to what the informer has seen (`LastIsSeen`). The chain is why
  two changes merged into one do no harm, and why a failed upsert is repaired by
  the next change only.
- `ManagerTypeCorrect`; `SuccessIsWhole`: `SuccessTellsTables`, an action
  property: who does something holds the lock, and the tables it has come to are
  as it leaves them.
- `ControlTypeCorrect`: `ControlTypeOK`, and `ControlPlaneSafe`: the properties
  above, and those of `AgentReconcile`, of the whole. A step of the sum is a step
  of one part and leaves the variables of the others alone, so a behaviour of it
  is a behaviour of each part (`ControlIsParts`).

`DatabaseProofs`, of `DatabaseClient`:

- `DatabaseImplementsFake`: `RefinesFake`, the refinement, for any rows that
  `SamplesAssumption` allows: `Maps` and `Streams` are what the tables show, and
  each call has a lemma that it is the fake's call. It needs that a primary key
  has one row, deleted ones included (`KeysApart`); that events are never deleted
  and each has an instant of its own, so that a new one comes last in one order
  and first in the other (`EventsGood`, `NewestIsReversed`); that feedback is
  numbered without gaps (`FeedbackGood`); and that a write that is found belongs
  to a checkpoint that is (`Attached`): the code deletes the writes of a thread,
  the fake those of the checkpoints it deletes.

`ClientProofs`, of `ServerWizard`, `McpAdd`, `TerminalChat` and `AgentDeploy`:

- `WizardTypeCorrect`; `FormHolds`, from which `ResultValidates`
  (`ResultIsValid`), `ResultIsShown` (`ResultTellsPages`) and `CursorIsOne`
  (`OneCursor`, which no run checks) follow. A result is built on the last page
  from pages that were left long before, and Esc goes back over them: `OnTheWay`
  says what was chosen on the way to a page, `PagesBehind` what the pages behind
  it have checked, `ResultSoFar` what is in the result already, `CursorStands`
  where the focus of each page is, also while another page is shown, and
  `WayIsFresh` that the inputs of the way taken hold nothing that outlived a page
  gone back over.
- `McpTypeCorrect`; `AddedStays`: `AddedIsWhole`. `CommandStands` says, of a
  command that has the project to itself, which files it has written again;
  `Distinct`, that no two servers of `kagent.yaml` share a name, is why
  a directory is written once. What was reported before is kept until a save is
  cut short, with which `reported` begins anew.
- `TuiTypeCorrect`; `AnswersAreRead`: `AnswersRead`; `OpenIsOwn`: `SessionOfAgent`
  (`OwnSessions`: so is what is on its way); `ChatIsOne`: `OneConversation`.
  Commands and messages are bags, so the lemmas begin with what adding and
  removing one of them leaves alone. In `OwnMessages` one wait, or one message, of
  the channel is under way while a chat streams, and none otherwise, and what it
  carries is the next line; `Numbering` keeps the lines of other messages out.
- `DeployTypeCorrect`; `DeployIsWhole`: `DeployedIsWhole`, for manifests of any
  number of servers and references (`DeployAssumption`, `ManifestsAssumption`).
  A command that has the field to itself has done the parts before the one it is
  at, and of that one the Secrets that are not left (`AloneInv`). Several of its
  writes may put values to one key, so what is kept of a Secret is that each key
  has one of the values the manifest has for it (`SecretKept`, `Claims`), and a
  Secret that is replaced is the first to be written (`ReplacedFirst`); an object
  is written once (`ObjectsOnce`). After it ended only the controller and the
  rollout move, and neither touches what was written (`RestInv`); pods as new as
  the Deployment were started after the restart. `ServerClaims` and
  `EnvFileClaims` then say whose values those are.

`EnginesSumProofs`, of `MCEngines`: `EnginesTypeCorrect` (`EnginesTypeOK`),
`EnginesSafe` (what the engines and the database promise, the three refinements
included), `EnginesApplySteps` (`StepsApplied`, for one task) and `CommandsSafe`
(the deploys, the terminal, the form and add-mcp), each from the lemmas that a
behaviour of the whole is one of the part (`TaskIsPart` to `McpIsPart`).

Only model-checked, and why:

- liveness (`Settles`, `DeletedRowRemoved`, `ToolsConverge`, `DeletedRowsRemoved`,
  `RequestsEnd`): under fairness, which needs ENABLED;
- `StepsApplied` for supersteps of several tasks, of which it is false
  (`checkpoint_writes`).

Every other invariant, action property and refinement of a run that passes is a
theorem. The assumptions are the named ones of the modules, all of them on
constants: bounds are naturals (`A2AAssumption`, for one), Agents and tools are
finite sets, sample rows and manifests are of the shapes the code allows.

## 5. Plan

Modelling is complete as far as it goes (section 6), and every safety property a
run checks is a theorem but for what section 4 leaves to TLC. A change of the
code should begin with the module of its component (section 2), its run, and
then the invariant of section 4 that its step disturbs.

## 6. Not modelled

- The manifest the translator builds (ports, volumes, probes, headers): a
  conversion; `AgentReconcile` has it as `Render`, `ToolWatches` as the objects
  it is made from.
- Handlers that make one call or only read: feedback, namespaces, models, tools,
  health; of the tool servers' only what their calls do to the objects
  (`ToolServerReconcile`). DELETE of a tool server takes the first row of the
  name, whatever its group.
- Authentication is a header, authorization allows everything; the Go client, the
  rest of the CLI (one request and its output) and scaffolding (files from
  templates).
- `kagent mcp deploy` (`cli/mcp/deploy.go`) runs `kubectl apply` on one
  object.
- Overlapping requests of one LangGraph task, which need the A2A server's queues
  of a2a-sdk, not in the repository.
- Model clients and converters of the ADK engine, conversions without state, and
  its token loop, a variable that one loop writes.
- The UI: its interleavings are React's. Helm charts and samples have no state.
