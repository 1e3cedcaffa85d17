------------------------------ MODULE AgentApi ------------------------------
(***************************************************************************)
(* Agents written through the HTTP API                                     *)
(* (go/internal/httpserver/handlers/agents.go): a POST is validated by the *)
(* translator, over a client that already holds the new Agent              *)
(* (go/internal/utils/client_wrapper.go), and then created; a PUT replaces *)
(* the spec of what it reads and is not validated.                         *)
(*                                                                         *)
(* Outside: the API server, the informer cache every handler reads, and    *)
(* people who apply Agents without the API.  Of a spec, the agents it has  *)
(* as tools.  The validation is one step here, and refuses no more than    *)
(* cycles and missing agents: its walk, its limit and the diamonds it      *)
(* refuses are in AgentGraph.                                              *)
(***************************************************************************)
EXTENDS Naturals, FiniteSets

CONSTANTS
    ApiClients, ApiAgents,
    ToolSets,                     \* the tools an Agent may have
    NoTools,                      \* no Agent of this name
    Waiting,                      \* no request under way
    MaxApplied, MaxAgentRequests   \* bounds

VARIABLES
    storedAgent,   \* the API server: [rv, tools] of each name
    cachedAgent,   \* the informer cache
    request,       \* a handler between its check and its write: [op, name, tools, seen], or Waiting
    revision,      \* the API server's resource version
    requestsLeft, appliedLeft,   \* what is left of the bounds
    validated      \* history: Agents as they were created by a POST that was validated
                   \*  against what the API server held at that moment

apiVars == <<storedAgent, cachedAgent, request, revision, requestsLeft, appliedLeft, validated>>

Nowhere == [rv |-> 0, tools |-> NoTools]
Exists(store, n) == store[n].rv > 0

Copies == {Nowhere} \cup [rv : Nat \ {0}, tools : ToolSets]
Requests == [op : {"create", "update", "delete"}, name : ApiAgents, tools : ToolSets \cup {{}},
             seen : [ApiAgents -> Copies]]

ASSUME ApiAssumption ==
    /\ MaxApplied \in Nat /\ MaxAgentRequests \in Nat
    /\ IsFiniteSet(ApiClients) /\ IsFiniteSet(ApiAgents) /\ ToolSets \subseteq SUBSET ApiAgents /\ Waiting \notin Requests

AgentApiTypeOK ==
    /\ {storedAgent, cachedAgent} \subseteq [ApiAgents -> Copies]
    /\ request \in [ApiClients -> Requests \cup {Waiting}]
    /\ \A c \in ApiClients : (request[c] # Waiting /\ request[c].op # "delete") => request[c].tools \in ToolSets
    /\ \A n \in ApiAgents : storedAgent[n].rv <= revision /\ cachedAgent[n].rv <= revision
    /\ validated \subseteq ApiAgents
    /\ requestsLeft \in 0..MaxAgentRequests /\ appliedLeft \in 0..MaxApplied
    /\ revision \in Nat
    /\ revision + Cardinality({c \in ApiClients : request[c] # Waiting})
          <= (MaxApplied - appliedLeft) + (MaxAgentRequests - requestsLeft)

ApiInit ==
    /\ storedAgent = [n \in ApiAgents |-> Nowhere] /\ cachedAgent = storedAgent
    /\ request = [c \in ApiClients |-> Waiting] /\ revision = 0 /\ validated = {}
    /\ requestsLeft = MaxAgentRequests /\ appliedLeft = MaxApplied

----------------------------------------------------------------------------
(* The validation of a POST. *)

\* AddInMemory: the translator sees the new Agent beside those of the cache.
WithNew(store, n, tools)  == [store EXCEPT ![n] = [rv |-> 1, tools |-> tools]]

Callees(store, x) == IF Exists(store, x) THEN store[x].tools ELSE {}

\* Whoever is in every set that holds x's callees and the callees of its own.
Reaches(store, x, y) ==
    \A S \in SUBSET ApiAgents :
        (Callees(store, x) \subseteq S /\ \A z \in S : Callees(store, z) \subseteq S) => y \in S
OnCycle(store, x) == Reaches(store, x, x)

\* validateAgent walks the agents it calls: none may be missing, none met again.
WalksMissing(store, n) ==   \* a mutant: agents met again are not looked for
    \A x \in ApiAgents : Reaches(store, n, x) => Exists(store, x)
Walks(store, n) ==
    /\ \A x \in ApiAgents : Reaches(store, n, x) => Exists(store, x) /\ ~OnCycle(store, x)
    /\ ~OnCycle(store, n)

----------------------------------------------------------------------------
(* The handlers, each a read of the cache and a write. *)

Asks(c, op, n, tools, seen) ==
    /\ request[c] = Waiting /\ requestsLeft > 0 /\ requestsLeft' = requestsLeft - 1
    /\ request' = [request EXCEPT ![c] = [op |-> op, name |-> n, tools |-> tools, seen |-> seen]]
    /\ UNCHANGED <<storedAgent, cachedAgent, revision, appliedLeft, validated>>

HandleCreateAgent(c, n, tools) ==
    /\ Walks(WithNew(cachedAgent, n, tools), n)
    /\ Asks(c, "create", n, tools, cachedAgent)

Read(n) == [x \in ApiAgents |-> IF x = n THEN cachedAgent[n] ELSE Nowhere]

\* An update keeps the rest of the Agent it read, its resource version included.
HandleUpdateAgent(c, n, tools) == Exists(cachedAgent, n) /\ Asks(c, "update", n, tools, Read(n))
HandleDeleteAgent(c, n)        == Exists(cachedAgent, n) /\ Asks(c, "delete", n, {}, Read(n))

Stores(n, tools) ==
    /\ revision' = revision + 1
    /\ storedAgent' = [storedAgent EXCEPT ![n] = [rv |-> revision', tools |-> tools]]

Answered(c) == request' = [request EXCEPT ![c] = Waiting] /\ UNCHANGED <<cachedAgent, requestsLeft, appliedLeft>>

\* The view a POST was validated against is what the API server holds now.
ViewHolds(r) == \A x \in ApiAgents \ {r.name} : r.seen[x] = storedAgent[x]

StoreCreated(c) ==
    LET r == request[c]
    IN /\ r # Waiting /\ Answered(c)
       /\ r.op = "create" /\ ~Exists(storedAgent, r.name) /\ Stores(r.name, r.tools)
       /\ validated' = IF ViewHolds(r) THEN validated \cup {r.name} ELSE validated \ {r.name}

StoreUpdated(c) ==
    LET r == request[c]
    IN /\ r # Waiting /\ Answered(c)
       /\ r.op = "update" /\ storedAgent[r.name].rv = r.seen[r.name].rv /\ Stores(r.name, r.tools)
       /\ validated' = validated \ {r.name}

\* A deletion is by name: whatever has it by now.
StoreDeleted(c) ==
    LET r == request[c]
    IN /\ r # Waiting /\ Answered(c)
       /\ r.op = "delete" /\ Exists(storedAgent, r.name)
       /\ storedAgent' = [storedAgent EXCEPT ![r.name] = Nowhere]
       /\ validated' = validated \ {r.name} /\ UNCHANGED revision

\* The API server refuses the write: the name is taken, was written since, or is gone.
Refused(c) ==
    LET r == request[c]
    IN /\ r # Waiting /\ Answered(c)
       /\ \/ r.op = "create" /\ Exists(storedAgent, r.name)
          \/ r.op = "update" /\ storedAgent[r.name].rv # r.seen[r.name].rv
          \/ r.op = "delete" /\ ~Exists(storedAgent, r.name)
       /\ UNCHANGED <<storedAgent, revision, validated>>

----------------------------------------------------------------------------
(* Outside the handlers. *)

ApplyAgent(n, tools) ==
    /\ appliedLeft > 0 /\ appliedLeft' = appliedLeft - 1
    /\ Stores(n, tools) /\ validated' = validated \ {n} /\ UNCHANGED <<cachedAgent, request, requestsLeft>>

SyncCache(n) ==
    /\ cachedAgent[n] # storedAgent[n] /\ cachedAgent' = [cachedAgent EXCEPT ![n] = storedAgent[n]]
    /\ UNCHANGED <<storedAgent, request, revision, requestsLeft, appliedLeft, validated>>

ApiNext ==
    \/ \E c \in ApiClients, n \in ApiAgents :
        \/ \E tools \in ToolSets : HandleCreateAgent(c, n, tools) \/ HandleUpdateAgent(c, n, tools)
        \/ HandleDeleteAgent(c, n)
    \/ \E c \in ApiClients : StoreCreated(c) \/ StoreUpdated(c) \/ StoreDeleted(c) \/ Refused(c)
    \/ \E n \in ApiAgents : SyncCache(n) \/ \E tools \in ToolSets : ApplyAgent(n, tools)

ApiSpec == ApiInit /\ [][ApiNext]_apiVars

----------------------------------------------------------------------------
\* No cycle of Agents that call each other is made of validated Agents alone: a POST
\* closes none unless what it was validated against changed on the way; a PUT may.
PostsCloseNoCycle ==
    \A n \in ApiAgents : OnCycle(storedAgent, n) =>
        \E x \in ApiAgents \ validated : Exists(storedAgent, x)
            /\ (x = n \/ (Reaches(storedAgent, n, x) /\ Reaches(storedAgent, x, n)))
=============================================================================
