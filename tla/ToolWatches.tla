---------------------------- MODULE ToolWatches ----------------------------
(***************************************************************************)
(* The watches of the Agent controller (SetupWithManager in                *)
(* go/internal/controller/agent_controller.go): a change of a ModelConfig, *)
(* an MCPServer, a RemoteMCPServer or a Service queues the Agents its      *)
(* finder finds, and the translator (translateInlineAgent,                 *)
(* translateMCPServerTarget) renders an Agent from the objects its tools   *)
(* name.  The finders and the translator read a reference each in its own  *)
(* way.  What a pass does with the rendered config is AgentReconcile's     *)
(* subject.                                                                *)
(*                                                                         *)
(* Outside: the API server; the informers, whose caches lag each in its    *)
(* own time and which run a handler some time after the cache changed.     *)
(***************************************************************************)
EXTENDS Naturals, Sequences, FiniteSets

CONSTANTS
    Users,       \* names of Agents
    UserSpecs,   \* what their specs may be: [model, tools]
    Used,        \* the objects there may be: [kind, name]
    Lost,        \* no Agent
    MaxEdits     \* bound on the changes of Agents and objects

VARIABLES
    spec, things,     \* the API server: specs of Agents, versions of objects
    cspec, cthings,   \* the informer caches
    agentNews, news,  \* Agents and objects whose handlers have not run yet
    dueAgents,        \* the work queue
    reading,          \* the worker: the Agent, its spec, what it has read
    rendered,         \* what each Agent was last rendered to
    edits             \* what is left of the bound

watchVars == <<spec, things, cspec, cthings, agentNews, news, dueAgents, reading, rendered, edits>>

NoAgent   == [agent |-> Lost, spec |-> Lost, got |-> <<>>]
Unrendered == <<0>>

\* The GroupKind of a tool's reference, by the form it is written in, and the
\* kind of object translateMCPServerTarget reads for it.
McpForms    == {"kagent.dev/MCPServer", "/MCPServer", "/", "kagent.dev/RemoteMCPServer",
                "/RemoteMCPServer", "/Service", "core/Service"}
Target(form) == CASE form \in {"kagent.dev/MCPServer", "/MCPServer", "/"} -> "MCPServer"
                  [] form \in {"kagent.dev/RemoteMCPServer", "/RemoteMCPServer"} -> "RemoteMCPServer"
                  [] form \in {"/Service", "core/Service"} -> "Service"
                  [] OTHER -> "Agent"
Referent(tool) == [kind |-> Target(tool.form), name |-> tool.name]
ModelOf(s)     == [kind |-> "ModelConfig", name |-> s.model]

\* What a spec is rendered from, in the order it is read.
ReadsOf(s) == <<ModelOf(s)>> \o [i \in DOMAIN s.tools |-> Referent(s.tools[i])]

\* A spec names a model, and for each tool a form and a name; what it is rendered
\* from is among the objects there may be.
ASSUME WatchAssumption ==
    /\ MaxEdits \in Nat /\ Lost \notin Users
    /\ \A s \in UserSpecs : /\ s.tools \in Seq({s.tools[i] : i \in DOMAIN s.tools})
                            /\ \A i \in DOMAIN ReadsOf(s) : ReadsOf(s)[i] \in Used

Passes == [agent : Users, spec : UserSpecs, got : Seq(1..MaxEdits + 1)]

WatchTypeOK ==
    /\ spec \in [Users -> UserSpecs] /\ cspec \in [Users -> UserSpecs]
    /\ things \in [Used -> 0..MaxEdits + 1] /\ cthings \in [Used -> 0..MaxEdits + 1]
    /\ agentNews \subseteq Users /\ news \subseteq Used /\ dueAgents \subseteq Users
    /\ reading \in Passes \cup {NoAgent} /\ edits \in 0..MaxEdits
    /\ reading # NoAgent => Len(reading.got) <= Len(ReadsOf(reading.spec))
    /\ rendered \in [Users -> Seq(0..MaxEdits + 1)]

WatchInit ==
    /\ spec \in [Users -> UserSpecs] /\ cspec = spec
    /\ things = [o \in Used |-> 1] /\ cthings = things
    /\ agentNews = Users /\ news = {} /\ dueAgents = {} /\ reading = NoAgent
    /\ rendered = [u \in Users |-> Unrendered] /\ edits = MaxEdits

----------------------------------------------------------------------------
(* The finders: does the Agent with spec s use the object o, for each kind *)
(* of object watched?                                                      *)

ServiceOfCore(s, o) ==   \* a mutant
    \E i \in DOMAIN s.tools : s.tools[i].form = "core/Service" /\ s.tools[i].name = o.name

findAgentsUsingMCPServer(s, o) ==
    \E i \in DOMAIN s.tools :
        s.tools[i].form = "kagent.dev/MCPServer" /\ s.tools[i].name = o.name

\* Whatever the kind of the reference, and only up to the first tool that is
\* not on an MCP server.
findAgentsUsingRemoteMCPServer(s, o) ==
    \E i \in DOMAIN s.tools :
        /\ \A j \in 1..i : s.tools[j].form \in McpForms
        /\ s.tools[i].name = o.name

findAgentsUsingMCPService(s, o) ==
    \E i \in DOMAIN s.tools : s.tools[i].form = "/Service" /\ s.tools[i].name = o.name

findAgentsUsingModelConfig(s, o) == s.model = o.name

Finds(s, o) ==
    CASE o.kind = "MCPServer"       -> findAgentsUsingMCPServer(s, o)
      [] o.kind = "RemoteMCPServer" -> findAgentsUsingRemoteMCPServer(s, o)
      [] o.kind = "Service"         -> findAgentsUsingMCPService(s, o)
      [] o.kind = "ModelConfig"     -> findAgentsUsingModelConfig(s, o)
      [] OTHER                      -> FALSE

----------------------------------------------------------------------------
(* The API server and its informers. *)

Spend == edits > 0 /\ edits' = edits - 1

EditAgent(u) ==
    /\ Spend /\ \E s \in UserSpecs : s # spec[u] /\ spec' = [spec EXCEPT ![u] = s]
    /\ UNCHANGED <<things, cspec, cthings, agentNews, news, dueAgents, reading, rendered>>

\* Version 0 is no object; a new one never has the version of an earlier one.
EditThing(o) ==
    /\ Spend
    /\ \E v \in {0, MaxEdits + 2 - edits} : v # things[o] /\ things' = [things EXCEPT ![o] = v]
    /\ UNCHANGED <<spec, cspec, cthings, agentNews, news, dueAgents, reading, rendered>>

SeeAgent(u) ==
    /\ cspec[u] # spec[u] /\ cspec' = [cspec EXCEPT ![u] = spec[u]] /\ agentNews' = agentNews \cup {u}
    /\ UNCHANGED <<spec, things, cthings, news, dueAgents, reading, rendered, edits>>

SeeThing(o) ==
    /\ cthings[o] # things[o] /\ cthings' = [cthings EXCEPT ![o] = things[o]]
    /\ news' = news \cup {o}
    /\ UNCHANGED <<spec, things, cspec, agentNews, dueAgents, reading, rendered, edits>>

\* For(&Agent{}), and the map functions of Watches: they list the Agents in the
\* cache when they run.
EnqueueAgent(u) ==
    /\ u \in agentNews /\ agentNews' = agentNews \ {u} /\ dueAgents' = dueAgents \cup {u}
    /\ UNCHANGED <<spec, things, cspec, cthings, news, reading, rendered, edits>>

EnqueueRequestsFromMapFunc(o) ==
    /\ o \in news /\ news' = news \ {o}
    /\ dueAgents' = dueAgents \cup {u \in Users : Finds(cspec[u], o)}
    /\ UNCHANGED <<spec, things, cspec, cthings, agentNews, reading, rendered, edits>>

----------------------------------------------------------------------------
(* The worker: one pass reads the Agent, then what it is rendered from,    *)
(* one object after the other.  An object that is not there ends the pass; *)
(* the error goes into the status and is not returned, so nothing retries. *)

BeginRender(u) ==
    /\ reading = NoAgent /\ u \in dueAgents /\ dueAgents' = dueAgents \ {u}
    /\ reading' = [agent |-> u, spec |-> cspec[u], got |-> <<>>]
    /\ UNCHANGED <<spec, things, cspec, cthings, agentNews, news, rendered, edits>>

ReadNext ==
    /\ reading # NoAgent
    /\ LET todo == ReadsOf(reading.spec)
           next == Len(reading.got) + 1
           seen == IF next <= Len(todo) THEN cthings[todo[next]] ELSE 0
           End(result) == /\ rendered' = [rendered EXCEPT ![reading.agent] = result]
                          /\ reading' = NoAgent
       IN \/ next > Len(todo) /\ End(reading.got)
          \/ next <= Len(todo) /\ seen = 0 /\ End(Unrendered)
          \/ /\ next <= Len(todo) /\ seen > 0 /\ UNCHANGED rendered
             /\ reading' = [reading EXCEPT !.got = Append(@, seen)]
    /\ UNCHANGED <<spec, things, cspec, cthings, agentNews, news, dueAgents, edits>>

WatchNext ==
    \/ \E u \in Users : EditAgent(u) \/ SeeAgent(u) \/ EnqueueAgent(u) \/ BeginRender(u)
    \/ \E o \in Used : EditThing(o) \/ SeeThing(o) \/ EnqueueRequestsFromMapFunc(o)
    \/ ReadNext

WatchSpec == WatchInit /\ [][WatchNext]_watchVars

----------------------------------------------------------------------------
(* Properties. *)

Settled == /\ cspec = spec /\ cthings = things
           /\ agentNews = {} /\ news = {} /\ dueAgents = {} /\ reading = NoAgent

\* What the rendering of a spec is, from the API server's objects.
RenderingOf(s) ==
    LET reads == ReadsOf(s)
    IN IF \E i \in DOMAIN reads : things[reads[i]] = 0 THEN Unrendered
       ELSE [i \in DOMAIN reads |-> things[reads[i]]]

\* References whose object the controller does not follow: no watch, or a finder
\* that reads the reference in another way than the translator.
Unfollowed(s, i) ==
    \/ s.tools[i].form \in {"/MCPServer", "/", "core/Service"} \/ s.tools[i].form \notin McpForms
    \/ /\ Target(s.tools[i].form) = "RemoteMCPServer"
       /\ \E j \in 1..i : s.tools[j].form \notin McpForms

\* Once the caches, the handlers, the queue and the worker are at rest, an
\* Agent whose references the controller follows is rendered from what there is:
\* no change is lost between two caches that lag, a handler that lists the Agents
\* too early or too late, and a pass that reads the objects at different times
\* (agent_controller.go:81-166 against adk_api_translator.go:965-1042).
RenderedIsCurrent ==
    Settled => \A u \in Users :
        (\A i \in DOMAIN spec[u].tools : ~Unfollowed(spec[u], i))
            => rendered[u] = RenderingOf(spec[u])
============================================================================
