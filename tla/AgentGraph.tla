------------------------------ MODULE AgentGraph ------------------------------
(***************************************************************************)
(* The agents an Agent may call: validateAgent walks the graph the Agents' *)
(* agent tools span, depth first, and TranslateAgent rejects an Agent whose *)
(* walk meets a cycle, a missing Agent or the recursion limit              *)
(* (go/internal/controller/translator/agent/adk_api_translator.go).  Agents *)
(* change while the walk is under way, since each Agent on it is a Get of  *)
(* its own, and an edit queues the edited Agent only, none of those that   *)
(* call it.                                                                *)
(*                                                                         *)
(* What is left out: tools that are no agents (the walk skips them), the   *)
(* rest of the translation, the owned objects and the rows                 *)
(* (AgentReconcile has them).  A BYO Agent is one without agent tools.     *)
(***************************************************************************)
EXTENDS Naturals, Sequences, FiniteSets

CONSTANTS
    Agents,      \* names of one namespace: agent tools do not cross namespaces
    ToolLists,   \* the lists of agent tools an Agent may be given
    Absent,      \* no Agent of that name
    MAX_DEPTH,   \* 10 in the code
    MaxChanges,  \* bound: creations, edits and deletions of Agents
    MaxCrashes   \* bound: restarts of the controller

VARIABLES
    spec,      \* the informer cache, which every read of the walk goes through
    acc,       \* the Accepted condition of each Agent
    queue,     \* the controller's work queue
    pc, root,  \* the pass: where it is and for which Agent
    mine,      \* the tools of the copy of root the pass works on
    stack,     \* the calls of validateAgent: caller and tools it has still to look at
    state,     \* the tState, visitedAgents as a set
    touched,   \* the Agents that changed since the pass began
    changes, crashes

pass == <<root, mine, touched>>
walk == <<stack, state>>
bounds == <<changes, crashes>>
vars == <<spec, acc, queue, pc, pass, walk, bounds>>

Frame == [agent : Agents, rest : Seq(Agents)]

ASSUME GraphAssumption ==
    /\ ToolLists \subseteq Seq(Agents)
    /\ IsFiniteSet(Agents)
    /\ Absent \notin Agents /\ Absent \notin ToolLists
    /\ MAX_DEPTH \in 0..254   \* depth is a uint8
    /\ MaxChanges \in Nat /\ MaxCrashes \in Nat

NoState == [depth |-> 0, visitedAgents |-> {}]

\* The recursion stays within its limit: at no time are there more calls on the
\* stack, or more counted, than the limit and the one that exceeds it.
TypeOK ==
    /\ spec \in [Agents -> ToolLists \cup {Absent}]
    /\ acc \in [Agents -> {"none", "true", "false"}]
    /\ queue \subseteq Agents
    /\ pc \in {"idle", "validate", "translate", "accepted", "rejected"}
    /\ root \in Agents \cup {Absent}
    /\ stack \in Seq(Frame) /\ Len(stack) <= MAX_DEPTH + 1
    /\ mine \in Seq(Agents)
    /\ state \in [depth : 0..MAX_DEPTH + 1, visitedAgents : SUBSET Agents]
    /\ touched \subseteq Agents
    /\ changes \in 0..MaxChanges /\ crashes \in 0..MaxCrashes

\* The controller starts among Agents that are there already.
Init ==
    /\ spec \in [Agents -> ToolLists \cup {Absent}]
    /\ acc = [a \in Agents |-> "none"]
    /\ queue = {a \in Agents : spec[a] # Absent}
    /\ pc = "idle" /\ root = Absent /\ mine = <<>> /\ touched = {}
    /\ stack = <<>> /\ state = NoState
    /\ changes = MaxChanges /\ crashes = MaxCrashes

----------------------------------------------------------------------------
(* Users, and the events their changes cause. *)

\* Variant for a mutation run: the watch lets creations and deletions through,
\* not edits.
AgentEventUnlessEdited(a) ==
    queue' = IF spec[a] # Absent /\ spec'[a] # Absent THEN queue ELSE queue \cup {a}

\* The watch on Agents queues the Agent that changed.
AgentEvent(a) == queue' = queue \cup {a}

Change(a, tools) ==
    /\ changes > 0
    /\ changes' = changes - 1
    /\ spec' = [spec EXCEPT ![a] = tools]
    /\ AgentEvent(a)
    /\ touched' = IF pc = "idle" THEN {} ELSE touched \cup {a}
    /\ UNCHANGED <<pc, root, mine, walk, crashes>>

Create(a, tools) ==
    /\ spec[a] = Absent
    /\ Change(a, tools)
    /\ acc' = [acc EXCEPT ![a] = "none"]

Edit(a, tools) ==
    /\ spec[a] \notin {Absent, tools}
    /\ Change(a, tools)
    /\ UNCHANGED acc

Delete(a) ==
    /\ spec[a] # Absent
    /\ Change(a, Absent)
    /\ acc' = [acc EXCEPT ![a] = "none"]

\* No pass is under way.
Rest ==
    /\ pc' = "idle" /\ root' = Absent /\ mine' = <<>> /\ touched' = {}
    /\ stack' = <<>> /\ state' = NoState

\* The new leader finds every Agent in its first list and queues it.
Restart ==
    /\ crashes > 0
    /\ crashes' = crashes - 1
    /\ queue' = {a \in Agents : spec[a] # Absent}
    /\ Rest
    /\ UNCHANGED <<spec, acc, changes>>

----------------------------------------------------------------------------
(* The worker: ReconcileKagentAgent as far as the graph decides it. *)

Call(a, tools) == [agent |-> a, rest |-> tools]

Begin(a) ==
    /\ pc = "idle"
    /\ a \in queue
    /\ queue' = queue \ {a}
    /\ IF spec[a] = Absent
       THEN UNCHANGED <<pc, pass, stack>>
       ELSE /\ pc' = "validate" /\ root' = a /\ mine' = spec[a] /\ touched' = {}
            /\ stack' = <<Call(a, spec[a])>>
    /\ UNCHANGED <<spec, acc, state, bounds>>

Caller == stack[Len(stack)]

\* tState.with: all calls share one state, and nothing is taken back when the
\* walk returns from an Agent.
With(agent) ==
    [depth |-> state.depth + 1, visitedAgents |-> state.visitedAgents \cup {agent}]

\* Variant: the limit is not looked at.
RefusesVisited(t, s) == t \in s.visitedAgents

\* What validateAgent answers at once when it is called for t.
Refuses(t, s) ==
    \/ t \in s.visitedAgents
    \/ s.depth > MAX_DEPTH

Reject == pc' = "rejected" /\ UNCHANGED stack

\* The loop of validateAgent: get the next tool agent and validate it.
Visit ==
    /\ pc = "validate"
    /\ Caller.rest # <<>>
    /\ LET t == Head(Caller.rest) IN
       \/ /\ t = Caller.agent \/ spec[t] = Absent
          /\ Reject
          /\ UNCHANGED state
       \/ /\ t # Caller.agent /\ spec[t] # Absent
          /\ state' = With(Caller.agent)
          /\ IF Refuses(t, state')
             THEN Reject
             ELSE /\ stack' = Append([stack EXCEPT ![Len(stack)].rest = Tail(@)], Call(t, spec[t]))
                  /\ UNCHANGED pc
    /\ UNCHANGED <<spec, acc, queue, pass, bounds>>

\* Variant: the depth is that of the call, taken back when it returns.
ReturnWithDepth ==
    /\ pc = "validate"
    /\ Caller.rest = <<>>
    /\ IF Len(stack) > 1
       THEN /\ stack' = SubSeq(stack, 1, Len(stack) - 1)
            /\ state' = [state EXCEPT !.depth = @ - 1]
            /\ UNCHANGED pc
       ELSE /\ stack' = <<Call(root, mine)>>
            /\ pc' = "translate"
            /\ UNCHANGED state
    /\ UNCHANGED <<spec, acc, queue, pass, bounds>>

\* A call that has seen all its tools returns; behind the call for root,
\* translateInlineAgent goes through the tools of root once more.
Return ==
    /\ pc = "validate"
    /\ Caller.rest = <<>>
    /\ IF Len(stack) > 1
       THEN /\ stack' = SubSeq(stack, 1, Len(stack) - 1)
            /\ UNCHANGED pc
       ELSE /\ stack' = <<Call(root, mine)>>
            /\ pc' = "translate"
    /\ UNCHANGED <<spec, acc, queue, pass, state, bounds>>

\* Some tool may be gone by the time translateInlineAgent gets it again.
Translate ==
    /\ pc = "translate"
    /\ IF Caller.rest = <<>> THEN pc' = "accepted" /\ UNCHANGED stack
       ELSE IF spec[Head(Caller.rest)] = Absent THEN Reject
       ELSE stack' = <<Call(root, Tail(Caller.rest))>> /\ UNCHANGED pc
    /\ UNCHANGED <<spec, acc, queue, pass, state, bounds>>

\* reconcileAgentStatus.  The update meets a conflict when the Agent changed
\* since it was read, and the key is queued again.
UpdateStatus ==
    /\ pc \in {"accepted", "rejected"}
    /\ IF root \in touched
       THEN queue' = queue \cup {root} /\ UNCHANGED acc
       ELSE /\ acc' = [acc EXCEPT ![root] = IF pc = "accepted" THEN "true" ELSE "false"]
            /\ UNCHANGED queue
    /\ Rest
    /\ UNCHANGED <<spec, bounds>>

Users ==
    \E a \in Agents :
        \/ \E tools \in ToolLists : Create(a, tools) \/ Edit(a, tools)
        \/ Delete(a)

Worker ==
    \/ \E a \in Agents : Begin(a)
    \/ Visit \/ Return \/ Translate \/ UpdateStatus

Next == Users \/ Worker \/ Restart

Spec == Init /\ [][Next]_vars

----------------------------------------------------------------------------
(* Properties.  The reference definitions speak of the graph as a whole. *)

Targets(a) == {spec[a][i] : i \in DOMAIN spec[a]}

\* The Agents a may end up calling, itself included: the smallest set that
\* holds a and is closed under calls.
Reachable(a) ==
    LET closed(S) == a \in S /\ \A b \in S : spec[b] # Absent => Targets(b) \subseteq S IN
    {b \in Agents : \A S \in SUBSET Agents : closed(S) => b \in S}

\* The mentions of agents in the tool lists of S.
Mentions(S) == UNION {{<<b, i>> : i \in DOMAIN spec[b]} : b \in S}

\* No circle of calls within S: in every part of S some Agent calls none of it.
Acyclic(S) == \A T \in (SUBSET S) \ {{}} : \E a \in T : Targets(a) \cap T = {}

\* What the walk accepts: no Agent is missing, at most MAX_DEPTH mentions
\* in all, and no Agent with tools of its own is mentioned twice, nor root at all.
Acceptable(a) ==
    LET R == Reachable(a) IN
    /\ \A b \in R : spec[b] # Absent
    /\ Cardinality(Mentions(R)) <= MAX_DEPTH
    /\ \A b \in R :
        LET mentioned == Cardinality({m \in Mentions(R) : spec[m[1]][m[2]] = b}) IN
        spec[b] # <<>> => mentioned <= IF b = a THEN 0 ELSE 1

\* When no Agent changes during a pass, the walk of validateAgent and the
\* second look of translateInlineAgent, with the state that all calls share,
\* accept an Agent exactly when its graph is Acceptable.
VerdictExact ==
    pc \in {"accepted", "rejected"} /\ touched = {} =>
        (pc = "accepted" <=> Acceptable(root))

\* When nothing is queued and no pass is under way, the Agents whose status
\* says Accepted do not call each other in a circle, although each was
\* validated in another state of the graph and none is looked at again when
\* one it calls changes.
AcceptedAcyclic ==
    queue = {} /\ pc = "idle" => Acyclic({a \in Agents : acc[a] = "true"})

\* The state of the walk is "used to enforce DAG": when no Agent changes during
\* the pass, an Agent is not rejected while its graph is complete, has no
\* cycle and is too small to meet the limit.
DagAccepted ==
    pc = "rejected" /\ touched = {} =>
        LET R == Reachable(root) IN
        ~ /\ \A a \in R : spec[a] # Absent
          /\ Acyclic(R)
          /\ Cardinality(Mentions(R)) <= MAX_DEPTH
=============================================================================
