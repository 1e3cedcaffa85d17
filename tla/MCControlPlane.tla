--------------------------- MODULE MCControlPlane ---------------------------
(***************************************************************************)
(* The controllers, the API's handlers of their objects and the start of   *)
(* the controller's process, side by side: each behaviour is one of the    *)
(* parts, with the other parts at rest.                                    *)
(***************************************************************************)
EXTENDS MCAgentReconcile, ModelConfigs, ToolWatches, A2AHandlers, DbManager, AgentApi

VARIABLE part

\* Every kind of object the Agent controller watches, referred to in the forms it
\* follows and in forms it does not.
Ref(form, name)    == [form |-> form, name |-> name]
Object(kind, name) == [kind |-> kind, name |-> name]
SomeSpecs ==
    {[model |-> "m", tools |-> <<Ref("kagent.dev/MCPServer", "x"), Ref("/RemoteMCPServer", "y")>>],
     [model |-> "m", tools |-> <<Ref("/Service", "x")>>],
     [model |-> "m", tools |-> <<Ref("agent", "b"), Ref("kagent.dev/RemoteMCPServer", "y")>>]}
SomeObjects == {Object("MCPServer", "x"), Object("RemoteMCPServer", "y"), Object("Service", "x"),
                Object("ModelConfig", "m"), Object("Agent", "b")}

ControlInit ==
    /\ part \in {"agents", "models", "watches", "a2a", "manager", "api"}
    /\ Init /\ (part # "agents" => agent = Absent /\ model = Absent)
    /\ ConfigInit /\ (part # "models" => config = None /\ sort = "Memory")
    /\ WatchInit /\ (part # "watches" => \A u \in Users : spec[u].tools = <<Ref("/Service", "x")>>)
    /\ A2AInit
    /\ ManagerInit /\ (part # "manager" => tables = {})
    /\ ApiInit

ControlNext ==
    /\ part' = part
    /\ \/ part = "agents" /\ Next /\ UNCHANGED <<configVars, watchVars, a2aVars, managerVars, apiVars>>
       \/ part = "models" /\ ConfigNext /\ UNCHANGED <<vars, watchVars, a2aVars, managerVars, apiVars>>
       \/ part = "watches" /\ WatchNext /\ UNCHANGED <<vars, configVars, a2aVars, managerVars, apiVars>>
       \/ part = "a2a" /\ A2ANext /\ UNCHANGED <<vars, configVars, watchVars, managerVars, apiVars>>
       \/ part = "manager" /\ ManagerNext /\ UNCHANGED <<vars, configVars, watchVars, a2aVars, apiVars>>
       \/ part = "api" /\ ApiNext /\ UNCHANGED <<vars, configVars, watchVars, a2aVars, managerVars>>

\* The fairness of AgentReconcile, in its part.
InAgents(A) == part = "agents" /\ A
ControlFairness ==
    /\ SF_vars(InAgents(Worker)) /\ SF_vars(InAgents(Informers))
    /\ \A k \in Kinds : WF_vars(InAgents(Collect(k)))
    /\ WF_vars(InAgents(Rollout)) /\ WF_vars(InAgents(BecomeAvailable))
    /\ WF_vars(InAgents(Start))

ControlSpec ==
    /\ ControlInit
    /\ [][ControlNext]_<<part, vars, configVars, watchVars, a2aVars, managerVars, apiVars>>
    /\ ControlFairness

\* Every variable keeps its type, in each part.
ControlTypeOK == TypeOK /\ ConfigTypeOK /\ WatchTypeOK /\ A2ATypeOK /\ ManagerTypeOK /\ AgentApiTypeOK
=============================================================================
