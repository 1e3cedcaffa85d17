---------------------------- MODULE A2AHandlers ----------------------------
(***************************************************************************)
(* The A2A registrar of one replica of the controller                      *)
(* (go/internal/a2a/a2a_registrar.go) and the mux it keeps                 *)
(* (a2a_handler_mux.go): informer events of Agents set and remove the      *)
(* handlers requests are passed to.                                        *)
(*                                                                         *)
(* Outside: the API server, and the informer.  It tells its handler each   *)
(* change it saw, in order; after a lost watch it lists again and tells    *)
(* the difference, so a deletion and a new Agent of the name may be told   *)
(* as one update, with the generation of both being 1.                     *)
(***************************************************************************)
EXTENDS Naturals, Sequences

CONSTANTS
    A2AAgents, CardSpecs,           \* names of Agents; what their cards are made of
    MaxAgentEdits, MaxHandlerFaults, MaxRestarts   \* bounds

ASSUME A2AAssumption == MaxAgentEdits \in Nat /\ MaxHandlerFaults \in Nat /\ MaxRestarts \in Nat

VARIABLES
    a2aAgent,    \* the API server: [gen, spec], gen 0 for none
    seenAgent,   \* what the informer has seen
    told,        \* changes the handler functions have still to be called for
    handlers,    \* handlerMux.handlers: the card each Agent is served with
    unset,       \* history: Agents whose last upsert failed
    agentEdits, handlerFaults, restarts   \* what is left of the bounds

a2aVars == <<a2aAgent, seenAgent, told, handlers, unset, agentEdits, handlerFaults, restarts>>

Gone      == [gen |-> 0, spec |-> "none"]
NoHandler == "404"

A2ATypeOK ==
    /\ \A a \in A2AAgents : a2aAgent[a].spec \in CardSpecs \cup {"none"} /\ seenAgent[a].spec \in CardSpecs \cup {"none"}
    /\ \A i \in DOMAIN told : told[i].name \in A2AAgents /\ told[i].old # told[i].new
    /\ handlers \in [A2AAgents -> CardSpecs \cup {NoHandler}] /\ unset \subseteq A2AAgents
    /\ agentEdits \in 0..MaxAgentEdits /\ handlerFaults \in 0..MaxHandlerFaults /\ restarts \in 0..MaxRestarts

A2AInit ==
    /\ a2aAgent = [a \in A2AAgents |-> Gone] /\ seenAgent = a2aAgent /\ told = <<>>
    /\ handlers = [a \in A2AAgents |-> NoHandler] /\ unset = {}
    /\ agentEdits = MaxAgentEdits /\ handlerFaults = MaxHandlerFaults /\ restarts = MaxRestarts

EditA2AAgent(a) ==
    /\ agentEdits > 0 /\ agentEdits' = agentEdits - 1
    /\ \E s \in CardSpecs \cup {"none"} :
        /\ s # a2aAgent[a].spec
        /\ a2aAgent' = [a2aAgent EXCEPT ![a] = IF s = "none" THEN Gone ELSE [gen |-> @.gen + 1, spec |-> s]]
    /\ UNCHANGED <<seenAgent, told, handlers, unset, handlerFaults, restarts>>

Tell(a) ==
    /\ seenAgent[a] # a2aAgent[a] /\ seenAgent' = [seenAgent EXCEPT ![a] = a2aAgent[a]]
    /\ told' = Append(told, [name |-> a, old |-> seenAgent[a], new |-> a2aAgent[a]])
    /\ UNCHANGED <<a2aAgent, handlers, unset, agentEdits, handlerFaults, restarts>>

----------------------------------------------------------------------------
(* The event handlers of Start. *)

SetAgentHandler(a, card) == handlers' = [handlers EXCEPT ![a] = card]
RemoveAgentHandlerKept(a) == handlers' = [handlers EXCEPT ![a] = Gone.spec]   \* a mutant: a handler of no Agent
RemoveAgentHandler(a)    == handlers' = [handlers EXCEPT ![a] = NoHandler]

\* A failure is logged, and nothing tries again.
upsertAgentHandler(a, agent) ==
    \/ SetAgentHandler(a, agent.spec) /\ unset' = unset \ {a} /\ UNCHANGED handlerFaults
    \/ /\ handlerFaults > 0 /\ handlerFaults' = handlerFaults - 1
       /\ unset' = unset \cup {a} /\ UNCHANGED handlers

ChangedGeneration(old, new) == old.gen # new.gen   \* a mutant
Changed(old, new) == old.gen # new.gen \/ old.spec # new.spec

HandleAgentEvent ==
    /\ told # <<>> /\ told' = Tail(told)
    /\ LET a == Head(told).name   old == Head(told).old   new == Head(told).new
       IN \/ /\ new # Gone
             /\ IF old = Gone \/ Changed(old, new) THEN upsertAgentHandler(a, new)
                ELSE UNCHANGED <<handlers, unset, handlerFaults>>
          \/ /\ new = Gone /\ RemoveAgentHandler(a)
             /\ unset' = unset \ {a} /\ UNCHANGED handlerFaults
    /\ UNCHANGED <<a2aAgent, seenAgent, agentEdits, restarts>>

\* A new process: an empty mux, and an informer that tells every Agent as added.
RestartReplica ==
    /\ restarts > 0 /\ restarts' = restarts - 1
    /\ handlers' = [a \in A2AAgents |-> NoHandler] /\ unset' = {} /\ told' = <<>>
    /\ seenAgent' = [a \in A2AAgents |-> Gone]
    /\ UNCHANGED <<a2aAgent, agentEdits, handlerFaults>>

A2ANext == \/ \E a \in A2AAgents : EditA2AAgent(a) \/ Tell(a)
           \/ HandleAgentEvent \/ RestartReplica

A2ASpec == A2AInit /\ [][A2ANext]_a2aVars

----------------------------------------------------------------------------
(* Properties. *)

\* Where a request for the Agent goes: to the handler its name has, or nowhere.
ServeHTTP(a) == handlers[a]

\* Once every change is seen and handled, a request for an Agent reaches it, under
\* the card its present spec makes, and a request for an Agent that is gone finds
\* nothing, whatever was deleted and created again between two looks of the
\* informer, and whatever a restart forgot; an Agent whose last upsert failed is
\* excepted (a2a_registrar.go:67-152, a2a_handler_mux.go:46-107).
MuxServesAgents ==
    (told = <<>> /\ seenAgent = a2aAgent) => \A a \in A2AAgents \ unset :
        ServeHTTP(a) = IF a2aAgent[a] = Gone THEN NoHandler ELSE a2aAgent[a].spec
============================================================================
