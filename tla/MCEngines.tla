------------------------------ MODULE MCEngines ------------------------------
(***************************************************************************)
(* The engines, the stores they keep their state in and the commands people*)
(* talk to them with, side by side: each behaviour is one of the parts,    *)
(* with the other parts at rest.                                           *)
(***************************************************************************)
EXTENDS MCTaskExecution, TaskRuns, Sessions, Checkpoints, CrewRuns, DatabaseClient,
        AgentDeploy, TerminalChat, ServerWizard, McpAdd

VARIABLE part

\* Rows that differ in one column of a key, or in the data.
SomeSamples ==
    [agent      |-> {[id |-> 1, data |-> 1], [id |-> 1, data |-> 2], [id |-> 2, data |-> 1]},
     session    |-> [id : 1..2, user : {1}, agent : 1..2] \cup {[id |-> 1, user |-> 2, agent |-> 1]},
     task       |-> [id : 1..2, session : {1}, data : 1..2],
     push       |-> [id : {1}, task : {1}, data : 1..2] \cup {[id |-> 2, task |-> 2, data |-> 1]},
     event      |-> {[id |-> i, session |-> s, user |-> s] : i \in 1..3, s \in 1..2},
     toolserver |-> [name : {1}, group : {1}, data : 1..2]
                    \cup {[name |-> 2, group |-> 1, data |-> 1], [name |-> 3, group |-> 2, data |-> 1]},
     tool       |-> [id : 1..2, server : {1}, group : {1}, data : {1}]
                    \cup {[id |-> 3, server |-> 2, group |-> 1, data |-> 1]},
     checkpoint |-> [user : {1}, thread : 1..2, id : 1..2],
     write      |-> [user : {1}, thread : {1}, id : {1}, idx : 0..1],
     flow       |-> [user : {1}, thread : 1..2, method : {1}, data : 1..2],
     feedback   |-> [user : 1..2],
     memory     |-> {[user |-> 1, thread |-> t, words |-> t] : t \in 1..2}]

OneTask       == [t \in {1} |-> 2]
SomeSessions  == [r1 |-> "s", r2 |-> "t"]
SomeTexts     == ("plan" :> {"plan", "plan a trip"} @@ "plan a trip" :> {"plan a trip"})

\* Header and variable names that differ in case or hyphens.
SomeSecretNames == ("X-A" :> "xa" @@ "XA" :> "xa" @@ "Xa" :> "xa")
SomeSecretKeys  == ("X-A" :> "x_a" @@ "XA" :> "xa" @@ "Xa" :> "xa")
SomeLower       == ("KEY" :> "key" @@ "Key" :> "key")

\* Manifests with more and fewer variables, headers of one Secret, with two keys and
\* with one, variables of one key in a server of the agent's own name, and a variable
\* the shell does not have.
Server(name, kind, refs, values, wins) ==
    [name |-> name, kind |-> kind, fields |-> [refs |-> refs, values |-> values], wins |-> wins]
SomeManifests ==
    {[code |-> 1, env |-> [KEY |-> 1, A |-> 1], shell |-> [V |-> 1, W |-> 2],
      servers |-> <<Server("r", "remote", ("X-A" :> "V" @@ "XA" :> "W"), <<>>, <<>>)>>],
     [code |-> 2, env |-> [KEY |-> 2], shell |-> [V |-> 2, W |-> 3],
      servers |-> <<Server("x", "command", [KEY |-> "V", Key |-> "W"], [f |-> 1], [key |-> "Key"])>>],
     [code |-> 1, env |-> [KEY |-> 1], shell |-> [V |-> 1],
      servers |-> <<Server("r", "remote", [XA |-> "V", Xa |-> "U"], <<>>, <<>>)>>]}

\* Two servers of one name, and another whose directory is written as well.
SomeServers == {[name |-> "n", type |-> "command", data |-> 1],
                [name |-> "n", type |-> "remote",  data |-> 2],
                [name |-> "m", type |-> "command", data |-> 1]}

\* One session of agent a, and one not created yet.
SomeOwners == [p |-> "a", r |-> Unset]

cliVars == <<wizardVars, addVars>>
others  == <<vars, adkVars, sessionVars, lgVars, crewVars, dbVars, deployVars, chatVars>>

EnginesInit ==
    /\ part \in {"langgraph", "adk", "session", "checkpoints", "crew", "database",
                "deploy", "terminal", "wizard", "mcp"}
    /\ Init /\ AdkInit /\ SessionInit /\ LgInit
    /\ CrewInit /\ (part # "crew" => app = "crew")
    /\ DbInit /\ (part # "database" => focus = "feedback")
    /\ DeployInit /\ TuiInit /\ WizardInit /\ McpInit

EnginesNext ==
    /\ part' = part
    /\ \/ part = "langgraph" /\ Next
          /\ UNCHANGED <<adkVars, sessionVars, lgVars, crewVars, dbVars, deployVars, chatVars, cliVars>>
       \/ part = "adk" /\ AdkNext
          /\ UNCHANGED <<vars, sessionVars, lgVars, crewVars, dbVars, deployVars, chatVars, cliVars>>
       \/ part = "session" /\ SessionNext
          /\ UNCHANGED <<vars, adkVars, lgVars, crewVars, dbVars, deployVars, chatVars, cliVars>>
       \/ part = "checkpoints" /\ LgNext
          /\ UNCHANGED <<vars, adkVars, sessionVars, crewVars, dbVars, deployVars, chatVars, cliVars>>
       \/ part = "crew" /\ CrewNext
          /\ UNCHANGED <<vars, adkVars, sessionVars, lgVars, dbVars, deployVars, chatVars, cliVars>>
       \/ part = "database" /\ DbNext
          /\ UNCHANGED <<vars, adkVars, sessionVars, lgVars, crewVars, deployVars, chatVars, cliVars>>
       \/ part = "deploy" /\ DeployNext
          /\ UNCHANGED <<vars, adkVars, sessionVars, lgVars, crewVars, dbVars, chatVars, cliVars>>
       \/ part = "terminal" /\ TuiNext
          /\ UNCHANGED <<vars, adkVars, sessionVars, lgVars, crewVars, dbVars, deployVars, cliVars>>
       \/ part = "wizard" /\ WizardNext /\ UNCHANGED <<addVars, others>>
       \/ part = "mcp" /\ McpNext /\ UNCHANGED <<wizardVars, others>>

EnginesSpec ==
    /\ EnginesInit
    /\ [][EnginesNext]_<<part, others, cliVars>>
    /\ Fairness

\* Every variable keeps its type, in each part.
EnginesTypeOK == TypeOK /\ AdkTypeOK /\ SessionTypeOK /\ CrewTypeOK
                 /\ DeployTypeOK /\ TuiTypeOK /\ WizardTypeOK /\ McpTypeOK
=============================================================================
