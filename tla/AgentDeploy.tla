----------------------------- MODULE AgentDeploy -----------------------------
(***************************************************************************)
(* `kagent deploy` (go/cli/internal/cli/agent/deploy.go): one command      *)
(* builds an image and writes the Secret, the Agent and the tool servers of*)
(* a manifest, each with a Get and a Create or Update, and restarts the    *)
(* pods.  Several people may deploy one agent.                             *)
(*                                                                         *)
(* Outside: the API server, the controller that renders the Agent into a   *)
(* Deployment, the kubelet, and the registry an image is pulled from.  A   *)
(* dry run writes nothing and is left out.                                 *)
(***************************************************************************)
EXTENDS Naturals, Sequences

\* A manifest, with the env file, the shell and the program it is deployed with:
\*   code    the program,   env  the variables of the env file with their values,
\*   shell   the variables of the shell `kagent` runs in,
\*   servers [name, kind: "remote" or "command", fields, wins], whose fields (headers,
\*           or env) are [refs: the variable each name refers to, values: the others];
\*           wins tells, of the names of an env that make one key, the one listed last.
CONSTANTS
    Deployers, Manifests, AgentName, ApiKey,
    sanitizeForSecretName, sanitizeForSecretKey, ToLower,   \* what each makes of a name
    Absent,                             \* no object, no job, nothing looked at
    MaxDeploys, MaxDeployFaults       \* bounds

VARIABLES
    store,        \* the API server: [rv, data] of each object, rv 0 for none
    registry,     \* the program in the image of the agent's name
    nodeImages,   \* the programs nodes have pulled under that name
    deployment,   \* the Deployment: [rev, refs], or Absent
    pods,         \* the running pods: [rev, code, env], or Absent
    job,          \* each deployer's command: [m, at, left, write, seen, alone, older], or Absent
    last,         \* history: the last command that wrote: [m, told, older], told TRUE if
                  \*  it reported success without a warning and had the field to itself,
                  \*  older the programs nodes had when its image was pushed
    deploys, deployFaults   \* what is left of the bounds

deployVars == <<store, registry, nodeImages, deployment, pods, job, last, deploys, deployFaults>>

AgentObject        == <<"Agent", AgentName>>
EnvSecret(n)       == <<"Secret", n, "env">>
HeaderSecret(s, h) == <<"Secret", s.name, sanitizeForSecretName[h]>>
ServerObject(s)    == <<s.kind, s.name>>

Write(obj, how, data, needs) == [obj |-> obj, how |-> how, data |-> data, needs |-> needs]
Values(refs, shell) == [k \in {k \in DOMAIN refs : refs[k] \in DOMAIN shell} |-> shell[refs[k]]]

----------------------------------------------------------------------------
(* What one command writes: the agent first, then each server in turn; for *)
(* each of them its Secrets, then the object that refers to them.          *)

\* A header is resolved, and its Secret written, before the next header is looked
\* at, in the order of a Go map, which is any order.  Headers that differ in case
\* or hyphens may have one Secret, and one key in it.
processHeaderValue(s, shell, h) ==
    LET refs == s.fields.refs
    IN Write(HeaderSecret(s, h), "merge",
             Values([k \in {sanitizeForSecretKey[h]} |-> refs[h]], shell), {refs[h]})
HeaderWrites(s, shell) == {processHeaderValue(s, shell, h) : h \in DOMAIN s.fields.refs}

\* Mutant: the keys keep their case.
NamesAsKeys(s, shell) ==
    Write(EnvSecret(s.name), "merge", Values(s.fields.refs, shell),
          {s.fields.refs[n] : n \in DOMAIN s.fields.refs})

\* Every variable is resolved before the one Secret is written.
EnvWrite(s, shell) ==
    LET refs == s.fields.refs
    IN Write(EnvSecret(s.name), "merge",
             Values([k \in {ToLower[n] : n \in DOMAIN refs} |-> refs[s.wins[k]]], shell),
             {refs[n] : n \in DOMAIN refs})
EnvWrites(s, shell) == IF DOMAIN s.fields.refs = {} THEN {} ELSE {EnvWrite(s, shell)}

createEnvFileSecret(m) == Write(EnvSecret(AgentName), "replace", m.env, {})
createAgentCRD(m)      == Write(AgentObject, "replace", [refs |-> DOMAIN m.env], {})

\* Part 1 is the agent, part i + 1 server i.
PartsOf(m) == 1..(Len(m.servers) + 1)
Secrets(m, part) ==
    IF part = 1 THEN {createEnvFileSecret(m)}
    ELSE LET s == m.servers[part - 1]
         IN IF s.kind = "remote" THEN HeaderWrites(s, m.shell) ELSE EnvWrites(s, m.shell)
ObjectOf(m, part) ==
    IF part = 1 THEN createAgentCRD(m)
    ELSE LET s == m.servers[part - 1] IN Write(ServerObject(s), "replace", s.fields, {})

WritesOf(m, part) == Secrets(m, part) \cup {ObjectOf(m, part)}
PlannedWrites(m)  == UNION {WritesOf(m, part) : part \in PartsOf(m)}
AllWrites == UNION {PlannedWrites(m) : m \in Manifests}
Objects == {w.obj : w \in AllWrites}

Programs   == {m.code : m \in Manifests}
DeployJobs == [m : Manifests, at : Nat, left : SUBSET AllWrites, write : AllWrites \cup {Absent},
         seen : Nat \cup {Absent}, alone : BOOLEAN, older : SUBSET Programs]
Deployments == [rev : Nat, refs : {DOMAIN m.env : m \in Manifests}]

ASSUME DeployAssumption ==
    /\ Manifests # {} /\ MaxDeploys \in Nat /\ MaxDeployFaults \in Nat
    /\ Absent \notin Nat /\ Absent \notin DeployJobs /\ Absent \notin Deployments

\* add-mcp refuses a server of a name the manifest has (McpAdd: names stay distinct).
ASSUME ManifestsAssumption ==
    \A m \in Manifests :
        /\ m.env = [k \in DOMAIN m.env |-> m.env[k]]
        /\ m.servers \in Seq({m.servers[i] : i \in DOMAIN m.servers})
        /\ \A i \in DOMAIN m.servers :
              /\ m.servers[i].kind \in {"remote", "command"}
              /\ m.servers[i].kind = "command" =>
                    LET refs == m.servers[i].fields.refs   wins == m.servers[i].wins
                    IN \A n \in DOMAIN refs : wins[ToLower[n]] \in {l \in DOMAIN refs : ToLower[l] = ToLower[n]}
              /\ \A j \in DOMAIN m.servers : m.servers[i].name = m.servers[j].name => i = j

DeployTypeOK ==
    /\ DOMAIN store = Objects
    /\ \A o \in Objects : store[o].rv \in Nat /\ (store[o].rv = 0 => store[o].data = Absent)
    /\ registry \in Programs \cup {Absent} /\ nodeImages \subseteq Programs
    /\ deployment \in Deployments \cup {Absent}
    /\ job \in [Deployers -> DeployJobs \cup {Absent}]
    /\ \A d \in Deployers : job[d] # Absent =>
          /\ job[d].at \in 0..Len(job[d].m.servers) + 2
          /\ job[d].left # {} => job[d].at \in PartsOf(job[d].m) /\ job[d].left \subseteq Secrets(job[d].m, job[d].at)
    /\ pods # Absent => deployment # Absent /\ pods.rev \in 0..deployment.rev /\ pods.code \in nodeImages
    /\ last.told \in BOOLEAN /\ deploys \in 0..MaxDeploys /\ deployFaults \in 0..MaxDeployFaults

DeployInit ==
    /\ store = [o \in Objects |-> [rv |-> 0, data |-> Absent]]
    /\ registry = Absent /\ nodeImages = {} /\ deployment = Absent /\ pods = Absent
    /\ job = [d \in Deployers |-> Absent] /\ last = [m |-> Absent, told |-> FALSE, older |-> {}]
    /\ deploys = MaxDeploys /\ deployFaults = MaxDeployFaults

----------------------------------------------------------------------------
(* The command. *)

Ends(d, told) == job' = [job EXCEPT ![d] = Absent] /\ last' = [m |-> job[d].m, told |-> told, older |-> job[d].older]
DeployFault == deployFaults > 0 /\ deployFaults' = deployFaults - 1
\* The next part, with the Secrets it writes.
GoesTo(d, at, older) ==
    job' = [job EXCEPT ![d] = [@ EXCEPT !.at = at, !.write = Absent, !.seen = Absent, !.older = older,
                               !.left = IF at \in PartsOf(job[d].m) THEN Secrets(job[d].m, at) ELSE {}]]

\* The manifest and the env file are checked before anything is written; a missing
\* variable other than the key is asked about, and the answer may be no.
Begin(d, m) ==
    /\ job[d] = Absent /\ deploys > 0 /\ deploys' = deploys - 1 /\ ApiKey \in DOMAIN m.env
    /\ job' = [e \in Deployers |->
                 IF e = d THEN [m |-> m, at |-> 0, left |-> {}, write |-> Absent, seen |-> Absent,
                                alone |-> \A f \in Deployers : job[f] = Absent, older |-> {}]
                 ELSE IF job[e] # Absent THEN [job[e] EXCEPT !.alone = FALSE] ELSE Absent]
    /\ UNCHANGED <<store, registry, nodeImages, deployment, pods, last, deployFaults>>

BuildAndPush(d) ==
    /\ job[d] # Absent /\ job[d].at = 0
    /\ \/ registry' = job[d].m.code /\ GoesTo(d, 1, nodeImages) /\ UNCHANGED <<last, deployFaults>>
       \/ DeployFault /\ Ends(d, FALSE) /\ UNCHANGED registry
    /\ UNCHANGED <<store, nodeImages, deployment, pods, deploys>>

Writing(d) == job[d] # Absent /\ job[d].at \in PartsOf(job[d].m)
ToWrite(d) == IF job[d].left # {} THEN job[d].left ELSE {ObjectOf(job[d].m, job[d].at)}

Look(d) ==
    /\ Writing(d) /\ job[d].seen = Absent
    /\ \/ \E w \in ToWrite(d) :
             \/ /\ w.needs \subseteq DOMAIN job[d].m.shell
                /\ job' = [job EXCEPT ![d] = [@ EXCEPT !.write = w, !.seen = store[w.obj].rv]]
                /\ UNCHANGED <<last, deployFaults>>
             \/ /\ ~ w.needs \subseteq DOMAIN job[d].m.shell
                /\ Ends(d, FALSE) /\ UNCHANGED deployFaults
       \/ DeployFault /\ Ends(d, FALSE)
    /\ UNCHANGED <<store, registry, nodeImages, deployment, pods, deploys>>

Merged(old, new) == [k \in DOMAIN old \cup DOMAIN new |-> IF k \in DOMAIN new THEN new[k] ELSE old[k]]

Written(d) ==
    IF job[d].left = {} THEN GoesTo(d, job[d].at + 1, job[d].older)
    ELSE job' = [job EXCEPT ![d] = [@ EXCEPT !.left = job[d].left \ {job[d].write}, !.write = Absent, !.seen = Absent]]

\* Create fails if somebody created the object, Update if it was written since.
CreateOrUpdate(d) ==
    /\ Writing(d) /\ job[d].seen # Absent
    /\ LET w == job[d].write   old == store[w.obj]
       IN \/ /\ old.rv = job[d].seen
             /\ store' = [store EXCEPT ![w.obj] =
                            [rv   |-> old.rv + 1,
                             data |-> IF old.rv = 0 \/ w.how = "replace" THEN w.data ELSE Merged(old.data, w.data)]]
             /\ Written(d) /\ UNCHANGED <<last, deployFaults>>
          \/ old.rv # job[d].seen /\ Ends(d, FALSE) /\ UNCHANGED <<store, deployFaults>>
          \/ DeployFault /\ Ends(d, FALSE) /\ UNCHANGED store
    /\ UNCHANGED <<registry, nodeImages, deployment, pods, deploys>>

RolloutRestart == deployment' = [deployment EXCEPT !.rev = @ + 1]

\* No Deployment after 30 seconds counts as success; a restart that failed is a
\* warning before the success is printed.
restartAgentDeployment(d) ==
    /\ job[d] # Absent /\ job[d].at = Len(job[d].m.servers) + 2
    /\ \/ deployment # Absent /\ RolloutRestart /\ Ends(d, job[d].alone) /\ UNCHANGED deployFaults
       \/ deployment = Absent /\ UNCHANGED deployment /\ Ends(d, job[d].alone) /\ UNCHANGED deployFaults
       \/ DeployFault /\ UNCHANGED deployment /\ Ends(d, FALSE)
    /\ UNCHANGED <<store, registry, nodeImages, pods, deploys>>

----------------------------------------------------------------------------
(* The cluster. *)

\* The controller renders the Agent, and writes its status.
RenderAgent ==
    /\ store[AgentObject].rv > 0
    /\ deployment # Absent => deployment.refs # store[AgentObject].data.refs
    /\ deployment' = [rev |-> IF deployment = Absent THEN 1 ELSE deployment.rev + 1, refs |-> store[AgentObject].data.refs]
    /\ store' = [store EXCEPT ![AgentObject].rv = @ + 1]
    /\ UNCHANGED <<registry, nodeImages, pods, job, last, deploys, deployFaults>>

\* Pods start with the Secret of that moment; with a key of it missing they do not.
\* The Agent gives no pull policy, and IfNotPresent is what is made of that: a node
\* that has an image of the name starts it, another pulls the registry's.
CanStart == store[EnvSecret(AgentName)].rv > 0 /\ deployment.refs \subseteq DOMAIN store[EnvSecret(AgentName)].data
StartPods ==
    /\ deployment # Absent /\ CanStart
    /\ pods # Absent => pods.rev # deployment.rev
    /\ \E code \in nodeImages \cup ({registry} \ {Absent}) :
          /\ pods' = [rev |-> deployment.rev, code |-> code,
                      env |-> [k \in deployment.refs |-> store[EnvSecret(AgentName)].data[k]]]
          /\ nodeImages' = nodeImages \cup {code}
    /\ UNCHANGED <<store, registry, deployment, job, last, deploys, deployFaults>>

DeployNext ==
    \/ \E d \in Deployers :
        \/ \E m \in Manifests : Begin(d, m)
        \/ BuildAndPush(d) \/ Look(d) \/ CreateOrUpdate(d) \/ restartAgentDeployment(d)
    \/ RenderAgent \/ StartPods

DeploySpec == DeployInit /\ [][DeployNext]_deployVars

----------------------------------------------------------------------------
\* The Secret and the key a server's object refers to for one of its names.
Place(s, n) ==
    IF s.kind = "remote" THEN <<HeaderSecret(s, n), sanitizeForSecretKey[n]>>
    ELSE <<EnvSecret(s.name), ToLower[n]>>

\* A server's object is the manifest's, and the places it refers to hold what was
\* resolved for them: of names with one place, for one of these.
ServerDeployed(s, shell) ==
    /\ store[ServerObject(s)].rv > 0 /\ store[ServerObject(s)].data = s.fields
    /\ \A n \in DOMAIN s.fields.refs :
        LET secret == store[Place(s, n)[1]]   key == Place(s, n)[2]
        IN /\ secret.rv > 0 /\ key \in DOMAIN secret.data
           /\ \E l \in DOMAIN s.fields.refs :
                 Place(s, l) = Place(s, n) /\ secret.data[key] = shell[s.fields.refs[l]]

\* No server refers to a key of the env file: one of the agent's own name has its
\* variables in the Secret of the env file, where they take the place of its keys.
SparesEnvFile(m) ==
    \A i \in DOMAIN m.servers : \A n \in DOMAIN m.servers[i].fields.refs :
        \A k \in DOMAIN m.env : Place(m.servers[i], n) # <<EnvSecret(AgentName), k>>

\* Where the last deploy reported success without a warning, no other command ran
\* beside it, and no server of its manifest takes a key of the env file, the
\* cluster comes to rest on that deploy as a whole: pods that can start and have
\* the values of its env file, its program, or one that a node had before under
\* the image's name, and its servers with the values of its shell.
DeployedIsWhole ==
    (last.told /\ (\A d \in Deployers : job[d] = Absent) /\ SparesEnvFile(last.m))
      => /\ \A i \in DOMAIN last.m.servers : ServerDeployed(last.m.servers[i], last.m.shell)
         /\ store[AgentObject].data = [refs |-> DOMAIN last.m.env]
         /\ (deployment # Absent /\ deployment.refs = store[AgentObject].data.refs)
              => /\ CanStart
                 /\ (pods # Absent /\ pods.rev = deployment.rev)
                      => pods.code \in {last.m.code} \cup last.older /\ pods.env = last.m.env
=============================================================================
