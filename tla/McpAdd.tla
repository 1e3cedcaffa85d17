------------------------------- MODULE McpAdd -------------------------------
(***************************************************************************)
(* `kagent add-mcp` (go/cli/internal/cli/agent/add_mcp.go): one command    *)
(* reads kagent.yaml, asks for a server (by flags, or with ServerWizard),  *)
(* saves kagent.yaml with it and writes the files made from kagent.yaml    *)
(* again.  Several people, or terminals, may do so in one project.         *)
(*                                                                         *)
(* The project has the layout of ADK Python (<project>/<agent> is there).  *)
(* A server's directory is its config.yaml: its Dockerfile is only copied. *)
(***************************************************************************)
EXTENDS Naturals

CONSTANTS
    Adders, Servers,       \* people; servers [name, type, data]
    Idle,                  \* no command
    MaxAdds, MaxAddFaults  \* bounds

Names == {s.name : s \in Servers}
Steps == {"ask", "save", "tools", "dirs", "compose"}
Jobs  == {j \in [at : Steps, res : Servers \cup {Idle}, servers : SUBSET Servers,
                 left : SUBSET Servers, alone : BOOLEAN] : j.at = "ask" <=> j.res = Idle}

ASSUME AddAssumption ==
    /\ \A s \in Servers : {"name", "type"} \subseteq DOMAIN s
    /\ Idle \notin Servers /\ Idle \notin Jobs
    /\ MaxAdds \in Nat /\ MaxAddFaults \in Nat

VARIABLES
    kagentYaml, toolsPy, compose,   \* the servers kagent.yaml, mcp_tools.py and
                                    \*  docker-compose.yaml name
    parses,         \* kagent.yaml can be loaded
    configs,        \* config.yaml in the directory of each name, or Idle
    adding,         \* each person's command: [at, res, servers, left, alone], or Idle
    reported,       \* history: the servers whose commands had the project to themselves
                    \*  and reported success, since kagent.yaml was last cut short
    whole,          \* history: the last to save kagent.yaml was such a command
    adds, addFaults \* counters of the bounds

addVars == <<kagentYaml, parses, toolsPy, compose, configs, adding, reported, whole, adds, addFaults>>

Commands(servers) == {s \in servers : s.type = "command"}

McpTypeOK ==
    /\ parses \in BOOLEAN /\ kagentYaml \subseteq Servers /\ toolsPy \subseteq Servers /\ compose \subseteq Servers
    /\ configs \in [Names -> Servers \cup {Idle}] /\ reported \subseteq Servers /\ whole \in BOOLEAN
    /\ adding \in [Adders -> Jobs \cup {Idle}]
    /\ adds \in 0..MaxAdds /\ addFaults \in 0..MaxAddFaults

McpInit ==
    /\ kagentYaml = {} /\ parses = TRUE /\ toolsPy = {} /\ compose = {} /\ configs = [n \in Names |-> Idle]
    /\ adding = [p \in Adders |-> Idle] /\ reported = {} /\ whole = FALSE
    /\ adds = 0 /\ addFaults = 0

At(p, at) == adding[p] # Idle /\ adding[p].at = at
files     == <<kagentYaml, parses, toolsPy, compose, configs>>

\* A kagent.yaml that does not load ends the command.
LoadManifest(p) ==
    /\ parses /\ adding[p] = Idle /\ adds < MaxAdds /\ adds' = adds + 1
    /\ adding' = [q \in Adders |->
          IF q = p THEN [at |-> "ask", res |-> Idle, servers |-> kagentYaml, left |-> {},
                         alone |-> \A r \in Adders : adding[r] = Idle]
          ELSE IF adding[q] = Idle THEN Idle ELSE [adding[q] EXCEPT !.alone = FALSE]]
    /\ UNCHANGED <<files, reported, whole, addFaults>>

\* The flags, or the form; a form that was quit ends the command.
Asked(p, s) ==
    /\ At(p, "ask")
    /\ adding' = [adding EXCEPT ![p].at = "save", ![p].res = s]
    /\ UNCHANGED <<files, reported, whole, adds, addFaults>>

\* The command ends with an error, or because the form was quit.
Canceled(p) ==
    /\ At(p, "ask") /\ adding' = [adding EXCEPT ![p] = Idle]
    /\ UNCHANGED <<files, reported, whole, adds, addFaults>>

\* The name is compared with those that were loaded, not with those of kagent.yaml now.
Unique(p) == \A s \in adding[p].servers : s.name # adding[p].res.name

SaveManifest(p) ==
    /\ At(p, "save")
    /\ \/ ~Unique(p) /\ adding' = [adding EXCEPT ![p] = Idle] /\ UNCHANGED <<kagentYaml, parses, whole>>
       \/ /\ Unique(p) /\ kagentYaml' = adding[p].servers \cup {adding[p].res} /\ parses' = TRUE
          /\ whole' = FALSE
          /\ adding' = [adding EXCEPT ![p].at = "tools", ![p].servers = kagentYaml']
    /\ UNCHANGED <<toolsPy, compose, configs, reported, adds, addFaults>>

regenerateMcpToolsFile(p) ==
    /\ At(p, "tools") /\ toolsPy' = adding[p].servers
    /\ adding' = [adding EXCEPT ![p].at = "dirs", ![p].left = Commands(adding[p].servers)]
    /\ UNCHANGED <<kagentYaml, parses, compose, configs, reported, whole, adds, addFaults>>

\* Mutant: only the directory of the new server is written.
DirectoryOfNew(p, s) ==
    /\ At(p, "dirs") /\ s \in adding[p].left
    /\ configs' = IF s = adding[p].res THEN [configs EXCEPT ![s.name] = s] ELSE configs
    /\ adding' = [adding EXCEPT ![p].left = @ \ {s}]
    /\ UNCHANGED <<kagentYaml, parses, toolsPy, compose, reported, whole, adds, addFaults>>

\* One directory; the servers of a manifest have different names.
ensureMcpServerDirectory(p, s) ==
    /\ At(p, "dirs") /\ s \in adding[p].left
    /\ configs' = [configs EXCEPT ![s.name] = s]
    /\ adding' = [adding EXCEPT ![p].left = @ \ {s}]
    /\ UNCHANGED <<kagentYaml, parses, toolsPy, compose, reported, whole, adds, addFaults>>

DirectoriesDone(p) ==
    /\ At(p, "dirs") /\ adding[p].left = {}
    /\ adding' = [adding EXCEPT ![p].at = "compose"]
    /\ UNCHANGED <<files, reported, whole, adds, addFaults>>

RegenerateDockerCompose(p) ==
    /\ At(p, "compose") /\ compose' = adding[p].servers
    /\ adding' = [adding EXCEPT ![p] = Idle]
    /\ whole' = adding[p].alone
    /\ reported' = reported \cup (IF adding[p].alone THEN {adding[p].res} ELSE {})
    /\ UNCHANGED <<kagentYaml, parses, toolsPy, configs, adds, addFaults>>

\* os.WriteFile truncates the file before it writes: a write that fails, or is killed,
\* leaves some of the servers in it, and of kagent.yaml perhaps nothing that loads.
\* (A server cut in its middle is taken for one that is missing.)
CutShort(p) ==
    \/ /\ At(p, "save") /\ Unique(p)
       /\ kagentYaml' \in SUBSET (adding[p].servers \cup {adding[p].res}) /\ parses' \in BOOLEAN
       /\ reported' = {} /\ whole' = FALSE
       /\ UNCHANGED <<toolsPy, compose, configs>>
    \/ /\ At(p, "tools") /\ toolsPy' \in SUBSET adding[p].servers
       /\ UNCHANGED <<kagentYaml, parses, compose, configs, reported, whole>>
    \/ /\ At(p, "dirs") /\ \E s \in adding[p].left : configs' = [configs EXCEPT ![s.name] = Idle]
       /\ UNCHANGED <<kagentYaml, parses, toolsPy, compose, reported, whole>>
    \/ /\ At(p, "compose") /\ compose' \in SUBSET adding[p].servers
       /\ UNCHANGED <<kagentYaml, parses, toolsPy, configs, reported, whole>>

\* What cannot be read, rendered or written ends the command where it is.
AddFault(p) ==
    /\ adding[p] # Idle /\ adding[p].at # "ask" /\ addFaults < MaxAddFaults
    /\ addFaults' = addFaults + 1 /\ adding' = [adding EXCEPT ![p] = Idle]
    /\ UNCHANGED <<files, reported, whole>> \/ CutShort(p)
    /\ UNCHANGED adds

McpNext ==
    \E p \in Adders :
        \/ LoadManifest(p) \/ Canceled(p) \/ SaveManifest(p) \/ regenerateMcpToolsFile(p)
        \/ DirectoriesDone(p) \/ RegenerateDockerCompose(p) \/ AddFault(p)
        \/ \E s \in Servers : Asked(p, s) \/ ensureMcpServerDirectory(p, s)

McpSpec == McpInit /\ [][McpNext]_addVars

\* A server whose command had the project to itself and reported success stays in
\* kagent.yaml until a save of it is cut short, and when such a command was the last
\* to save it, it loads and every file agrees with it: also after commands that
\* stopped elsewhere, whose server is in kagent.yaml but not in the files, and which
\* cannot be repeated (the name exists).
AddedIsWhole ==
    /\ reported \subseteq kagentYaml
    /\ whole => /\ parses /\ toolsPy = kagentYaml /\ compose = kagentYaml
                /\ \A s \in Commands(kagentYaml) : configs[s.name] = s
=============================================================================
