---------------------------- MODULE ModelConfigs ----------------------------
(***************************************************************************)
(* One ModelConfig and the Secrets it names: the handlers that create,     *)
(* update and delete it (go/internal/httpserver/handlers/modelconfig.go,   *)
(* utils.go), the controller that hashes its Secrets into its status       *)
(* (modelconfig_controller.go, reconciler.go:216-337), and the Secret      *)
(* watch between them.  The handlers of a Memory (handlers/memory.go) have *)
(* the same shape but no controller, and leave the key alone after the     *)
(* create: `sort` chooses which of the two this is.                        *)
(*                                                                         *)
(* Handlers and controller read through the manager's informer caches and  *)
(* write to the API server; a handler's calls interleave with another      *)
(* handler's, with the controller's, with kubectl and with the garbage     *)
(* collector.  The caches see each deletion.                               *)
(***************************************************************************)
EXTENDS Naturals, FiniteSets

CONSTANTS
    Clients,        \* requests that may be under way together
    MaxRequests     \* bound on requests, failed calls and edits by kubectl, together

VARIABLES
    sort,               \* "ModelConfig" or "Memory"
    config, secrets,    \* the API server
    cconfig, csecrets,  \* the caches
    secretNews,         \* Secrets whose map function has not run yet
    configDue, hashing, \* the controller: its queue, its worker
    client,             \* client[c]: the request under way
    promised,           \* history: the key of the last request that was granted
    stale,              \* history: a pass kept its status, which was the cache's
    loose,              \* history: keys that refused requests, or kubectl, have stored
    requests            \* what is left of the bound

configVars == <<sort, config, secrets, cconfig, csecrets, secretNews, configDue, hashing,
                client, promised, stale, loose, requests>>

None     == [uid |-> 0]
NoCall   == [at |-> "none"]
Unhashed == [hash |-> {}, accepted |-> FALSE, observed |-> 0]

\* "m" is the Secret of the config's own name, "ca" one that somebody else keeps.
SecretNames == {"m", "ca"}

\* rv is the resource version: the API server refuses an update that read another.
NewConfig(uid, ref, tls)      == [uid |-> uid, gen |-> 1, rv |-> 1, ref |-> ref, tls |-> tls, status |-> Unhashed]
Secret(uid, owner, value)  == [uid |-> uid, rv |-> 1, owner |-> owner, value |-> value]
RefsOf(c) == {c.ref, c.tls} \ {""}

\* A number for each request and each edit of a Secret: they are the uids and the
\* contents.
Request == MaxRequests - requests + 2
Numbers == 0..MaxRequests + 2

ASSUME ConfigAssumption == MaxRequests \in Nat

Hashes   == SUBSET (SecretNames \X Numbers)
Statuses == [hash : Hashes, accepted : BOOLEAN, observed : Nat]
Configs  == [uid : Numbers \ {0}, gen : Nat, rv : Nat, ref : SecretNames \cup {""}, tls : SecretNames \cup {""},
             status : Statuses]
SecretRows == [uid : Numbers \ {0}, rv : Nat, owner : Numbers, value : Numbers]
UnderWay == [at : {"create", "secret", "put", "update", "delete"}, number : Numbers \ {0}, key : Numbers,
             valid : BOOLEAN, stored : BOOLEAN, kept : BOOLEAN, new : BOOLEAN,
             config : Configs \cup {None}, secret : SecretRows \cup {None}]
HashPasses == [at : {"read"}, config : Configs, todo : SUBSET SecretNames, hash : Hashes]

ConfigTypeOK ==
    /\ sort \in {"ModelConfig", "Memory"}
    /\ config \in Configs \cup {None} /\ cconfig \in Configs \cup {None}
    /\ secrets \in [SecretNames -> SecretRows \cup {None}]
    /\ csecrets \in [SecretNames -> SecretRows \cup {None}]
    /\ secretNews \subseteq SecretNames /\ configDue \in BOOLEAN
    /\ hashing \in HashPasses \cup {NoCall}
    /\ client \in [Clients -> UnderWay \cup {NoCall}]
    /\ promised \in Numbers /\ stale \in BOOLEAN /\ loose \subseteq Numbers
    /\ requests \in 0..MaxRequests

\* The config was created through a handler, with kubectl, or not yet.
ConfigInit ==
    /\ sort \in {"ModelConfig", "Memory"}
    /\ \E tls, ref, owner \in {"", "m", "ca"} :
        /\ config \in {None, NewConfig(1, ref, tls)}
        /\ <<config.uid, ref, tls, owner>> \in {<<0, "", "", "">>, <<1, "m", "", "m">>}
             \cup {o \in {<<1, "m", "ca", "">>, <<1, "ca", "ca", "">>} : sort = "ModelConfig"}
        /\ secrets = [n \in SecretNames |->
                        IF config # None /\ n \in {ref, tls} THEN Secret(1, IF owner = n THEN 1 ELSE 0, 1) ELSE None]
    /\ cconfig = config /\ csecrets = secrets
    /\ secretNews = {} /\ configDue = (config # None) /\ hashing = NoCall
    /\ client = [c \in Clients |-> NoCall] /\ promised = 0 /\ stale = FALSE /\ loose = {}
    /\ requests = MaxRequests

----------------------------------------------------------------------------
(* The handlers, one call at a time.  A request carries a fresh key, or 0  *)
(* for none (or for Ollama, which has none).                               *)

Fail == requests > 0 /\ requests' = requests - 1

\* A key stored in this Secret is where the config's agents read it, and stays there.
Keeps(c, secret) == client[c].config.ref = "m" /\ secret.owner \in {0, client[c].config.uid}

Grant(c, kept) ==
    /\ client' = [client EXCEPT ![c] = NoCall] /\ UNCHANGED <<stale, loose>>
    /\ promised' = IF client[c].key = 0 \/ client[c].config.uid # config.uid THEN promised
                   ELSE IF kept THEN client[c].key ELSE 0

Refuse(c) ==
    /\ client' = [client EXCEPT ![c] = NoCall] /\ UNCHANGED <<promised, stale>>
    /\ loose' = IF client[c].stored THEN loose \cup {client[c].key} ELSE loose

BeginRequest(c, at, key, valid) ==
    /\ client[c].at = "none" /\ requests > 0 /\ requests' = requests - 1
    /\ client' = [client EXCEPT ![c] = [at |-> at, number |-> Request, key |-> key, valid |-> valid,
                                        stored |-> FALSE, kept |-> FALSE, new |-> at = "create", config |-> cconfig, secret |-> None]]
    /\ UNCHANGED <<sort, config, secrets, cconfig, csecrets, secretNews, configDue, hashing,
                   promised, stale, loose>>

\* A config in the cache is a conflict, bad provider parameters a bad request:
\* both before anything is written.
HandleCreate(c) ==
    cconfig = None /\ \E key \in {0, Request} : (sort = "Memory" => key > 0) /\ BeginRequest(c, "create", key, TRUE)

CreateConfig(c) ==
    /\ client[c].at = "create"
    /\ LET key == client[c].key
           made == NewConfig(client[c].number, IF key > 0 THEN "m" ELSE "", "")
       IN \/ /\ config = None /\ config' = made /\ promised' = 0 /\ loose' = {} /\ UNCHANGED <<stale, requests>>
             /\ client' = [client EXCEPT ![c] = IF key = 0 THEN NoCall
                                                ELSE [@ EXCEPT !.at = "secret", !.config = made]]
          \/ config # None /\ Refuse(c) /\ UNCHANGED <<config, requests>>
          \/ Fail /\ Refuse(c) /\ UNCHANGED config
    /\ UNCHANGED <<sort, secrets, cconfig, csecrets, secretNews, configDue, hashing>>

\* createSecretWithOwnerReference.  A create only logs its failure, and is granted.
CreateSecret(c) ==
    /\ client[c].at = "secret"
    /\ \/ /\ secrets["m"] = None /\ client[c].config.ref # "" /\ UNCHANGED requests
          /\ secrets' = [secrets EXCEPT !["m"] = Secret(client[c].number, client[c].config.uid, client[c].key)]
          /\ IF client[c].new THEN Grant(c, TRUE)
             ELSE /\ client' = [client EXCEPT ![c].at = "update", ![c].stored = TRUE,
                                                   ![c].kept = Keeps(c, secrets'["m"])]
                  /\ UNCHANGED <<promised, stale, loose>>
       \/ /\ \/ secrets["m"] # None /\ UNCHANGED requests
             \/ client[c].config.ref = "" /\ UNCHANGED requests   \* the key of a Secret needs a name
             \/ Fail
          /\ IF client[c].new THEN Grant(c, FALSE) ELSE Refuse(c)
          /\ UNCHANGED secrets
    /\ UNCHANGED <<sort, config, cconfig, csecrets, secretNews, configDue, hashing>>

\* HandleUpdateModelConfig: the key first, the provider's parameters next, the
\* config last.  HandleUpdateMemory has the last step only.
HandleUpdate(c) ==
    /\ cconfig # None
    /\ \E key \in {0, Request}, valid \in BOOLEAN :
        /\ sort = "Memory" => key = 0 /\ valid
        /\ BeginRequest(c, IF key > 0 THEN "put" ELSE "update", key, valid)

\* createOrUpdateSecretWithOwnerReference: the read, then the write.
GetSecret(c) ==
    /\ client[c].at = "put" /\ client[c].secret = None
    /\ IF csecrets["m"] = None THEN client' = [client EXCEPT ![c].at = "secret"]
       ELSE client' = [client EXCEPT ![c].secret = csecrets["m"]]
    /\ UNCHANGED <<sort, config, secrets, cconfig, csecrets, secretNews, configDue, hashing,
                   promised, stale, loose, requests>>

PutSecretOtherKey(c) ==   \* a mutant: under the name of the new provider's key
    /\ client[c].at = "put" /\ client[c].secret # None /\ secrets["m"] = client[c].secret
    /\ secrets' = [secrets EXCEPT !["m"].rv = @ + 1]
    /\ client' = [client EXCEPT ![c].at = "update", ![c].stored = TRUE,
                                ![c].kept = Keeps(c, secrets["m"])]
    /\ UNCHANGED <<sort, config, cconfig, csecrets, secretNews, configDue, hashing,
                   promised, stale, loose, requests>>

PutSecret(c) ==
    /\ client[c].at = "put" /\ client[c].secret # None
    /\ \/ /\ secrets["m"] = client[c].secret /\ client[c].config.ref # ""
          /\ secrets' = [secrets EXCEPT !["m"].value = client[c].key, !["m"].rv = @ + 1]
          /\ client' = [client EXCEPT ![c].at = "update", ![c].stored = TRUE,
                                           ![c].kept = Keeps(c, secrets["m"])]
          /\ UNCHANGED <<promised, stale, loose, requests>>
       \/ /\ \/ (secrets["m"] # client[c].secret \/ client[c].config.ref = "") /\ UNCHANGED requests
             \/ Fail
          /\ Refuse(c) /\ UNCHANGED secrets
    /\ UNCHANGED <<sort, config, cconfig, csecrets, secretNews, configDue, hashing>>

\* The new spec keeps the reference to the key and drops TLS.
UpdateConfig(c) ==
    /\ client[c].at = "update"
    /\ \/ /\ client[c].valid /\ config = client[c].config
          /\ config' = [config EXCEPT !.gen = @ + 1, !.rv = @ + 1, !.tls = ""]
          /\ Grant(c, client[c].kept) /\ UNCHANGED requests
       \/ /\ \/ (~client[c].valid \/ config # client[c].config) /\ UNCHANGED requests
             \/ Fail
          /\ Refuse(c) /\ UNCHANGED config
    /\ UNCHANGED <<sort, secrets, cconfig, csecrets, secretNews, configDue, hashing>>

HandleDelete(c) == cconfig # None /\ BeginRequest(c, "delete", 0, TRUE)

DeleteConfig(c) ==
    /\ client[c].at = "delete"
    /\ \/ config' = None /\ UNCHANGED requests
       \/ Fail /\ UNCHANGED config
    /\ Refuse(c)
    /\ UNCHANGED <<sort, secrets, cconfig, csecrets, secretNews, configDue, hashing>>

----------------------------------------------------------------------------
(* kubectl, the garbage collector, the caches and their handlers.          *)

\* An edit, a new Secret, a deletion (of the Secret kept by somebody else).
EditSecret(n) ==
    /\ requests > 0 /\ requests' = requests - 1
    /\ \/ /\ secrets[n] # None
          /\ secrets' = [secrets EXCEPT ![n].value = Request, ![n].rv = @ + 1]
       \/ secrets[n] = None /\ secrets' = [secrets EXCEPT ![n] = Secret(Request, 0, Request)]
       \/ n = "ca" /\ secrets[n] # None /\ secrets' = [secrets EXCEPT ![n] = None]
    /\ loose' = IF n = "m" THEN loose \cup {Request} ELSE loose
    /\ UNCHANGED <<sort, config, cconfig, csecrets, secretNews, configDue, hashing, client, promised, stale>>

CollectSecret ==
    /\ secrets["m"] # None /\ secrets["m"].owner # 0 /\ secrets["m"].owner # config.uid
    /\ secrets' = [secrets EXCEPT !["m"] = None]
    /\ UNCHANGED <<sort, config, cconfig, csecrets, secretNews, configDue, hashing, client, promised, stale,
                   loose, requests>>

\* For(&ModelConfig{}) with GenerationChangedPredicate.
SeeConfig ==
    /\ cconfig # config
    /\ cconfig' = IF cconfig # None /\ config # None /\ cconfig.uid # config.uid THEN None ELSE config
    /\ configDue' = (configDue \/ cconfig = None \/ cconfig' = None \/ cconfig.gen # cconfig'.gen)
    /\ UNCHANGED <<sort, config, secrets, csecrets, secretNews, hashing, client, promised, stale, loose, requests>>

SeeSecret(n) ==
    /\ csecrets[n] # secrets[n] /\ csecrets' = [csecrets EXCEPT ![n] = secrets[n]]
    /\ secretNews' = secretNews \cup {n}
    /\ UNCHANGED <<sort, config, secrets, cconfig, configDue, hashing, client, promised, stale, loose, requests>>

ReferencesKeyOnly(c, n) == c.ref # "" /\ c.ref = n   \* a mutant

modelReferencesSecret(c, n) == \/ c.ref # "" /\ c.ref = n
                               \/ c.tls # "" /\ c.tls = n

findModelsUsingSecret(n) ==
    /\ n \in secretNews /\ secretNews' = secretNews \ {n}
    /\ configDue' = (configDue \/ (cconfig # None /\ modelReferencesSecret(cconfig, n)))
    /\ UNCHANGED <<sort, config, secrets, cconfig, csecrets, hashing, client, promised, stale, loose, requests>>

----------------------------------------------------------------------------
(* The controller: read the config, read its Secrets one after the other,  *)
(* write the status if it changed.  A failed write is retried.             *)

ReconcileModelConfig ==
    /\ sort = "ModelConfig" /\ configDue /\ hashing = NoCall /\ configDue' = FALSE
    /\ hashing' = IF cconfig = None THEN NoCall
                  ELSE [at |-> "read", config |-> cconfig, todo |-> RefsOf(cconfig), hash |-> {}]
    /\ UNCHANGED <<sort, config, secrets, cconfig, csecrets, secretNews, client, promised, stale, loose, requests>>

\* The hash is of the names and contents of the Secrets that are there.
computeStatusSecretHash ==
    /\ hashing # NoCall
    /\ \E n \in hashing.todo :
        /\ n = "m" \/ hashing.todo = {n}
        /\ hashing' = [hashing EXCEPT !.todo = @ \ {n},
                         !.hash = IF csecrets[n] = None THEN @ ELSE @ \cup {<<n, csecrets[n].value>>}]
    /\ UNCHANGED <<sort, config, secrets, cconfig, csecrets, secretNews, configDue, client, promised, stale, loose,
                   requests>>

reconcileModelConfigStatus ==
    /\ hashing # NoCall /\ hashing.todo = {} /\ hashing' = NoCall
    /\ LET old == hashing.config
           status == [hash |-> hashing.hash, observed |-> old.gen,
                      accepted |-> \A n \in RefsOf(old) : \E v \in Numbers : <<n, v>> \in hashing.hash]
       IN \/ /\ status = old.status /\ stale' = (stale \/ (config # None /\ config.status # status))
             /\ UNCHANGED <<config, configDue, requests>>
          \/ /\ status # old.status /\ config = old
             /\ config' = [config EXCEPT !.status = status, !.rv = @ + 1]
             /\ UNCHANGED <<stale, configDue, requests>>
          \/ /\ status # old.status /\ configDue' = TRUE /\ UNCHANGED <<config, stale>>
             /\ \/ config # old /\ UNCHANGED requests
                \/ Fail
    /\ UNCHANGED <<sort, secrets, cconfig, csecrets, secretNews, client, promised, loose>>

ConfigNext ==
    \/ \E c \in Clients :
        \/ HandleCreate(c) \/ CreateConfig(c) \/ CreateSecret(c)
        \/ HandleUpdate(c) \/ GetSecret(c) \/ PutSecret(c) \/ UpdateConfig(c)
        \/ HandleDelete(c) \/ DeleteConfig(c)
    \/ \E n \in SecretNames : EditSecret(n) \/ SeeSecret(n) \/ findModelsUsingSecret(n)
    \/ CollectSecret \/ SeeConfig
    \/ ReconcileModelConfig \/ computeStatusSecretHash \/ reconcileModelConfigStatus

ConfigSpec == ConfigInit /\ [][ConfigNext]_configVars

----------------------------------------------------------------------------
(* Properties. *)

HashIsCurrent ==
    LET there == {n \in RefsOf(config) : secrets[n] # None}
    IN config.status = [hash |-> {<<n, secrets[n].value>> : n \in there},
                        accepted |-> there = RefsOf(config), observed |-> config.gen]

ConfigAtRest == /\ sort = "ModelConfig" /\ config # None /\ cconfig = config /\ csecrets = secrets
                /\ secretNews = {} /\ ~configDue /\ hashing = NoCall

\* What the API promises of the hash: it tells the Secrets of the spec, "to ensure
\* agents referencing this model config detect changes to these secrets"
\* (go/api/v1alpha2/modelconfig_types.go:320).  It does not hold: a pass compares
\* with the status in the cache (reconciler.go:316-332).
SecretChangesDetected == ConfigAtRest => HashIsCurrent

\* When nothing is left to be seen or done, the status of a ModelConfig tells the
\* contents of the Secrets its spec names, and whether they are all there, unless
\* a pass has compared its status with one the cache was late with: no other
\* change is lost between the Secret watch, a pass that reads two Secrets at two
\* times and a status update that loses against a handler's
\* (reconciler.go:216-337, modelconfig_controller.go:61-132).
HashTellsSecrets == ConfigAtRest /\ ~stale => HashIsCurrent

\* While no request is under way, a key that was promised is in the Secret, or one
\* that a request stored before it was refused, or kubectl: never an older one, never
\* none (modelconfig.go:442-455 and 518-530, utils.go:55-77).  No key is promised
\* where the handlers do not store one for good: a create whose Secret failed,
\* which is granted all the same (modelconfig.go:349), a Secret left by an earlier
\* config of the name that is still to be collected, and a config that reads its
\* key from a Secret of another name than its own.
PromisedKeyIsStored ==
    (config # None /\ promised > 0 /\ \A c \in Clients : client[c] = NoCall)
        => secrets["m"] # None /\ secrets["m"].value \in {promised} \cup loose
=============================================================================
