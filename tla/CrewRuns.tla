------------------------------ MODULE CrewRuns ------------------------------
(***************************************************************************)
(* One CrewAI app and the requests it serves (kagent-crewai): the executor *)
(* and its one Crew or Flow class, the listener each request hangs on the  *)
(* event bus of the process, the long term memory of the crew and the      *)
(* persisted state of the flow behind the handlers of                      *)
(* httpserver/handlers/crewai.go.  CrewAI itself is outside: what it does  *)
(* is any order of memory, state and bus calls.  There is one user.        *)
(***************************************************************************)
EXTENDS Rows

CONSTANTS CrewRequests,    \* the requests, one task each
          RequestSession,  \* the session of each
          CrewTasks,       \* what a memory is about: a task's description
          Containing,      \* of a text searched for: the descriptions that contain it
          FlowMethods,
          Nobody,          \* no session, no description
          MaxCrewCalls     \* bound on the calls to the stores

VARIABLES
    app,        \* what the executor was built with: "crew" or "flow"
    crewReqs,   \* per request: "new", "running", "done", or "failed" by a load
    bound,      \* the session of the crew's long_term_memory
    listeners,  \* the requests whose listeners are on the bus
    memories, flows,   \* the tables
    reached,    \* of the last load <<session that asked, session it is of>>, of the
                \* last event <<request that is told, request it is of>>
    saves,      \* history: who saved a memory, or reset them, oldest first
    overlapped, \* history: two requests have run at the same time
    calls       \* what is left of the bound, and the next created_at

crewVars == <<app, crewReqs, bound, listeners, memories, flows, reached, saves, overlapped, calls>>

ASSUME CrewAssumption ==
    /\ MaxCrewCalls \in Nat
    /\ \A q \in CrewTasks : q \in Containing[q]

CrewSessions == {RequestSession[r] : r \in CrewRequests}
Running      == {r \in CrewRequests : crewReqs[r] = "running"}
NoneLoaded   == [thread |-> Nobody]

TableOf(rows) == [row : rows, at : 0..MaxCrewCalls, gone : BOOLEAN]

CrewTypeOK ==
    /\ app \in {"crew", "flow"}
    /\ crewReqs \in [CrewRequests -> {"new", "running", "done", "failed"}]
    /\ bound \in CrewSessions \cup {Nobody} /\ listeners \subseteq CrewRequests
    /\ memories \subseteq TableOf([thread : CrewSessions, text : CrewTasks, of : CrewRequests,
                                   nr : 0..MaxCrewCalls])
    /\ flows \subseteq TableOf([thread : CrewSessions, method : FlowMethods, of : CrewRequests,
                                nr : 0..MaxCrewCalls])
    /\ saves \in Seq([what : {"save", "reset"}, thread : CrewSessions, text : CrewTasks \cup {Nobody},
                      of : CrewRequests, nr : 0..MaxCrewCalls])
    /\ overlapped \in BOOLEAN /\ calls \in 0..MaxCrewCalls

CrewInit ==
    /\ app \in {"crew", "flow"}
    /\ crewReqs = [r \in CrewRequests |-> "new"] /\ bound = Nobody
    /\ listeners = {} /\ reached = {}
    /\ memories = {} /\ flows = {}
    /\ saves = <<>> /\ overlapped = FALSE /\ calls = MaxCrewCalls

----------------------------------------------------------------------------
(* The handlers: what they do to a table, what they answer. *)

Now == MaxCrewCalls - calls

HandleStoreMemory(row)    == memories' = Saved(memories, {"thread"}, row, Now)
HandleResetMemory(thread) == memories' = Deleted(memories, [thread |-> thread])

\* The memories of the session with q in them, newest first and no more than the
\* crew asks for: the order and the limit are left out, for no session has two.
HandleGetMemory(thread, q) ==
    Plain({r \in Found(memories, [thread |-> thread]) : r.row.text \in Containing[q]})

HandleStoreFlowState(row) == flows' = Saved(flows, {"thread", "method"}, row, Now)

\* The first row in descending order of created_at, which saving a method again
\* leaves alone.  404 is None.
HandleGetFlowState(thread) ==
    LET rows == Found(flows, [thread |-> thread]) IN
    IF rows = {} THEN NoneLoaded ELSE (CHOOSE r \in rows : \A q \in rows : q.at <= r.at).row

----------------------------------------------------------------------------
(* The executor, up to kickoff_async and from there on. *)

Calls == calls > 0 /\ calls' = calls - 1

Remembered(what, thread, text, r) ==
    saves' = Append(saves, [what |-> what, thread |-> thread, text |-> text, of |-> r, nr |-> Now])

\* Mutant: the memory is bound once.
ExecuteBindsOnce(r) ==
    /\ crewReqs[r] = "new"
    /\ crewReqs' = [crewReqs EXCEPT ![r] = "running"]
    /\ listeners' = listeners \cup {r}
    /\ bound' = IF app = "crew" /\ bound = Nobody THEN RequestSession[r] ELSE bound
    /\ overlapped' = (overlapped \/ Running # {})
    /\ reached' = {}
    /\ UNCHANGED <<app, memories, flows, saves, calls>>

\* A listener more on the bus, and the one Crew of the app gets the memory of
\* this session.
CrewExecute(r) ==
    /\ crewReqs[r] = "new"
    /\ crewReqs' = [crewReqs EXCEPT ![r] = "running"]
    /\ listeners' = listeners \cup {r}
    /\ bound' = IF app = "crew" THEN RequestSession[r] ELSE bound
    /\ overlapped' = (overlapped \/ Running # {})
    /\ reached' = {}
    /\ UNCHANGED <<app, memories, flows, saves, calls>>

\* Mutant: the queue of a request is never closed.
BusEventAll(r) ==
    /\ r \in Running
    /\ reached' = {<<l, r>> : l \in listeners}
    /\ UNCHANGED <<app, crewReqs, bound, listeners, memories, flows, saves, overlapped, calls>>

\* An event of r's run reaches every listener; each puts it into its own queue
\* under its own task, if that is not closed.
BusEvent(r) ==
    /\ r \in Running
    /\ reached' = {<<l, r>> : l \in listeners \cap Running}
    /\ UNCHANGED <<app, crewReqs, bound, listeners, memories, flows, saves, overlapped, calls>>

\* KagentMemoryStorage, of the session the crew is bound to.
MemorySave(r, t) ==
    /\ app = "crew" /\ r \in Running /\ Calls
    /\ HandleStoreMemory([thread |-> bound, text |-> t, of |-> r, nr |-> Now])
    /\ Remembered("save", bound, t, r)
    /\ reached' = {}
    /\ UNCHANGED <<app, crewReqs, bound, listeners, flows, overlapped>>

MemoryLoad(r, q) ==
    /\ app = "crew" /\ r \in Running
    /\ reached' = {<<RequestSession[r], RequestSession[m.of]>> : m \in HandleGetMemory(bound, q)}
    /\ UNCHANGED <<app, crewReqs, bound, listeners, memories, flows, saves, overlapped, calls>>

MemoryReset(r) ==
    /\ app = "crew" /\ r \in Running /\ Calls
    /\ HandleResetMemory(bound)
    /\ Remembered("reset", bound, Nobody, r)
    /\ reached' = {}
    /\ UNCHANGED <<app, crewReqs, bound, listeners, flows, overlapped>>

\* KagentFlowPersistence, of the request's own session.
SaveState(r, m) ==
    /\ app = "flow" /\ r \in Running /\ Calls
    /\ HandleStoreFlowState([thread |-> RequestSession[r], method |-> m, of |-> r, nr |-> Now])
    /\ reached' = {}
    /\ UNCHANGED <<app, crewReqs, bound, listeners, memories, saves, overlapped>>

\* The answer has no flow_uuid, which KagentFlowStatePayload requires: a state
\* that is there is a validation error, and the request fails.
LoadState(r) ==
    /\ app = "flow" /\ r \in Running
    /\ IF HandleGetFlowState(RequestSession[r]) = NoneLoaded THEN crewReqs' = crewReqs
       ELSE crewReqs' = [crewReqs EXCEPT ![r] = "failed"]
    /\ reached' = {}
    /\ UNCHANGED <<app, bound, listeners, memories, flows, saves, overlapped, calls>>

\* Completed or failed: the last event, and the queue is closed.
CrewRequestEnds(r) ==
    /\ r \in Running
    /\ crewReqs' = [crewReqs EXCEPT ![r] = "done"]
    /\ reached' = {}
    /\ UNCHANGED <<app, bound, listeners, memories, flows, saves, overlapped, calls>>

CrewNext == \E r \in CrewRequests :
    \/ CrewExecute(r) \/ BusEvent(r) \/ CrewRequestEnds(r)
    \/ \E t \in CrewTasks : MemorySave(r, t) \/ MemoryLoad(r, t)
    \/ MemoryReset(r)
    \/ LoadState(r) \/ \E m \in FlowMethods : SaveState(r, m)

CrewSpec == CrewInit /\ [][CrewNext]_crewVars

----------------------------------------------------------------------------
(* Properties. *)

\* The crew, the bus and its listeners are shared by all requests of the process.
\* As long as no two of them run at the same time nothing of one session gets
\* into another: memories are kept for the session of the request that saved
\* them and loaded by it alone, and a task is told of its own run only.
SessionsApart ==
    ~overlapped =>
        /\ \A row \in memories \cup flows : row.row.thread = RequestSession[row.row.of]
        /\ \A pair \in reached : pair[1] = pair[2]

\* Entry i is the last that is about session s.
LastOn(s, i) == saves[i].thread = s /\ \A j \in DOMAIN saves : saves[j].thread = s => j <= i

\* No reset of session s has followed entry i.
NotResetSince(s, i) ==
    \A j \in DOMAIN saves : saves[j].thread = s /\ i < j => saves[j].what # "reset"

\* Whatever a session finds when it looks for a task was saved for this session,
\* about a task that has the words in it, and not reset since; and what was saved
\* last is found, a reset before it or not, by whoever looks for its task.  Whether
\* older memories are found with it is left open.
MemoryFindsLast ==
    app = "crew" => \A s \in CrewSessions, q \in CrewTasks :
        LET Entered(i) == [thread |-> s, text |-> saves[i].text, of |-> saves[i].of, nr |-> saves[i].nr]
            Right      == {i \in DOMAIN saves : /\ saves[i].thread = s /\ saves[i].what = "save"
                                                /\ saves[i].text \in Containing[q]}
        IN /\ HandleGetMemory(s, q) \subseteq {Entered(i) : i \in {k \in Right : NotResetSince(s, k)}}
           /\ {Entered(i) : i \in {k \in Right : LastOn(s, k)}} \subseteq HandleGetMemory(s, q)
=============================================================================
