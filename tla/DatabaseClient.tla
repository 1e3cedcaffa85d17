--------------------------- MODULE DatabaseClient ---------------------------
(***************************************************************************)
(* The database client of the controller, go/internal/database/client.go:  *)
(* which columns each method stores, asks for and deletes by, called as the*)
(* HTTP handlers of tasks, feedback and tools call it.                     *)
(*                                                                         *)
(* The handlers' tests run against another client, FakeClient.  The calls  *)
(* of DbNext are those for which the two agree; the guards and             *)
(* SamplesAssumption name what they differ in.                             *)
(***************************************************************************)
EXTENDS Rows

CONSTANTS Samples,    \* per kind the rows that clients store and ask for
          None,
          MaxClock    \* bound on the saves

VARIABLES db,      \* per kind the table
          clock,   \* the next created_at
          focus,   \* the kind of rows the calls are about
          call, answer

dbVars == <<db, clock, focus, call, answer>>

\* The primary keys of the tables, and of those of the engines.
PrimaryKeys ==
    [agent |-> {"id"}, session |-> {"id", "user"}, task |-> {"id"}, push |-> {"id"},
     event |-> {"id", "user"}, toolserver |-> {"name", "group"},
     tool |-> {"id", "server", "group"}, feedback |-> {"id", "user"}]
EngineKeys ==
    [flow |-> {"user", "thread", "method"}, memory |-> {"user", "thread"},
     checkpoint |-> {"user", "thread", "id"}, write |-> {"user", "thread", "id", "idx"}]
Primary(kind) == IF kind \in DOMAIN PrimaryKeys THEN PrimaryKeys[kind] ELSE EngineKeys[kind]

\* What Get..., Delete... and List... put into their clauses.
GetBy ==
    [agent |-> {"id"}, session |-> {"id", "user"}, task |-> {"id"}, push |-> {"task", "id"},
     toolserver |-> {"name"}, flow |-> {"user", "thread"}]
DeleteBy ==
    [agent |-> {"id"}, session |-> {"id", "user"}, task |-> {"id"}, push |-> {"task"},
     toolserver |-> {"name", "group"}, tool |-> {"server", "group"}, memory |-> {"user", "thread"}]
ListBy ==
    [session |-> {{"user"}, {"agent", "user"}}, push |-> {{"task"}}, agent |-> {{}},
     toolserver |-> {{}}, tool |-> {{}}, feedback |-> {{"user"}}]

\* Where the two clients agree: the keys of the fake tell rows apart as the
\* primary keys do, a server has one group, a session one user, a method of a
\* flow and a memory of a thread are the only ones.
SameFake(kind, a, b) ==
    LET fields == CASE kind = "push" -> {"task"} [] kind = "toolserver" -> {"name"}
                    [] kind = "tool" -> {"id"} [] kind = "flow" -> {"user", "thread"}
                    [] OTHER -> Primary(kind) IN
    Key(fields, a) = Key(fields, b)

ASSUME SamplesAssumption ==
    /\ DOMAIN Samples = DOMAIN PrimaryKeys \cup DOMAIN EngineKeys
    /\ \A kind \in DOMAIN Samples \ {"feedback"} : \A a, b \in Samples[kind] :
          SameFake(kind, a, b) <=> Key(Primary(kind), a) = Key(Primary(kind), b)
    /\ \A a, b \in Samples["tool"] : a.server = b.server => a.group = b.group
    /\ \A a, b \in Samples["event"] : a.session = b.session => a.user = b.user
    /\ \A a, b \in Samples["memory"] : Key({"user", "thread"}, a) = Key({"user", "thread"}, b) => a = b
    /\ MaxClock \in Nat

Focus  == DOMAIN Samples \ {"write"}
NoCall == [op |-> "none"]
Call(op, row, fields) == call' = [op |-> op, row |-> row, fields |-> fields]
Answers(a) == answer' = a /\ UNCHANGED <<db, clock>>
Stores(kind, row) ==
    /\ clock < MaxClock /\ clock' = clock + 1
    /\ db' = [db EXCEPT ![kind] = Saved(@, Primary(kind), row, clock)]
    /\ answer' = "stored"

DbInit ==
    /\ focus \in Focus
    /\ db = [kind \in DOMAIN Samples |-> {}]
    /\ clock = 0
    /\ call = NoCall /\ answer = None

\* save.  An event, a write and a memory are stored once, a write for a
\* checkpoint that is there: the fake appends.
DbStore(kind, row) ==
    /\ kind # "feedback"
    /\ kind \in {"event", "write", "memory", "checkpoint"} =>
         Found(db[kind], Key(Primary(kind), row)) = {}
    /\ kind = "write" => Found(db["checkpoint"], Key(Primary("checkpoint"), row)) # {}
    /\ Stores(kind, row) /\ Call("store", row, {})

\* gorm.Model numbers the rows.
StoreFeedback(row) ==
    /\ Stores("feedback", [user |-> row.user, id |-> Cardinality(db["feedback"]) + 1])
    /\ Call("store", row, {})

\* A push notification that is there: the fake has no error for another.
DbGet(kind, row) ==
    /\ kind \in DOMAIN GetBy
    /\ LET rows == Found(db[kind], Key(GetBy[kind], row)) IN
       /\ kind = "push" => rows # {}
       /\ Answers(IF rows = {} THEN IF kind = "flow" THEN None ELSE "notFound"
                  ELSE (CHOOSE r \in rows : TRUE).row)
    /\ Call("get", row, {})

\* An agent that is there: the fake has an error for another.
DbDelete(kind, row) ==
    /\ kind \in DOMAIN DeleteBy
    /\ kind = "agent" => Found(db[kind], Key({"id"}, row)) # {}
    /\ db' = [db EXCEPT ![kind] = Deleted(@, Key(DeleteBy[kind], row))]
    /\ Call("delete", row, {}) /\ answer' = "deleted"
    /\ clock' = clock

\* Mutant: the writes stay.
DeleteCheckpointsOnly(row) ==
    /\ db' = [db EXCEPT !["checkpoint"] = Deleted(@, Key({"user", "thread"}, row))]
    /\ Call("delete", row, {}) /\ answer' = "deleted"
    /\ clock' = clock

\* DeleteCheckpoint: both tables in one transaction.
DeleteThread(row) ==
    LET thread == Key({"user", "thread"}, row) IN
    /\ db' = [db EXCEPT !["checkpoint"] = Deleted(@, thread), !["write"] = Deleted(@, thread)]
    /\ Call("delete", row, {}) /\ answer' = "deleted"
    /\ clock' = clock

DbList(kind, row, fields) ==
    /\ kind \in DOMAIN ListBy /\ fields \in ListBy[kind]
    /\ Answers(Plain(Found(db[kind], Key(fields, row))))
    /\ Call("list", row, fields)

\* Newest first; without after and limit.
ListEvents(row) ==
    /\ Answers(InSequence(NewestFirst(Found(db["event"], Key({"session", "user"}, row)))))
    /\ Call("events", row, {})

ListCheckpoints(row, fields) ==
    /\ Answers({[row |-> c.row, writes |-> Plain(Found(db["write"], Key(Primary("checkpoint"), c.row)))] :
                  c \in Found(db["checkpoint"], Key(fields, row))})
    /\ Call("list", row, fields)

\* SearchCrewAIMemoryByTask: the memories of the thread that have the words.
SearchMemory(row) ==
    /\ Answers(Plain(Found(db["memory"], Key({"user", "thread", "words"}, row))))
    /\ Call("search", row, {})

\* RefreshToolsForServer without interruption (ToolServerReconcile interrupts it).
Refresh(server, new) ==
    LET left == {IF Matches(r.row, Key({"server", "group"}, server)) /\ r.row.id \notin {t.id : t \in new}
                 THEN [r EXCEPT !.gone = TRUE] ELSE r : r \in db["tool"]} IN
    /\ clock < MaxClock /\ clock' = clock + 1
    /\ db' = [db EXCEPT !["tool"] = SavedAll(left, Primary("tool"), new, clock)]
    /\ call' = [op |-> "refresh", server |-> server, new |-> new] /\ answer' = "stored"

\* The tools a server may have: one of a name.
ToolLists(server) ==
    {new \in SUBSET {t \in Samples["tool"] : t.server = server} : \A a, b \in new : a.id = b.id => a = b}

\* The handlers: what each of them calls.
HandleTasks == \E row \in Samples["task"] :
    DbStore("task", row) \/ DbGet("task", row) \/ DbDelete("task", row)
HandleFeedback == \E row \in Samples["feedback"] :
    StoreFeedback(row) \/ DbList("feedback", row, {"user"})
HandleSessions == \E row \in Samples["session"] :
    \/ DbStore("session", row) \/ DbGet("session", row) \/ DbDelete("session", row)
    \/ DbList("session", row, {"user"}) \/ DbList("session", row, {"agent", "user"})
HandleEvents == \E row \in Samples["event"] : DbStore("event", row) \/ ListEvents(row)
HandleCrewAI ==
    \/ focus = "memory" /\ \E row \in Samples["memory"] :
        DbStore("memory", row) \/ SearchMemory(row) \/ DbDelete("memory", row)
    \/ focus = "flow" /\ \E row \in Samples["flow"] : DbStore("flow", row) \/ DbGet("flow", row)
HandleCheckpoints ==
    \/ \E row \in Samples["checkpoint"] :
        \/ DbStore("checkpoint", row) \/ DeleteThread(row)
        \/ ListCheckpoints(row, {"user", "thread"}) \/ ListCheckpoints(row, Primary("checkpoint"))
    \/ \E row \in Samples["write"] : DbStore("write", row)

\* The controllers and the A2A server: agents, tool servers, push notifications.
ControllerCalls == \E row \in Samples[focus] :
    \/ DbStore(focus, row) \/ DbGet(focus, row) \/ DbDelete(focus, row)
    \/ DbList(focus, row, {}) \/ DbList(focus, row, {"task"})
    \/ /\ focus = "tool"
       /\ \E new \in ToolLists(row.server) : Refresh(row, new)

DbNext ==
    /\ \/ focus = "task" /\ HandleTasks
       \/ focus = "feedback" /\ HandleFeedback
       \/ focus = "session" /\ HandleSessions
       \/ focus = "event" /\ HandleEvents
       \/ HandleCrewAI
       \/ focus = "checkpoint" /\ HandleCheckpoints
       \/ focus \in {"agent", "toolserver", "tool", "push"} /\ ControllerCalls
    /\ focus' = focus

DbSpec == DbInit /\ [][DbNext]_dbVars

----------------------------------------------------------------------------
\* What the tables show: the rows that are not deleted.
Shown(kind) == Plain({r \in db[kind] : ~r.gone})

Fake == INSTANCE FakeClient WITH
    maps   <- [kind \in DOMAIN Samples |-> IF kind = "event" THEN {} ELSE Shown(kind)],
    stream <- [s \in {e.session : e \in Samples["event"]} |->
                 InSequence(OldestFirst({r \in db["event"] : r.row.session = s}))],
    answer <- IF call.op = "events" THEN Reverse(answer) ELSE answer

\* The controller's client does what the client of the tests does, a call at a
\* time: what is stored is what is found, a deleted row is found no more and
\* neither is anything it took along, and storing it again brings it back.  The
\* one difference in the answers is that the events of a session come newest
\* first from the one and oldest first from the other.
RefinesFake == Fake!FakeSpec
=============================================================================
