----------------------------- MODULE FakeClient -----------------------------
(***************************************************************************)
(* The database client of the handlers' tests, go/internal/database/fake:  *)
(* maps from keys of its own to rows.  It is the abstract specification    *)
(* those tests rely on; DatabaseClient implements it (RefinesFake).  Every *)
(* method holds the mutex, so a call is one step.                          *)
(***************************************************************************)
EXTENDS Naturals, Sequences, FiniteSets, SequencesExt

CONSTANTS Samples,  \* per kind the rows a client may store or ask for
          None

VARIABLES maps,     \* per kind the rows, one for each key
          stream,   \* eventsBySession: per session the events as they came
          focus,    \* the kind of rows the calls are about
          call,     \* the last call and
          answer    \* what it returned

fakeVars == <<maps, stream, focus, call, answer>>

\* The fields that make up the keys of the maps.
MapKey ==
    [agent |-> {"id"}, session |-> {"id", "user"}, task |-> {"id"}, push |-> {"task"},
     toolserver |-> {"name"}, tool |-> {"id"}, flow |-> {"user", "thread"},
     checkpoint |-> {"user", "thread", "id"}]

Agrees(a, b, fields) == \A f \in fields : a[f] = b[f]
Same(kind, row)      == {r \in maps[kind] : Agrees(r, row, MapKey[kind])}

\* The calls: writes go with checkpoints.
Focus     == DOMAIN Samples \ {"write"}
NoCall    == [op |-> "none"]
Call(op, row, fields) == call' = [op |-> op, row |-> row, fields |-> fields]
Answers(a) == answer' = a /\ UNCHANGED <<maps, stream>>
Becomes(kind, rows, a) == maps' = [maps EXCEPT ![kind] = rows] /\ answer' = a /\ stream' = stream

FakeInit ==
    /\ focus \in Focus
    /\ maps = [kind \in DOMAIN Samples |-> {}]
    /\ stream = [s \in {e.session : e \in Samples["event"]} |-> <<>>]
    /\ call = NoCall /\ answer = None

\* mutex.Lock, the map's entry, nil.
Puts(kind, row) == Becomes(kind, (maps[kind] \ Same(kind, row)) \cup {row}, "stored")

FakeStore(kind, row) ==
    kind \in {"agent", "session", "task", "push", "toolserver", "tool"} /\ Puts(kind, row)

\* A checkpoint that is there with other data is refused.
FakeStoreCheckpoint(row) ==
    IF Same("checkpoint", row) \subseteq {row}
    THEN Becomes("checkpoint", maps["checkpoint"] \cup {row}, "stored")
    ELSE Answers("exists")

\* Writes and memories are appended to a list per key.
Appends(kind, row) == row \notin maps[kind] /\ Becomes(kind, maps[kind] \cup {row}, "stored")
FakeStoreWrite(row)  == Appends("write", row)
FakeStoreMemory(row) == Appends("memory", row)

FakeStoreEvent(row) ==
    /\ stream' = [stream EXCEPT ![row.session] = Append(@, row)]
    /\ answer' = "stored"
    /\ maps' = maps

\* nextFeedbackID numbers what comes.
FakeStoreFeedback(row) ==
    LET id == Cardinality(maps["feedback"]) + 1 IN
    Becomes("feedback", maps["feedback"] \cup {[user |-> row.user, id |-> id]}, "stored")

\* No row: a record-not-found error, and for two kinds nil without an error.
Gets(kind, row) ==
    Answers(IF Same(kind, row) # {} THEN CHOOSE r \in Same(kind, row) : TRUE
            ELSE IF kind \in {"push", "flow"} THEN None ELSE "notFound")

FakeGet(kind, row) == kind \in {"agent", "session", "toolserver"} /\ Gets(kind, row)

\* The tools of a server go by its name alone, an agent has to be there.
FakeDelete(kind, row) ==
    /\ kind \in {"agent", "session", "toolserver", "tool"}
    /\ LET by   == IF kind = "tool" THEN {"server"} ELSE MapKey[kind]
           left == {r \in maps[kind] : ~Agrees(r, row, by)} IN
       IF kind = "agent" /\ left = maps[kind] THEN Answers("notFound")
       ELSE Becomes(kind, left, "deleted")

FakeTask(kind, row) ==
    /\ kind \in {"task", "push"}
    /\ \/ Call("get", row, {}) /\ Gets(kind, row)
       \/ Call("delete", row, {}) /\ Becomes(kind, maps[kind] \ Same(kind, row), "deleted")

FakeFlow(row) == \/ Call("store", row, {}) /\ Puts("flow", row)
                 \/ Call("get", row, {}) /\ Gets("flow", row)

\* The thread's checkpoints go, each with the writes of its key.
FakeDeleteThread(row) ==
    LET gone == {c \in maps["checkpoint"] : Agrees(c, row, {"user", "thread"})} IN
    /\ maps' = [maps EXCEPT !["checkpoint"] = @ \ gone,
                            !["write"] = {w \in @ : \A c \in gone : ~Agrees(w, c, MapKey["checkpoint"])}]
    /\ answer' = "deleted" /\ stream' = stream

\* List...: by the fields each method takes.
FakeListFields ==
    [agent |-> {{}}, session |-> {{"user"}, {"agent", "user"}}, push |-> {{"task"}},
     toolserver |-> {{}}, tool |-> {{}}, feedback |-> {{"user"}}]

FakeList(kind, row, fields) ==
    /\ kind \in DOMAIN FakeListFields /\ fields \in FakeListFields[kind]
    /\ Answers({r \in maps[kind] : Agrees(r, row, fields)})

\* The events of a session, whatever user and options say.
FakeListEvents(row) == Answers(stream[row.session])

\* Checkpoints come with the writes of their key.
FakeListCheckpoints(row, fields) ==
    Answers({[row |-> c, writes |-> {w \in maps["write"] : Agrees(w, c, MapKey["checkpoint"])}] :
               c \in {r \in maps["checkpoint"] : Agrees(r, row, fields)}})

\* All tools of the server go, then the new ones come.
FakeRefresh(server, new) ==
    LET kept == {r \in maps["tool"] : ~Agrees(r, server, {"server", "group"})} IN
    Becomes("tool", {r \in kept : \A t \in new : t.id # r.id} \cup new, "stored")

\* Keys are matched by prefix: session ids are of one length.
FakeSearchMemory(row) ==
    Answers({r \in maps["memory"] : Agrees(r, row, {"user", "thread", "words"})})

FakeResetMemory(row) ==
    Becomes("memory", {r \in maps["memory"] : ~Agrees(r, row, {"user", "thread"})}, "deleted")

FakeCall ==
    \/ \E row \in Samples[focus] :
        \/ Call("store", row, {}) /\ FakeStore(focus, row)
        \/ Call("get", row, {}) /\ FakeGet(focus, row)
        \/ Call("delete", row, {}) /\ FakeDelete(focus, row)
        \/ \E fields \in SUBSET {"user", "agent", "task"} :
            Call("list", row, fields) /\ FakeList(focus, row, fields)
        \/ FakeTask(focus, row)
    \/ focus = "flow" /\ \E row \in Samples["flow"] : FakeFlow(row)
    \/ focus = "event" /\ \E row \in Samples["event"] :
        \/ Call("store", row, {}) /\ FakeStoreEvent(row)
        \/ Call("events", row, {}) /\ FakeListEvents(row)
    \/ focus = "feedback" /\ \E row \in Samples["feedback"] :
        Call("store", row, {}) /\ FakeStoreFeedback(row)
    \/ focus = "checkpoint" /\ \E row \in Samples["checkpoint"] :
        \/ Call("store", row, {}) /\ FakeStoreCheckpoint(row)
        \/ Call("delete", row, {}) /\ FakeDeleteThread(row)
        \/ \E fields \in {{"user", "thread"}, MapKey["checkpoint"]} :
            Call("list", row, fields) /\ FakeListCheckpoints(row, fields)
    \/ focus = "checkpoint" /\ \E row \in Samples["write"] :
        Call("store", row, {}) /\ FakeStoreWrite(row)
    \/ focus = "memory" /\ \E row \in Samples["memory"] :
        \/ Call("store", row, {}) /\ FakeStoreMemory(row)
        \/ Call("search", row, {}) /\ FakeSearchMemory(row)
        \/ Call("delete", row, {}) /\ FakeResetMemory(row)
    \/ focus = "tool" /\ \E server \in Samples["tool"], new \in SUBSET Samples["tool"] :
        call' = [op |-> "refresh", server |-> server, new |-> new] /\ FakeRefresh(server, new)

FakeNext == FakeCall /\ focus' = focus

FakeSpec == FakeInit /\ [][FakeNext]_fakeVars
=============================================================================
