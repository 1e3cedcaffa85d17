------------------------------ MODULE Sessions ------------------------------
(***************************************************************************)
(* One conversation: the session row and its events behind the HTTP        *)
(* handlers (httpserver/handlers/sessions.go), the session service of the  *)
(* ADK engine that talks to them (kagent-adk/.../_session_service.py), and *)
(* the executor that prepares a session and runs an agent in it            *)
(* (_agent_executor.py).  A user creates, moves and deletes the session    *)
(* meanwhile.                                                              *)
(*                                                                         *)
(* Handlers that make two database calls make them in two steps.  An       *)
(* engine that gives up on an answer leaves the handler running.  The      *)
(* runner of google-adk is outside: it loads the session and appends what  *)
(* the agent does.                                                         *)
(***************************************************************************)
EXTENDS Rows

CONSTANTS Engines,     \* the agents; the session belongs to one of them
          MaxEvents, MaxEdits, MaxLost   \* bounds

VARIABLES
    sess,    \* the session's table: at most the row of this session
    evts,    \* the events' table
    now,     \* the next created_at of an event
    sent,    \* events sent so far: they are numbered
    run,     \* per engine: pc, and the session in its memory
    post,    \* per engine: the event handler at work
    put,     \* the update handler at work: the row it has read
    edits, lost   \* what is left of the bounds

ASSUME SessionsAssumption == MaxEvents \in Nat /\ MaxEdits \in Nat /\ MaxLost \in Nat

sessionVars == <<sess, evts, now, sent, run, post, put, edits, lost>>

SessRow   == [id : {"s"}, agent : Engines]
NoSession == [id |-> "s", agent |-> "nobody"]
Resting   == [pc |-> "idle", memory |-> <<>>, acked |-> {}]
NoPost    == [pc |-> "idle", event |-> 0]

SessionLive == Found(sess, [id |-> "s"]) # {}
SessionRow  == (CHOOSE r \in sess : ~r.gone).row

SessionTypeOK ==
    /\ \A r \in sess : r.row \in SessRow /\ r.gone \in BOOLEAN
    /\ Cardinality(sess) <= 1
    /\ \A e \in evts : e.row.id \in 1..MaxEvents /\ ~e.gone
    /\ sent \in 0..MaxEvents /\ now \in 1..sent + 1
    /\ \A e \in Engines :
        /\ run[e].pc \in {"idle", "create", "header", "load", "listing", "append"}
        /\ Range(run[e].memory) \cup run[e].acked \subseteq 1..MaxEvents
        /\ post[e].pc \in {"idle", "check", "store", "stored", "refused"}
    /\ put \in SessRow \cup {NoSession}
    /\ edits \in 0..MaxEdits /\ lost \in 0..MaxLost

SessionInit ==
    /\ sess = {} /\ evts = {} /\ now = 1 /\ sent = 0
    /\ run = [e \in Engines |-> Resting]
    /\ post = [e \in Engines |-> NoPost]
    /\ put = NoSession
    /\ edits = MaxEdits /\ lost = MaxLost

----------------------------------------------------------------------------
(* The user's requests. *)

Edit == edits > 0 /\ edits' = edits - 1

\* A create is a save: it brings a deleted session back, with its events.
UserCreates(e) ==
    /\ Edit
    /\ sess' = Saved(sess, {"id"}, [id |-> "s", agent |-> e], 0)
    /\ UNCHANGED <<evts, now, sent, run, post, put, lost>>

UserDeletes ==
    /\ Edit
    /\ sess' = Deleted(sess, [id |-> "s"])
    /\ UNCHANGED <<evts, now, sent, run, post, put, lost>>

\* PUT: the session is read (its name is taken for its id), then saved with
\* another agent.
UpdateReads(e) ==
    /\ Edit
    /\ put = NoSession /\ SessionLive
    /\ put' = [SessionRow EXCEPT !.agent = e]
    /\ UNCHANGED <<sess, evts, now, sent, run, post, lost>>

UpdateStores ==
    /\ put # NoSession
    /\ sess' = Saved(sess, {"id"}, put, 0)
    /\ put' = NoSession
    /\ UNCHANGED <<evts, now, sent, run, post, edits, lost>>

----------------------------------------------------------------------------
(* POST /api/sessions/{id}/events, for the engine e. *)

Handler(e, pc) == post' = [post EXCEPT ![e].pc = pc]

EventChecked(e) ==
    /\ post[e].pc = "check"
    /\ Handler(e, IF SessionLive /\ SessionRow.agent = e THEN "store" ELSE "refused")
    /\ UNCHANGED <<sess, evts, now, sent, run, put, edits, lost>>

EventStored(e) ==
    /\ post[e].pc = "store"
    /\ evts' = Saved(evts, {"id"}, [id |-> post[e].event], now)
    /\ now' = now + 1
    /\ Handler(e, "stored")
    /\ UNCHANGED <<sess, sent, run, put, edits, lost>>

----------------------------------------------------------------------------
(* The engine. *)

Go(e, pc) == run' = [run EXCEPT ![e].pc = pc]

\* get_session of _prepare_session: 404 is None.
Prepare(e) ==
    /\ run[e].pc = "idle" /\ post[e].pc = "idle"
    /\ sent < MaxEvents
    /\ run' = [run EXCEPT ![e] = [Resting EXCEPT !.pc = IF SessionLive THEN "header" ELSE "create"]]
    /\ UNCHANGED <<sess, evts, now, sent, post, put, edits, lost>>

\* create_session with the agent's own name.
EngineCreates(e) ==
    /\ run[e].pc = "create"
    /\ sess' = Saved(sess, {"id"}, [id |-> "s", agent |-> e], 0)
    /\ Go(e, "header")
    /\ UNCHANGED <<evts, now, sent, post, put, edits, lost>>

\* append_event.
Send(e) ==
    /\ run[e].pc \in {"header", "append"} /\ post[e].pc = "idle"
    /\ sent < MaxEvents /\ sent' = sent + 1
    /\ post' = [post EXCEPT ![e] = [pc |-> "check", event |-> sent + 1]]
    /\ UNCHANGED <<sess, evts, now, run, put, edits, lost>>

\* Mutant: the runner goes on with the session that was prepared.
NotReloaded(e) ==
    /\ post[e].pc = "stored" /\ run[e].pc \in {"header", "append"}
    /\ run' = [run EXCEPT ![e].pc     = "append",
                          ![e].memory = Append(@, post[e].event),
                          ![e].acked  = @ \cup {post[e].event}]
    /\ post' = [post EXCEPT ![e] = NoPost]
    /\ UNCHANGED <<sess, evts, now, sent, put, edits, lost>>

\* 201: the event is added to the session in memory.  Behind the header event the
\* runner loads the session anew.
Acked(e) ==
    /\ post[e].pc = "stored" /\ run[e].pc \in {"header", "append"}
    /\ run' = [run EXCEPT ![e].pc     = IF @ = "header" THEN "load" ELSE "append",
                          ![e].memory = Append(@, post[e].event),
                          ![e].acked  = @ \cup {post[e].event}]
    /\ post' = [post EXCEPT ![e] = NoPost]
    /\ UNCHANGED <<sess, evts, now, sent, put, edits, lost>>

\* 403 or 404: raise_for_status, and the run has failed.
Refused(e) ==
    /\ post[e].pc = "refused"
    /\ post' = [post EXCEPT ![e] = NoPost]
    /\ run' = [run EXCEPT ![e] = Resting]
    /\ UNCHANGED <<sess, evts, now, sent, put, edits, lost>>

\* No answer: the run has failed, the handler goes on.
GivesUp(e) ==
    /\ lost > 0 /\ lost' = lost - 1
    /\ run[e].pc # "idle"
    /\ run' = [run EXCEPT ![e] = Resting]
    /\ UNCHANGED <<sess, evts, now, sent, post, put, edits>>

HandlerEnds(e) ==
    /\ run[e].pc = "idle" /\ post[e].pc = "stored"
    /\ post' = [post EXCEPT ![e] = NoPost]
    /\ UNCHANGED <<sess, evts, now, sent, run, put, edits, lost>>

\* GET /api/sessions/{id}: the session, then its events; without a session the
\* runner fails.
Load(e) ==
    /\ run[e].pc = "load"
    /\ run' = [run EXCEPT ![e] = IF SessionLive THEN [@ EXCEPT !.pc = "listing"] ELSE Resting]
    /\ UNCHANGED <<sess, evts, now, sent, post, put, edits, lost>>

\* The session is built with the events and each of them is appended again.
Listed(e) ==
    /\ run[e].pc = "listing"
    /\ LET ids == [i \in 1..Cardinality(evts) |-> NewestFirst(evts)[i].row.id] IN
       run' = [run EXCEPT ![e].pc = "append", ![e].memory = ids \o ids]
    /\ UNCHANGED <<sess, evts, now, sent, post, put, edits, lost>>

RunEnds(e) ==
    /\ run[e].pc = "append" /\ post[e].pc = "idle"
    /\ run' = [run EXCEPT ![e] = Resting]
    /\ UNCHANGED <<sess, evts, now, sent, post, put, edits, lost>>

----------------------------------------------------------------------------
SessionNext ==
    \/ UserDeletes \/ UpdateStores
    \/ \E e \in Engines :
        \/ UserCreates(e) \/ UpdateReads(e)
        \/ EventChecked(e) \/ EventStored(e)
        \/ Prepare(e) \/ EngineCreates(e) \/ Send(e) \/ Acked(e) \/ Refused(e)
        \/ GivesUp(e) \/ HandlerEnds(e) \/ Load(e) \/ Listed(e) \/ RunEnds(e)

SessionSpec == SessionInit /\ [][SessionNext]_sessionVars

----------------------------------------------------------------------------
(* Properties. *)

CreatedAt(events, id) == (CHOOSE r \in events : r.row.id = id).at

\* The first events of a memory are those of the conversation up to some moment after
\* the agent had joined it, in any order; the others are its own, in their order.
LoadedThenAdded(events, memory, acked, loaded) ==
    /\ \E i \in 1..loaded : memory[i] \in acked
    /\ \A r \in events, i \in 1..loaded :
          r.at <= CreatedAt(events, memory[i]) => \E j \in 1..loaded : memory[j] = r.row.id
    /\ \A i \in 1..Len(memory), j \in loaded + 1..Len(memory) :
          i < j => CreatedAt(events, memory[i]) < CreatedAt(events, memory[j])
    /\ \A j \in loaded + 1..Len(memory) : memory[j] \in acked

\* What an agent has in memory when it answers is the conversation, without a gap,
\* whatever other engines, late handlers and the user did to it: every event it was
\* told is stored, nothing that is not stored, all there was when it joined - of other
\* engines and of earlier, deleted sessions as well - and behind that what it added, in
\* the order it was stored.
MemoryTellsSession ==
    \A e \in Engines : run[e].pc = "append" =>
        /\ run[e].acked \subseteq Range(run[e].memory)
        /\ Range(run[e].memory) \subseteq {r.row.id : r \in evts}
        /\ \E loaded \in 0..Len(run[e].memory) :
              LoadedThenAdded(evts, run[e].memory, run[e].acked, loaded)
=============================================================================
