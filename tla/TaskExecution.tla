--------------------------- MODULE TaskExecution ---------------------------
(***************************************************************************)
(* One A2A task of a LangGraph agent: the executor that runs the graph and *)
(* publishes events, the event queue, the consumer that saves the task in  *)
(* the controller after each event, and human-in-the-loop: the graph stops *)
(* at an interrupt, the task becomes input_required, and the next message  *)
(* may carry the decision that resumes the graph.                          *)
(*                                                                         *)
(* Sources: python/packages/kagent-langgraph/.../_executor.py,             *)
(* kagent-core/.../a2a/_hitl.py and _task_store.py.  The A2A server (queue *)
(* and consumer), the graph and its checkpoints are outside: they appear   *)
(* as those files use them.                                                *)
(*                                                                         *)
(* The engine is one asyncio loop, so a step ends where the code awaits    *)
(* something that is not ready.  A client sends its next message when the  *)
(* previous request has ended.                                             *)
(***************************************************************************)
EXTENDS Naturals, Sequences, SequencesExt

CONSTANTS
    Messages,   \* what clients send: sequences of parts
    NoEvent,    \* the consumer has no event in hand
    MaxSends, MaxAsks, MaxFaults, MaxCrashes   \* bounds

VARIABLES
    stored,   \* the task in the controller's database
    thread,   \* the interrupt the graph's checkpoint waits at, 0 for none
    asks,     \* interrupts so far: they are numbered
    ran,      \* the interrupts whose tool has run, approved
    shown,    \* the interrupts that were once stored as the task's question
    pc,       \* the executor
    input,    \* what the graph is given: a decision, or "message"
    said,     \* this execution produced a message
    queue,    \* events published and not consumed
    taken,    \* the event the consumer is saving
    consumer, \* "on" while the consumer reads the queue
    signal,   \* _save_events[task]: no entry, an entry, a set entry
    sends, faults, crashes   \* what is left of the bounds

engine == <<pc, input, said, signal>>
graph  == <<thread, asks, ran>>
bounds == <<sends, faults, crashes>>
vars   == <<stored, graph, shown, engine, queue, taken, consumer, bounds>>

----------------------------------------------------------------------------
\* A DataPart with a decision, one without, and TextParts by their keywords.
Parts     == {"dataApprove", "dataDeny", "data", "approve", "deny", "both", "text"}
Decisions == {"approve", "deny"}

States    == {"none", "submitted", "working", "input_required", "completed", "failed"}
Terminal  == {"completed", "failed"}

\* ask: the interrupt an input_required status is about.
TaskRecord == [state : States, ask : Nat]
Event      == [state : States \cup {"artifact"}, ask : Nat, final : BOOLEAN]

Status(state)    == [state |-> state, ask |-> 0, final |-> FALSE]
FinalStatus(state) == [state |-> state, ask |-> 0, final |-> TRUE]

ASSUME TaskAssumption ==
    /\ Messages \subseteq Seq(Parts)
    /\ NoEvent \notin Event
    /\ MaxSends \in Nat /\ MaxAsks \in Nat /\ MaxFaults \in Nat /\ MaxCrashes \in Nat

TypeOK ==
    /\ stored \in TaskRecord
    /\ thread \in 0..asks /\ asks \in 0..MaxAsks
    /\ ran \subseteq 1..asks /\ shown \subseteq 1..asks
    /\ pc \in {"idle", "start", "run", "wait", "done"}
    /\ input \in Decisions \cup {"message"}
    /\ said \in BOOLEAN
    /\ queue \in Seq(Event)
    /\ taken \in Event \cup {NoEvent}
    /\ consumer \in {"on", "off"}
    /\ signal \in {"none", "entry", "set"}
    /\ sends \in 0..MaxSends /\ faults \in 0..MaxFaults /\ crashes \in 0..MaxCrashes

Init ==
    /\ stored = [state |-> "none", ask |-> 0]
    /\ thread = 0 /\ asks = 0 /\ ran = {} /\ shown = {}
    /\ pc = "idle" /\ input = "message" /\ said = FALSE
    /\ queue = <<>> /\ taken = NoEvent /\ consumer = "off"
    /\ signal = "none"
    /\ sends = MaxSends /\ faults = MaxFaults /\ crashes = MaxCrashes

----------------------------------------------------------------------------
(* The decision in a message. *)

DataDecision(part) ==
    CASE part = "dataApprove" -> "approve"
      [] part = "dataDeny"    -> "deny"
      [] OTHER                -> "none"

\* Denial keywords are looked for first.
TextDecision(part) ==
    CASE part \in {"deny", "both"} -> "deny"
      [] part = "approve"          -> "approve"
      [] OTHER                     -> "none"

\* The first part with a decision, DataParts before TextParts.
ExtractDecision(message) ==
    LET data == SelectSeq(message, LAMBDA p : DataDecision(p) # "none")
        text == SelectSeq(message, LAMBDA p : TextDecision(p) # "none") IN
    IF data # <<>> THEN DataDecision(Head(data))
    ELSE IF text # <<>> THEN TextDecision(Head(text))
    ELSE "none"

IsResumeCommand(message) ==
    /\ stored.state = "input_required"
    /\ ExtractDecision(message) # "none"

----------------------------------------------------------------------------
(* The executor and the graph. *)

Publish(events) == queue' = queue \o events

\* A request: the task is read, and the executor runs up to the graph.  A task
\* that has ended takes no message.
Execute(message) ==
    /\ pc = "idle"
    /\ sends > 0
    /\ stored.state \notin Terminal
    /\ sends' = sends - 1
    /\ pc' = "start"
    /\ said' = FALSE
    /\ consumer' = "on"
    /\ IF IsResumeCommand(message)
       THEN /\ input' = ExtractDecision(message)
            /\ Publish(<<Status("working")>>)
       ELSE /\ input' = "message"
            /\ Publish((IF stored.state = "none" THEN <<Status("submitted")>> ELSE <<>>)
                        \o <<Status("working")>>)
    /\ UNCHANGED <<stored, graph, shown, taken, signal, faults, crashes>>

\* astream: a decision is given to the interrupt the thread waits at, a message
\* starts the graph again from its entry.
GraphStart ==
    /\ pc = "start"
    /\ pc' = "run"
    /\ thread' = 0
    /\ ran' = IF input = "approve" /\ thread # 0 THEN ran \cup {thread} ELSE ran
    /\ UNCHANGED <<stored, asks, shown, input, said, queue, taken, consumer, signal, bounds>>

\* An update with a message in it (the converter drops the others).
GraphSay ==
    /\ pc = "run"
    /\ ~said
    /\ said' = TRUE
    /\ Publish(<<Status("working")>>)
    /\ UNCHANGED <<stored, graph, shown, pc, input, taken, consumer, signal, bounds>>

\* The graph stops at an interrupt: handle_tool_approval_interrupt publishes
\* input_required and waits for a save.  Nothing in between gives up the loop.
GraphInterrupt ==
    /\ pc = "run"
    /\ asks < MaxAsks
    /\ asks' = asks + 1
    /\ thread' = asks + 1
    /\ Publish(<<[state |-> "input_required", ask |-> asks + 1, final |-> FALSE]>>)
    /\ signal' = "entry"
    /\ pc' = "wait"
    /\ UNCHANGED <<stored, ran, shown, input, said, taken, consumer, bounds>>

\* The graph stops at an interrupt of another shape, which raises, or raises
\* itself.
GraphRaise ==
    /\ pc = "run"
    /\ \/ UNCHANGED <<thread, asks>>
       \/ asks < MaxAsks /\ asks' = asks + 1 /\ thread' = asks + 1
    /\ Publish(<<FinalStatus("failed")>>)
    /\ pc' = "done"
    /\ UNCHANGED <<stored, ran, shown, input, said, taken, consumer, signal, bounds>>

\* The graph ends.  The aggregator only ever saw working: its state is working,
\* and without a message that is the final status.
GraphEnd ==
    /\ pc = "run"
    /\ Publish(IF said THEN <<Status("artifact"), FinalStatus("completed")>>
                       ELSE <<FinalStatus("working")>>)
    /\ pc' = "done"
    /\ UNCHANGED <<stored, graph, shown, input, said, taken, consumer, signal, bounds>>

\* Mutant: the result is published behind the interrupt as well.
SaveSeenAndResult ==
    /\ pc = "wait"
    /\ signal = "set"
    /\ signal' = "none"
    /\ Publish(<<FinalStatus("completed")>>)
    /\ pc' = "done"
    /\ UNCHANGED <<stored, graph, shown, input, said, taken, consumer, bounds>>

\* wait_for_save returns.
SaveSeen ==
    /\ pc = "wait"
    /\ signal = "set"
    /\ signal' = "none"
    /\ pc' = "done"
    /\ UNCHANGED <<stored, graph, shown, input, said, queue, taken, consumer, bounds>>

\* Five seconds are over: logged, and the handler proceeds.
SaveTimeout ==
    /\ pc = "wait"
    /\ signal = "entry"
    /\ signal' = "none"
    /\ pc' = "done"
    /\ UNCHANGED <<stored, graph, shown, input, said, queue, taken, consumer, bounds>>

\* Mutant: the timeout is around the handler only.
HandlerTimeout ==
    /\ pc = "wait"
    /\ Publish(<<FinalStatus("failed")>>)
    /\ signal' = "none"
    /\ pc' = "done"
    /\ UNCHANGED <<stored, graph, shown, input, said, taken, consumer, bounds>>

\* asyncio.wait_for(execution_timeout), around the graph and the handler.
ExecutionTimeout ==
    /\ pc \in {"start", "run", "wait"}
    /\ Publish(<<FinalStatus("failed")>>)
    /\ signal' = "none"
    /\ pc' = "done"
    /\ UNCHANGED <<stored, graph, shown, input, said, taken, consumer, bounds>>

----------------------------------------------------------------------------
(* The consumer and KAgentTaskStore.save. *)

Take ==
    /\ consumer = "on"
    /\ taken = NoEvent
    /\ queue # <<>>
    /\ taken' = Head(queue)
    /\ queue' = Tail(queue)
    /\ UNCHANGED <<stored, graph, shown, engine, consumer, bounds>>

\* Mutant: an artifact is taken for a status.
AfterStatus(event) == [state |-> event.state, ask |-> event.ask]

\* The task after an event: an artifact leaves its state alone.
After(event) ==
    IF event.state = "artifact" THEN stored
    ELSE [state |-> event.state, ask |-> event.ask]

Store(task) ==
    /\ stored' = task
    /\ shown' = IF task.ask # 0 THEN shown \cup {task.ask} ELSE shown

\* The POST succeeds: whoever waits for this task is woken, whatever was saved.
\* The consumer stops behind a final event.
Save ==
    /\ taken # NoEvent
    /\ Store(After(taken))
    /\ signal' = IF signal = "entry" THEN "set" ELSE signal
    /\ consumer' = IF taken.final THEN "off" ELSE "on"
    /\ taken' = NoEvent
    /\ UNCHANGED <<graph, pc, input, said, queue, bounds>>

\* The POST fails, or its answer is lost: the consumer ends with the error.
SaveFails ==
    /\ taken # NoEvent
    /\ faults > 0
    /\ faults' = faults - 1
    /\ \/ Store(After(taken))
       \/ UNCHANGED <<stored, shown>>
    /\ consumer' = "off"
    /\ taken' = NoEvent
    /\ UNCHANGED <<graph, engine, queue, sends, crashes>>

\* The executor has returned and there is nothing left to consume.
RequestEnds ==
    /\ pc = "done"
    /\ taken = NoEvent
    /\ consumer = "off" \/ queue = <<>>
    /\ pc' = "idle"
    /\ queue' = <<>>
    /\ consumer' = "off"
    /\ UNCHANGED <<stored, graph, shown, input, said, taken, signal, bounds>>

\* The pod ends: what is in memory is lost, a POST under way may arrive.
Crash ==
    /\ pc # "idle"
    /\ crashes > 0
    /\ crashes' = crashes - 1
    /\ \/ taken # NoEvent /\ Store(After(taken))
       \/ UNCHANGED <<stored, shown>>
    /\ pc' = "idle"
    /\ queue' = <<>> /\ taken' = NoEvent /\ consumer' = "off"
    /\ signal' = "none"
    /\ UNCHANGED <<graph, input, said, sends, faults>>

----------------------------------------------------------------------------
Graph    == GraphStart \/ GraphSay \/ GraphInterrupt \/ GraphRaise \/ GraphEnd
Consumer == Take \/ Save \/ SaveFails

Next ==
    \/ \E message \in Messages : Execute(message)
    \/ Graph
    \/ SaveSeen \/ SaveTimeout \/ ExecutionTimeout
    \/ Consumer \/ RequestEnds
    \/ Crash

Spec == Init /\ [][Next]_vars

\* The loop runs what is ready and timers expire; an HTTP call answers or fails.
\* Nothing is assumed of the graph: it may hang.
Fairness ==
    /\ WF_vars(SaveSeen) /\ WF_vars(SaveTimeout) /\ WF_vars(ExecutionTimeout)
    /\ WF_vars(Consumer) /\ WF_vars(RequestEnds)

FairSpec == Spec /\ Fairness

----------------------------------------------------------------------------
(* Properties. *)

NoFailure == faults = MaxFaults /\ crashes = MaxCrashes

\* Between requests, without a failed save or a crash, the stored task tells
\* how the graph stands: it is waiting for an answer exactly to the interrupt
\* that the thread waits at, or it has ended.  (An execution that says nothing
\* ends as working.)
StoredTellsGraph ==
    NoFailure /\ pc = "idle" =>
        /\ stored.state = "input_required" => thread # 0 /\ stored.ask = thread
        /\ stored.state = "completed" => thread = 0
        /\ stored.state = "working" => ~said /\ thread = 0
        /\ stored.state # "submitted"

\* Every request ends, even if the graph hangs or its events cannot be saved.
RequestsEnd == pc # "idle" ~> pc = "idle"

\* A client that reads the task sees the dialog of TaskDialog, whatever saves fail
\* and wherever the pod ends: each question is a new one, and a task that asks does
\* not go on without an answer, except that the execution's timeout may give it up.
Unsaved == IF taken = NoEvent THEN queue ELSE <<taken>> \o queue

DialogPhase ==
    CASE consumer = "off" -> "closed"
      [] /\ consumer = "on" /\ stored.state = "input_required"
         /\ Unsaved = <<>> \/ Head(Unsaved).state # "working" -> "asked"
      [] OTHER -> "open"

Dialog == INSTANCE TaskDialog WITH
    life <- stored.state, question <- stored.ask, questions <- shown, phase <- DialogPhase

LifeOfDialog == Dialog!DialogSpec

----------------------------------------------------------------------------
(* What comments in the code say and the code does not do. *)

\* wait_for_save is there "to ensure the task state is persisted before
\* resuming": no tool runs whose approval request was never stored.
ResumedWasPersisted == ran \subseteq shown
=============================================================================
