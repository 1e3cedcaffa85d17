------------------------------ MODULE TaskRuns ------------------------------
(***************************************************************************)
(* The ADK engine at one task: A2aAgentExecutor (kagent-adk/.../           *)
(* _agent_executor.py), the conversion of what the agent does into A2A     *)
(* events (converters/event_converter.py), the TaskResultAggregator        *)
(* (kagent-core/.../_task_result_aggregator.py) and the task store behind  *)
(* the consumer of a2a-sdk.  The session is the subject of Sessions.       *)
(*                                                                         *)
(* Outside: the runner of google-adk, which may emit anything, raise or    *)
(* hang; the consumer, which saves the task after each event, stops behind *)
(* a final one, and takes no request for a task that is over.              *)
(***************************************************************************)
EXTENDS Naturals, Sequences, FiniteSets, SequencesExt

CONSTANTS MaxAdkRequests, MaxAdkEvents, MaxAdkFaults   \* bounds

ASSUME AdkAssumption == MaxAdkRequests \in Nat /\ MaxAdkEvents \in Nat /\ MaxAdkFaults \in Nat

VARIABLES
    adkPc,      \* the executor: "idle", "resolve", "prepare", "run", "done"
    aggregator, \* of this request: the state, and whether it has a message
    adkQueue,   \* events published and not taken yet
    adkStored,  \* the stored task: its state, and whether this request gave it an artifact
    adkTold,    \* the states that were saved in this request, oldest first
    emitted,    \* history: what the agent of this request has emitted
    raised,     \* history: the executor has caught an exception in this request
    undisturbed,\* history: all of this request so far was saved
    adkSends, adkFaults   \* what is left of the bounds

adkVars == <<adkPc, aggregator, adkQueue, adkStored, adkTold, emitted, raised, undisturbed, adkSends, adkFaults>>

AdkEnded  == {"completed", "failed"}
AdkStates == {"submitted", "working", "completed", "failed", "input_required", "auth_required"}

\* What an event of the agent holds: an error code, a message, a call of a long
\* running tool in it, one that asks for the user's credentials.
Emits == {"nothing", "text", "call", "credentials", "error", "error text", "error call"}

AdkEvent(state, final) == [kind |-> "status", state |-> state, final |-> final]
AdkArtifact            == [kind |-> "artifact", state |-> "working", final |-> FALSE]
NewAggregator          == [state |-> "working", message |-> FALSE]

AdkTypeOK ==
    /\ adkPc \in {"idle", "resolve", "prepare", "run", "done"}
    /\ aggregator \in [state : {"working", "failed", "input_required", "auth_required"}, message : BOOLEAN]
    /\ adkQueue \in Seq([kind : {"status", "artifact"}, state : AdkStates, final : BOOLEAN])
    /\ adkStored \in [state : AdkStates \cup {"none"}, artifact : BOOLEAN]
    /\ adkTold \in Seq(AdkStates) /\ emitted \in Seq(Emits)
    /\ raised \in BOOLEAN /\ undisturbed \in BOOLEAN
    /\ adkSends \in 0..MaxAdkRequests /\ adkFaults \in 0..MaxAdkFaults

AdkInit ==
    /\ adkPc = "idle" /\ aggregator = NewAggregator /\ adkQueue = <<>>
    /\ adkStored = [state |-> "none", artifact |-> FALSE] /\ adkTold = <<>>
    /\ emitted = <<>> /\ raised = FALSE /\ undisturbed = TRUE
    /\ adkSends = MaxAdkRequests /\ adkFaults = MaxAdkFaults

----------------------------------------------------------------------------
(* What becomes of an event of the agent. *)

\* _create_error_status_event and _create_status_update_event.
ErrorStatus  == "failed"
StatusOf(what) == CASE what \in {"call", "error call"} -> "input_required"
                    [] what = "credentials" -> "auth_required"
                    [] OTHER -> "working"

\* convert_event_to_a2a_events: the error first, then the message if any.
Converted(what) ==
    (IF what \in {"error", "error text", "error call"} THEN <<ErrorStatus>> ELSE <<>>)
    \o IF what \in {"nothing", "error"} THEN <<>> ELSE <<StatusOf(what)>>

\* Mutant: what waits for input hides what waits for credentials.
ProcessLastWins(agg, state) ==
    CASE state = "failed" -> [state |-> "failed", message |-> TRUE]
      [] state \in {"auth_required", "input_required"} /\ agg.state # "failed" ->
            [state |-> state, message |-> TRUE]
      [] OTHER -> [agg EXCEPT !.message = @ \/ agg.state = "working"]

\* process_event: its priorities.
Process(agg, state) ==
    CASE state = "failed" -> [state |-> "failed", message |-> TRUE]
      [] state = "auth_required" /\ agg.state # "failed" -> [state |-> "auth_required", message |-> TRUE]
      [] state = "input_required" /\ agg.state \notin {"failed", "auth_required"} ->
            [state |-> "input_required", message |-> TRUE]
      [] OTHER -> [agg EXCEPT !.message = @ \/ agg.state = "working"]

\* An event of the agent becomes two at most.
ProcessAll(agg, states) ==
    CASE Len(states) = 0 -> agg
      [] Len(states) = 1 -> Process(agg, states[1])
      [] OTHER           -> Process(Process(agg, states[1]), states[2])

\* Mutant: the events keep their state.
RewrittenNot(states) == [i \in DOMAIN states |-> AdkEvent(states[i], FALSE)]

\* "make sure the intermediate state is always working".
Rewritten(states) == [i \in DOMAIN states |-> AdkEvent("working", FALSE)]

----------------------------------------------------------------------------
(* The executor. *)

Publishes(events) == adkQueue' = adkQueue \o events

AdkExecute ==
    /\ adkPc = "idle" /\ adkSends > 0 /\ adkStored.state \notin AdkEnded
    /\ adkPc' = "resolve"
    /\ Publishes(IF adkStored.state = "none" THEN <<AdkEvent("submitted", FALSE)>> ELSE <<>>)
    /\ aggregator' = NewAggregator /\ adkTold' = <<>> /\ emitted' = <<>>
    /\ raised' = FALSE /\ undisturbed' = TRUE
    /\ adkStored' = [adkStored EXCEPT !.artifact = FALSE]
    /\ adkSends' = adkSends - 1
    /\ UNCHANGED adkFaults

\* _resolve_runner is outside the try: an exception leaves the task as it is.
ResolveRunner ==
    /\ adkPc = "resolve"
    /\ \/ adkPc' = "prepare" /\ UNCHANGED <<undisturbed, adkFaults>>
       \/ adkPc' = "done" /\ undisturbed' = FALSE /\ adkFaults > 0 /\ adkFaults' = adkFaults - 1
    /\ UNCHANGED <<aggregator, adkQueue, adkStored, adkTold, emitted, raised, adkSends>>

\* _handle_request: the session is there, the headers are stored.
AdkWorks ==
    /\ adkPc = "prepare" /\ adkPc' = "run"
    /\ Publishes(<<AdkEvent("working", FALSE)>>)
    /\ UNCHANGED <<aggregator, adkStored, adkTold, emitted, raised, undisturbed, adkSends, adkFaults>>

AdkEmits(what) ==
    /\ adkPc = "run" /\ Len(emitted) < MaxAdkEvents
    /\ emitted' = Append(emitted, what)
    /\ aggregator' = ProcessAll(aggregator, Converted(what))
    /\ Publishes(Rewritten(Converted(what)))
    /\ UNCHANGED <<adkPc, adkStored, adkTold, raised, undisturbed, adkSends, adkFaults>>

\* The run is over: an artifact and completed, or what the aggregator holds.
AdkEnds ==
    /\ adkPc = "run" /\ adkPc' = "done"
    /\ Publishes(IF aggregator.state = "working" /\ aggregator.message
                 THEN <<AdkArtifact, AdkEvent("completed", TRUE)>>
                 ELSE <<AdkEvent(aggregator.state, TRUE)>>)
    /\ UNCHANGED <<aggregator, adkStored, adkTold, emitted, raised, undisturbed, adkSends, adkFaults>>

\* except Exception: of the session, of the conversion, of the agent.
AdkRaises ==
    /\ adkPc \in {"prepare", "run"} /\ adkFaults > 0 /\ adkFaults' = adkFaults - 1
    /\ adkPc' = "done" /\ raised' = TRUE
    /\ Publishes(<<AdkEvent("failed", TRUE)>>)
    /\ UNCHANGED <<aggregator, adkStored, adkTold, emitted, undisturbed, adkSends>>

----------------------------------------------------------------------------
(* The consumer, and the task store's save. *)

AdkSaved(event) ==
    IF event.kind = "artifact" THEN [adkStored EXCEPT !.artifact = TRUE]
    ELSE [adkStored EXCEPT !.state = event.state]

AdkConsume ==
    /\ adkQueue # <<>> /\ adkPc # "idle"
    /\ adkStored' = AdkSaved(Head(adkQueue))
    /\ adkTold' = IF Head(adkQueue).kind = "status" THEN Append(adkTold, Head(adkQueue).state) ELSE adkTold
    /\ adkQueue' = IF Head(adkQueue).final THEN <<>> ELSE Tail(adkQueue)
    /\ UNCHANGED <<adkPc, aggregator, emitted, raised, undisturbed, adkSends, adkFaults>>

\* The request ends when executor and consumer have; when a save fails or the pod
\* ends, whatever is in the queue is lost.
AdkRequestEnds ==
    /\ adkPc # "idle" /\ adkPc' = "idle" /\ adkQueue' = <<>>
    /\ \/ adkPc = "done" /\ adkQueue = <<>> /\ UNCHANGED <<undisturbed, adkFaults>>
       \/ undisturbed' = FALSE /\ adkFaults > 0 /\ adkFaults' = adkFaults - 1
    /\ UNCHANGED <<aggregator, adkStored, adkTold, emitted, raised, adkSends>>

AdkNext ==
    \/ AdkExecute \/ ResolveRunner \/ AdkWorks \/ AdkEnds \/ AdkRaises \/ AdkConsume \/ AdkRequestEnds
    \/ \E what \in Emits : AdkEmits(what)

AdkSpec == AdkInit /\ [][AdkNext]_adkVars

----------------------------------------------------------------------------
(* Properties. *)

\* What the run came to.
Emitted(set) == \E i \in DOMAIN emitted : emitted[i] \in set

AdkOutcome ==
    IF raised \/ Emitted({"error", "error text", "error call"}) THEN "failed"
    ELSE IF Emitted({"credentials"}) THEN "auth_required"
    ELSE IF Emitted({"call"}) THEN "input_required"
    ELSE IF Emitted({"text"}) THEN "completed" ELSE "working"

\* A request that was saved to its end has left in the store what its run came
\* to, whatever the order of the agent's events: failed if anything failed, else
\* waiting for credentials, else for input, else completed with an artifact; a
\* run that said nothing leaves the task working.
FinalTellsRun ==
    adkPc = "idle" /\ undisturbed /\ adkSends < MaxAdkRequests =>
        /\ adkStored.state = AdkOutcome
        /\ adkStored.artifact <=> adkStored.state = "completed"

\* A client that reads the task sees the life of TaskLife: no waiting or finished
\* state before the last save of a request, whatever events the agent emits.
AdkPhase ==
    CASE adkPc = "idle" -> "closed"
      [] adkPc = "done" /\ adkQueue = <<>> /\ adkTold # <<>> /\ adkTold[Len(adkTold)] # "submitted" -> "over"
      [] adkPc # "idle" /\ (\A i \in DOMAIN adkTold : adkTold[i] = "submitted") -> "open"
      [] OTHER -> "working"

Life == INSTANCE TaskLife WITH life <- adkStored.state, phase <- AdkPhase

LifeOfTask == Life!LifeSpec
=============================================================================
