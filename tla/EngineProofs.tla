---------------------------- MODULE EngineProofs ----------------------------
(***************************************************************************)
(* Proofs about the engines and their stores: a CrewAI app (CrewRuns), for *)
(* any requests, sessions and tasks; one task of the ADK engine            *)
(* (TaskRuns), for every bound; one conversation (Sessions), for any       *)
(* engines and bounds; one LangGraph thread (Checkpoints), for any number  *)
(* of steps and channels; and one task of a LangGraph agent                *)
(* (TaskExecution), for any messages and bounds.                           *)
(***************************************************************************)
EXTENDS CrewRuns, TaskRuns, Sessions, Checkpoints, TaskExecution,
        SequenceTheorems, FiniteSetTheorems, TLAPS

----------------------------------------------------------------------------
(* CrewRuns: the inductive invariants. *)

\* The memory is bound to the session of a request that runs.
BoundToOne == app = "crew" => \A r \in Running : bound \in CrewSessions

\* One request at a time: it is the only one that runs, and its is the memory.
OneAtATime ==
    ~overlapped => /\ \A a, b \in Running : a = b
                   /\ app = "crew" => \A r \in Running : bound = RequestSession[r]

\* What the memory of a session holds: the last save, unless it was reset since.
Kept(s) == {[thread |-> s, text |-> saves[i].text, of |-> saves[i].of, nr |-> saves[i].nr] :
              i \in {k \in DOMAIN saves : LastOn(s, k) /\ saves[k].what = "save"}}

HoldsKept ==
    app = "crew" => \A s \in CrewSessions : Plain(Found(memories, [thread |-> s])) = Kept(s)

----------------------------------------------------------------------------
(* TaskRuns: the inductive invariants. *)

\* The aggregator tells what the agent of this request has emitted.
Aggregated ==
    /\ aggregator.state =
          IF Emitted({"error", "error text", "error call"}) THEN "failed"
          ELSE IF Emitted({"credentials"}) THEN "auth_required"
          ELSE IF Emitted({"call"}) THEN "input_required" ELSE "working"
    /\ aggregator.state = "working" => (aggregator.message <=> Emitted({"text"}))

\* What may be in the queue, and where.
SubmittedFirst ==
    /\ \A i \in DOMAIN adkQueue : adkQueue[i].state = "submitted" =>
          i = 1 /\ adkTold = <<>> /\ adkStored.state = "none" /\ adkQueue[1].kind = "status"
    /\ adkPc # "idle" /\ adkStored.state = "none" =>
          adkQueue # <<>> /\ adkQueue[1].state = "submitted" /\ adkTold = <<>>
    /\ adkPc \in {"resolve", "prepare"} =>
          /\ \A i \in DOMAIN adkQueue : adkQueue[i].state = "submitted"
          /\ \A i \in DOMAIN adkTold : adkTold[i] = "submitted"

FinalEvent(i)   == adkQueue[i].final
IsArtifact(i) == adkQueue[i].kind = "artifact"

QueueInOrder ==
    /\ adkPc = "idle" => adkQueue = <<>>
    /\ \A i \in DOMAIN adkQueue :
          /\ FinalEvent(i) => /\ adkPc = "done" /\ i = Len(adkQueue) /\ ~IsArtifact(i)
                              /\ adkQueue[i].state = AdkOutcome
          /\ IsArtifact(i) => adkPc = "done" /\ i + 1 \in DOMAIN adkQueue /\ AdkOutcome = "completed"
          /\ ~FinalEvent(i) => adkQueue[i].state \in {"submitted", "working"}

\* The outcome is in the store, with the artifact it needs.
OutcomeStored == adkStored.state = AdkOutcome /\ (adkStored.artifact <=> AdkOutcome = "completed")

\* How far a request that is undisturbed has come.
AdkProgress ==
    /\ adkPc \in {"resolve", "prepare", "run"} => undisturbed /\ ~raised /\ ~adkStored.artifact
    /\ adkPc = "done" /\ undisturbed =>
          IF adkQueue = <<>> THEN OutcomeStored
          ELSE /\ FinalEvent(Len(adkQueue))
               /\ adkStored.artifact \/ (\E i \in DOMAIN adkQueue : IsArtifact(i)) <=> AdkOutcome = "completed"
    /\ adkPc = "idle" /\ undisturbed /\ adkSends < MaxAdkRequests => OutcomeStored

AdkParts == Aggregated /\ SubmittedFirst /\ QueueInOrder /\ AdkProgress

----------------------------------------------------------------------------
(* The tables. *)

MemoryRows == [thread : CrewSessions, text : CrewTasks, of : CrewRequests, nr : 0..MaxCrewCalls]
FlowRecords == [thread : CrewSessions, method : FlowMethods, of : CrewRequests, nr : 0..MaxCrewCalls]
Entry == [what : {"save", "reset"}, thread : CrewSessions, text : CrewTasks \cup {Nobody},
          of : CrewRequests, nr : 0..MaxCrewCalls]

LEMMA NowIs ==
    ASSUME calls \in 0..MaxCrewCalls
    PROVE  /\ Now \in 0..MaxCrewCalls
           /\ Calls => calls' \in 0..MaxCrewCalls /\ Now' = Now + 1
BY CrewAssumption DEF Now, Calls

LEMMA Keys ==
    ASSUME NEW a, NEW b
    PROVE  Key({"thread"}, a) = Key({"thread"}, b) <=> a.thread = b.thread
<1>1. Key({"thread"}, a)["thread"] = a["thread"] /\ Key({"thread"}, b)["thread"] = b["thread"]
  BY DEF Key
<1>2. a.thread = b.thread => Key({"thread"}, a) = Key({"thread"}, b)
  BY DEF Key
<1> QED
  BY <1>1, <1>2

LEMMA OfThread ==
    ASSUME NEW row, NEW s
    PROVE  Matches(row, [thread |-> s]) <=> row.thread = s
BY DEF Matches

\* The rows behind a save: those with another key, and the saved one, which
\* keeps the time of creation of one with its key.
LEMMA SavedRows ==
    ASSUME NEW rows, NEW table \in SUBSET TableOf(rows), NEW fields, NEW row \in rows,
           NEW made \in 0..MaxCrewCalls
    PROVE  /\ Saved(table, fields, row, made) \subseteq TableOf(rows)
           /\ \E new \in TableOf(rows) :
                 /\ new.row = row /\ ~new.gone
                 /\ \/ new.at = made /\ \A r \in table : Key(fields, r.row) # Key(fields, row)
                    \/ \E r \in table : Key(fields, r.row) = Key(fields, row) /\ new.at = r.at
                 /\ Saved(table, fields, row, made)
                       = {r \in table : Key(fields, r.row) # Key(fields, row)} \cup {new}
<1> DEFINE old == {r \in table : Key(fields, r.row) = Key(fields, row)}
           at == IF old = {} THEN made ELSE (CHOOSE r \in old : TRUE).at
           new == [row |-> row, at |-> at, gone |-> FALSE]
<1>1. \/ at = made /\ old = {}
      \/ \E r \in old : at = r.at
  OBVIOUS
<1>2. at \in 0..MaxCrewCalls
  BY <1>1 DEF TableOf
<1>3. new \in TableOf(rows) /\ new.row = row /\ ~new.gone /\ new.at = at
  BY <1>2 DEF TableOf
<1>4. Saved(table, fields, row, made) = {r \in table : Key(fields, r.row) # Key(fields, row)} \cup {new}
  BY DEF Saved
<1> HIDE DEF new, at
<1>5. \/ new.at = made /\ \A r \in table : Key(fields, r.row) # Key(fields, row)
      \/ \E r \in table : Key(fields, r.row) = Key(fields, row) /\ new.at = r.at
  BY <1>1, <1>3
<1>6. Saved(table, fields, row, made) \subseteq TableOf(rows)
  BY <1>3, <1>4
<1> QED
  BY <1>3, <1>4, <1>5, <1>6

LEMMA DeletedRows ==
    ASSUME NEW rows, NEW table \in SUBSET TableOf(rows), NEW clauses
    PROVE  /\ Deleted(table, clauses) \subseteq TableOf(rows)
           /\ \A r \in Deleted(table, clauses) :
                 \E q \in table : /\ r.row = q.row
                                  /\ IF Matches(q.row, clauses) THEN r.gone ELSE r = q
           /\ \A q \in table : ~Matches(q.row, clauses) => q \in Deleted(table, clauses)
<1>1. ASSUME NEW q \in table
      PROVE  [q EXCEPT !.gone = TRUE] \in TableOf(rows) /\ [q EXCEPT !.gone = TRUE].row = q.row
             /\ [q EXCEPT !.gone = TRUE].gone
  BY DEF TableOf
<1>2. ASSUME NEW r \in Deleted(table, clauses)
      PROVE  /\ r \in TableOf(rows)
             /\ \E q \in table : /\ r.row = q.row
                                 /\ IF Matches(q.row, clauses) THEN r.gone ELSE r = q
  <2>1. PICK q \in table : r = IF Matches(q.row, clauses) THEN [q EXCEPT !.gone = TRUE] ELSE q
    BY DEF Deleted
  <2>2. CASE Matches(q.row, clauses)
    BY <1>1, <2>1, <2>2
  <2>3. CASE ~Matches(q.row, clauses)
    BY <2>1, <2>3
  <2> QED
    BY <2>2, <2>3
<1>3. ASSUME NEW q \in table, ~Matches(q.row, clauses)
      PROVE  q \in Deleted(table, clauses)
  BY <1>3 DEF Deleted
<1> QED
  BY <1>2, <1>3

\* The history with one entry more.
LEMMA HistoryGrows ==
    ASSUME CrewTypeOK, NEW e \in Entry, saves' = Append(saves, e)
    PROVE  /\ saves' \in Seq(Entry) /\ Len(saves') = Len(saves) + 1 /\ Len(saves) \in Nat
           /\ DOMAIN saves = 1..Len(saves) /\ DOMAIN saves' = 1..Len(saves')
           /\ saves'[Len(saves')] = e
           /\ \A i \in DOMAIN saves : i \in DOMAIN saves' /\ saves'[i] = saves[i]
           /\ \A i \in DOMAIN saves' : i \in DOMAIN saves \/ i = Len(saves) + 1
<1>1. saves \in Seq(Entry)
  BY DEF CrewTypeOK, Entry
<1>2. /\ saves' \in Seq(Entry) /\ Len(saves') = Len(saves) + 1
      /\ \A i \in 1..Len(saves) : saves'[i] = saves[i]
      /\ saves'[Len(saves) + 1] = e
  BY <1>1, AppendProperties
<1>3. Len(saves) \in Nat /\ DOMAIN saves = 1..Len(saves) /\ DOMAIN saves' = 1..Len(saves) + 1
  BY <1>1, <1>2
<1> QED
  BY <1>2, <1>3

LEMMA SessionOf ==
    \A r \in CrewRequests : RequestSession[r] \in CrewSessions
BY DEF CrewSessions

----------------------------------------------------------------------------
(* CrewRuns: type correctness. *)

LEMMA CrewInitType ==
    CrewInit => CrewTypeOK /\ BoundToOne
<1> SUFFICES ASSUME CrewInit PROVE CrewTypeOK /\ BoundToOne
  OBVIOUS
<1> USE DEF CrewInit
<1>1. saves \in Seq(Entry)
  BY EmptySeq
<1>2. calls \in 0..MaxCrewCalls
  BY CrewAssumption
<1>3. BoundToOne
  BY DEF BoundToOne, Running
<1>4. memories \subseteq TableOf(MemoryRows) /\ flows \subseteq TableOf(FlowRecords)
  OBVIOUS
<1> QED
  BY <1>1, <1>2, <1>3, <1>4 DEF CrewTypeOK, Entry, MemoryRows, FlowRecords

\* An entry of a request, of the session its calls are for.
LEMMA EntryType ==
    ASSUME NEW what \in {"save", "reset"}, NEW thr \in CrewSessions, CrewTypeOK,
           NEW text \in CrewTasks \cup {Nobody}, NEW r \in CrewRequests
    PROVE  [what |-> what, thread |-> thr, text |-> text, of |-> r, nr |-> Now] \in Entry
BY NowIs DEF Entry, CrewTypeOK

LEMMA CrewStepType ==
    CrewTypeOK /\ BoundToOne /\ [CrewNext]_crewVars => CrewTypeOK' /\ BoundToOne'
<1> SUFFICES ASSUME CrewTypeOK, BoundToOne, [CrewNext]_crewVars
             PROVE  CrewTypeOK' /\ BoundToOne'
  OBVIOUS
<1>t. /\ memories \in SUBSET TableOf(MemoryRows) /\ flows \in SUBSET TableOf(FlowRecords)
      /\ saves \in Seq(Entry)
  BY DEF CrewTypeOK, Entry, MemoryRows, FlowRecords
<1> DEFINE Rest == /\ app' \in {"crew", "flow"}
                   /\ crewReqs' \in [CrewRequests -> {"new", "running", "done", "failed"}]
                   /\ bound' \in CrewSessions \cup {Nobody} /\ listeners' \subseteq CrewRequests
                   /\ overlapped' \in BOOLEAN /\ calls' \in 0..MaxCrewCalls
           Stores == /\ memories' \subseteq TableOf(MemoryRows) /\ flows' \subseteq TableOf(FlowRecords)
                     /\ saves' \in Seq(Entry)
<1>q. Rest /\ Stores => CrewTypeOK'
  BY DEF CrewTypeOK, Entry, MemoryRows, FlowRecords
<1> HIDE DEF Stores
<1>same. memories' = memories /\ flows' = flows /\ saves' = saves => Stores
  BY <1>t DEF Stores
<1>1. CASE UNCHANGED crewVars
  <2>1. Rest
    BY <1>1 DEF CrewTypeOK, crewVars
  <2> QED
    BY <1>1, <1>same, <1>q, <2>1 DEF crewVars, BoundToOne, Running
<1>2. ASSUME NEW r \in CrewRequests, CrewExecute(r)
      PROVE  CrewTypeOK' /\ BoundToOne'
  <2>1. Rest
    BY <1>2, SessionOf DEF CrewExecute, CrewTypeOK
  <2>2. BoundToOne'
    BY <1>2, SessionOf DEF CrewExecute, BoundToOne
  <2> QED
    BY <1>2, <1>same, <1>q, <2>1, <2>2 DEF CrewExecute
<1>3. ASSUME NEW r \in CrewRequests, BusEvent(r) \/ \E q \in CrewTasks : MemoryLoad(r, q)
      PROVE  CrewTypeOK' /\ BoundToOne'
  <2>1. Rest
    BY <1>3 DEF BusEvent, MemoryLoad, CrewTypeOK
  <2> QED
    BY <1>3, <1>same, <1>q, <2>1 DEF BusEvent, MemoryLoad, BoundToOne, Running
<1>4. ASSUME NEW r \in CrewRequests, CrewRequestEnds(r) \/ LoadState(r)
      PROVE  CrewTypeOK' /\ BoundToOne'
  <2>1. Rest
    BY <1>4 DEF CrewRequestEnds, LoadState, CrewTypeOK
  <2>2. \A a \in CrewRequests : crewReqs'[a] = "running" => crewReqs[a] = "running"
    BY <1>4 DEF CrewRequestEnds, LoadState, CrewTypeOK
  <2> QED
    BY <1>4, <1>same, <1>q, <2>1, <2>2 DEF CrewRequestEnds, LoadState, BoundToOne, Running
<1>5. ASSUME NEW r \in CrewRequests, NEW t \in CrewTasks, MemorySave(r, t)
      PROVE  CrewTypeOK' /\ BoundToOne'
  <2>1. Rest
    BY <1>5, NowIs DEF MemorySave, CrewTypeOK
  <2>2. bound \in CrewSessions
    BY <1>5 DEF MemorySave, BoundToOne
  <2>3. Now \in 0..MaxCrewCalls
    BY NowIs DEF CrewTypeOK
  <2>4. memories' \subseteq TableOf(MemoryRows)
    <3>1. [thread |-> bound, text |-> t, of |-> r, nr |-> Now] \in MemoryRows
      BY <2>2, <2>3 DEF MemoryRows
    <3> QED
      BY <1>5, <1>t, <2>3, <3>1, SavedRows DEF MemorySave, HandleStoreMemory
  <2>5. saves' \in Seq(Entry)
    <3>1. [what |-> "save", thread |-> bound, text |-> t, of |-> r, nr |-> Now] \in Entry
      BY <2>2, EntryType
    <3> QED
      BY <1>5, <1>t, <3>1, AppendProperties DEF MemorySave, Remembered
  <2> QED
    BY <1>5, <1>t, <1>q, <2>1, <2>4, <2>5 DEF MemorySave, BoundToOne, Running, Stores
<1>6. ASSUME NEW r \in CrewRequests, MemoryReset(r)
      PROVE  CrewTypeOK' /\ BoundToOne'
  <2>1. Rest
    BY <1>6, NowIs DEF MemoryReset, CrewTypeOK
  <2>2. bound \in CrewSessions
    BY <1>6 DEF MemoryReset, BoundToOne
  <2>4. memories' \subseteq TableOf(MemoryRows)
    BY <1>6, <1>t, DeletedRows DEF MemoryReset, HandleResetMemory
  <2>5. saves' \in Seq(Entry)
    <3>1. [what |-> "reset", thread |-> bound, text |-> Nobody, of |-> r, nr |-> Now] \in Entry
      BY <2>2, EntryType
    <3> QED
      BY <1>6, <1>t, <3>1, AppendProperties DEF MemoryReset, Remembered
  <2> QED
    BY <1>6, <1>t, <1>q, <2>1, <2>4, <2>5 DEF MemoryReset, BoundToOne, Running, Stores
<1>7. ASSUME NEW r \in CrewRequests, NEW m \in FlowMethods, SaveState(r, m)
      PROVE  CrewTypeOK' /\ BoundToOne'
  <2>1. Rest
    BY <1>7, NowIs DEF SaveState, CrewTypeOK
  <2>2. RequestSession[r] \in CrewSessions
    BY SessionOf
  <2>3. Now \in 0..MaxCrewCalls
    BY NowIs DEF CrewTypeOK
  <2>4. flows' \subseteq TableOf(FlowRecords)
    <3>1. [thread |-> RequestSession[r], method |-> m, of |-> r, nr |-> Now] \in FlowRecords
      BY <2>2, <2>3 DEF FlowRecords
    <3> QED
      BY <1>7, <1>t, <2>3, <3>1, SavedRows DEF SaveState, HandleStoreFlowState
  <2>5. saves' \in Seq(Entry)
    BY <1>7, <1>t DEF SaveState
  <2> QED
    BY <1>7, <1>t, <1>q, <2>1, <2>4, <2>5 DEF SaveState, BoundToOne, Running, Stores
<1> QED
  BY <1>1, <1>2, <1>3, <1>4, <1>5, <1>6, <1>7 DEF CrewNext

\* In every state of a CrewAI app each variable keeps its type: a memory is saved
\* for the session of one of the app's requests.
THEOREM CrewTypeCorrect ==
    CrewSpec => []CrewTypeOK
<1>1. CrewSpec => [](CrewTypeOK /\ BoundToOne)
  BY CrewInitType, CrewStepType, PTL DEF CrewSpec
<1> QED
  BY <1>1, PTL

----------------------------------------------------------------------------
(* CrewRuns: one request at a time keeps the sessions apart. *)

\* Requests only stop running, but for the one that starts.
LEMMA RunningStep ==
    ASSUME CrewTypeOK, NEW r \in CrewRequests
    PROVE  /\ CrewExecute(r) => Running' = Running \cup {r}
           /\ CrewRequestEnds(r) \/ LoadState(r) => Running' \subseteq Running
           /\ r \in Running => r \in CrewRequests
<1>1. ASSUME CrewExecute(r) PROVE Running' = Running \cup {r}
  <2>1. \A a \in CrewRequests : crewReqs'[a] = IF a = r THEN "running" ELSE crewReqs[a]
    BY <1>1 DEF CrewExecute, CrewTypeOK
  <2> QED
    BY <2>1 DEF Running
<1>2. ASSUME CrewRequestEnds(r) \/ LoadState(r) PROVE Running' \subseteq Running
  <2>1. \A a \in CrewRequests : crewReqs'[a] = "running" => crewReqs[a] = "running"
    BY <1>2 DEF CrewRequestEnds, LoadState, CrewTypeOK
  <2> QED
    BY <2>1 DEF Running
<1> QED
  BY <1>1, <1>2

LEMMA ApartStep ==
    CrewTypeOK /\ OneAtATime /\ SessionsApart /\ [CrewNext]_crewVars => OneAtATime' /\ SessionsApart'
<1> SUFFICES ASSUME CrewTypeOK, OneAtATime, SessionsApart, [CrewNext]_crewVars
             PROVE  OneAtATime' /\ SessionsApart'
  OBVIOUS
<1>t. memories \in SUBSET TableOf(MemoryRows) /\ flows \in SUBSET TableOf(FlowRecords)
  BY DEF CrewTypeOK, MemoryRows, FlowRecords
<1>n. Now \in 0..MaxCrewCalls
  BY NowIs DEF CrewTypeOK
\* A step that leaves the requests, the memory and the listeners' hearing alone.
<1>same. ASSUME overlapped' = overlapped, app' = app, bound' = bound, Running' \subseteq Running
         PROVE  OneAtATime'
  BY <1>same DEF OneAtATime
<1>1. CASE UNCHANGED crewVars
  BY <1>1 DEF crewVars, OneAtATime, SessionsApart, Running
<1>2. ASSUME NEW r \in CrewRequests, CrewExecute(r)
      PROVE  OneAtATime' /\ SessionsApart'
  <2>1. Running' = Running \cup {r} /\ reached' = {} /\ overlapped' = (overlapped \/ Running # {})
    BY <1>2, RunningStep DEF CrewExecute
  <2>2. ~overlapped' => ~overlapped /\ Running' = {r}
    BY <2>1
  <2>3. OneAtATime'
    BY <1>2, <2>2 DEF CrewExecute, OneAtATime
  <2> QED
    BY <1>2, <2>1, <2>2, <2>3 DEF CrewExecute, SessionsApart
<1>3. ASSUME NEW r \in CrewRequests, BusEvent(r)
      PROVE  OneAtATime' /\ SessionsApart'
  <2>1. ~overlapped => \A pair \in reached' : pair[1] = pair[2]
    BY <1>3 DEF BusEvent, OneAtATime
  <2>2. Running' \subseteq Running
    BY <1>3 DEF BusEvent, Running
  <2> QED
    BY <1>3, <1>same, <2>1, <2>2 DEF BusEvent, SessionsApart
<1>4. ASSUME NEW r \in CrewRequests, NEW t \in CrewTasks, MemoryLoad(r, t)
      PROVE  OneAtATime' /\ SessionsApart'
  <2>1. Running' \subseteq Running
    BY <1>4 DEF MemoryLoad, Running
  <2>2. ASSUME ~overlapped, NEW pair \in reached'
        PROVE  pair[1] = pair[2]
    <3>1. PICK m \in HandleGetMemory(bound, t) : pair = <<RequestSession[r], RequestSession[m.of]>>
      BY <1>4, <2>2 DEF MemoryLoad
    <3>2. PICK q \in memories : m = q.row /\ Matches(q.row, [thread |-> bound])
      BY <3>1 DEF HandleGetMemory, Plain, Found
    <3>3. m.thread = bound
      BY <3>2, OfThread
    <3>4. m.thread = RequestSession[m.of]
      BY <2>2, <3>2 DEF SessionsApart
    <3>5. bound = RequestSession[r]
      BY <1>4, <2>2 DEF MemoryLoad, OneAtATime
    <3> QED
      BY <3>1, <3>3, <3>4, <3>5
  <2> QED
    BY <1>4, <1>same, <2>1, <2>2 DEF MemoryLoad, SessionsApart
<1>5. ASSUME NEW r \in CrewRequests, CrewRequestEnds(r) \/ LoadState(r)
      PROVE  OneAtATime' /\ SessionsApart'
  <2>1. Running' \subseteq Running
    BY <1>5, RunningStep
  <2> QED
    BY <1>5, <1>same, <2>1 DEF CrewRequestEnds, LoadState, SessionsApart
<1>6. ASSUME NEW r \in CrewRequests, NEW t \in CrewTasks, MemorySave(r, t)
      PROVE  OneAtATime' /\ SessionsApart'
  <2> DEFINE rec == [thread |-> bound, text |-> t, of |-> r, nr |-> Now]
  <2>1. Running' \subseteq Running
    BY <1>6 DEF MemorySave, Running
  <2>2. ~overlapped => bound = RequestSession[r]
    BY <1>6 DEF MemorySave, OneAtATime
  <2>3. ~overlapped => rec \in MemoryRows
    BY <1>n, <2>2, SessionOf DEF MemoryRows
  <2>4. rec.thread = bound /\ rec.of = r
    OBVIOUS
  <2>5. memories' = Saved(memories, {"thread"}, rec, Now)
    BY <1>6 DEF MemorySave, HandleStoreMemory
  <2> HIDE DEF rec
  <2>6. ASSUME ~overlapped, NEW row \in memories'
        PROVE  row.row.thread = RequestSession[row.row.of]
    <3>1. row \in memories \/ row.row = rec
      BY <1>t, <1>n, <2>3, <2>5, <2>6, SavedRows
    <3> QED
      BY <2>2, <2>4, <2>6, <3>1 DEF SessionsApart
  <2> QED
    BY <1>6, <1>same, <2>1, <2>6 DEF MemorySave, SessionsApart
<1>7. ASSUME NEW r \in CrewRequests, MemoryReset(r)
      PROVE  OneAtATime' /\ SessionsApart'
  <2>1. Running' \subseteq Running
    BY <1>7 DEF MemoryReset, Running
  <2>2. ASSUME ~overlapped, NEW row \in memories'
        PROVE  row.row.thread = RequestSession[row.row.of]
    <3>1. PICK q \in memories : row.row = q.row
      BY <1>7, <1>t, <2>2, DeletedRows DEF MemoryReset, HandleResetMemory
    <3> QED
      BY <2>2, <3>1 DEF SessionsApart
  <2> QED
    BY <1>7, <1>same, <2>1, <2>2 DEF MemoryReset, SessionsApart
<1>8. ASSUME NEW r \in CrewRequests, NEW m \in FlowMethods, SaveState(r, m)
      PROVE  OneAtATime' /\ SessionsApart'
  <2> DEFINE rec == [thread |-> RequestSession[r], method |-> m, of |-> r, nr |-> Now]
  <2>1. Running' \subseteq Running
    BY <1>8 DEF SaveState, Running
  <2>3. rec \in FlowRecords
    BY <1>n, SessionOf DEF FlowRecords
  <2>4. rec.thread = RequestSession[r] /\ rec.of = r
    OBVIOUS
  <2>5. flows' = Saved(flows, {"thread", "method"}, rec, Now)
    BY <1>8 DEF SaveState, HandleStoreFlowState
  <2> HIDE DEF rec
  <2>6. ASSUME ~overlapped, NEW row \in flows'
        PROVE  row.row.thread = RequestSession[row.row.of]
    <3>1. row \in flows \/ row.row = rec
      BY <1>t, <1>n, <2>3, <2>5, SavedRows
    <3> QED
      BY <2>4, <2>6, <3>1 DEF SessionsApart
  <2> QED
    BY <1>8, <1>same, <2>1, <2>6 DEF SaveState, SessionsApart
<1> QED
  BY <1>1, <1>2, <1>3, <1>4, <1>5, <1>6, <1>7, <1>8 DEF CrewNext

\* For any requests and sessions: as long as no two requests run at the same time
\* nothing of one session gets into another, although the crew, the event bus and
\* the listeners are shared (_executor.py:62-151, _listeners.py:54-203).
THEOREM OneRequestApart ==
    CrewSpec => []SessionsApart
<1> DEFINE Inv == CrewTypeOK /\ BoundToOne /\ OneAtATime /\ SessionsApart
<1>1. CrewInit => Inv
  <2>1. CrewInit => OneAtATime /\ SessionsApart
    BY DEF CrewInit, OneAtATime, SessionsApart, Running
  <2> QED
    BY <2>1, CrewInitType
<1>2. Inv /\ [CrewNext]_crewVars => Inv'
  BY CrewStepType, ApartStep
<1>3. CrewSpec => []Inv
  BY <1>1, <1>2, PTL DEF CrewSpec
<1> QED
  BY <1>3, PTL

----------------------------------------------------------------------------
(* CrewRuns: the memory finds what was saved last. *)

\* A step changes the history and the memories together, or neither.
LEMMA CrewSteps ==
    ASSUME CrewTypeOK, BoundToOne, [CrewNext]_crewVars
    PROVE  /\ app' = app
           /\ \/ UNCHANGED <<memories, saves>>
              \/ \E r \in CrewRequests, t \in CrewTasks : MemorySave(r, t)
              \/ \E r \in CrewRequests : MemoryReset(r)
              \/ app = "flow"
<1> USE DEF CrewExecute, BusEvent, MemoryLoad, CrewRequestEnds, LoadState
<1>1. CASE UNCHANGED crewVars
  BY <1>1 DEF crewVars
<1>2. ASSUME NEW r \in CrewRequests,
             \/ CrewExecute(r) \/ BusEvent(r) \/ CrewRequestEnds(r) \/ LoadState(r)
             \/ \E t \in CrewTasks : MemoryLoad(r, t)
      PROVE  app' = app /\ UNCHANGED <<memories, saves>>
  BY <1>2
<1>3. ASSUME NEW r \in CrewRequests, NEW t \in CrewTasks, MemorySave(r, t) \/ MemoryReset(r)
      PROVE  app' = app
  BY <1>3 DEF MemorySave, MemoryReset
<1>4. ASSUME NEW r \in CrewRequests, MemoryReset(r)
      PROVE  app' = app
  BY <1>4 DEF MemoryReset
<1>5. ASSUME NEW r \in CrewRequests, NEW m \in FlowMethods, SaveState(r, m)
      PROVE  app' = app /\ app = "flow"
  BY <1>5 DEF SaveState
<1> QED
  BY <1>1, <1>2, <1>3, <1>4, <1>5 DEF CrewNext

\* The entry a step adds.
LEMMA SavesStep ==
    ASSUME CrewTypeOK, BoundToOne, NEW r \in CrewRequests
    PROVE  /\ \A t \in CrewTasks : MemorySave(r, t) =>
                 \E e \in Entry : /\ e.what = "save" /\ e.thread = bound /\ e.text = t
                                  /\ e.of = r /\ e.nr = Now
                                  /\ saves' = Append(saves, e)
           /\ MemoryReset(r) =>
                 \E e \in Entry : e.what = "reset" /\ e.thread = bound /\ saves' = Append(saves, e)
<1>1. ASSUME NEW t \in CrewTasks, MemorySave(r, t)
      PROVE  \E e \in Entry : /\ e.what = "save" /\ e.thread = bound /\ e.text = t
                              /\ e.of = r /\ e.nr = Now
                              /\ saves' = Append(saves, e)
  <2> DEFINE e == [what |-> "save", thread |-> bound, text |-> t, of |-> r, nr |-> Now]
  <2>1. e \in Entry
    BY <1>1, EntryType DEF MemorySave, BoundToOne
  <2>2. saves' = Append(saves, e)
    BY <1>1 DEF MemorySave, Remembered
  <2> QED
    BY <2>1, <2>2
<1>2. ASSUME MemoryReset(r)
      PROVE  \E e \in Entry : e.what = "reset" /\ e.thread = bound /\ saves' = Append(saves, e)
  <2> DEFINE e == [what |-> "reset", thread |-> bound, text |-> Nobody, of |-> r, nr |-> Now]
  <2>1. e \in Entry
    BY <1>2, EntryType DEF MemoryReset, BoundToOne
  <2>2. saves' = Append(saves, e)
    BY <1>2 DEF MemoryReset, Remembered
  <2> QED
    BY <2>1, <2>2
<1> QED
  BY <1>1, <1>2

\* An entry about s is the last about s, and leaves the others' last alone.
LEMMA LastStep ==
    ASSUME CrewTypeOK, NEW e \in Entry, saves' = Append(saves, e), NEW s
    PROVE  /\ e.thread = s => {k \in DOMAIN saves' : LastOn(s, k)'} = {Len(saves) + 1}
           /\ e.thread # s => {k \in DOMAIN saves' : LastOn(s, k)'} = {k \in DOMAIN saves : LastOn(s, k)}
<1>1. /\ Len(saves) \in Nat /\ DOMAIN saves = 1..Len(saves) /\ DOMAIN saves' = 1..Len(saves) + 1
      /\ saves'[Len(saves) + 1] = e
      /\ \A i \in DOMAIN saves : saves'[i] = saves[i]
  BY HistoryGrows
<1>2. ASSUME e.thread = s, NEW k \in DOMAIN saves'
      PROVE  LastOn(s, k)' <=> k = Len(saves) + 1
  BY <1>1, <1>2 DEF LastOn
<1>3. ASSUME e.thread # s, NEW k \in DOMAIN saves'
      PROVE  LastOn(s, k)' <=> k \in DOMAIN saves /\ LastOn(s, k)
  <2>1. CASE k = Len(saves) + 1
    BY <1>1, <1>3, <2>1 DEF LastOn
  <2>2. CASE k \in DOMAIN saves
    BY <1>1, <1>3, <2>2 DEF LastOn
  <2> QED
    BY <1>1, <2>1, <2>2
<1>4. Len(saves) + 1 \in DOMAIN saves' /\ DOMAIN saves \subseteq DOMAIN saves'
  BY <1>1
<1> QED
  BY <1>2, <1>3, <1>4

LEMMA KeptStep ==
    ASSUME CrewTypeOK, NEW e \in Entry, saves' = Append(saves, e), NEW s
    PROVE  /\ e.thread = s /\ e.what = "save"
                => Kept(s)' = {[thread |-> s, text |-> e.text, of |-> e.of, nr |-> e.nr]}
           /\ e.thread = s /\ e.what # "save" => Kept(s)' = {}
           /\ e.thread # s => Kept(s)' = Kept(s)
<1> DEFINE Latest == {k \in DOMAIN saves : LastOn(s, k)}
           LastThen == {k \in DOMAIN saves' : LastOn(s, k)'}
<1>1. /\ saves'[Len(saves) + 1] = e
      /\ \A i \in DOMAIN saves : saves'[i] = saves[i]
  BY HistoryGrows
<1>2. /\ e.thread = s => LastThen = {Len(saves) + 1}
      /\ e.thread # s => LastThen = Latest
  BY LastStep
<1>3. Kept(s)' = {[thread |-> s, text |-> saves'[i].text, of |-> saves'[i].of, nr |-> saves'[i].nr] :
                     i \in {k \in LastThen : saves'[k].what = "save"}}
  BY DEF Kept
<1>4. Kept(s) = {[thread |-> s, text |-> saves[i].text, of |-> saves[i].of, nr |-> saves[i].nr] :
                     i \in {k \in Latest : saves[k].what = "save"}}
  BY DEF Kept
<1>5. \A k \in Latest : saves'[k] = saves[k]
  BY <1>1
<1> HIDE DEF Latest, LastThen
<1>6. CASE e.thread = s
  BY <1>1, <1>2, <1>3, <1>6
<1>7. CASE e.thread # s
  BY <1>2, <1>3, <1>4, <1>5, <1>7
<1> QED
  BY <1>6, <1>7

\* The memories of a session that are not reset.
Held(s) == Plain(Found(memories, [thread |-> s]))

LEMMA HeldIs ==
    ASSUME NEW s
    PROVE  Held(s) = {q.row : q \in {p \in memories : ~p.gone /\ p.row.thread = s}}
BY OfThread DEF Held, Plain, Found

LEMMA HoldsKeptStep ==
    CrewTypeOK /\ BoundToOne /\ HoldsKept /\ [CrewNext]_crewVars => HoldsKept'
<1> SUFFICES ASSUME CrewTypeOK, BoundToOne, HoldsKept, [CrewNext]_crewVars
             PROVE  HoldsKept'
  OBVIOUS
<1>a. app' = app
  BY CrewSteps
<1> SUFFICES ASSUME app = "crew", NEW s \in CrewSessions
             PROVE  Held(s)' = Kept(s)'
  BY <1>a DEF HoldsKept, Held
<1>t. memories \in SUBSET TableOf(MemoryRows)
  BY DEF CrewTypeOK, MemoryRows
<1>n. Now \in 0..MaxCrewCalls
  BY NowIs DEF CrewTypeOK
<1>h. Held(s) = Kept(s)
  BY DEF HoldsKept, Held
<1>1. CASE UNCHANGED <<memories, saves>>
  <2>1. Held(s)' = Held(s) /\ Kept(s)' = Kept(s)
    BY <1>1 DEF Held, Kept, LastOn
  <2> QED
    BY <1>h, <2>1
<1>2. ASSUME NEW r \in CrewRequests, NEW t \in CrewTasks, MemorySave(r, t)
      PROVE  Held(s)' = Kept(s)'
  <2> DEFINE rec == [thread |-> bound, text |-> t, of |-> r, nr |-> Now]
  <2>1. PICK e \in Entry : /\ e.what = "save" /\ e.thread = bound /\ e.text = t
                           /\ e.of = r /\ e.nr = Now
                           /\ saves' = Append(saves, e)
    BY <1>2, SavesStep
  <2>2. rec \in MemoryRows
    BY <1>2, <1>n DEF MemoryRows, MemorySave, BoundToOne
  <2>3. rec.thread = bound /\ rec = [thread |-> bound, text |-> e.text, of |-> e.of, nr |-> e.nr]
    BY <2>1
  <2>4. memories' = Saved(memories, {"thread"}, rec, Now)
    BY <1>2 DEF MemorySave, HandleStoreMemory
  <2> HIDE DEF rec
  <2>5. PICK new : /\ new.row = rec /\ ~new.gone
                   /\ memories' = {q \in memories : Key({"thread"}, q.row) # Key({"thread"}, rec)} \cup {new}
    BY <1>t, <1>n, <2>2, <2>4, SavedRows
  <2>6. memories' = {q \in memories : q.row.thread # bound} \cup {new}
    BY <2>3, <2>5, Keys
  <2>7. Held(s)' = {q.row : q \in {p \in memories' : ~p.gone /\ p.row.thread = s}}
    BY OfThread DEF Held, Plain, Found
  <2>8. CASE s = bound
    <3>1. {p \in memories' : ~p.gone /\ p.row.thread = s} = {new}
      BY <2>3, <2>5, <2>6, <2>8
    <3>2. Kept(s)' = {rec}
      BY <2>1, <2>3, <2>8, KeptStep
    <3> QED
      BY <2>5, <2>7, <3>1, <3>2
  <2>9. CASE s # bound
    <3>1. {p \in memories' : ~p.gone /\ p.row.thread = s} = {p \in memories : ~p.gone /\ p.row.thread = s}
      BY <2>3, <2>5, <2>6, <2>9
    <3>2. Kept(s)' = Kept(s)
      BY <2>1, <2>9, KeptStep
    <3> QED
      BY <1>h, <2>7, <3>1, <3>2, HeldIs
  <2> QED
    BY <2>8, <2>9
<1>3. ASSUME NEW r \in CrewRequests, MemoryReset(r)
      PROVE  Held(s)' = Kept(s)'
  <2>1. PICK e \in Entry : e.what = "reset" /\ e.thread = bound /\ saves' = Append(saves, e)
    BY <1>3, SavesStep
  <2>4. memories' = Deleted(memories, [thread |-> bound])
    BY <1>3 DEF MemoryReset, HandleResetMemory
  <2>5. /\ \A p \in memories' : \E q \in memories : /\ p.row = q.row
                                                   /\ IF q.row.thread = bound THEN p.gone ELSE p = q
        /\ \A q \in memories : q.row.thread # bound => q \in memories'
    <3>1. \A q \in memories : Matches(q.row, [thread |-> bound]) <=> q.row.thread = bound
      BY OfThread
    <3>2. /\ \A p \in memories' : \E q \in memories :
                 p.row = q.row /\ IF Matches(q.row, [thread |-> bound]) THEN p.gone ELSE p = q
          /\ \A q \in memories : ~Matches(q.row, [thread |-> bound]) => q \in memories'
      BY <1>t, <2>4, DeletedRows
    <3> QED
      BY <3>1, <3>2
  <2>7. Held(s)' = {q.row : q \in {p \in memories' : ~p.gone /\ p.row.thread = s}}
    BY OfThread DEF Held, Plain, Found
  <2>8. CASE s = bound
    <3>1. {p \in memories' : ~p.gone /\ p.row.thread = s} = {}
      BY <2>5, <2>8
    <3>2. Kept(s)' = {}
      BY <2>1, <2>8, KeptStep
    <3> QED
      BY <2>7, <3>1, <3>2
  <2>9. CASE s # bound
    <3>1. {p \in memories' : ~p.gone /\ p.row.thread = s} = {p \in memories : ~p.gone /\ p.row.thread = s}
      BY <2>5, <2>9
    <3>2. Kept(s)' = Kept(s)
      BY <2>1, <2>9, KeptStep
    <3> QED
      BY <1>h, <2>7, <3>1, <3>2, HeldIs
  <2> QED
    BY <2>8, <2>9
<1> QED
  BY <1>1, <1>2, <1>3, CrewSteps

\* A look for q finds of what is kept the memories with q in them.
LEMMA KeptIsFound ==
    ASSUME CrewTypeOK, HoldsKept
    PROVE  MemoryFindsLast
<1> SUFFICES ASSUME app = "crew", NEW s \in CrewSessions, NEW q \in CrewTasks
             PROVE  LET Entered(i) == [thread |-> s, text |-> saves[i].text, of |-> saves[i].of, nr |-> saves[i].nr]
                        Right      == {i \in DOMAIN saves : /\ saves[i].thread = s /\ saves[i].what = "save"
                                                            /\ saves[i].text \in Containing[q]}
                    IN /\ HandleGetMemory(s, q) \subseteq {Entered(i) : i \in {k \in Right : NotResetSince(s, k)}}
                       /\ {Entered(i) : i \in {k \in Right : LastOn(s, k)}} \subseteq HandleGetMemory(s, q)
  BY DEF MemoryFindsLast
<1> DEFINE Entered(i) == [thread |-> s, text |-> saves[i].text, of |-> saves[i].of, nr |-> saves[i].nr]
           Right      == {i \in DOMAIN saves : /\ saves[i].thread = s /\ saves[i].what = "save"
                                               /\ saves[i].text \in Containing[q]}
           last       == {k \in DOMAIN saves : LastOn(s, k) /\ saves[k].what = "save"}
<1>1. HandleGetMemory(s, q) = {m \in Held(s) : m.text \in Containing[q]}
  BY DEF HandleGetMemory, Held, Plain
<1>2. Held(s) = {Entered(i) : i \in last}
  BY DEF HoldsKept, Held, Kept
<1>3. \A i : Entered(i).text = saves[i].text
  OBVIOUS
<1>4. \A k \in Right : LastOn(s, k) => k \in last
  OBVIOUS
<1>5. \A k \in last : saves[k].text \in Containing[q] => k \in Right /\ NotResetSince(s, k)
  <2>1. DOMAIN saves \subseteq Int
    BY DEF CrewTypeOK
  <2> QED
    BY <2>1 DEF LastOn, NotResetSince
<1>6. \A k \in Right : saves[k].text \in Containing[q]
  OBVIOUS
<1> HIDE DEF Entered, Right, last
<1>7. /\ HandleGetMemory(s, q) \subseteq {Entered(i) : i \in {k \in Right : NotResetSince(s, k)}}
      /\ {Entered(i) : i \in {k \in Right : LastOn(s, k)}} \subseteq HandleGetMemory(s, q)
  BY <1>1, <1>2, <1>3, <1>4, <1>5, <1>6
<1> QED
  BY <1>7 DEF Entered, Right

\* For any requests and tasks, however the requests overlap: a session finds in its
\* memory only what was saved for it, holds the words it looks for and was not reset
\* since, and it does find what was saved last (_memory.py:29-110,
\* handlers/crewai.go:50-194).
THEOREM MemoryHoldsLast ==
    CrewSpec => []MemoryFindsLast
<1> DEFINE Inv == CrewTypeOK /\ BoundToOne /\ HoldsKept
<1>1. CrewInit => Inv
  <2> SUFFICES ASSUME CrewInit PROVE HoldsKept
    BY CrewInitType
  <2>1. saves = <<>> /\ memories = {}
    BY DEF CrewInit
  <2>2. DOMAIN saves = {}
    BY <2>1
  <2>3. \A s \in CrewSessions : Held(s) = {} /\ Kept(s) = {}
    BY <2>1, <2>2, HeldIs DEF Kept
  <2> QED
    BY <2>3 DEF HoldsKept, Held
<1>2. Inv /\ [CrewNext]_crewVars => Inv'
  BY CrewStepType, HoldsKeptStep
<1>3. CrewSpec => []Inv
  BY <1>1, <1>2, PTL DEF CrewSpec
<1>4. Inv => MemoryFindsLast
  BY KeptIsFound
<1> QED
  BY <1>3, <1>4, PTL

----------------------------------------------------------------------------
(* TaskRuns: events and the queue. *)

AdkEventSet == [kind : {"status", "artifact"}, state : AdkStates, final : BOOLEAN]

LEMMA AdkEventType ==
    /\ \A state \in AdkStates, final \in BOOLEAN :
          /\ AdkEvent(state, final) \in AdkEventSet /\ AdkEvent(state, final).kind = "status"
          /\ AdkEvent(state, final).state = state /\ AdkEvent(state, final).final = final
    /\ AdkArtifact \in AdkEventSet /\ AdkArtifact.kind = "artifact"
    /\ AdkArtifact.state = "working" /\ ~AdkArtifact.final
BY DEF AdkEvent, AdkArtifact, AdkEventSet, AdkStates

\* What is in a queue once events are published.
LEMMA AdkPublished ==
    ASSUME NEW q \in Seq(AdkEventSet), NEW events \in Seq(AdkEventSet)
    PROVE  /\ q \o events \in Seq(AdkEventSet)
           /\ Len(q \o events) = Len(q) + Len(events) /\ Len(q) \in Nat /\ Len(events) \in Nat
           /\ DOMAIN (q \o events) = 1 .. Len(q) + Len(events)
           /\ DOMAIN q = 1 .. Len(q) /\ DOMAIN events = 1 .. Len(events)
           /\ \A i \in DOMAIN q : (q \o events)[i] = q[i]
           /\ \A j \in DOMAIN events : (q \o events)[Len(q) + j] = events[j]
           /\ \A i \in DOMAIN (q \o events) :
                 i \in DOMAIN q \/ \E j \in DOMAIN events : i = Len(q) + j
<1>1. /\ q \o events \in Seq(AdkEventSet) /\ Len(q \o events) = Len(q) + Len(events)
      /\ \A i \in 1 .. Len(q) + Len(events) :
            (q \o events)[i] = IF i <= Len(q) THEN q[i] ELSE events[i - Len(q)]
  BY ConcatProperties
<1>2. Len(q) \in Nat /\ Len(events) \in Nat /\ DOMAIN q = 1 .. Len(q) /\ DOMAIN events = 1 .. Len(events)
      /\ DOMAIN (q \o events) = 1 .. Len(q) + Len(events)
  BY <1>1
<1>3. ASSUME NEW j \in 1 .. Len(events)
      PROVE  (q \o events)[Len(q) + j] = events[j]
  <2>1. Len(q) + j \in 1 .. Len(q) + Len(events) /\ ~(Len(q) + j <= Len(q)) /\ Len(q) + j - Len(q) = j
    BY <1>2
  <2>2. (q \o events)[Len(q) + j] = events[Len(q) + j - Len(q)]
    BY <1>1, <2>1
  <2> QED
    BY <2>1, <2>2
<1>4. ASSUME NEW i \in 1 .. Len(q) + Len(events), ~(i \in 1 .. Len(q))
      PROVE  \E j \in 1 .. Len(events) : i = Len(q) + j
  <2>1. i - Len(q) \in 1 .. Len(events) /\ i = Len(q) + (i - Len(q))
    BY <1>2, <1>4
  <2> QED
    BY <2>1
<1>5. \A i \in 1 .. Len(q) : (q \o events)[i] = q[i]
  BY <1>1, <1>2
<1> QED
  BY <1>1, <1>2, <1>3, <1>4, <1>5

\* The first event, and those behind it.
LEMMA AdkFirst ==
    ASSUME NEW q \in Seq(AdkEventSet), q # <<>>
    PROVE  /\ Head(q) = q[1] /\ Head(q) \in AdkEventSet /\ Tail(q) \in Seq(AdkEventSet)
           /\ Len(q) \in Nat /\ Len(q) >= 1 /\ Len(Tail(q)) = Len(q) - 1
           /\ DOMAIN q = 1 .. Len(q) /\ DOMAIN Tail(q) = 1 .. Len(q) - 1
           /\ \A i \in DOMAIN Tail(q) : Tail(q)[i] = q[i + 1]
           /\ Tail(q) = <<>> <=> Len(q) = 1
<1>1. /\ Head(q) = q[1] /\ Head(q) \in AdkEventSet /\ Tail(q) \in Seq(AdkEventSet)
      /\ Len(Tail(q)) = Len(q) - 1
      /\ \A i \in 1 .. Len(Tail(q)) : Tail(q)[i] = q[i + 1]
  BY HeadTailProperties
<1>2. Len(q) \in Nat /\ Len(q) >= 1 /\ DOMAIN q = 1 .. Len(q) /\ DOMAIN Tail(q) = 1 .. Len(q) - 1
  BY <1>1, EmptySeq
<1>3. Tail(q) = <<>> <=> Len(q) = 1
  <2>1. Tail(q) # <<>> => Len(Tail(q)) # 0
    BY <1>1, EmptySeq
  <2>2. Tail(q) = <<>> => Len(Tail(q)) = 0
    BY EmptySeq
  <2> QED
    BY <1>1, <1>2, <2>1, <2>2
<1> QED
  BY <1>1, <1>2, <1>3

\* One event, or two.
LEMMA AdkLists ==
    /\ \A e \in AdkEventSet : <<e>> \in Seq(AdkEventSet) /\ Len(<<e>>) = 1 /\ <<e>>[1] = e
    /\ \A e, f \in AdkEventSet : /\ <<e, f>> \in Seq(AdkEventSet) /\ Len(<<e, f>>) = 2
                                 /\ <<e, f>>[1] = e /\ <<e, f>>[2] = f
    /\ <<>> \in Seq(AdkEventSet) /\ Len(<<>>) = 0
<1>1. ASSUME NEW e \in AdkEventSet
      PROVE  <<e>> \in Seq(AdkEventSet) /\ Len(<<e>>) = 1 /\ <<e>>[1] = e
  OBVIOUS
<1>2. ASSUME NEW e \in AdkEventSet, NEW f \in AdkEventSet
      PROVE  <<e, f>> \in Seq(AdkEventSet) /\ Len(<<e, f>>) = 2 /\ <<e, f>>[1] = e /\ <<e, f>>[2] = f
  OBVIOUS
<1> QED
  BY <1>1, <1>2

\* What an event of the agent becomes: nothing, one state or two.
LEMMA ConvertedStates ==
    /\ Converted("nothing") = <<>>
    /\ Converted("text") = <<"working">>
    /\ Converted("call") = <<"input_required">>
    /\ Converted("credentials") = <<"auth_required">>
    /\ Converted("error") = <<"failed">>
    /\ Converted("error text") = <<"failed", "working">>
    /\ Converted("error call") = <<"failed", "input_required">>
<1>0. ASSUME NEW s, NEW t
      PROVE  /\ <<>> \o <<>> = <<>> /\ <<>> \o <<s>> = <<s>> /\ <<s>> \o <<>> = <<s>>
             /\ <<s>> \o <<t>> = <<s, t>>
  <2>1. <<>> \o <<>> = <<>> /\ <<>> \o <<s>> = <<s>> /\ <<s>> \o <<>> = <<s>>
    <3>1. <<>> \in Seq({s}) /\ <<s>> \in Seq({s})
      OBVIOUS
    <3> QED
      BY <3>1, ConcatEmptySeq
  <2>2. <<s>> \o <<t>> = <<s, t>>
    <3> DEFINE S == {s, t}
               c == <<s>> \o <<t>>
    <3>1. /\ <<s>> \in Seq(S) /\ <<t>> \in Seq(S) /\ <<s, t>> \in Seq(S)
          /\ Len(<<s>>) = 1 /\ Len(<<t>>) = 1 /\ Len(<<s, t>>) = 2
          /\ <<s>>[1] = s /\ <<t>>[1] = t /\ <<s, t>>[1] = s /\ <<s, t>>[2] = t
      OBVIOUS
    <3>2. /\ c \in Seq(S) /\ Len(c) = Len(<<s>>) + Len(<<t>>)
          /\ \A i \in 1 .. Len(<<s>>) + Len(<<t>>) :
                c[i] = IF i <= Len(<<s>>) THEN <<s>>[i] ELSE <<t>>[i - Len(<<s>>)]
      BY <3>1, ConcatProperties
    <3>3. Len(c) = 2 /\ c[1] = s /\ c[2] = t
      BY <3>1, <3>2
    <3>4. \A i \in 1 .. Len(c) : c[i] = <<s, t>>[i]
      BY <3>1, <3>3
    <3> HIDE DEF c
    <3> QED
      BY <3>1, <3>2, <3>3, <3>4, SeqEqual DEF c
  <2> QED
    BY <2>1, <2>2
<1>1. Converted("nothing") = <<>> \o <<>>
  BY DEF Converted
<1>2. Converted("text") = <<>> \o <<"working">>
  BY DEF Converted, StatusOf
<1>3. Converted("call") = <<>> \o <<"input_required">>
  BY DEF Converted, StatusOf
<1>4. Converted("credentials") = <<>> \o <<"auth_required">>
  BY DEF Converted, StatusOf
<1>5. Converted("error") = <<"failed">> \o <<>>
  BY DEF Converted, ErrorStatus
<1>6. Converted("error text") = <<"failed">> \o <<"working">>
  BY DEF Converted, ErrorStatus, StatusOf
<1>7. Converted("error call") = <<"failed">> \o <<"input_required">>
  BY DEF Converted, ErrorStatus, StatusOf
<1> QED
  BY <1>0, <1>1, <1>2, <1>3, <1>4, <1>5, <1>6, <1>7

----------------------------------------------------------------------------
(* TaskRuns: the aggregator. *)

Aggregators == [state : {"working", "failed", "input_required", "auth_required"}, message : BOOLEAN]

\* The higher priority wins, and a message there is once anything has been said.
LEMMA ProcessPriority ==
    ASSUME NEW agg \in Aggregators,
           NEW state \in {"working", "failed", "input_required", "auth_required"}
    PROVE  /\ Process(agg, state) \in Aggregators
           /\ Process(agg, state).state =
                 IF agg.state = "failed" \/ state = "failed" THEN "failed"
                 ELSE IF agg.state = "auth_required" \/ state = "auth_required" THEN "auth_required"
                 ELSE IF agg.state = "input_required" \/ state = "input_required" THEN "input_required"
                 ELSE "working"
           /\ Process(agg, state).state = "working" => Process(agg, state).message
<1>1. agg = [state |-> agg.state, message |-> agg.message] /\ agg.message \in BOOLEAN
      /\ agg.state \in {"working", "failed", "input_required", "auth_required"}
  BY DEF Aggregators
<1>2. CASE state = "failed"
  BY <1>1, <1>2 DEF Process, Aggregators
<1>3. CASE state = "auth_required"
  BY <1>1, <1>3 DEF Process, Aggregators
<1>4. CASE state = "input_required"
  BY <1>1, <1>4 DEF Process, Aggregators
<1>5. CASE state = "working"
  BY <1>1, <1>5 DEF Process, Aggregators
<1> QED
  BY <1>2, <1>3, <1>4, <1>5

\* The aggregator and one event of the agent.
LEMMA AggregatorStep ==
    ASSUME NEW agg \in Aggregators, NEW what \in Emits,
           NEW then, then = ProcessAll(agg, Converted(what))
    PROVE  /\ then \in Aggregators
           /\ then.state =
                 IF agg.state = "failed" \/ what \in {"error", "error text", "error call"} THEN "failed"
                 ELSE IF agg.state = "auth_required" \/ what = "credentials" THEN "auth_required"
                 ELSE IF agg.state = "input_required" \/ what = "call" THEN "input_required"
                 ELSE "working"
           /\ then.state = "working" => (then.message <=> (agg.state = "working" /\ agg.message) \/ what = "text")
<1>1. \A s, t : /\ Len(<<>>) = 0 /\ Len(<<s>>) = 1 /\ <<s>>[1] = s
                /\ Len(<<s, t>>) = 2 /\ <<s, t>>[1] = s /\ <<s, t>>[2] = t
  OBVIOUS
<1>2. CASE what = "nothing"
  <2>1. Converted(what) = <<>>
    BY <1>2, ConvertedStates
  <2>2. ProcessAll(agg, <<>>) = agg
    BY DEF ProcessAll
  <2>3. then = agg
    BY <2>1, <2>2
  <2> QED
    BY <1>2, <2>3 DEF Aggregators
<1>3. CASE what \in {"text", "call", "credentials", "error"}
  <2> DEFINE state == CASE what = "text" -> "working" [] what = "call" -> "input_required"
                        [] what = "credentials" -> "auth_required" [] OTHER -> "failed"
  <2>1. Converted(what) = <<state>>
    BY <1>3, ConvertedStates
  <2>2. then = Process(agg, state)
    BY <1>1, <2>1 DEF ProcessAll
  <2>3. state \in {"working", "failed", "input_required", "auth_required"}
    BY <1>3
  <2>4. /\ (what = "text") <=> (state = "working")
        /\ (what = "call") <=> (state = "input_required")
        /\ (what = "credentials") <=> (state = "auth_required")
        /\ (what = "error") <=> (state = "failed")
    BY <1>3
  <2> HIDE DEF state
  <2>5. agg.state = "failed" \/ agg.state = "auth_required" \/ agg.state = "input_required" \/ agg.state = "working"
    BY DEF Aggregators
  <2>6. /\ then \in Aggregators
        /\ then.state = "working" => then.message
        /\ then.state =
              IF agg.state = "failed" \/ state = "failed" THEN "failed"
              ELSE IF agg.state = "auth_required" \/ state = "auth_required" THEN "auth_required"
              ELSE IF agg.state = "input_required" \/ state = "input_required" THEN "input_required"
              ELSE "working"
    BY <2>2, <2>3, ProcessPriority
  <2>7. what \in {"error", "error text", "error call"} <=> state = "failed"
    BY <1>3, <2>4
  <2>8. then.state =
           IF agg.state = "failed" \/ what \in {"error", "error text", "error call"} THEN "failed"
           ELSE IF agg.state = "auth_required" \/ what = "credentials" THEN "auth_required"
           ELSE IF agg.state = "input_required" \/ what = "call" THEN "input_required"
           ELSE "working"
    BY <2>4, <2>6, <2>7
  <2>9. then.state = "working" => then.message /\ what = "text"
    BY <2>3, <2>4, <2>6
  <2>10. then.state = "working" => (then.message <=> (agg.state = "working" /\ agg.message) \/ what = "text")
    BY <2>9
  <2> QED
    BY <2>6, <2>8, <2>10
<1>4. CASE what \in {"error text", "error call"}
  <2>1. \E state \in {"working", "input_required"} : Converted(what) = <<"failed", state>>
    BY <1>4, ConvertedStates
  <2>2. PICK state \in {"working", "input_required"} : then = Process(Process(agg, "failed"), state)
    BY <1>1, <2>1 DEF ProcessAll
  <2>3. Process(agg, "failed") \in Aggregators /\ Process(agg, "failed").state = "failed"
    BY ProcessPriority
  <2>4. then \in Aggregators /\ then.state = "failed"
    BY <2>2, <2>3, ProcessPriority
  <2> QED
    BY <1>4, <2>4
<1> QED
  BY <1>2, <1>3, <1>4 DEF Emits

\* What has been emitted, with one event more.
LEMMA EmittedStep ==
    ASSUME emitted \in Seq(Emits), NEW what \in Emits, emitted' = Append(emitted, what), NEW set
    PROVE  emitted' \in Seq(Emits) /\ (Emitted(set)' <=> Emitted(set) \/ what \in set)
<1>1. /\ emitted' \in Seq(Emits) /\ Len(emitted') = Len(emitted) + 1 /\ Len(emitted) \in Nat
      /\ \A i \in 1 .. Len(emitted) : emitted'[i] = emitted[i]
      /\ emitted'[Len(emitted) + 1] = what
  BY AppendProperties
<1>2. DOMAIN emitted = 1 .. Len(emitted) /\ DOMAIN emitted' = 1 .. Len(emitted) + 1
  BY <1>1
<1> QED
  BY <1>1, <1>2 DEF Emitted

\* Every event of the agent goes on as working.
LEMMA RewrittenWorks ==
    ASSUME NEW what \in Emits
    PROVE  LET events == Rewritten(Converted(what)) IN
           /\ events \in Seq(AdkEventSet)
           /\ \A i \in DOMAIN events : events[i] = AdkEvent("working", FALSE)
<1> DEFINE events == Rewritten(Converted(what))
<1>1. \E n \in Nat : DOMAIN Converted(what) = 1 .. n
  <2>1. \A s, t : DOMAIN <<>> = 1 .. 0 /\ DOMAIN <<s>> = 1 .. 1 /\ DOMAIN <<s, t>> = 1 .. 2
    OBVIOUS
  <2>2. 0 \in Nat /\ 1 \in Nat /\ 2 \in Nat
    OBVIOUS
  <2>3. CASE what = "nothing"
    BY <2>1, <2>2, <2>3, ConvertedStates
  <2>4. CASE what \in {"text", "call", "credentials", "error"}
    BY <2>1, <2>2, <2>4, ConvertedStates
  <2>5. CASE what \in {"error text", "error call"}
    BY <2>1, <2>2, <2>5, ConvertedStates
  <2> QED
    BY <2>3, <2>4, <2>5 DEF Emits
<1>2. \A i \in DOMAIN Converted(what) : events[i] = AdkEvent("working", FALSE)
  BY DEF Rewritten
<1>3. AdkEvent("working", FALSE) \in AdkEventSet
  BY AdkEventType DEF AdkStates
<1>4. events = [i \in DOMAIN Converted(what) |-> AdkEvent("working", FALSE)]
  BY DEF Rewritten
<1>5. PICK n \in Nat : DOMAIN Converted(what) = 1 .. n
  BY <1>1
<1>6. events = [i \in 1 .. n |-> AdkEvent("working", FALSE)]
  BY <1>4, <1>5
<1> HIDE DEF events
<1>7. events \in Seq(AdkEventSet) /\ DOMAIN events = DOMAIN Converted(what)
  <2>1. events \in [1 .. n -> AdkEventSet]
    BY <1>3, <1>6
  <2> QED
    BY <1>5, <2>1, SeqDef
<1> QED
  BY <1>2, <1>7 DEF events

----------------------------------------------------------------------------
(* TaskRuns: type correctness. *)

LEMMA AdkInitType ==
    AdkInit => AdkTypeOK
<1> SUFFICES ASSUME AdkInit PROVE AdkTypeOK
  OBVIOUS
<1>1. adkTold \in Seq(AdkStates) /\ emitted \in Seq(Emits) /\ adkQueue \in Seq(AdkEventSet)
  BY EmptySeq DEF AdkInit
<1>2. adkSends \in 0..MaxAdkRequests /\ adkFaults \in 0..MaxAdkFaults
  BY AdkAssumption DEF AdkInit
<1> QED
  BY <1>1, <1>2 DEF AdkInit, AdkTypeOK, NewAggregator, AdkEventSet

\* The queue takes events of its type.
LEMMA PublishesType ==
    ASSUME adkQueue \in Seq(AdkEventSet), NEW events \in Seq(AdkEventSet), Publishes(events)
    PROVE  adkQueue' \in Seq(AdkEventSet)
BY AdkPublished DEF Publishes

LEMMA AdkStepType ==
    AdkTypeOK /\ [AdkNext]_adkVars => AdkTypeOK'
<1> SUFFICES ASSUME AdkTypeOK, [AdkNext]_adkVars PROVE AdkTypeOK'
  OBVIOUS
<1> USE DEF AdkTypeOK
<1>t. adkQueue \in Seq(AdkEventSet)
  BY DEF AdkEventSet
<1>q. adkQueue' \in Seq(AdkEventSet)
       => adkQueue' \in Seq([kind : {"status", "artifact"}, state : AdkStates, final : BOOLEAN])
  BY DEF AdkEventSet
<1>s. {"submitted", "working", "completed", "failed", "input_required", "auth_required"} = AdkStates
  BY DEF AdkStates
<1>f. /\ adkFaults > 0 /\ adkFaults' = adkFaults - 1 => adkFaults' \in 0..MaxAdkFaults
      /\ adkSends > 0 /\ adkSends' = adkSends - 1 => adkSends' \in 0..MaxAdkRequests
      /\ adkFaults \in 0..MaxAdkFaults
  BY AdkAssumption
<1>1. CASE UNCHANGED adkVars
  BY <1>1 DEF adkVars
<1>2. CASE AdkExecute
  <2>1. (IF adkStored.state = "none" THEN <<AdkEvent("submitted", FALSE)>> ELSE <<>>) \in Seq(AdkEventSet)
    BY <1>s, AdkEventType, AdkLists
  <2>2. adkQueue' \in Seq(AdkEventSet)
    BY <1>2, <1>t, <2>1, PublishesType DEF AdkExecute
  <2>3. adkTold' \in Seq(AdkStates) /\ emitted' \in Seq(Emits)
    BY <1>2, EmptySeq DEF AdkExecute
  <2>4. aggregator' \in Aggregators
    BY <1>2 DEF AdkExecute, NewAggregator, Aggregators
  <2>5. adkStored' \in [state : AdkStates \cup {"none"}, artifact : BOOLEAN]
    BY <1>2 DEF AdkExecute
  <2> QED
    BY <1>2, <1>f, <1>q, <2>2, <2>3, <2>4, <2>5 DEF AdkExecute, Aggregators
<1>3. CASE ResolveRunner
  <2>1. adkFaults' \in 0..MaxAdkFaults /\ undisturbed' \in BOOLEAN
    BY <1>3, <1>f DEF ResolveRunner
  <2>2. adkPc' \in {"prepare", "done"}
    BY <1>3 DEF ResolveRunner
  <2> QED
    BY <1>3, <2>1, <2>2 DEF ResolveRunner
<1>4. CASE AdkWorks
  <2>1. <<AdkEvent("working", FALSE)>> \in Seq(AdkEventSet)
    BY <1>s, AdkEventType, AdkLists
  <2>2. adkQueue' \in Seq(AdkEventSet)
    BY <1>4, <1>t, <2>1, PublishesType DEF AdkWorks
  <2> QED
    BY <1>4, <1>q, <2>2 DEF AdkWorks
<1>5. ASSUME NEW what \in Emits, AdkEmits(what)
      PROVE  AdkTypeOK'
  <2>1. adkQueue' \in Seq(AdkEventSet)
    BY <1>5, <1>t, RewrittenWorks, PublishesType DEF AdkEmits
  <2>2. aggregator' \in Aggregators
    BY <1>5, AggregatorStep DEF AdkEmits, Aggregators
  <2>3. emitted' \in Seq(Emits)
    BY <1>5, EmittedStep DEF AdkEmits
  <2> QED
    BY <1>5, <1>q, <2>1, <2>2, <2>3 DEF AdkEmits, Aggregators
<1>6. CASE AdkEnds
  <2>1. \A s \in AdkStates : <<AdkEvent(s, TRUE)>> \in Seq(AdkEventSet)
    BY AdkEventType, AdkLists
  <2>2. <<AdkArtifact, AdkEvent("completed", TRUE)>> \in Seq(AdkEventSet)
    BY <1>s, AdkEventType, AdkLists
  <2>3. aggregator.state \in AdkStates
    BY <1>s
  <2>4. adkQueue' \in Seq(AdkEventSet)
    BY <1>6, <1>t, <2>1, <2>2, <2>3, PublishesType DEF AdkEnds
  <2> QED
    BY <1>6, <1>q, <2>4 DEF AdkEnds
<1>7. CASE AdkRaises
  <2>1. <<AdkEvent("failed", TRUE)>> \in Seq(AdkEventSet)
    BY <1>s, AdkEventType, AdkLists
  <2>2. adkQueue' \in Seq(AdkEventSet)
    BY <1>7, <1>t, <2>1, PublishesType DEF AdkRaises
  <2> QED
    BY <1>7, <1>f, <1>q, <2>2 DEF AdkRaises
<1>8. CASE AdkConsume
  <2>1. Head(adkQueue) \in AdkEventSet /\ Tail(adkQueue) \in Seq(AdkEventSet)
    BY <1>8, <1>t, AdkFirst DEF AdkConsume
  <2>2. adkQueue' \in Seq(AdkEventSet)
    BY <1>8, <2>1, AdkLists DEF AdkConsume
  <2>3. adkStored' \in [state : AdkStates \cup {"none"}, artifact : BOOLEAN]
    BY <1>8, <2>1 DEF AdkConsume, AdkSaved, AdkEventSet
  <2>4. adkTold' \in Seq(AdkStates)
    BY <1>8, <2>1, AppendProperties DEF AdkConsume, AdkEventSet
  <2> QED
    BY <1>8, <1>q, <2>2, <2>3, <2>4 DEF AdkConsume
<1>9. CASE AdkRequestEnds
  <2>1. adkQueue' \in Seq(AdkEventSet)
    BY <1>9, AdkLists DEF AdkRequestEnds
  <2>2. adkFaults' \in 0..MaxAdkFaults /\ undisturbed' \in BOOLEAN
    BY <1>9, <1>f DEF AdkRequestEnds
  <2> QED
    BY <1>9, <1>q, <2>1, <2>2 DEF AdkRequestEnds
<1> QED
  BY <1>1, <1>2, <1>3, <1>4, <1>5, <1>6, <1>7, <1>8, <1>9 DEF AdkNext

\* In every state of a task of the ADK engine each variable keeps its type: no
\* event and no stored task has a state of its own invention.
THEOREM AdkTypeCorrect ==
    AdkSpec => []AdkTypeOK
BY AdkInitType, AdkStepType, PTL DEF AdkSpec

----------------------------------------------------------------------------
(* TaskRuns: what a request leaves in the store. *)

AdkInv == AdkTypeOK /\ Aggregated /\ SubmittedFirst /\ QueueInOrder /\ AdkProgress

QueueParts == SubmittedFirst /\ QueueInOrder /\ AdkProgress

LEMMA AdkTypes ==
    ASSUME AdkTypeOK
    PROVE  /\ adkQueue \in Seq(AdkEventSet) /\ aggregator \in Aggregators
           /\ DOMAIN adkQueue = 1 .. Len(adkQueue) /\ Len(adkQueue) \in Nat
           /\ DOMAIN adkTold = 1 .. Len(adkTold) /\ Len(adkTold) \in Nat
BY DEF AdkTypeOK, AdkEventSet, Aggregators

\* What the run came to, as the aggregator has it.
LEMMA OutcomeOfRun ==
    ASSUME AdkTypeOK, Aggregated, ~raised
    PROVE  /\ AdkOutcome = IF aggregator.state # "working" THEN aggregator.state
                           ELSE IF aggregator.message THEN "completed" ELSE "working"
           /\ aggregator.state # "completed" /\ aggregator.state # "submitted"
BY DEF Aggregated, AdkOutcome, AdkTypeOK

LEMMA OutcomeSet ==
    AdkOutcome \in {"failed", "auth_required", "input_required", "completed", "working"}
BY DEF AdkOutcome

LEMMA AggregatedStep ==
    AdkTypeOK /\ Aggregated /\ [AdkNext]_adkVars => Aggregated'
<1> SUFFICES ASSUME AdkTypeOK, Aggregated, [AdkNext]_adkVars PROVE Aggregated'
  OBVIOUS
<1>1. CASE AdkExecute
  <2>1. aggregator' = [state |-> "working", message |-> FALSE] /\ DOMAIN emitted' = {}
    BY <1>1 DEF AdkExecute, NewAggregator
  <2>2. \A set : ~Emitted(set)'
    BY <2>1 DEF Emitted
  <2> QED
    BY <2>1, <2>2 DEF Aggregated
<1>2. ASSUME NEW what \in Emits, AdkEmits(what)
      PROVE  Aggregated'
  <2> DEFINE errors == {"error", "error text", "error call"}
  <2>1. /\ Emitted(errors)' <=> Emitted(errors) \/ what \in errors
        /\ Emitted({"credentials"})' <=> Emitted({"credentials"}) \/ what = "credentials"
        /\ Emitted({"call"})' <=> Emitted({"call"}) \/ what = "call"
        /\ Emitted({"text"})' <=> Emitted({"text"}) \/ what = "text"
    BY <1>2, EmittedStep DEF AdkEmits, AdkTypeOK
  <2> PICK then : then = ProcessAll(aggregator, Converted(what))
    OBVIOUS
  <2>2. aggregator' = then /\ aggregator \in Aggregators
    BY <1>2 DEF AdkEmits, AdkTypeOK, Aggregators
  <2>3. /\ then.state =
              IF aggregator.state = "failed" \/ what \in errors THEN "failed"
              ELSE IF aggregator.state = "auth_required" \/ what = "credentials" THEN "auth_required"
              ELSE IF aggregator.state = "input_required" \/ what = "call" THEN "input_required"
              ELSE "working"
        /\ then.state = "working" =>
              (then.message <=> (aggregator.state = "working" /\ aggregator.message) \/ what = "text")
    BY <2>2, AggregatorStep
  <2>4. /\ aggregator.state =
              IF Emitted(errors) THEN "failed"
              ELSE IF Emitted({"credentials"}) THEN "auth_required"
              ELSE IF Emitted({"call"}) THEN "input_required" ELSE "working"
        /\ aggregator.state = "working" => (aggregator.message <=> Emitted({"text"}))
    BY DEF Aggregated
  <2>5. (Aggregated)' <=>
            /\ aggregator'.state =
                  IF Emitted(errors)' THEN "failed"
                  ELSE IF Emitted({"credentials"})' THEN "auth_required"
                  ELSE IF Emitted({"call"})' THEN "input_required" ELSE "working"
            /\ aggregator'.state = "working" => (aggregator'.message <=> Emitted({"text"})')
    BY DEF Aggregated
  <2> HIDE DEF errors
  <2>6. then.state = IF Emitted(errors)' THEN "failed"
                     ELSE IF Emitted({"credentials"})' THEN "auth_required"
                     ELSE IF Emitted({"call"})' THEN "input_required" ELSE "working"
    BY <2>1, <2>3, <2>4
  <2>7. ASSUME then.state = "working"
        PROVE  aggregator.state = "working"
    BY <2>3, <2>4, <2>7
  <2>8. then.state = "working" => (then.message <=> Emitted({"text"})')
    BY <2>1, <2>3, <2>4, <2>7
  <2> QED
    BY <2>2, <2>5, <2>6, <2>8
<1>3. CASE UNCHANGED <<aggregator, emitted>>
  BY <1>3 DEF Aggregated, Emitted
<1>4. \/ AdkExecute \/ (\E what \in Emits : AdkEmits(what))
      \/ UNCHANGED <<aggregator, emitted>>
  BY DEF AdkNext, adkVars, ResolveRunner, AdkWorks, AdkEnds, AdkRaises, AdkConsume, AdkRequestEnds
<1> QED
  BY <1>1, <1>2, <1>3, <1>4

\* Events of the run: each is one of the queue, or one that says working.
LEMMA PublishWorking ==
    ASSUME AdkTypeOK, QueueParts, NEW events \in Seq(AdkEventSet), Publishes(events),
           \A j \in DOMAIN events : events[j] = AdkEvent("working", FALSE),
           adkPc \in {"prepare", "run"}, adkPc' = "run",
           UNCHANGED <<adkStored, adkTold, raised, undisturbed>>
    PROVE  QueueParts'
<1> USE DEF QueueParts
<1>1. /\ DOMAIN adkQueue = 1 .. Len(adkQueue) /\ Len(adkQueue) \in Nat
      /\ DOMAIN adkQueue \subseteq DOMAIN adkQueue' /\ DOMAIN adkQueue' = 1 .. Len(adkQueue')
      /\ \A i \in DOMAIN adkQueue : adkQueue'[i] = adkQueue[i]
      /\ \A i \in DOMAIN adkQueue' : i \in DOMAIN adkQueue \/ adkQueue'[i] = AdkEvent("working", FALSE)
      /\ adkQueue' # <<>> \/ adkQueue = <<>>
  <2>1. adkQueue' = adkQueue \o events /\ adkQueue \in Seq(AdkEventSet)
    BY AdkTypes DEF Publishes
  <2>2. /\ Len(adkQueue') = Len(adkQueue) + Len(events) /\ Len(adkQueue) \in Nat /\ Len(events) \in Nat
        /\ DOMAIN adkQueue' = 1 .. Len(adkQueue) + Len(events)
        /\ DOMAIN adkQueue = 1 .. Len(adkQueue)
        /\ \A i \in DOMAIN adkQueue : adkQueue'[i] = adkQueue[i]
        /\ \A j \in DOMAIN events : adkQueue'[Len(adkQueue) + j] = events[j]
        /\ \A i \in DOMAIN adkQueue' : i \in DOMAIN adkQueue \/ \E j \in DOMAIN events : i = Len(adkQueue) + j
    BY <2>1, AdkPublished
  <2>3. adkQueue' # <<>> \/ adkQueue = <<>>
    BY <2>1, <2>2, EmptySeq
  <2>4. DOMAIN adkQueue \subseteq DOMAIN adkQueue' /\ DOMAIN adkQueue' = 1 .. Len(adkQueue')
    BY <2>2
  <2>5. \A i \in DOMAIN adkQueue' : i \in DOMAIN adkQueue \/ adkQueue'[i] = AdkEvent("working", FALSE)
    BY <2>2
  <2> QED
    BY <2>2, <2>3, <2>4, <2>5
<1>2. /\ AdkEvent("working", FALSE).state = "working" /\ AdkEvent("working", FALSE).kind = "status"
      /\ AdkEvent("working", FALSE).final = FALSE
  BY DEF AdkEvent
<1>3. \A i \in DOMAIN adkQueue : /\ adkQueue[i].state \in {"submitted", "working"}
                                 /\ ~adkQueue[i].final /\ adkQueue[i].kind # "artifact"
  BY DEF QueueInOrder, FinalEvent, IsArtifact
<1>4. SubmittedFirst'
  <2>1. ASSUME NEW i \in DOMAIN adkQueue', adkQueue'[i].state = "submitted"
        PROVE  i = 1 /\ adkTold' = <<>> /\ adkStored'.state = "none" /\ adkQueue'[1].kind = "status"
    BY <1>1, <1>2, <2>1 DEF SubmittedFirst
  <2>2. ASSUME adkStored'.state = "none"
        PROVE  adkQueue' # <<>> /\ adkQueue'[1].state = "submitted" /\ adkTold' = <<>>
    <3>1. adkQueue # <<>> /\ adkQueue[1].state = "submitted" /\ adkTold = <<>>
      BY <2>2 DEF SubmittedFirst
    <3>2. 1 \in DOMAIN adkQueue
      BY <3>1, AdkTypes, AdkFirst
    <3> QED
      BY <1>1, <3>1, <3>2
  <2> QED
    BY <2>1, <2>2 DEF SubmittedFirst
<1>5. QueueInOrder'
  <2>1. \A i \in DOMAIN adkQueue' : /\ adkQueue'[i].state \in {"submitted", "working"}
                                    /\ ~adkQueue'[i].final /\ adkQueue'[i].kind # "artifact"
    BY <1>1, <1>2, <1>3
  <2> QED
    BY <2>1 DEF QueueInOrder, FinalEvent, IsArtifact
<1>6. AdkProgress'
  BY DEF AdkProgress
<1> QED
  BY <1>4, <1>5, <1>6

\* The end of an execution: a final event with the outcome behind what is queued,
\* and before it the artifact, if that is completed.
LEMMA PublishFinal ==
    ASSUME AdkTypeOK, QueueParts, adkPc \in {"prepare", "run"}, adkPc' = "done",
           NEW events \in Seq(AdkEventSet), Publishes(events),
           \/ AdkOutcome' # "completed" /\ events = <<AdkEvent(AdkOutcome', TRUE)>>
           \/ AdkOutcome' = "completed" /\ events = <<AdkArtifact, AdkEvent(AdkOutcome', TRUE)>>,
           AdkOutcome' \in AdkStates \ {"submitted"},
           UNCHANGED <<adkStored, adkTold, undisturbed>>
    PROVE  QueueParts'
<1> USE DEF QueueParts
<1> DEFINE last == AdkEvent(AdkOutcome', TRUE)
<1>0. /\ last \in AdkEventSet /\ AdkArtifact \in AdkEventSet
      /\ last.kind = "status" /\ last.state = AdkOutcome' /\ last.final
      /\ AdkArtifact.kind = "artifact" /\ AdkArtifact.state = "working" /\ ~AdkArtifact.final
  <2>1. TRUE \in BOOLEAN /\ AdkOutcome' \in AdkStates
    OBVIOUS
  <2> QED
    BY <2>1, AdkEventType
<1> HIDE DEF last
<1>1. /\ Len(adkQueue) \in Nat /\ Len(events) \in {1, 2}
      /\ DOMAIN adkQueue = 1 .. Len(adkQueue) /\ DOMAIN adkQueue' = 1 .. Len(adkQueue) + Len(events)
      /\ Len(adkQueue') = Len(adkQueue) + Len(events)
      /\ \A i \in DOMAIN adkQueue : adkQueue'[i] = adkQueue[i]
      /\ adkQueue'[Len(adkQueue')] = last
      /\ Len(events) = 2 => adkQueue'[Len(adkQueue) + 1] = AdkArtifact
      /\ Len(events) = 2 <=> AdkOutcome' = "completed"
      /\ adkQueue' # <<>>
  <2>1. adkQueue' = adkQueue \o events /\ adkQueue \in Seq(AdkEventSet)
    BY AdkTypes DEF Publishes
  <2>2. /\ Len(adkQueue') = Len(adkQueue) + Len(events) /\ Len(adkQueue) \in Nat /\ Len(events) \in Nat
        /\ DOMAIN adkQueue' = 1 .. Len(adkQueue) + Len(events)
        /\ DOMAIN adkQueue = 1 .. Len(adkQueue) /\ DOMAIN events = 1 .. Len(events)
        /\ \A i \in DOMAIN adkQueue : adkQueue'[i] = adkQueue[i]
        /\ \A j \in DOMAIN events : adkQueue'[Len(adkQueue) + j] = events[j]
    BY <2>1, AdkPublished
  <2>3. \/ AdkOutcome' # "completed" /\ Len(events) = 1 /\ events[1] = last
        \/ AdkOutcome' = "completed" /\ Len(events) = 2 /\ events[1] = AdkArtifact /\ events[2] = last
    <3>1. CASE AdkOutcome' # "completed" /\ events = <<last>>
      BY <1>0, <3>1, AdkLists
    <3>2. CASE AdkOutcome' = "completed" /\ events = <<AdkArtifact, last>>
      BY <1>0, <3>2, AdkLists
    <3> QED
      BY <3>1, <3>2 DEF last
  <2>4. adkQueue'[Len(adkQueue')] = last
    BY <2>2, <2>3
  <2>5. Len(events) = 2 => adkQueue'[Len(adkQueue) + 1] = AdkArtifact
    BY <2>2, <2>3
  <2>6. adkQueue' # <<>>
    BY <2>2, <2>3, EmptySeq
  <2> QED
    BY <2>2, <2>3, <2>4, <2>5, <2>6
<1>n. /\ Len(adkQueue) \in Nat /\ (Len(events) = 1 \/ Len(events) = 2)
      /\ DOMAIN adkQueue = 1 .. Len(adkQueue) /\ DOMAIN adkQueue' = 1 .. Len(adkQueue) + Len(events)
      /\ Len(adkQueue') = Len(adkQueue) + Len(events)
  BY <1>1
<1>2. \A i \in DOMAIN adkQueue : /\ adkQueue[i].state \in {"submitted", "working"}
                                 /\ ~adkQueue[i].final /\ adkQueue[i].kind # "artifact"
  BY DEF QueueInOrder, FinalEvent, IsArtifact
\* Where an event of the queue is.
<1>3. ASSUME NEW i \in DOMAIN adkQueue'
      PROVE  \/ i \in DOMAIN adkQueue
             \/ Len(events) = 2 /\ i = Len(adkQueue) + 1 /\ i + 1 \in DOMAIN adkQueue' /\ adkQueue'[i] = AdkArtifact
             \/ i = Len(adkQueue') /\ adkQueue'[i] = last
  <2>1. CASE i = Len(adkQueue')
    BY <1>1, <2>1
  <2>2. CASE i # Len(adkQueue') /\ ~(i \in DOMAIN adkQueue)
    <3>0. i \in 1 .. Len(adkQueue) + Len(events) /\ i # Len(adkQueue) + Len(events)
          /\ ~(i \in 1 .. Len(adkQueue)) /\ i \in Int
      BY <1>n, <2>2
    <3>1. Len(events) = 2 /\ i = Len(adkQueue) + 1
      <4>1. Len(adkQueue) \in Nat /\ (Len(events) = 1 \/ Len(events) = 2)
        BY <1>n
      <4>2. CASE Len(events) = 1
        BY <3>0, <4>1, <4>2
      <4>3. CASE Len(events) = 2
        BY <3>0, <4>1, <4>3
      <4> QED
        BY <4>1, <4>2, <4>3
    <3> QED
      BY <1>1, <3>1
  <2> QED
    BY <2>1, <2>2
<1>4. SubmittedFirst'
  <2>1. ASSUME NEW i \in DOMAIN adkQueue', adkQueue'[i].state = "submitted"
        PROVE  i = 1 /\ adkTold' = <<>> /\ adkStored'.state = "none" /\ adkQueue'[1].kind = "status"
    <3>1. i \in DOMAIN adkQueue /\ adkQueue'[i] = adkQueue[i]
      BY <1>0, <1>1, <1>3, <2>1
    <3> QED
      BY <1>1, <2>1, <3>1 DEF SubmittedFirst
  <2>2. ASSUME adkStored'.state = "none"
        PROVE  adkQueue' # <<>> /\ adkQueue'[1].state = "submitted" /\ adkTold' = <<>>
    <3>1. adkQueue # <<>> /\ adkQueue[1].state = "submitted" /\ adkTold = <<>>
      BY <2>2 DEF SubmittedFirst
    <3>2. 1 \in DOMAIN adkQueue
      BY <3>1, AdkTypes, AdkFirst
    <3> QED
      BY <1>1, <3>1, <3>2
  <2> QED
    BY <2>1, <2>2 DEF SubmittedFirst
<1>5. QueueInOrder'
  <2>1. ASSUME NEW i \in DOMAIN adkQueue'
        PROVE  /\ adkQueue'[i].final => /\ i = Len(adkQueue') /\ adkQueue'[i].kind # "artifact"
                                        /\ adkQueue'[i].state = AdkOutcome'
               /\ adkQueue'[i].kind = "artifact" => i + 1 \in DOMAIN adkQueue' /\ AdkOutcome' = "completed"
               /\ ~adkQueue'[i].final => adkQueue'[i].state \in {"submitted", "working"}
    <3>1. CASE i \in DOMAIN adkQueue
      BY <1>1, <1>2, <3>1
    <3>2. CASE Len(events) = 2 /\ i = Len(adkQueue) + 1 /\ i + 1 \in DOMAIN adkQueue' /\ adkQueue'[i] = AdkArtifact
      BY <1>0, <1>1, <3>2
    <3>3. CASE i = Len(adkQueue') /\ adkQueue'[i] = last
      BY <1>0, <3>3
    <3> QED
      BY <1>3, <3>1, <3>2, <3>3
  <2> QED
    BY <2>1 DEF QueueInOrder, FinalEvent, IsArtifact
<1>6. AdkProgress'
  <2>1. ~adkStored.artifact
    BY DEF AdkProgress
  <2>2. (\E i \in DOMAIN adkQueue' : adkQueue'[i].kind = "artifact") <=> AdkOutcome' = "completed"
    <3>1. CASE AdkOutcome' = "completed"
      <4>0. Len(events) = 2
        BY <1>1, <3>1
      <4>1. Len(adkQueue) + 1 \in DOMAIN adkQueue'
        BY <1>n, <4>0
      <4> QED
        BY <1>0, <1>1, <3>1, <4>1
    <3>2. CASE AdkOutcome' # "completed"
      BY <1>0, <1>1, <1>2, <1>3, <3>2
    <3> QED
      BY <3>1, <3>2
  <2>3. adkQueue'[Len(adkQueue')].final
    BY <1>0, <1>1
  <2> QED
    BY <1>1, <2>1, <2>2, <2>3 DEF AdkProgress, FinalEvent, IsArtifact
<1> QED
  BY <1>4, <1>5, <1>6

LEMMA ExecuteParts ==
    ASSUME AdkTypeOK, QueueParts, AdkExecute
    PROVE  QueueParts'
<1> USE DEF QueueParts
<1>1. adkQueue = <<>> /\ adkPc' = "resolve" /\ adkTold' = <<>> /\ adkStored'.state = adkStored.state
      /\ ~adkStored'.artifact /\ undisturbed' /\ ~raised'
  BY DEF AdkExecute, QueueInOrder, AdkTypeOK
<1>2. CASE adkStored.state = "none"
  <2> DEFINE e == AdkEvent("submitted", FALSE)
  <2>1. e \in AdkEventSet /\ e.state = "submitted" /\ e.kind = "status" /\ ~e.final
    BY AdkEventType DEF AdkStates
  <2> HIDE DEF e
  <2>2. adkQueue' = adkQueue \o <<e>>
    BY <1>2 DEF AdkExecute, Publishes, e
  <2>3. adkQueue' = <<e>>
    <3>1. <<e>> \in Seq(AdkEventSet)
      BY <2>1, AdkLists
    <3> QED
      BY <1>1, <2>2, <3>1, ConcatEmptySeq
  <2>4. DOMAIN adkQueue' = {1} /\ adkQueue'[1] = e /\ adkQueue' # <<>> /\ DOMAIN adkTold' = {}
    BY <1>1, <2>3
  <2> QED
    BY <1>1, <1>2, <2>1, <2>4 DEF SubmittedFirst, QueueInOrder, AdkProgress, FinalEvent, IsArtifact
<1>3. CASE adkStored.state # "none"
  <2>1. adkQueue' = adkQueue \o <<>>
    BY <1>3 DEF AdkExecute, Publishes
  <2>2. adkQueue' = <<>> /\ DOMAIN adkQueue' = {} /\ DOMAIN adkTold' = {}
    <3>1. <<>> \in Seq(AdkEventSet)
      BY AdkLists
    <3>2. <<>> \o <<>> = <<>>
      BY <3>1, ConcatEmptySeq
    <3> QED
      BY <1>1, <2>1, <3>2
  <2> QED
    BY <1>1, <1>3, <2>2 DEF SubmittedFirst, QueueInOrder, AdkProgress
<1> QED
  BY <1>2, <1>3

LEMMA ResolveParts ==
    ASSUME AdkTypeOK, QueueParts, ResolveRunner
    PROVE  QueueParts'
<1> USE DEF QueueParts
<1>1. /\ adkPc = "resolve" /\ adkPc' \in {"prepare", "done"} /\ (adkPc' = "done" => ~undisturbed')
      /\ (adkPc' = "prepare" => undisturbed' = undisturbed)
      /\ UNCHANGED <<adkQueue, adkStored, adkTold, emitted, raised>>
  BY DEF ResolveRunner, AdkTypeOK
<1>2. AdkOutcome' = AdkOutcome
  BY <1>1 DEF AdkOutcome, Emitted
<1>3. \A i \in DOMAIN adkQueue : ~FinalEvent(i) /\ ~IsArtifact(i)
  BY <1>1 DEF QueueInOrder
<1>4. SubmittedFirst'
  BY <1>1 DEF SubmittedFirst
<1>5. QueueInOrder'
  BY <1>1, <1>3 DEF QueueInOrder, FinalEvent, IsArtifact
<1>6. AdkProgress'
  <2>1. undisturbed /\ ~raised /\ ~adkStored.artifact
    BY <1>1 DEF AdkProgress
  <2>2. CASE adkPc' = "prepare"
    BY <1>1, <2>1, <2>2 DEF AdkProgress
  <2>3. CASE adkPc' = "done"
    BY <1>1, <2>3 DEF AdkProgress
  <2> QED
    BY <1>1, <2>2, <2>3
<1> QED
  BY <1>4, <1>5, <1>6

LEMMA RequestEndsParts ==
    ASSUME AdkTypeOK, QueueParts, AdkRequestEnds
    PROVE  QueueParts'
<1> USE DEF QueueParts
<1>1. /\ adkPc # "idle" /\ adkPc' = "idle" /\ adkQueue' = <<>> /\ DOMAIN adkQueue' = {}
      /\ (adkPc = "done" /\ adkQueue = <<>> /\ undisturbed' = undisturbed) \/ undisturbed' = FALSE
      /\ UNCHANGED <<adkStored, emitted, raised>>
  BY DEF AdkRequestEnds
<1>2. AdkOutcome' = AdkOutcome
  BY <1>1 DEF AdkOutcome, Emitted
<1>3. undisturbed' => OutcomeStored
  BY <1>1 DEF AdkProgress
<1>4. OutcomeStored' = OutcomeStored
  BY <1>1, <1>2 DEF OutcomeStored
<1> QED
  BY <1>1, <1>3, <1>4 DEF SubmittedFirst, QueueInOrder, AdkProgress

\* What the consumer does with the first event.
LEMMA Consumed ==
    ASSUME AdkTypeOK, AdkConsume
    PROVE  /\ Len(adkQueue) \in Nat /\ Len(adkQueue) >= 1
           /\ DOMAIN adkQueue = 1 .. Len(adkQueue) /\ 1 \in DOMAIN adkQueue
           /\ Head(adkQueue) = adkQueue[1] /\ adkQueue[1] \in AdkEventSet
           /\ DOMAIN Tail(adkQueue) = 1 .. Len(adkQueue) - 1 /\ Len(Tail(adkQueue)) = Len(adkQueue) - 1
           /\ \A i \in DOMAIN Tail(adkQueue) :
                 Tail(adkQueue)[i] = adkQueue[i + 1] /\ i + 1 \in DOMAIN adkQueue
           /\ Tail(adkQueue) = <<>> <=> Len(adkQueue) = 1
           /\ adkPc # "idle" /\ UNCHANGED <<adkPc, raised, emitted, undisturbed, adkSends>>
           /\ adkQueue' = IF adkQueue[1].final THEN <<>> ELSE Tail(adkQueue)
           /\ adkStored' = IF adkQueue[1].kind = "artifact" THEN [adkStored EXCEPT !.artifact = TRUE]
                           ELSE [adkStored EXCEPT !.state = adkQueue[1].state]
           /\ adkTold' = IF adkQueue[1].kind = "status" THEN Append(adkTold, adkQueue[1].state) ELSE adkTold
<1> DEFINE q == adkQueue
           h == adkQueue[1]
<1>1. q \in Seq(AdkEventSet) /\ q # <<>>
  BY AdkTypes DEF AdkConsume
<1>2. /\ Len(q) \in Nat /\ Len(q) >= 1 /\ DOMAIN q = 1 .. Len(q) /\ Head(q) = h /\ Head(q) \in AdkEventSet
      /\ DOMAIN Tail(q) = 1 .. Len(q) - 1 /\ Len(Tail(q)) = Len(q) - 1
      /\ \A i \in DOMAIN Tail(q) : Tail(q)[i] = q[i + 1]
      /\ Tail(q) = <<>> <=> Len(q) = 1
  BY <1>1, AdkFirst
<1>3. 1 \in DOMAIN q /\ \A i \in DOMAIN Tail(q) : i + 1 \in DOMAIN q
  BY <1>2
<1>4. /\ adkPc # "idle" /\ UNCHANGED <<adkPc, raised, emitted, undisturbed, adkSends>>
      /\ q' = IF h.final THEN <<>> ELSE Tail(q)
      /\ adkStored' = IF h.kind = "artifact" THEN [adkStored EXCEPT !.artifact = TRUE]
                      ELSE [adkStored EXCEPT !.state = h.state]
      /\ adkTold' = IF h.kind = "status" THEN Append(adkTold, h.state) ELSE adkTold
  BY <1>2 DEF AdkConsume, AdkSaved
<1> QED
  BY <1>2, <1>3, <1>4

LEMMA ConsumeParts ==
    ASSUME AdkTypeOK, QueueParts, AdkConsume
    PROVE  QueueParts'
<1> USE DEF QueueParts
<1> DEFINE q == adkQueue
           h == adkQueue[1]
<1>1. /\ Len(q) \in Nat /\ Len(q) >= 1 /\ DOMAIN q = 1 .. Len(q) /\ 1 \in DOMAIN q
      /\ Head(q) = h /\ h \in AdkEventSet
      /\ DOMAIN Tail(q) = 1 .. Len(q) - 1 /\ Len(Tail(q)) = Len(q) - 1
      /\ \A i \in DOMAIN Tail(q) : Tail(q)[i] = q[i + 1] /\ i + 1 \in DOMAIN q
      /\ Tail(q) = <<>> <=> Len(q) = 1
  BY Consumed
<1>2. /\ adkPc # "idle" /\ UNCHANGED <<adkPc, raised, emitted, undisturbed, adkSends>>
      /\ q' = IF h.final THEN <<>> ELSE Tail(q)
      /\ adkStored' = IF h.kind = "artifact" THEN [adkStored EXCEPT !.artifact = TRUE]
                      ELSE [adkStored EXCEPT !.state = h.state]
      /\ adkTold' = IF h.kind = "status" THEN Append(adkTold, h.state) ELSE adkTold
  BY Consumed
<1>3. AdkOutcome' = AdkOutcome /\ AdkOutcome # "none"
  BY <1>2, OutcomeSet DEF AdkOutcome, Emitted
<1>k. h.kind \in {"status", "artifact"} /\ h.final \in BOOLEAN
  BY <1>1 DEF AdkEventSet
<1>4. CASE h.final
  <2>1. /\ adkPc = "done" /\ Len(q) = 1 /\ h.kind = "status" /\ h.state = AdkOutcome
    BY <1>1, <1>4, <1>k DEF QueueInOrder, FinalEvent, IsArtifact
  <2>2. q' = <<>> /\ DOMAIN q' = {}
    BY <1>2, <1>4
  <2>3. adkStored'.state = AdkOutcome /\ adkStored'.artifact = adkStored.artifact
    BY <1>2, <2>1 DEF AdkTypeOK
  <2>4. undisturbed => (adkStored.artifact <=> AdkOutcome = "completed")
    <3>1. q # <<>> /\ ~ \E i \in DOMAIN q : IsArtifact(i)
      BY <1>1, <2>1, EmptySeq DEF IsArtifact
    <3> QED
      BY <2>1, <3>1 DEF AdkProgress
  <2> QED
    BY <1>2, <1>3, <2>1, <2>2, <2>3, <2>4
       DEF SubmittedFirst, QueueInOrder, AdkProgress, OutcomeStored
<1>5. CASE ~h.final
  <2>1. q' = Tail(q)
    BY <1>2, <1>5
  <2>2. ASSUME NEW i \in DOMAIN q'
        PROVE  /\ i + 1 \in DOMAIN q /\ q'[i] = q[i + 1] /\ i + 1 # 1
               /\ q'[i].state # "submitted"
               /\ q'[i].final => /\ adkPc = "done" /\ i = Len(q') /\ q'[i].kind # "artifact"
                                 /\ q'[i].state = AdkOutcome
               /\ q'[i].kind = "artifact" => /\ adkPc = "done" /\ i + 1 \in DOMAIN q'
                                             /\ AdkOutcome = "completed"
               /\ ~q'[i].final => q'[i].state \in {"submitted", "working"}
    <3>1. i + 1 \in DOMAIN q /\ q'[i] = q[i + 1] /\ i \in Nat /\ i + 1 # 1
      BY <1>1, <2>1
    <3>2. q'[i].state # "submitted"
      BY <3>1 DEF SubmittedFirst
    <3>3. q'[i].final => /\ adkPc = "done" /\ i + 1 = Len(q) /\ q'[i].kind # "artifact"
                         /\ q'[i].state = AdkOutcome
      BY <3>1 DEF QueueInOrder, FinalEvent, IsArtifact
    <3>4. q'[i].kind = "artifact" => /\ adkPc = "done" /\ i + 1 + 1 \in DOMAIN q
                                     /\ AdkOutcome = "completed"
      BY <3>1 DEF QueueInOrder, FinalEvent, IsArtifact
    <3>5. ~q'[i].final => q'[i].state \in {"submitted", "working"}
      BY <3>1 DEF QueueInOrder, FinalEvent, IsArtifact
    <3>6. (i + 1 = Len(q) => i = Len(q')) /\ (i + 1 + 1 \in DOMAIN q => i + 1 \in DOMAIN q')
      BY <1>1, <2>1, <3>1
    <3> QED
      BY <3>1, <3>2, <3>3, <3>4, <3>5, <3>6
  <2>3. QueueInOrder'
    BY <1>2, <1>3, <2>2 DEF QueueInOrder, FinalEvent, IsArtifact
  <2>4. CASE h.kind = "status"
    <3>1. h.state \in {"submitted", "working"}
      BY <1>1, <1>5 DEF QueueInOrder, FinalEvent
    <3>2. adkStored'.state = h.state /\ adkStored'.artifact = adkStored.artifact
      BY <1>2, <2>4 DEF AdkTypeOK
    <3>3. adkPc \in {"resolve", "prepare"} => \A i \in DOMAIN adkTold' : adkTold'[i] = "submitted"
      <4> SUFFICES ASSUME adkPc \in {"resolve", "prepare"}, NEW i \in DOMAIN adkTold'
                   PROVE  adkTold'[i] = "submitted"
        OBVIOUS
      <4>1. h.state = "submitted" /\ \A j \in DOMAIN adkTold : adkTold[j] = "submitted"
        BY <1>1 DEF SubmittedFirst
      <4>2. /\ adkTold \in Seq(AdkStates) /\ h.state \in AdkStates /\ adkTold' = Append(adkTold, h.state)
            /\ Len(adkTold) \in Nat /\ DOMAIN adkTold = 1 .. Len(adkTold)
        BY <1>1, <1>2, <2>4 DEF AdkTypeOK, AdkEventSet
      <4>3. /\ DOMAIN adkTold' = 1 .. Len(adkTold) + 1 /\ adkTold'[Len(adkTold) + 1] = h.state
            /\ \A j \in 1 .. Len(adkTold) : adkTold'[j] = adkTold[j]
        BY <4>2, AppendProperties
      <4> QED
        BY <4>1, <4>2, <4>3
    <3>4. SubmittedFirst'
      BY <1>2, <2>2, <3>1, <3>2, <3>3 DEF SubmittedFirst
    <3>5. adkPc = "done" /\ undisturbed =>
              /\ q' # <<>> /\ q'[Len(q')].final
              /\ adkStored'.artifact \/ (\E i \in DOMAIN q' : q'[i].kind = "artifact") <=> AdkOutcome = "completed"
      <4> SUFFICES ASSUME adkPc = "done", undisturbed
                   PROVE  /\ q' # <<>> /\ q'[Len(q')].final
                          /\ adkStored'.artifact \/ (\E i \in DOMAIN q' : q'[i].kind = "artifact")
                                <=> AdkOutcome = "completed"
        OBVIOUS
      <4>1. q[Len(q)].final /\ (adkStored.artifact \/ (\E i \in DOMAIN q : q[i].kind = "artifact")
                                   <=> AdkOutcome = "completed")
        BY <1>1, EmptySeq DEF AdkProgress, FinalEvent, IsArtifact
      <4>2. Len(q) # 1
        BY <1>5, <4>1
      <4>3. q' # <<>> /\ q'[Len(q')] = q[Len(q)]
        <5>1. Len(q) - 1 \in DOMAIN Tail(q) /\ Len(q) - 1 + 1 = Len(q)
          BY <1>1, <4>2
        <5>2. Tail(q)[Len(q) - 1] = q[Len(q) - 1 + 1]
          BY <1>1, <5>1
        <5> QED
          BY <1>1, <2>1, <4>2, <5>1, <5>2
      <4>4. (\E i \in DOMAIN q : q[i].kind = "artifact") => \E i \in DOMAIN q' : q'[i].kind = "artifact"
        <5> SUFFICES ASSUME NEW i \in DOMAIN q, q[i].kind = "artifact"
                     PROVE  \E j \in DOMAIN q' : q'[j].kind = "artifact"
          OBVIOUS
        <5>1. i # 1
          BY <2>4
        <5>2. i - 1 \in DOMAIN Tail(q) /\ i - 1 + 1 = i
          BY <1>1, <5>1
        <5>3. Tail(q)[i - 1] = q[i]
          BY <1>1, <5>2
        <5> QED
          BY <2>1, <5>2, <5>3
      <4>5. (\E i \in DOMAIN q' : q'[i].kind = "artifact") => \E i \in DOMAIN q : q[i].kind = "artifact"
        BY <2>2
      <4> QED
        BY <3>2, <4>1, <4>3, <4>4, <4>5
    <3>6. AdkProgress'
      BY <1>2, <1>3, <3>2, <3>5 DEF AdkProgress, FinalEvent, IsArtifact
    <3> QED
      BY <2>3, <3>4, <3>6
  <2>5. CASE h.kind = "artifact"
    <3>1. adkPc = "done" /\ 2 \in DOMAIN q /\ AdkOutcome = "completed"
      BY <1>1, <2>5 DEF QueueInOrder, IsArtifact
    <3>2. adkStored'.state = adkStored.state /\ adkStored'.artifact /\ adkStored.state # "none"
      <4>1. adkStored.state # "none"
        BY <1>1, <1>2, <2>5 DEF SubmittedFirst
      <4> QED
        BY <1>2, <2>5, <4>1 DEF AdkTypeOK
    <3>3. SubmittedFirst'
      BY <1>2, <2>2, <3>1, <3>2 DEF SubmittedFirst
    <3>4. undisturbed => q' # <<>> /\ q'[Len(q')].final
      <4>1. q # <<>>
        BY <1>1, EmptySeq
      <4>2. undisturbed => q[Len(q)].final
        BY <3>1, <4>1 DEF AdkProgress, FinalEvent
      <4>3. Len(q) - 1 \in DOMAIN Tail(q) /\ Len(q) - 1 + 1 = Len(q) /\ Len(q) # 1
        BY <1>1, <3>1
      <4>4. Tail(q)[Len(q) - 1] = q[Len(q)]
        BY <1>1, <4>3
      <4> QED
        BY <1>1, <2>1, <4>2, <4>3, <4>4
    <3>5. AdkProgress'
      BY <1>2, <1>3, <3>1, <3>2, <3>4 DEF AdkProgress, FinalEvent, IsArtifact
    <3> QED
      BY <2>3, <3>3, <3>5
  <2> QED
    BY <1>k, <2>4, <2>5
<1> QED
  BY <1>4, <1>5

LEMMA AdkInvStep ==
    AdkInv /\ [AdkNext]_adkVars => AdkInv'
<1> SUFFICES ASSUME AdkTypeOK, Aggregated, QueueParts, [AdkNext]_adkVars
             PROVE  QueueParts'
  BY AdkStepType, AggregatedStep DEF AdkInv, QueueParts
<1>1. CASE UNCHANGED adkVars
  <2>0. UNCHANGED <<adkPc, adkQueue, adkStored, adkTold, emitted, raised, undisturbed, adkSends>>
    BY <1>1 DEF adkVars
  <2>2. OutcomeStored' <=> OutcomeStored
    BY <2>0 DEF OutcomeStored, AdkOutcome, Emitted
  <2>3. AdkOutcome' = AdkOutcome /\ \A i : (FinalEvent(i)' <=> FinalEvent(i)) /\ (IsArtifact(i)' <=> IsArtifact(i))
    BY <2>0 DEF AdkOutcome, Emitted, FinalEvent, IsArtifact
  <2>1. SubmittedFirst' /\ QueueInOrder'
    <3>1. SubmittedFirst'
      BY <2>0 DEF QueueParts, SubmittedFirst
    <3>2. QueueInOrder'
      BY <2>0, <2>3 DEF QueueParts, QueueInOrder
    <3> QED
      BY <3>1, <3>2
  <2>4. AdkProgress'
    BY <2>0, <2>2, <2>3 DEF QueueParts, AdkProgress
  <2> QED
    BY <2>1, <2>4 DEF QueueParts
<1>2. CASE AdkWorks
  <2> DEFINE events == <<AdkEvent("working", FALSE)>>
  <2>1. events \in Seq(AdkEventSet) /\ \A j \in DOMAIN events : events[j] = AdkEvent("working", FALSE)
    <3>1. \A e \in AdkEventSet : <<e>> \in Seq(AdkEventSet) /\ \A j \in DOMAIN <<e>> : <<e>>[j] = e
      OBVIOUS
    <3>2. AdkEvent("working", FALSE) \in AdkEventSet
      BY AdkEventType DEF AdkStates
    <3> QED
      BY <3>1, <3>2
  <2>2. Publishes(events)
    BY <1>2 DEF AdkWorks
  <2> HIDE DEF events
  <2> QED
    BY <1>2, <2>1, <2>2, PublishWorking DEF AdkWorks
<1>3. ASSUME NEW what \in Emits, AdkEmits(what)
      PROVE  QueueParts'
  <2> DEFINE events == Rewritten(Converted(what))
  <2>1. events \in Seq(AdkEventSet) /\ \A j \in DOMAIN events : events[j] = AdkEvent("working", FALSE)
    BY RewrittenWorks
  <2>2. Publishes(events) /\ adkPc = "run" /\ adkPc' = "run"
        /\ UNCHANGED <<adkStored, adkTold, raised, undisturbed>>
    BY <1>3 DEF AdkEmits
  <2> HIDE DEF events
  <2> QED
    BY <2>1, <2>2, PublishWorking
<1>4. CASE AdkEnds
  <2>1. ~raised /\ AdkOutcome' = AdkOutcome
    BY <1>4 DEF AdkEnds, QueueParts, AdkProgress, AdkOutcome, Emitted
  <2>2. AdkOutcome \in AdkStates \ {"submitted"}
    BY OutcomeSet DEF AdkStates
  <2> DEFINE events == IF aggregator.state = "working" /\ aggregator.message
                       THEN <<AdkArtifact, AdkEvent("completed", TRUE)>>
                       ELSE <<AdkEvent(aggregator.state, TRUE)>>
  <2>3. \/ AdkOutcome # "completed" /\ events = <<AdkEvent(AdkOutcome, TRUE)>>
        \/ AdkOutcome = "completed" /\ events = <<AdkArtifact, AdkEvent(AdkOutcome, TRUE)>>
    BY <2>1, OutcomeOfRun
  <2>4. Publishes(events)
    BY <1>4 DEF AdkEnds
  <2>5. events \in Seq(AdkEventSet)
    <3>1. AdkEvent(AdkOutcome, TRUE) \in AdkEventSet /\ AdkArtifact \in AdkEventSet
      <4>1. AdkOutcome \in AdkStates /\ TRUE \in BOOLEAN
        BY <2>2
      <4> QED
        BY <4>1, AdkEventType
    <3> QED
      BY <2>3, <3>1, AdkLists
  <2> HIDE DEF events
  <2> QED
    BY <1>4, <2>1, <2>2, <2>3, <2>4, <2>5, PublishFinal DEF AdkEnds
<1>5. CASE AdkRaises
  <2>1. AdkOutcome' = "failed"
    BY <1>5 DEF AdkRaises, AdkOutcome
  <2> DEFINE events == <<AdkEvent("failed", TRUE)>>
  <2>2. events \in Seq(AdkEventSet) /\ "failed" \in AdkStates \ {"submitted"}
    BY AdkEventType, AdkLists DEF AdkStates
  <2>3. Publishes(events) /\ events = <<AdkEvent(AdkOutcome', TRUE)>>
    BY <1>5, <2>1 DEF AdkRaises
  <2> HIDE DEF events
  <2> QED
    BY <1>5, <2>1, <2>2, <2>3, PublishFinal DEF AdkRaises
<1> QED
  BY <1>1, <1>2, <1>3, <1>4, <1>5, ExecuteParts, ResolveParts, ConsumeParts, RequestEndsParts DEF AdkNext

LEMMA AdkInvKept ==
    AdkSpec => []AdkInv
<1>1. AdkInit => AdkInv
  <2> SUFFICES ASSUME AdkInit PROVE AdkInv
    OBVIOUS
  <2>1. AdkTypeOK
    BY AdkInitType
  <2>2. DOMAIN emitted = {} /\ DOMAIN adkQueue = {}
    BY DEF AdkInit
  <2>3. Aggregated
    BY <2>2 DEF AdkInit, Aggregated, Emitted, NewAggregator
  <2>4. SubmittedFirst /\ QueueInOrder /\ AdkProgress
    BY <2>1, <2>2 DEF AdkInit, SubmittedFirst, QueueInOrder, AdkProgress, AdkTypeOK
  <2> QED
    BY <2>1, <2>3, <2>4 DEF AdkInv
<1> QED
  BY <1>1, AdkInvStep, PTL DEF AdkSpec

\* Whatever the agent emits, in any order: a request of the ADK engine that was
\* saved to its end has left in the store what its run came to, by the priorities
\* of the aggregator, and an artifact just if that is completed
\* (_agent_executor.py:188-290, _task_result_aggregator.py:12-38).
THEOREM FinalIsRight ==
    AdkSpec => []FinalTellsRun
<1>1. AdkInv => FinalTellsRun
  BY DEF AdkInv, AdkProgress, OutcomeStored, FinalTellsRun
<1> QED
  BY <1>1, AdkInvKept, PTL

----------------------------------------------------------------------------
(* TaskRuns implements TaskLife. *)

AllSubmitted == \A i \in DOMAIN adkTold : adkTold[i] = "submitted"

IsOver == adkPc = "done" /\ adkQueue = <<>> /\ adkTold # <<>> /\ adkTold[Len(adkTold)] # "submitted"

PhaseFacts ==
    /\ adkPc = "idle" <=> AdkPhase = "closed"
    /\ IsOver <=> AdkPhase = "over"
    /\ (adkPc # "idle" /\ ~IsOver /\ AllSubmitted) <=> AdkPhase = "open"
    /\ (adkPc # "idle" /\ ~IsOver /\ ~AllSubmitted) <=> AdkPhase = "working"
    /\ IsOver => ~AllSubmitted

LEMMA Phases ==
    AdkTypeOK => PhaseFacts
<1> SUFFICES ASSUME AdkTypeOK PROVE PhaseFacts
  OBVIOUS
<1>1. IsOver => ~AllSubmitted /\ adkPc # "idle"
  <2>1. adkTold # <<>> => Len(adkTold) \in DOMAIN adkTold
    <3>1. adkTold \in Seq(AdkStates)
      BY DEF AdkTypeOK
    <3> QED
      BY <3>1, EmptySeq
  <2> QED
    BY <2>1 DEF IsOver, AllSubmitted
<1>2. CASE adkPc = "idle"
  BY <1>1, <1>2 DEF AdkPhase, PhaseFacts
<1>3. CASE IsOver
  BY <1>1, <1>3 DEF AdkPhase, IsOver, AllSubmitted, PhaseFacts
<1>4. CASE adkPc # "idle" /\ ~IsOver /\ AllSubmitted
  BY <1>4 DEF AdkPhase, IsOver, AllSubmitted, PhaseFacts
<1>5. CASE adkPc # "idle" /\ ~IsOver /\ ~AllSubmitted
  BY <1>5 DEF AdkPhase, IsOver, AllSubmitted, PhaseFacts
<1> QED
  BY <1>2, <1>3, <1>4, <1>5

LEMMA PhasesThen ==
    AdkTypeOK' => PhaseFacts'
BY Phases, PTL

\* A step within a request that saves nothing is none of the task's life.
LEMMA SavesNothing ==
    ASSUME AdkTypeOK, AdkTypeOK', adkStored'.state = adkStored.state, UNCHANGED adkTold,
           adkPc # "idle", adkPc' # "idle", ~IsOver, ~IsOver'
    PROVE  UNCHANGED Life!lifeVars
<1>1. AllSubmitted' <=> AllSubmitted
  BY DEF AllSubmitted
<1>2. PhaseFacts /\ PhaseFacts'
  BY Phases, PhasesThen
<1>3. AdkPhase' = AdkPhase
  <2>1. CASE AllSubmitted
    BY <1>1, <1>2, <2>1 DEF PhaseFacts
  <2>2. CASE ~AllSubmitted
    BY <1>1, <1>2, <2>2 DEF PhaseFacts
  <2> QED
    BY <2>1, <2>2
<1> QED
  BY <1>3 DEF Life!lifeVars

\* What the consumer saves is a step of the task's life.
LEMMA ConsumeLives ==
    ASSUME AdkTypeOK, AdkTypeOK', SubmittedFirst, QueueInOrder, AdkConsume
    PROVE  [Life!LifeNext]_(Life!lifeVars)
<1> DEFINE e == adkQueue[1]
<1>1. /\ Len(adkQueue) \in Nat /\ 1 \in DOMAIN adkQueue /\ e \in AdkEventSet
      /\ Tail(adkQueue) = <<>> <=> Len(adkQueue) = 1
      /\ adkPc # "idle" /\ adkPc' = adkPc
      /\ adkQueue' = IF e.final THEN <<>> ELSE Tail(adkQueue)
      /\ adkStored' = IF e.kind = "artifact" THEN [adkStored EXCEPT !.artifact = TRUE]
                      ELSE [adkStored EXCEPT !.state = e.state]
      /\ adkTold' = IF e.kind = "status" THEN Append(adkTold, e.state) ELSE adkTold
  BY Consumed
<1>2. /\ adkStored \in [state : AdkStates \cup {"none"}, artifact : BOOLEAN] /\ adkTold \in Seq(AdkStates)
      /\ e.kind \in {"status", "artifact"} /\ e.state \in AdkStates /\ e.final \in BOOLEAN
  BY <1>1 DEF AdkTypeOK, AdkEventSet
<1>3. PhaseFacts /\ PhaseFacts' /\ ~IsOver
  BY Phases, PhasesThen DEF IsOver, AdkConsume
<1> HIDE DEF e
<1>4. CASE e.kind = "artifact"
  <2>1. ~e.final /\ 2 \in DOMAIN adkQueue
    BY <1>1, <1>4 DEF QueueInOrder, FinalEvent, IsArtifact, e
  <2>2. Len(adkQueue) # 1
    BY <1>1, <2>1 DEF AdkTypeOK
  <2>3. adkQueue' # <<>>
    BY <1>1, <2>1, <2>2
  <2>4. adkStored'.state = adkStored.state /\ adkTold' = adkTold
    BY <1>1, <1>2, <1>4
  <2> QED
    BY <1>1, <1>3, <2>3, <2>4, SavesNothing DEF IsOver
<1>5. CASE e.kind = "status"
  <2>1. adkStored'.state = e.state /\ adkTold' = Append(adkTold, e.state)
    BY <1>1, <1>2, <1>5
  <2>2. /\ Len(adkTold') \in DOMAIN adkTold' /\ adkTold' # <<>> /\ adkTold'[Len(adkTold')] = e.state
        /\ adkTold = <<>> => \A i \in DOMAIN adkTold' : adkTold'[i] = e.state
    <3>1. Len(adkTold) \in Nat /\ Len(adkTold') = Len(adkTold) + 1 /\ adkTold'[Len(adkTold) + 1] = e.state
          /\ DOMAIN adkTold' = 1 .. Len(adkTold) + 1
      BY <1>2, <2>1, AppendProperties
    <3>2. adkTold = <<>> => Len(adkTold) = 0
      OBVIOUS
    <3>3. adkTold' # <<>>
      BY <1>2, <2>1, AppendProperties
    <3> QED
      BY <3>1, <3>2, <3>3
  <2>3. CASE e.state = "submitted"
    <3>1. adkTold = <<>> /\ adkStored.state = "none"
      BY <1>1, <2>3 DEF SubmittedFirst, e
    <3>2. AllSubmitted /\ AllSubmitted' /\ ~IsOver'
      BY <2>2, <2>3, <3>1 DEF AllSubmitted, IsOver
    <3>3. AdkPhase = "open" /\ AdkPhase' = "open"
      BY <1>1, <1>3, <3>2 DEF PhaseFacts
    <3> QED
      BY <2>1, <2>3, <3>1, <3>3 DEF Life!LifeNext, Life!Submitted
  <2>4. CASE e.state # "submitted"
    <3>1. adkStored.state # "none"
      BY <1>1, <2>4 DEF SubmittedFirst, e
    <3>2. ~AllSubmitted'
      BY <2>2, <2>4 DEF AllSubmitted
    <3>3. AdkPhase \in {"open", "working"}
      <4>1. CASE AllSubmitted
        BY <1>1, <1>3, <4>1 DEF PhaseFacts
      <4>2. CASE ~AllSubmitted
        BY <1>1, <1>3, <4>2 DEF PhaseFacts
      <4> QED
        BY <4>1, <4>2
    <3>4. CASE IsOver'
      <4>1. AdkPhase' = "over"
        BY <1>3, <3>4 DEF PhaseFacts
      <4>2. adkStored'.state \in Life!Over \cup Life!Waiting \cup {"working"}
        BY <1>2, <2>1, <2>4 DEF AdkStates, Life!Over, Life!Waiting
      <4> QED
        BY <3>1, <3>3, <4>1, <4>2 DEF Life!LifeNext, Life!Ends
    <3>5. CASE ~IsOver'
      <4>1. AdkPhase' = "working"
        BY <1>1, <1>3, <3>2, <3>5 DEF PhaseFacts
      <4>2. ~e.final
        <5>1. e.final => adkPc = "done" /\ adkQueue' = <<>>
          BY <1>1 DEF QueueInOrder, FinalEvent, e
        <5> QED
          BY <1>1, <2>2, <2>4, <3>5, <5>1 DEF IsOver
      <4>3. adkStored'.state = "working"
        BY <1>1, <2>1, <2>4, <4>2 DEF QueueInOrder, FinalEvent, e
      <4> QED
        BY <3>1, <3>3, <4>1, <4>3 DEF Life!LifeNext, Life!Working
    <3> QED
      BY <3>4, <3>5
  <2> QED
    BY <2>3, <2>4
<1> QED
  BY <1>2, <1>4, <1>5

\* What ends a run leaves something to consume.
LEMMA FinalPublished ==
    ASSUME AdkTypeOK, AdkEnds \/ AdkRaises
    PROVE  adkQueue' # <<>>
<1> DEFINE events == IF AdkEnds
                     THEN IF aggregator.state = "working" /\ aggregator.message
                          THEN <<AdkArtifact, AdkEvent("completed", TRUE)>>
                          ELSE <<AdkEvent(aggregator.state, TRUE)>>
                     ELSE <<AdkEvent("failed", TRUE)>>
<1>1. events \in Seq(AdkEventSet) /\ Len(events) \in {1, 2}
  <2>1. \A s \in AdkStates : <<AdkEvent(s, TRUE)>> \in Seq(AdkEventSet) /\ Len(<<AdkEvent(s, TRUE)>>) = 1
    BY AdkEventType, AdkLists
  <2>2. /\ <<AdkArtifact, AdkEvent("completed", TRUE)>> \in Seq(AdkEventSet)
        /\ Len(<<AdkArtifact, AdkEvent("completed", TRUE)>>) = 2
    BY AdkEventType, AdkLists DEF AdkStates
  <2>3. aggregator.state \in AdkStates /\ "failed" \in AdkStates
    BY DEF AdkTypeOK, AdkStates
  <2> QED
    BY <2>1, <2>2, <2>3
<1>2. adkQueue' = adkQueue \o events
  BY DEF AdkEnds, AdkRaises, Publishes
<1>3. adkQueue \in Seq(AdkEventSet)
  BY AdkTypes
<1> HIDE DEF events
<1>4. /\ Len(adkQueue \o events) = Len(adkQueue) + Len(events)
      /\ Len(adkQueue) \in Nat
  BY <1>1, <1>3, AdkPublished
<1>5. Len(adkQueue \o events) # 0
  BY <1>1, <1>4
<1>6. Len(<<>>) = 0
  OBVIOUS
<1> QED
  BY <1>2, <1>5, <1>6

LEMMA LifeStep ==
    AdkInv /\ AdkInv' /\ [AdkNext]_adkVars => [Life!LifeNext]_(Life!lifeVars)
<1> SUFFICES ASSUME AdkInv, AdkInv', [AdkNext]_adkVars
             PROVE  [Life!LifeNext]_(Life!lifeVars)
  OBVIOUS
<1>t. AdkTypeOK /\ AdkTypeOK' /\ SubmittedFirst /\ QueueInOrder
  BY DEF AdkInv
<1>p. PhaseFacts /\ PhaseFacts'
  BY <1>t, Phases, PhasesThen
<1>1. CASE UNCHANGED adkVars
  <2>1. AdkPhase' = AdkPhase
    BY <1>1 DEF adkVars, AdkPhase
  <2> QED
    BY <1>1, <2>1 DEF adkVars, Life!lifeVars
<1>2. CASE AdkExecute
  <2>1. AllSubmitted' /\ ~IsOver' /\ adkPc' # "idle"
    BY <1>2 DEF AdkExecute, AllSubmitted, IsOver
  <2>2. AdkPhase' = "open" /\ AdkPhase = "closed"
    BY <1>2, <1>p, <2>1 DEF AdkExecute, PhaseFacts
  <2>3. adkStored'.state = adkStored.state /\ adkStored.state \notin Life!Over
    BY <1>2, <1>t DEF AdkExecute, AdkTypeOK, AdkEnded, Life!Over
  <2> QED
    BY <2>2, <2>3 DEF Life!LifeNext, Life!Opened
<1>3. CASE ResolveRunner
  <2>1. AllSubmitted /\ adkTold' = adkTold /\ adkStored' = adkStored /\ adkPc = "resolve" /\ adkPc' # "idle"
    BY <1>3, <1>t DEF ResolveRunner, SubmittedFirst, AllSubmitted
  <2>2. AllSubmitted'
    BY <2>1 DEF AllSubmitted
  <2>3. ~IsOver /\ ~IsOver'
    BY <1>p, <2>1, <2>2 DEF PhaseFacts
  <2> QED
    BY <1>t, <2>1, <2>3, SavesNothing
<1>4. CASE AdkWorks
  BY <1>4, <1>t, SavesNothing DEF AdkWorks, IsOver
<1>5. ASSUME NEW what \in Emits, AdkEmits(what)
      PROVE  [Life!LifeNext]_(Life!lifeVars)
  BY <1>5, <1>t, SavesNothing DEF AdkEmits, IsOver
<1>6. CASE AdkEnds
  <2>1. adkQueue' # <<>>
    BY <1>6, <1>t, FinalPublished DEF AdkEnds
  <2> QED
    BY <1>6, <1>t, <2>1, SavesNothing DEF AdkEnds, IsOver
<1>7. CASE AdkRaises
  <2>1. adkQueue' # <<>>
    BY <1>7, <1>t, FinalPublished DEF AdkRaises
  <2> QED
    BY <1>7, <1>t, <2>1, SavesNothing DEF AdkRaises, IsOver
<1>8. CASE AdkConsume
  BY <1>8, <1>t, ConsumeLives
<1>9. CASE AdkRequestEnds
  <2>1. AdkPhase # "closed" /\ AdkPhase' = "closed" /\ adkStored' = adkStored
    BY <1>9, <1>p DEF AdkRequestEnds, PhaseFacts
  <2> QED
    BY <2>1 DEF Life!LifeNext, Life!Closed
<1> QED
  BY <1>1, <1>2, <1>3, <1>4, <1>5, <1>6, <1>7, <1>8, <1>9 DEF AdkNext

\* Every run of the ADK engine is a life that TaskLife allows: submitted at most
\* once and before it works, and no waiting or finished state before the last save
\* of a request, however consumer and executor interleave
\* (_agent_executor.py:96-290, _task_result_aggregator.py:12-38).
THEOREM TaskLifeImplemented ==
    AdkSpec => LifeOfTask
<1>1. AdkInit => Life!LifeInit
  BY DEF AdkInit, Life!LifeInit, AdkPhase
<1> QED
  BY <1>1, LifeStep, AdkInvKept, PTL DEF AdkSpec, LifeOfTask, Life!LifeSpec

----------------------------------------------------------------------------
(* Sessions: rows in the order of their creation. *)

\* The rows of a table, each with an instant of its own, newest first: each is in
\* the list once, behind those that are newer.
LEMMA NewestFirstSorted ==
    ASSUME NEW S, IsFiniteSet(S), \A r \in S : r.at \in Nat,
           \A r, o \in S : r.at = o.at => r = o
    PROVE  /\ Cardinality(S) \in Nat
           /\ \A i \in 1..Cardinality(S) : NewestFirst(S)[i] \in S
           /\ \A r \in S : \E i \in 1..Cardinality(S) : NewestFirst(S)[i] = r
           /\ \A i, j \in 1..Cardinality(S) : i < j => NewestFirst(S)[i].at > NewestFirst(S)[j].at
<1> DEFINE n == Cardinality(S)
           newer(r) == {o \in S : o.at >= r.at}
           rank == [r \in S |-> Cardinality(newer(r))]
           s == NewestFirst(S)
<1>1. n \in Nat
  BY FS_CardinalityType
<1>2. ASSUME NEW r \in S
      PROVE  IsFiniteSet(newer(r)) /\ rank[r] \in 1..n /\ rank[r] \in Nat
  <2>1. newer(r) \in SUBSET S /\ r \in newer(r)
    OBVIOUS
  <2>2. IsFiniteSet(newer(r)) /\ Cardinality(newer(r)) <= n
    BY <2>1, FS_Subset
  <2>3. Cardinality(newer(r)) \in Nat /\ Cardinality(newer(r)) # 0
    BY <2>1, <2>2, FS_CardinalityType, FS_EmptySet
  <2> QED
    BY <1>1, <2>2, <2>3
<1>3. ASSUME NEW r \in S, NEW o \in S, r.at > o.at
      PROVE  rank[r] < rank[o]
  <2>1. newer(r) \in SUBSET newer(o) /\ o \notin newer(r) /\ o \in newer(o)
    BY <1>3
  <2>2. IsFiniteSet(newer(o)) /\ rank[r] \in Nat /\ rank[o] \in Nat
    BY <1>2
  <2>3. /\ Cardinality(newer(r)) <= Cardinality(newer(o))
        /\ Cardinality(newer(o)) = Cardinality(newer(r)) => newer(o) = newer(r)
    BY <2>1, <2>2, FS_Subset
  <2>4. rank[r] <= rank[o] /\ rank[o] # rank[r]
    BY <2>1, <2>3
  <2> QED
    BY <2>2, <2>4
<1> HIDE DEF rank
<1>4. ASSUME NEW r \in S, NEW o \in S, rank[r] = rank[o]
      PROVE  r = o
  <2>1. r.at \in Nat /\ o.at \in Nat /\ rank[r] \in Nat
    BY <1>2
  <2>2. ~(r.at > o.at) /\ ~(o.at > r.at)
    BY <1>3, <1>4, <2>1
  <2> QED
    BY <2>1, <2>2
<1>5. \A i \in 1..n : \E r \in S : rank[r] = i
  <2>1. rank \in Injection(S, 1..n)
    BY <1>2, <1>4 DEF Injection, IsInjective, rank
  <2>2. IsFiniteSet(1..n) /\ Cardinality(1..n) = n
    BY <1>1, FS_Interval
  <2>3. rank \in Surjection(S, 1..n)
    BY <2>1, <2>2, FS_Injection
  <2> QED
    BY <2>3 DEF Surjection
<1>6. ASSUME NEW i \in 1..n
      PROVE  s[i] \in S /\ rank[s[i]] = i
  <2>1. s[i] = CHOOSE r \in S : Cardinality(newer(r)) = i
    BY DEF NewestFirst
  <2>2. \E r \in S : Cardinality(newer(r)) = i
    BY <1>5 DEF rank
  <2> QED
    BY <2>1, <2>2 DEF rank
<1>7. ASSUME NEW r \in S PROVE \E i \in 1..n : s[i] = r
  BY <1>2, <1>4, <1>6
<1>8. ASSUME NEW i \in 1..n, NEW j \in 1..n, i < j PROVE s[i].at > s[j].at
  <2>1. s[i] \in S /\ s[j] \in S /\ rank[s[i]] < rank[s[j]]
    BY <1>6, <1>8
  <2> HIDE DEF s
  <2>2. s[i].at \in Nat /\ s[j].at \in Nat /\ s[i].at # s[j].at
    BY <1>1, <1>6, <1>8, <2>1
  <2>3. ~(s[j].at > s[i].at)
    BY <1>1, <1>6, <1>3, <1>8, <2>1
  <2> QED
    BY <2>2, <2>3
<1> QED
  BY <1>1, <1>6, <1>7, <1>8

----------------------------------------------------------------------------
(* Sessions: the inductive invariant. *)

EventIds == {r.row.id : r \in evts}

RunPcs  == {"idle", "create", "header", "load", "listing", "append"}
PostPcs == {"idle", "check", "store", "stored", "refused"}

SessionRows == [row : SessRow, at : {0}, gone : BOOLEAN]

SessionTyped ==
    /\ run \in [Engines -> [pc : RunPcs, memory : Seq(Nat), acked : SUBSET Nat]]
    /\ post \in [Engines -> [pc : PostPcs, event : Nat]]
    /\ put \in SessRow \cup {NoSession}
    /\ sess = {} \/ \E r : sess = {r}
    /\ sess \subseteq SessionRows
    /\ sent \in 0..MaxEvents /\ edits \in 0..MaxEdits /\ lost \in 0..MaxLost

\* An event is stored once, at an instant of its own.
EventsNumbered ==
    /\ IsFiniteSet(evts) /\ now \in Nat /\ Cardinality(evts) + 1 = now
    /\ \A r \in evts : r.at \in Nat /\ r.at < now /\ r.row.id \in 1..sent /\ r.gone = FALSE
    /\ \A r, o \in evts : (r.row.id = o.row.id \/ r.at = o.at) => r = o

\* The handler for e has an event that was sent once; while e prepares its session
\* there is none at work.
Unstored(e) == post[e].pc \in {"check", "store"}
PostOk(e) ==
    /\ post[e].pc # "idle" => post[e].event \in 1..sent
    /\ Unstored(e) => post[e].event \notin EventIds
    /\ post[e].pc = "stored" => post[e].event \in EventIds
    /\ run[e].pc \in {"create", "load", "listing"} => post[e].pc = "idle"
SentOnce ==
    \A e, f \in Engines : (Unstored(e) /\ Unstored(f) /\ post[e].event = post[f].event) => e = f

\* An event that was stored and not acknowledged yet is newer than all in memory.
RunOk(e) ==
    /\ \A i \in DOMAIN run[e].memory : run[e].memory[i] \in EventIds
    /\ run[e].acked \subseteq EventIds
    /\ run[e].pc \in {"load", "listing"} => run[e].acked # {}
    /\ run[e].pc = "append" =>
        /\ run[e].acked \subseteq Range(run[e].memory)
        /\ \E loaded \in 0..Len(run[e].memory) :
              LoadedThenAdded(evts, run[e].memory, run[e].acked, loaded)
        /\ post[e].pc = "stored" =>
              \A i \in DOMAIN run[e].memory :
                  CreatedAt(evts, run[e].memory[i]) < CreatedAt(evts, post[e].event)

SessionInv ==
    /\ SessionTyped /\ EventsNumbered /\ SentOnce
    /\ \A e \in Engines : PostOk(e) /\ RunOk(e)

\* The session has one row.
LEMMA SavedSession ==
    ASSUME SessionTyped, NEW row \in SessRow, sess' = Saved(sess, {"id"}, row, 0)
    PROVE  /\ \E r : sess' = {r}
           /\ sess' \subseteq SessionRows
<1> DEFINE old == {r \in sess : Key({"id"}, r.row) = Key({"id"}, row)}
           a == IF old = {} THEN 0 ELSE (CHOOSE r \in old : TRUE).at
           new == [row |-> row, at |-> a, gone |-> FALSE]
<1>1. old = sess
  BY DEF SessionTyped, SessionRows, SessRow, Key
<1>2. Saved(sess, {"id"}, row, 0) = (sess \ old) \cup {new}
  BY DEF Saved
<1>3. a = 0
  BY <1>1 DEF SessionTyped, SessionRows
<1>4. new \in SessionRows
  BY <1>3 DEF SessionRows
<1> HIDE DEF old, new
<1>5. sess' = {new}
  BY <1>1, <1>2
<1> QED
  BY <1>4, <1>5

\* A handler that stores a new event adds one row.
LEMMA SavedEvent ==
    ASSUME EventsNumbered, NEW x, x \notin EventIds
    PROVE  Saved(evts, {"id"}, [id |-> x], now)
             = evts \cup {[row |-> [id |-> x], at |-> now, gone |-> FALSE]}
<1> DEFINE old == {r \in evts : Key({"id"}, r.row) = Key({"id"}, [id |-> x])}
           a == IF old = {} THEN now ELSE (CHOOSE r \in old : TRUE).at
<1>1. old = {}
  BY DEF EventIds, Key
<1>2. Saved(evts, {"id"}, [id |-> x], now)
        = (evts \ old) \cup {[row |-> [id |-> x], at |-> a, gone |-> FALSE]}
  BY DEF Saved
<1>3. a = now
  BY <1>1
<1> HIDE DEF old, a
<1> QED
  BY <1>1, <1>2, <1>3

LEMMA AtIs ==
    ASSUME EventsNumbered, NEW r \in evts
    PROVE  CreatedAt(evts, r.row.id) = r.at /\ r.row.id \in EventIds
<1>1. (CHOOSE o \in evts : o.row.id = r.row.id) = r
  BY DEF EventsNumbered
<1> QED
  BY <1>1 DEF CreatedAt, EventIds

\* What an engine knows stays right as long as the events' table does.
LEMMA RunStays ==
    ASSUME evts' = evts, NEW e, run'[e] = run[e], RunOk(e),
           post'[e] = post[e] \/ post'[e].pc # "stored"
    PROVE  RunOk(e)'
<1>1. EventIds' = EventIds
  BY DEF EventIds
<1> QED
  BY <1>1 DEF RunOk

LEMMA RunRests ==
    ASSUME evts' = evts, NEW e, run'[e].pc # "append",
           \A i \in DOMAIN run'[e].memory : run'[e].memory[i] \in EventIds,
           run'[e].acked \subseteq EventIds, run'[e].pc \in {"load", "listing"} => run'[e].acked # {}
    PROVE  RunOk(e)'
<1>1. EventIds' = EventIds
  BY DEF EventIds
<1> QED
  BY <1>1 DEF RunOk

LEMMA PostStays ==
    ASSUME evts' = evts, NEW e, run'[e] = run[e], post'[e] = post[e], PostOk(e),
           sent \in Nat, sent' \in Nat, sent <= sent'
    PROVE  PostOk(e)'
<1>1. EventIds' = EventIds /\ \A i \in 1..sent : i \in 1..sent'
  BY DEF EventIds
<1> QED
  BY <1>1 DEF PostOk, Unstored

LEMMA InitSessionInv == SessionInit => SessionInv
<1> SUFFICES ASSUME SessionInit PROVE SessionInv
  OBVIOUS
<1>1. /\ sess = {} /\ evts = {} /\ now = 1 /\ sent = 0 /\ put = NoSession
      /\ \A e \in Engines : run[e] = Resting /\ post[e] = NoPost
      /\ run = [e \in Engines |-> Resting] /\ post = [e \in Engines |-> NoPost]
      /\ edits = MaxEdits /\ lost = MaxLost
  BY DEF SessionInit
<1>2. /\ Resting \in [pc : RunPcs, memory : Seq(Nat), acked : SUBSET Nat]
      /\ Resting.pc = "idle" /\ Resting.memory = <<>> /\ Resting.acked = {}
      /\ NoPost \in [pc : PostPcs, event : Nat] /\ NoPost.pc = "idle"
  BY DEF Resting, NoPost, RunPcs, PostPcs
<1>3. SessionTyped
  BY <1>1, <1>2, SessionsAssumption DEF SessionTyped
<1>4. EventsNumbered
  BY <1>1, FS_EmptySet DEF EventsNumbered
<1>5. SentOnce
  BY <1>1, <1>2 DEF SentOnce, Unstored
<1>6. \A e \in Engines : PostOk(e) /\ RunOk(e)
  BY <1>1, <1>2 DEF PostOk, RunOk, Unstored
<1> QED
  BY <1>3, <1>4, <1>5, <1>6 DEF SessionInv

\* A step of one engine, or of its handler, that leaves the events' table alone.
LEMMA OneMoves ==
    ASSUME SessionInv, NEW e \in Engines, UNCHANGED <<evts, now>>, sent' \in Nat, sent <= sent',
           \A f \in Engines : f # e => run'[f] = run[f] /\ post'[f] = post[f],
           SessionTyped', PostOk(e)', RunOk(e)',
           Unstored(e)' => \/ Unstored(e) /\ post'[e].event = post[e].event
                           \/ post'[e].event = sent + 1
    PROVE  SessionInv'
<1>1. sent \in Nat
  BY SessionsAssumption DEF SessionInv, SessionTyped
<1>2. \A f \in Engines : PostOk(f)' /\ RunOk(f)'
  <2> SUFFICES ASSUME NEW f \in Engines, f # e PROVE PostOk(f)' /\ RunOk(f)'
    OBVIOUS
  <2>1. PostOk(f) /\ RunOk(f) /\ run'[f] = run[f] /\ post'[f] = post[f]
    BY DEF SessionInv
  <2> QED
    BY <1>1, <2>1, PostStays, RunStays
<1>3. EventsNumbered'
  BY <1>1 DEF SessionInv, EventsNumbered
<1>4. SentOnce'
  <2> SUFFICES ASSUME NEW f \in Engines, NEW g \in Engines, Unstored(f)', Unstored(g)',
                      post'[f].event = post'[g].event, f # g
               PROVE  FALSE
    BY DEF SentOnce
  <2>1. ASSUME NEW h \in Engines, h # e, Unstored(h)'
        PROVE  Unstored(h) /\ post'[h] = post[h] /\ post[h].event \in 1..sent
    BY <2>1 DEF Unstored, SessionInv, PostOk
  <2>2. ASSUME NEW h \in Engines, h # e, Unstored(h)', Unstored(e)', post'[h].event = post'[e].event
        PROVE  FALSE
    <3>1. Unstored(h) /\ post[h].event = post'[e].event /\ post[h].event \in 1..sent
      BY <2>1, <2>2
    <3>2. post'[e].event # sent + 1
      BY <1>1, <3>1
    <3>3. Unstored(e) /\ post[e].event = post[h].event
      BY <2>2, <3>1, <3>2
    <3> QED
      BY <2>2, <3>1, <3>3 DEF SessionInv, SentOnce
  <2>3. CASE f = e
    BY <2>2, <2>3
  <2>4. CASE g = e
    BY <2>2, <2>4
  <2>5. CASE f # e /\ g # e
    BY <2>1, <2>5 DEF SessionInv, SentOnce
  <2> QED
    BY <2>3, <2>4, <2>5
<1> QED
  BY <1>2, <1>3, <1>4 DEF SessionInv

\* The user's requests do not touch events, engines and their handlers.
LEMMA UserKeeps ==
    ASSUME SessionInv, UNCHANGED <<evts, now, sent, run, post>>, SessionTyped'
    PROVE  SessionInv'
<1>1. sent \in Nat
  BY SessionsAssumption DEF SessionInv, SessionTyped
<1>2. \A e \in Engines : PostOk(e)' /\ RunOk(e)'
  BY <1>1, PostStays, RunStays DEF SessionInv
<1>3. EventsNumbered' /\ SentOnce'
  BY DEF SessionInv, EventsNumbered, SentOnce, Unstored
<1> QED
  BY <1>2, <1>3 DEF SessionInv

LEMMA UserSteps ==
    ASSUME SessionInv,
           \/ UserDeletes \/ UpdateStores
           \/ \E e \in Engines : UserCreates(e) \/ UpdateReads(e)
    PROVE  SessionInv'
<1>1. SessionTyped
  BY DEF SessionInv
<1>2. ASSUME Edit PROVE edits' \in 0..MaxEdits
  BY <1>1, <1>2, SessionsAssumption DEF Edit, SessionTyped
<1>3. CASE UserDeletes
  <2>1. /\ sess' = Deleted(sess, [id |-> "s"])
        /\ Edit /\ UNCHANGED <<evts, now, sent, run, post, put, lost>>
    BY <1>3 DEF UserDeletes
  <2>2. sess' = {} \/ \E r : sess' = {r}
    <3> DEFINE gone(r) == IF Matches(r.row, [id |-> "s"]) THEN [r EXCEPT !.gone = TRUE] ELSE r
    <3>1. sess' = {gone(r) : r \in sess}
      BY <2>1 DEF Deleted
    <3> HIDE DEF gone
    <3>2. CASE sess = {}
      BY <3>1, <3>2
    <3>3. ASSUME NEW o, sess = {o} PROVE sess' = {gone(o)}
      BY <3>1, <3>3
    <3> QED
      BY <1>1, <3>2, <3>3 DEF SessionTyped
  <2>3. sess' \subseteq SessionRows
    <3> SUFFICES ASSUME NEW r \in sess' PROVE r \in SessionRows
      OBVIOUS
    <3>1. PICK o \in sess : r = IF Matches(o.row, [id |-> "s"]) THEN [o EXCEPT !.gone = TRUE] ELSE o
      BY <2>1 DEF Deleted
    <3>2. o \in SessionRows
      BY <1>1 DEF SessionTyped
    <3> QED
      BY <3>1, <3>2 DEF SessionRows
  <2>4. SessionTyped'
    BY <1>1, <1>2, <2>1, <2>2, <2>3 DEF SessionTyped
  <2> QED
    BY <2>1, <2>4, UserKeeps
<1>4. CASE UpdateStores
  <2>1. /\ sess' = Saved(sess, {"id"}, put, 0) /\ put \in SessRow /\ put' = NoSession
        /\ UNCHANGED <<evts, now, sent, run, post, edits, lost>>
    BY <1>1, <1>4 DEF UpdateStores, SessionTyped
  <2>2. /\ \E r : sess' = {r}
        /\ sess' \subseteq SessionRows
    BY <1>1, <2>1, SavedSession
  <2>3. SessionTyped'
    BY <1>1, <2>1, <2>2 DEF SessionTyped
  <2> QED
    BY <2>1, <2>3, UserKeeps
<1>5. ASSUME NEW e \in Engines, UserCreates(e) PROVE SessionInv'
  <2>1. /\ sess' = Saved(sess, {"id"}, [id |-> "s", agent |-> e], 0)
        /\ [id |-> "s", agent |-> e] \in SessRow
        /\ Edit /\ UNCHANGED <<evts, now, sent, run, post, put, lost>>
    BY <1>5 DEF UserCreates, SessRow
  <2>2. /\ \E r : sess' = {r}
        /\ sess' \subseteq SessionRows
    BY <1>1, <2>1, SavedSession
  <2>3. SessionTyped'
    BY <1>1, <1>2, <2>1, <2>2 DEF SessionTyped
  <2> QED
    BY <2>1, <2>3, UserKeeps
<1>6. ASSUME NEW e \in Engines, UpdateReads(e) PROVE SessionInv'
  <2>1. /\ SessionLive /\ put' = [SessionRow EXCEPT !.agent = e]
        /\ Edit /\ UNCHANGED <<sess, evts, now, sent, run, post, lost>>
    BY <1>6 DEF UpdateReads
  <2>2. \E r \in sess : ~r.gone
    BY <2>1 DEF SessionLive, Found
  <2>3. SessionRow \in SessRow
    BY <1>1, <2>2 DEF SessionTyped, SessionRow, SessionRows
  <2>4. put' \in SessRow
    BY <2>1, <2>3 DEF SessRow
  <2>5. SessionTyped'
    BY <1>1, <1>2, <2>1, <2>4 DEF SessionTyped
  <2> QED
    BY <2>1, <2>5, UserKeeps
<1> QED
  BY <1>3, <1>4, <1>5, <1>6

\* The handler of an event: what it finds out about the session changes no table.
LEMMA EventCheckedKeeps ==
    ASSUME SessionInv, NEW e \in Engines, EventChecked(e)
    PROVE  SessionInv'
<1>1. SessionTyped /\ PostOk(e) /\ RunOk(e)
  BY DEF SessionInv
<1>a. post[e] \in [pc : PostPcs, event : Nat] /\ sent \in Nat
  BY <1>1, SessionsAssumption DEF SessionTyped
<1>2. /\ post[e].pc = "check" /\ UNCHANGED <<sess, evts, now, sent, run, put, edits, lost>>
      /\ \E nxt \in {"store", "refused"} : post' = [post EXCEPT ![e].pc = nxt]
  BY DEF EventChecked, Handler
<1>3. PICK nxt \in {"store", "refused"} : post' = [post EXCEPT ![e].pc = nxt]
  BY <1>2
<1>4. post'[e].pc = nxt /\ post'[e].event = post[e].event /\ \A f \in Engines : f # e => post'[f] = post[f]
  BY <1>1, <1>3 DEF SessionTyped
<1>5. SessionTyped'
  BY <1>1, <1>2, <1>3 DEF SessionTyped, PostPcs
<1>6. RunOk(e)'
  BY <1>1, <1>2, <1>4, RunStays
<1>7. PostOk(e)'
  <2>1. EventIds' = EventIds
    BY <1>2 DEF EventIds
  <2> QED
    BY <1>1, <1>a, <1>2, <1>4, <2>1 DEF PostOk, Unstored
<1>8. Unstored(e) /\ post'[e].event = post[e].event
  BY <1>2, <1>4 DEF Unstored
<1> QED
  BY <1>1, <1>a, <1>2, <1>4, <1>5, <1>6, <1>7, <1>8, OneMoves

\* An engine between two runs, or before it has loaded the session.
LEMMA RestingKeeps ==
    ASSUME SessionInv, NEW e \in Engines, UNCHANGED <<evts, now, sent>>, SessionTyped',
           \A f \in Engines : f # e => run'[f] = run[f] /\ post'[f] = post[f],
           run'[e].pc # "append",
           (run'[e].memory = <<>> /\ run'[e].acked = {})
             \/ (run'[e].memory = run[e].memory /\ run'[e].acked = run[e].acked),
           post'[e] = post[e] \/ post'[e].pc = "idle",
           run'[e].pc \in {"create", "load", "listing"} => post'[e].pc = "idle",
           run'[e].pc \in {"load", "listing"} => run[e].pc = "load" /\ run'[e].acked = run[e].acked
    PROVE  SessionInv'
<1>1. /\ PostOk(e) /\ RunOk(e) /\ sent \in Nat
  BY SessionsAssumption DEF SessionInv, SessionTyped
<1>2. \A i \in DOMAIN run'[e].memory : run'[e].memory[i] \in EventIds
  BY <1>1 DEF RunOk
<1>3. run'[e].acked \subseteq EventIds
  BY <1>1 DEF RunOk
<1>a. run'[e].pc \in {"load", "listing"} => run'[e].acked # {}
  BY <1>1 DEF RunOk
<1>4. RunOk(e)'
  BY <1>2, <1>3, <1>a, RunRests
<1>5. PostOk(e)'
  <2>1. EventIds' = EventIds
    BY DEF EventIds
  <2> QED
    BY <1>1, <2>1 DEF PostOk, Unstored
<1>6. Unstored(e)' => Unstored(e) /\ post'[e].event = post[e].event
  BY DEF Unstored
<1> QED
  BY <1>1, <1>4, <1>5, <1>6, OneMoves

LEMMA RestingSteps ==
    ASSUME SessionInv, NEW e \in Engines,
           \/ Prepare(e) \/ EngineCreates(e) \/ Refused(e) \/ GivesUp(e)
           \/ HandlerEnds(e) \/ Load(e) \/ RunEnds(e)
    PROVE  SessionInv'
<1> DEFINE RunRec  == [pc : RunPcs, memory : Seq(Nat), acked : SUBSET Nat]
           PostRec == [pc : PostPcs, event : Nat]
<1>1. /\ SessionTyped /\ PostOk(e) /\ run[e] \in RunRec /\ post[e] \in PostRec
      /\ run \in [Engines -> RunRec] /\ post \in [Engines -> PostRec]
  BY DEF SessionInv, SessionTyped
<1>2. /\ \A nxt \in RunPcs : [Resting EXCEPT !.pc = nxt] \in RunRec
      /\ \A nxt \in RunPcs : /\ [Resting EXCEPT !.pc = nxt].pc = nxt
                 /\ [Resting EXCEPT !.pc = nxt].memory = <<>>
                 /\ [Resting EXCEPT !.pc = nxt].acked = {}
      /\ Resting \in RunRec /\ Resting.pc = "idle" /\ Resting.memory = <<>> /\ Resting.acked = {}
      /\ NoPost \in PostRec /\ NoPost.pc = "idle"
  <2>1. Resting \in RunRec /\ Resting.pc = "idle" /\ Resting.memory = <<>> /\ Resting.acked = {}
    BY DEF Resting, RunPcs
  <2>2. NoPost \in PostRec /\ NoPost.pc = "idle"
    BY DEF NoPost, PostPcs
  <2>3. \A nxt \in RunPcs : /\ [Resting EXCEPT !.pc = nxt].pc = nxt
                          /\ [Resting EXCEPT !.pc = nxt].memory = <<>>
                          /\ [Resting EXCEPT !.pc = nxt].acked = {}
    BY <2>1
  <2>4. \A nxt \in RunPcs : [Resting EXCEPT !.pc = nxt] \in RunRec
    BY <2>1
  <2> QED
    BY <2>1, <2>2, <2>3, <2>4
<1>3. CASE Prepare(e)
  <2>1. /\ post[e].pc = "idle" /\ UNCHANGED <<sess, evts, now, sent, post, put, edits, lost>>
        /\ \E nxt \in {"header", "create"} : run' = [run EXCEPT ![e] = [Resting EXCEPT !.pc = nxt]]
    BY <1>3 DEF Prepare
  <2>2. PICK nxt \in {"header", "create"} : run' = [run EXCEPT ![e] = [Resting EXCEPT !.pc = nxt]]
    BY <2>1
  <2>3. nxt \in RunPcs /\ nxt # "append"
    BY DEF RunPcs
  <2>4. /\ run'[e].pc = nxt /\ run'[e].memory = <<>> /\ run'[e].acked = {}
        /\ \A f \in Engines : f # e => run'[f] = run[f]
        /\ run' \in [Engines -> RunRec]
    BY <1>1, <1>2, <2>2, <2>3
  <2>5. SessionTyped'
    BY <1>1, <2>1, <2>4 DEF SessionTyped
  <2> QED
    BY <2>1, <2>3, <2>4, <2>5, RestingKeeps
<1>4. CASE EngineCreates(e)
  <2>1. /\ run[e].pc = "create" /\ UNCHANGED <<evts, now, sent, post, put, edits, lost>>
        /\ sess' = Saved(sess, {"id"}, [id |-> "s", agent |-> e], 0)
        /\ [id |-> "s", agent |-> e] \in SessRow
        /\ run' = [run EXCEPT ![e].pc = "header"]
    BY <1>4 DEF EngineCreates, Go, SessRow
  <2>2. /\ \E r : sess' = {r}
        /\ sess' \subseteq SessionRows
    BY <1>1, <2>1, SavedSession
  <2>3. /\ run'[e].pc = "header" /\ run'[e].memory = run[e].memory /\ run'[e].acked = run[e].acked
        /\ \A f \in Engines : f # e => run'[f] = run[f]
        /\ run' \in [Engines -> RunRec]
    BY <1>1, <2>1 DEF RunPcs
  <2>4. SessionTyped'
    BY <1>1, <2>1, <2>2, <2>3 DEF SessionTyped
  <2> QED
    BY <2>1, <2>3, <2>4, RestingKeeps
<1>5. CASE Refused(e)
  <2>1. /\ UNCHANGED <<sess, evts, now, sent, put, edits, lost>>
        /\ run' = [run EXCEPT ![e] = Resting] /\ post' = [post EXCEPT ![e] = NoPost]
    BY <1>5 DEF Refused
  <2>2. /\ run'[e] = Resting /\ post'[e] = NoPost
        /\ \A f \in Engines : f # e => run'[f] = run[f] /\ post'[f] = post[f]
        /\ run' \in [Engines -> RunRec] /\ post' \in [Engines -> PostRec]
    BY <1>1, <1>2, <2>1
  <2>3. SessionTyped'
    BY <1>1, <2>1, <2>2 DEF SessionTyped
  <2> QED
    BY <1>2, <2>1, <2>2, <2>3, RestingKeeps
<1>6. CASE GivesUp(e)
  <2>1. /\ UNCHANGED <<sess, evts, now, sent, post, put, edits>> /\ lost' \in 0..MaxLost
        /\ run' = [run EXCEPT ![e] = Resting]
    BY <1>1, <1>6, SessionsAssumption DEF GivesUp, SessionTyped
  <2>2. /\ run'[e] = Resting
        /\ \A f \in Engines : f # e => run'[f] = run[f]
        /\ run' \in [Engines -> RunRec]
    BY <1>1, <1>2, <2>1
  <2>3. SessionTyped'
    BY <1>1, <2>1, <2>2 DEF SessionTyped
  <2> QED
    BY <1>2, <2>1, <2>2, <2>3, RestingKeeps
<1>7. CASE HandlerEnds(e)
  <2>1. /\ UNCHANGED <<sess, evts, now, sent, run, put, edits, lost>> /\ run[e].pc = "idle"
        /\ post' = [post EXCEPT ![e] = NoPost]
    BY <1>7 DEF HandlerEnds
  <2>2. /\ post'[e] = NoPost
        /\ \A f \in Engines : f # e => post'[f] = post[f]
        /\ post' \in [Engines -> PostRec]
    BY <1>1, <1>2, <2>1
  <2>3. SessionTyped'
    BY <1>1, <2>1, <2>2 DEF SessionTyped
  <2> QED
    BY <1>2, <2>1, <2>2, <2>3, RestingKeeps
<1>8. CASE Load(e)
  <2>1. /\ UNCHANGED <<sess, evts, now, sent, post, put, edits, lost>> /\ run[e].pc = "load"
        /\ \/ run' = [run EXCEPT ![e] = [@ EXCEPT !.pc = "listing"]]
           \/ run' = [run EXCEPT ![e] = Resting]
    BY <1>8 DEF Load
  <2>2. post[e].pc = "idle"
    BY <1>1, <2>1 DEF PostOk
  <2>3. CASE run' = [run EXCEPT ![e] = [@ EXCEPT !.pc = "listing"]]
    <3>1. /\ run'[e].pc = "listing" /\ run'[e].memory = run[e].memory /\ run'[e].acked = run[e].acked
          /\ \A f \in Engines : f # e => run'[f] = run[f]
          /\ run' \in [Engines -> RunRec]
      BY <1>1, <2>3 DEF RunPcs
    <3>2. SessionTyped'
      BY <1>1, <2>1, <3>1 DEF SessionTyped
    <3> QED
      BY <2>1, <2>2, <3>1, <3>2, RestingKeeps
  <2>4. CASE run' = [run EXCEPT ![e] = Resting]
    <3>1. /\ run'[e] = Resting
          /\ \A f \in Engines : f # e => run'[f] = run[f]
          /\ run' \in [Engines -> RunRec]
      BY <1>1, <1>2, <2>4
    <3>2. SessionTyped'
      BY <1>1, <2>1, <3>1 DEF SessionTyped
    <3> QED
      BY <1>2, <2>1, <3>1, <3>2, RestingKeeps
  <2> QED
    BY <2>1, <2>3, <2>4
<1>9. CASE RunEnds(e)
  <2>1. /\ UNCHANGED <<sess, evts, now, sent, post, put, edits, lost>>
        /\ run' = [run EXCEPT ![e] = Resting]
    BY <1>9 DEF RunEnds
  <2>2. /\ run'[e] = Resting
        /\ \A f \in Engines : f # e => run'[f] = run[f]
        /\ run' \in [Engines -> RunRec]
    BY <1>1, <1>2, <2>1
  <2>3. SessionTyped'
    BY <1>1, <2>1, <2>2 DEF SessionTyped
  <2> QED
    BY <1>2, <2>1, <2>2, <2>3, RestingKeeps
<1> QED
  BY <1>3, <1>4, <1>5, <1>6, <1>7, <1>8, <1>9

----------------------------------------------------------------------------
(* Sessions: events. *)

\* append_event sends an event with a number of its own.
LEMMA SendKeeps ==
    ASSUME SessionInv, NEW e \in Engines, Send(e)
    PROVE  SessionInv'
<1> DEFINE PostRec == [pc : PostPcs, event : Nat]
<1>1. /\ SessionTyped /\ EventsNumbered /\ PostOk(e) /\ RunOk(e)
      /\ post \in [Engines -> PostRec]
  BY DEF SessionInv, SessionTyped
<1>a. sent \in 0..MaxEvents /\ sent \in Nat /\ MaxEvents \in Nat
  BY <1>1, SessionsAssumption DEF SessionTyped
<1>2. /\ run[e].pc \in {"header", "append"} /\ sent < MaxEvents /\ sent' = sent + 1
      /\ post' = [post EXCEPT ![e] = [pc |-> "check", event |-> sent + 1]]
      /\ UNCHANGED <<sess, evts, now, run, put, edits, lost>>
  BY DEF Send
<1>3. [pc |-> "check", event |-> sent + 1] \in PostRec
  BY <1>a DEF PostPcs
<1>4. /\ post'[e].pc = "check" /\ post'[e].event = sent + 1
      /\ \A f \in Engines : f # e => post'[f] = post[f]
      /\ post' \in [Engines -> PostRec]
  BY <1>1, <1>2, <1>3
<1>b. sent' \in 0..MaxEvents /\ sent' \in Nat /\ sent <= sent'
  BY <1>a, <1>2
<1>5. SessionTyped'
  BY <1>1, <1>2, <1>4, <1>b DEF SessionTyped
<1>6. RunOk(e)'
  BY <1>1, <1>2, <1>4, RunStays
<1>7. PostOk(e)'
  <2>1. EventIds' = EventIds /\ sent + 1 \notin EventIds
    BY <1>1, <1>a, <1>2 DEF EventIds, EventsNumbered
  <2> QED
    BY <1>a, <1>2, <1>4, <2>1 DEF PostOk, Unstored
<1> QED
  BY <1>2, <1>4, <1>b, <1>5, <1>6, <1>7, OneMoves

LEMMA AddedToLoaded ==
    ASSUME NEW E, NEW m \in Seq(Nat), NEW x \in Nat, NEW a, NEW loaded \in 0..Len(m),
           LoadedThenAdded(E, m, a, loaded),
           \A i \in DOMAIN m : CreatedAt(E, m[i]) < CreatedAt(E, x)
    PROVE  LoadedThenAdded(E, Append(m, x), a \cup {x}, loaded)
<1> DEFINE n == Len(m)
           s == Append(m, x)
<1>1. n \in Nat /\ DOMAIN m = 1..n /\ loaded \in 0..n
  BY LenProperties
<1>2. Len(s) = n + 1 /\ s[n + 1] = x /\ \A i \in 1..n : s[i] = m[i]
  BY AppendProperties
<1>3. /\ \E i \in 1..loaded : m[i] \in a
      /\ \A r \in E, i \in 1..loaded : r.at <= CreatedAt(E, m[i]) => \E j \in 1..loaded : m[j] = r.row.id
      /\ \A i \in 1..n, j \in loaded + 1..n : i < j => CreatedAt(E, m[i]) < CreatedAt(E, m[j])
      /\ \A j \in loaded + 1..n : m[j] \in a
  BY DEF LoadedThenAdded
<1>b. \A i \in 1..n : CreatedAt(E, m[i]) < CreatedAt(E, x)
  BY <1>1
<1> HIDE DEF n, s
<1>4. \A i \in 1..loaded : i \in 1..n /\ s[i] = m[i]
  BY <1>1, <1>2
<1>5. \E i \in 1..loaded : s[i] \in a \cup {x}
  BY <1>3, <1>4
<1>6. \A r \in E, i \in 1..loaded : r.at <= CreatedAt(E, s[i]) => \E j \in 1..loaded : s[j] = r.row.id
  BY <1>3, <1>4
<1>7. ASSUME NEW i \in 1..n + 1, NEW j \in loaded + 1..n + 1, i < j
      PROVE  CreatedAt(E, s[i]) < CreatedAt(E, s[j])
  <2>1. i \in 1..n /\ s[i] = m[i]
    BY <1>1, <1>2, <1>7
  <2>2. CASE j = n + 1
    BY <1>2, <1>b, <2>1, <2>2
  <2>3. CASE j # n + 1
    <3>1. j \in 1..n /\ j \in loaded + 1..n /\ s[j] = m[j]
      BY <1>1, <1>2, <2>3
    <3> QED
      BY <1>3, <1>7, <2>1, <3>1
  <2> QED
    BY <2>2, <2>3
<1>8. ASSUME NEW j \in loaded + 1..n + 1 PROVE s[j] \in a \cup {x}
  <2>1. CASE j = n + 1
    BY <1>2, <2>1
  <2>2. CASE j # n + 1
    <3>1. j \in 1..n /\ j \in loaded + 1..n /\ s[j] = m[j]
      BY <1>1, <1>2, <2>2
    <3> QED
      BY <1>3, <3>1
  <2> QED
    BY <2>1, <2>2
<1>9. LoadedThenAdded(E, s, a \cup {x}, loaded)
  BY <1>2, <1>5, <1>6, <1>7, <1>8 DEF LoadedThenAdded
<1> QED
  BY <1>9 DEF s

LEMMA AckedKeeps ==
    ASSUME SessionInv, NEW e \in Engines, Acked(e)
    PROVE  SessionInv'
<1> DEFINE RunRec  == [pc : RunPcs, memory : Seq(Nat), acked : SUBSET Nat]
           PostRec == [pc : PostPcs, event : Nat]
           m == run[e].memory
           x == post[e].event
           a == run[e].acked
<1>1. /\ SessionTyped /\ EventsNumbered /\ PostOk(e) /\ RunOk(e)
      /\ run[e] \in RunRec /\ run \in [Engines -> RunRec]
      /\ post[e] \in PostRec /\ post \in [Engines -> PostRec]
      /\ m \in Seq(Nat) /\ x \in Nat /\ a \in SUBSET Nat
  <2>1. SessionTyped /\ EventsNumbered /\ PostOk(e) /\ RunOk(e)
    BY DEF SessionInv
  <2>2. run \in [Engines -> RunRec] /\ post \in [Engines -> PostRec]
    BY <2>1 DEF SessionTyped
  <2>3. run[e] \in RunRec /\ post[e] \in PostRec
    BY <2>2
  <2> QED
    BY <2>1, <2>2, <2>3
<1>a. sent \in Nat /\ sent <= sent
  BY <1>1, SessionsAssumption DEF SessionTyped
<1>2. /\ post[e].pc = "stored" /\ run[e].pc \in {"header", "append"}
      /\ run' = [run EXCEPT ![e].pc     = IF @ = "header" THEN "load" ELSE "append",
                            ![e].memory = Append(@, post[e].event),
                            ![e].acked  = @ \cup {post[e].event}]
      /\ post' = [post EXCEPT ![e] = NoPost]
      /\ UNCHANGED <<sess, evts, now, sent, put, edits, lost>>
  BY DEF Acked
<1>3. Append(m, x) \in Seq(Nat) /\ a \cup {x} \in SUBSET Nat /\ NoPost \in PostRec /\ NoPost.pc = "idle"
  BY <1>1 DEF NoPost, PostPcs
<1>4. /\ post'[e] = NoPost
      /\ \A f \in Engines : f # e => run'[f] = run[f] /\ post'[f] = post[f]
      /\ post' \in [Engines -> PostRec]
  BY <1>1, <1>2, <1>3
<1>5. /\ run'[e].memory = Append(m, x) /\ run'[e].acked = a \cup {x}
      /\ run'[e].pc \in {"load", "append"}
      /\ run[e].pc = "header" => run'[e].pc = "load"
  BY <1>1, <1>2
<1>6. run' \in [Engines -> RunRec]
  BY <1>1, <1>2, <1>3 DEF RunPcs
<1>7. SessionTyped'
  BY <1>1, <1>2, <1>4, <1>6 DEF SessionTyped
<1>8. EventIds' = EventIds /\ x \in EventIds /\ \A i \in DOMAIN m : m[i] \in EventIds
  BY <1>1, <1>2 DEF EventIds, PostOk, RunOk
<1> DEFINE n == Len(m)
           s == Append(m, x)
<1>9. /\ n \in Nat /\ DOMAIN m = 1..n /\ Len(s) = n + 1 /\ DOMAIN s = 1..n + 1
      /\ s[n + 1] = x /\ \A i \in 1..n : s[i] = m[i]
  BY <1>1, LenProperties, AppendProperties
<1>10. PostOk(e)'
  BY <1>1, <1>3, <1>4 DEF PostOk, Unstored
<1>11. RunOk(e)'
  <2> HIDE DEF s
  <2>1. \A i \in 1..n + 1 : i = n + 1 \/ i \in 1..n
    BY <1>9
  <2>2. \A i \in DOMAIN s : s[i] \in EventIds
    BY <1>8, <1>9, <2>1
  <2>3. run'[e].memory = s /\ a \cup {x} \subseteq EventIds
    BY <1>1, <1>5, <1>8 DEF s, RunOk
  <2>4. CASE run'[e].pc # "append"
    BY <1>2, <1>5, <2>2, <2>3, <2>4, RunRests
  <2>5. CASE run'[e].pc = "append"
    <3>1. run[e].pc = "append"
      BY <1>2, <1>5, <2>5
    <3>2. PICK loaded \in 0..n : LoadedThenAdded(evts, m, a, loaded)
      BY <1>1, <3>1 DEF RunOk
    <3>3. LoadedThenAdded(evts, s, a \cup {x}, loaded)
      BY <1>1, <1>2, <3>1, <3>2, AddedToLoaded DEF RunOk, s
    <3>4. loaded \in 0..Len(s)
      BY <1>9, <3>2
    <3>5. a \cup {x} \subseteq Range(s)
      <4>1. \A y \in a : \E i \in 1..n : y = m[i]
        BY <1>1, <1>9, <3>1 DEF RunOk, Range
      <4>2. \A i \in 1..n : i \in 1..n + 1 /\ n + 1 \in 1..n + 1
        BY <1>9
      <4>3. n + 1 \in 1..n + 1
        BY <1>9
      <4> QED
        BY <1>9, <4>1, <4>2, <4>3 DEF Range
    <3>6. post'[e].pc # "stored"
      BY <1>3, <1>4
    <3>7. evts' = evts
      BY <1>2
    <3> QED
      BY <1>5, <1>8, <2>2, <2>3, <3>3, <3>4, <3>5, <3>6, <3>7 DEF RunOk
  <2> QED
    BY <2>4, <2>5
<1>12. ~Unstored(e)'
  BY <1>3, <1>4 DEF Unstored
<1> HIDE DEF m, x, a, n, s
<1> QED
  BY <1>a, <1>2, <1>4, <1>7, <1>10, <1>11, <1>12, OneMoves

\* The session is built with what the handler lists and told it again.
LEMMA ListedKeeps ==
    ASSUME SessionInv, NEW e \in Engines, Listed(e)
    PROVE  SessionInv'
<1> DEFINE RunRec == [pc : RunPcs, memory : Seq(Nat), acked : SUBSET Nat]
           n == Cardinality(evts)
           rows == NewestFirst(evts)
           ids == [i \in 1..n |-> rows[i].row.id]
           s == ids \o ids
<1>1. /\ SessionTyped /\ EventsNumbered /\ PostOk(e) /\ RunOk(e)
      /\ run \in [Engines -> RunRec]
  BY DEF SessionInv, SessionTyped
<1>a. sent \in Nat /\ sent <= sent
  BY <1>1, SessionsAssumption DEF SessionTyped
<1>2. /\ run[e].pc = "listing" /\ UNCHANGED <<sess, evts, now, sent, post, put, edits, lost>>
      /\ run' = [run EXCEPT ![e].pc = "append", ![e].memory = s]
  BY DEF Listed
<1>3. post[e].pc = "idle"
  BY <1>1, <1>2 DEF PostOk
<1>4. /\ n \in Nat
      /\ \A i \in 1..n : rows[i] \in evts
      /\ \A r \in evts : \E i \in 1..n : rows[i] = r
      /\ \A i, j \in 1..n : i < j => rows[i].at > rows[j].at
  <2>1. IsFiniteSet(evts) /\ \A r \in evts : r.at \in Nat
    BY <1>1 DEF EventsNumbered
  <2>2. \A r, o \in evts : r.at = o.at => r = o
    BY <1>1 DEF EventsNumbered
  <2> QED
    BY <2>1, <2>2, NewestFirstSorted
<1> HIDE DEF n, rows
<1>5. \A i \in 1..n : /\ ids[i] = rows[i].row.id /\ ids[i] \in EventIds /\ ids[i] \in Nat
                       /\ CreatedAt(evts, ids[i]) = rows[i].at
  <2> SUFFICES ASSUME NEW i \in 1..n
               PROVE  /\ rows[i].row.id \in EventIds /\ rows[i].row.id \in Nat
                      /\ CreatedAt(evts, rows[i].row.id) = rows[i].at
    OBVIOUS
  <2>1. rows[i] \in evts
    BY <1>4
  <2>2. rows[i].row.id \in 1..sent
    BY <1>1, <2>1 DEF EventsNumbered
  <2> QED
    BY <1>1, <1>a, <2>1, <2>2, AtIs
<1>6. \A id \in EventIds : \E i \in 1..n : ids[i] = id
  BY <1>4 DEF EventIds
<1>7. ids \in Seq(Nat) /\ Len(ids) = n
  <2>1. ids \in [1..n -> Nat]
    BY <1>5
  <2> QED
    BY <1>4, <2>1, SeqDef, LenProperties
<1> HIDE DEF ids
<1>8. /\ s \in Seq(Nat) /\ Len(s) = n + n /\ DOMAIN s = 1..n + n
      /\ \A i \in 1..n : s[i] = ids[i] /\ s[i + n] = ids[i]
  <2>1. /\ s \in Seq(Nat) /\ Len(s) = n + n
        /\ \A i \in 1..n + n : s[i] = IF i <= n THEN ids[i] ELSE ids[i - n]
    BY <1>7, ConcatProperties
  <2>2. DOMAIN s = 1..n + n
    BY <2>1, LenProperties
  <2>3. \A i \in 1..n : i \in 1..n + n /\ i <= n /\ i + n \in 1..n + n /\ ~(i + n <= n) /\ (i + n) - n = i
    BY <1>4
  <2> QED
    BY <2>1, <2>2, <2>3
<1> HIDE DEF s
<1>9. /\ run'[e].pc = "append" /\ run'[e].memory = s /\ run'[e].acked = run[e].acked
      /\ \A f \in Engines : f # e => run'[f] = run[f]
      /\ run' \in [Engines -> RunRec]
  BY <1>1, <1>2, <1>8 DEF RunPcs
<1>10. SessionTyped'
  BY <1>1, <1>2, <1>9 DEF SessionTyped
<1>11. EventIds' = EventIds
  BY <1>2 DEF EventIds
<1>12. PostOk(e)'
  BY <1>2, <1>3 DEF PostOk, Unstored
<1>13. \A i \in 1..n + n : i \in 1..n \/ \E j \in 1..n : i = j + n
  <2> SUFFICES ASSUME NEW i \in 1..n + n, i \notin 1..n PROVE \E j \in 1..n : i = j + n
    OBVIOUS
  <2>1. i - n \in 1..n /\ i = (i - n) + n
    BY <1>4
  <2> QED
    BY <2>1
<1>14. \A i \in DOMAIN s : s[i] \in EventIds
  BY <1>5, <1>8, <1>13
<1>15. run[e].acked \subseteq EventIds /\ run[e].acked \subseteq Range(s)
  <2>1. run[e].acked \subseteq EventIds
    BY <1>1 DEF RunOk
  <2>2. \A i \in 1..n : i \in 1..n + n
    BY <1>4
  <2>3. EventIds \subseteq Range(s)
    BY <1>6, <1>8, <2>2 DEF Range
  <2> QED
    BY <2>1, <2>3
<1>16. run[e].acked # {}
  BY <1>1, <1>2 DEF RunOk
<1>17. LoadedThenAdded(evts, s, run[e].acked, n + n)
  <2>1. \A i \in 1..n : i \in 1..n + n
    BY <1>4
  <2>2. \A id \in EventIds : \E i \in 1..n + n : s[i] = id
    BY <1>6, <1>8, <2>1
  <2>3. \E i \in 1..n + n : s[i] \in run[e].acked
    BY <1>15, <1>16, <2>2
  <2>4. \A r \in evts : r.row.id \in EventIds
    BY DEF EventIds
  <2>5. (n + n) + 1..Len(s) = {}
    BY <1>4, <1>8
  <2> QED
    BY <2>2, <2>3, <2>4, <2>5 DEF LoadedThenAdded
<1>18. RunOk(e)'
  <2>1. n + n \in 0..Len(s)
    BY <1>4, <1>8
  <2>2. post'[e].pc # "stored" /\ evts' = evts
    BY <1>2, <1>3
  <2> QED
    BY <1>9, <1>11, <1>14, <1>15, <1>17, <2>1, <2>2 DEF RunOk
<1>19. ~Unstored(e)'
  BY <1>2, <1>3 DEF Unstored
<1> QED
  BY <1>a, <1>2, <1>9, <1>10, <1>12, <1>18, <1>19, OneMoves

\* The event that is stored is the newest of all.
LEMMA EventStoredKeeps ==
    ASSUME SessionInv, NEW e \in Engines, EventStored(e)
    PROVE  SessionInv'
<1> DEFINE PostRec == [pc : PostPcs, event : Nat]
           x == post[e].event
           new == [row |-> [id |-> x], at |-> now, gone |-> FALSE]
<1>1. /\ SessionTyped /\ EventsNumbered /\ SentOnce
      /\ \A f \in Engines : PostOk(f) /\ RunOk(f)
      /\ post \in [Engines -> PostRec]
  BY DEF SessionInv, SessionTyped
<1>2. /\ post[e].pc = "store" /\ evts' = Saved(evts, {"id"}, [id |-> x], now) /\ now' = now + 1
      /\ post' = [post EXCEPT ![e].pc = "stored"]
      /\ UNCHANGED <<sess, sent, run, put, edits, lost>>
  BY DEF EventStored, Handler
<1>3. x \in 1..sent /\ x \notin EventIds
  BY <1>1, <1>2 DEF PostOk, Unstored
<1>4. evts' = evts \cup {new}
  BY <1>1, <1>2, <1>3, SavedEvent
<1>5. new.at = now /\ new.row.id = x /\ new.gone = FALSE
  OBVIOUS
<1> HIDE DEF x, new
<1>6. /\ post'[e].pc = "stored" /\ post'[e].event = x
      /\ \A f \in Engines : f # e => post'[f] = post[f]
      /\ post' \in [Engines -> PostRec]
  BY <1>1, <1>2 DEF PostPcs, x
<1>7. SessionTyped'
  BY <1>1, <1>2, <1>6 DEF SessionTyped
<1>8. \A r \in evts : r.row.id # x /\ r.at # now /\ r.at < now /\ r.at \in Nat
  BY <1>1, <1>3 DEF EventIds, EventsNumbered
<1>9. EventsNumbered'
  <2>1. IsFiniteSet(evts) /\ now \in Nat /\ Cardinality(evts) + 1 = now /\ new \notin evts
    BY <1>1, <1>5, <1>8 DEF EventsNumbered
  <2>2. IsFiniteSet(evts') /\ Cardinality(evts') = Cardinality(evts) + 1
    BY <1>4, <2>1, FS_AddElement
  <2>3. now' \in Nat /\ Cardinality(evts') + 1 = now'
    BY <1>2, <2>1, <2>2
  <2>4. \A r \in evts : r.at < now' /\ now < now'
    BY <1>2, <1>8, <2>1
  <2>5. ASSUME NEW r \in evts' PROVE r.at \in Nat /\ r.at < now' /\ r.row.id \in 1..sent /\ r.gone = FALSE
    <3>1. CASE r \in evts
      BY <1>1, <2>4, <3>1 DEF EventsNumbered
    <3>2. CASE r = new
      BY <1>2, <1>3, <1>5, <2>1, <3>2
    <3> QED
      BY <1>4, <3>1, <3>2
  <2>6. ASSUME NEW r \in evts', NEW o \in evts', r.row.id = o.row.id \/ r.at = o.at PROVE r = o
    BY <1>1, <1>4, <1>5, <1>8, <2>6 DEF EventsNumbered
  <2> QED
    BY <1>2, <2>2, <2>3, <2>5, <2>6 DEF EventsNumbered
<1>10. EventIds' = EventIds \cup {x}
  BY <1>4, <1>5 DEF EventIds
<1>11. \A id \in EventIds : CreatedAt(evts', id) = CreatedAt(evts, id) /\ CreatedAt(evts, id) < now
  <2> SUFFICES ASSUME NEW r \in evts
               PROVE  /\ CreatedAt(evts', r.row.id) = CreatedAt(evts, r.row.id)
                      /\ CreatedAt(evts, r.row.id) < now
    BY DEF EventIds
  <2>1. CreatedAt(evts, r.row.id) = r.at
    BY <1>1, AtIs
  <2>2. (CHOOSE o \in evts' : o.row.id = r.row.id) = r
    BY <1>4, <1>9 DEF EventsNumbered
  <2> QED
    BY <1>8, <2>1, <2>2 DEF CreatedAt
<1>12. CreatedAt(evts', x) = now
  <2>1. (CHOOSE o \in evts' : o.row.id = x) = new
    BY <1>4, <1>5, <1>8
  <2> QED
    BY <1>5, <2>1 DEF CreatedAt
<1>13. ASSUME NEW f \in Engines PROVE PostOk(f)'
  <2>1. CASE f = e
    BY <1>1, <1>2, <1>3, <1>6, <1>10, <2>1 DEF PostOk, Unstored
  <2>2. CASE f # e
    <3>1. PostOk(f) /\ post'[f] = post[f] /\ run'[f] = run[f] /\ sent' = sent
      BY <1>1, <1>2, <1>6, <2>2
    <3>2. Unstored(f) => post[f].event # x
      BY <1>1, <1>2, <2>2 DEF SentOnce, Unstored, x
    <3> QED
      BY <1>10, <3>1, <3>2 DEF PostOk, Unstored
  <2> QED
    BY <2>1, <2>2
<1>14. ASSUME NEW f \in Engines PROVE RunOk(f)'
  <2> DEFINE s == run[f].memory
  <2>1. RunOk(f) /\ run'[f] = run[f] /\ PostOk(f)
    BY <1>1, <1>2
  <2>2. \A i \in DOMAIN s : /\ s[i] \in EventIds
                             /\ CreatedAt(evts', s[i]) = CreatedAt(evts, s[i])
                             /\ CreatedAt(evts, s[i]) < now
    BY <1>11, <2>1 DEF RunOk
  <2>3. s \in Seq(Nat) /\ DOMAIN s = 1..Len(s) /\ Len(s) \in Nat
    BY <1>1, LenProperties DEF SessionTyped
  <2>4. CASE run[f].pc # "append"
    BY <1>10, <2>1, <2>4 DEF RunOk
  <2>5. CASE run[f].pc = "append"
    <3>1. PICK loaded \in 0..Len(s) : LoadedThenAdded(evts, s, run[f].acked, loaded)
      BY <2>1, <2>5 DEF RunOk
    <3>2. LoadedThenAdded(evts', s, run[f].acked, loaded)
      <4> DEFINE known == run[f].acked
      <4>1. /\ \E i \in 1..loaded : s[i] \in known
            /\ \A r \in evts, i \in 1..loaded :
                  r.at <= CreatedAt(evts, s[i]) => \E j \in 1..loaded : s[j] = r.row.id
            /\ \A i \in 1..Len(s), j \in loaded + 1..Len(s) :
                  i < j => CreatedAt(evts, s[i]) < CreatedAt(evts, s[j])
            /\ \A j \in loaded + 1..Len(s) : s[j] \in known
        BY <3>1 DEF LoadedThenAdded
      <4>2. /\ \A i \in 1..loaded : i \in 1..Len(s)
            /\ \A i \in loaded + 1..Len(s) : i \in 1..Len(s)
        BY <2>3, <3>1
      <4>3. \A i \in 1..Len(s) : /\ CreatedAt(evts', s[i]) = CreatedAt(evts, s[i])
                                 /\ CreatedAt(evts, s[i]) < now /\ CreatedAt(evts, s[i]) \in Nat
        <5> SUFFICES ASSUME NEW i \in 1..Len(s)
                     PROVE  /\ CreatedAt(evts', s[i]) = CreatedAt(evts, s[i])
                            /\ CreatedAt(evts, s[i]) < now /\ CreatedAt(evts, s[i]) \in Nat
          OBVIOUS
        <5>1. s[i] \in EventIds
          BY <2>2, <2>3
        <5>2. PICK r \in evts : r.row.id = s[i]
          BY <5>1 DEF EventIds
        <5>3. CreatedAt(evts, s[i]) = r.at /\ r.at \in Nat
          BY <1>1, <1>8, <5>2, AtIs
        <5> QED
          BY <2>2, <2>3, <5>3
      <4> HIDE DEF s, known
      <4>4. ASSUME NEW r \in evts', NEW i \in 1..loaded, r.at <= CreatedAt(evts', s[i])
            PROVE  \E j \in 1..loaded : s[j] = r.row.id
        <5>1. CreatedAt(evts', s[i]) = CreatedAt(evts, s[i]) /\ CreatedAt(evts, s[i]) < now
              /\ CreatedAt(evts, s[i]) \in Nat /\ now \in Nat
          BY <1>1, <4>2, <4>3 DEF EventsNumbered
        <5>2. r # new
          BY <1>5, <4>4, <5>1
        <5>3. r \in evts
          BY <1>4, <5>2
        <5> QED
          BY <4>1, <4>4, <5>1, <5>3
      <4>5. \A i \in 1..Len(s), j \in loaded + 1..Len(s) :
                  i < j => CreatedAt(evts', s[i]) < CreatedAt(evts', s[j])
        BY <4>1, <4>2, <4>3
      <4>6. LoadedThenAdded(evts', s, known, loaded)
        BY <4>1, <4>4, <4>5 DEF LoadedThenAdded
      <4> QED
        BY <4>6 DEF known, s
    <3>3. post'[f].pc = "stored" =>
            \A i \in DOMAIN s : CreatedAt(evts', s[i]) < CreatedAt(evts', post'[f].event)
      <4>1. CASE f = e
        BY <1>6, <1>12, <2>2, <4>1
      <4>2. CASE f # e
        <5>1. post'[f] = post[f]
          BY <1>6, <4>2
        <5>2. ASSUME post[f].pc = "stored"
              PROVE  /\ post[f].event \in EventIds
                     /\ CreatedAt(evts', post[f].event) = CreatedAt(evts, post[f].event)
          BY <1>11, <2>1, <5>2 DEF PostOk
        <5> QED
          BY <2>1, <2>2, <2>5, <5>1, <5>2 DEF RunOk
      <4> QED
        BY <4>1, <4>2
    <3>4. \A i \in DOMAIN s : s[i] \in EventIds'
      BY <1>10, <2>2
    <3>5. run[f].acked \subseteq EventIds' /\ run[f].acked \subseteq Range(s)
      BY <1>10, <2>1, <2>5 DEF RunOk
    <3> QED
      BY <2>1, <3>1, <3>2, <3>3, <3>4, <3>5 DEF RunOk
  <2> QED
    BY <2>4, <2>5
<1>15. SentOnce'
  <2>1. \A f \in Engines : Unstored(f)' => f # e /\ Unstored(f) /\ post'[f] = post[f]
    BY <1>6 DEF Unstored
  <2> QED
    BY <1>1, <2>1 DEF SentOnce
<1> QED
  BY <1>7, <1>9, <1>13, <1>14, <1>15 DEF SessionInv

----------------------------------------------------------------------------
(* Sessions: the theorems. *)

LEMMA NextSessionInv ==
    ASSUME SessionInv, [SessionNext]_sessionVars
    PROVE  SessionInv'
<1>1. CASE UNCHANGED sessionVars
  <2>1. UNCHANGED <<evts, now, sent, run, post>> /\ SessionTyped'
    BY <1>1 DEF sessionVars, SessionInv, SessionTyped
  <2> QED
    BY <2>1, UserKeeps
<1>2. CASE \/ UserDeletes \/ UpdateStores
           \/ \E e \in Engines : UserCreates(e) \/ UpdateReads(e)
  BY <1>2, UserSteps
<1>3. ASSUME NEW e \in Engines,
             \/ Prepare(e) \/ EngineCreates(e) \/ Refused(e) \/ GivesUp(e)
             \/ HandlerEnds(e) \/ Load(e) \/ RunEnds(e)
      PROVE  SessionInv'
  BY <1>3, RestingSteps
<1>4. ASSUME NEW e \in Engines, EventChecked(e) PROVE SessionInv'
  BY <1>4, EventCheckedKeeps
<1>5. ASSUME NEW e \in Engines, EventStored(e) PROVE SessionInv'
  BY <1>5, EventStoredKeeps
<1>6. ASSUME NEW e \in Engines, Send(e) PROVE SessionInv'
  BY <1>6, SendKeeps
<1>7. ASSUME NEW e \in Engines, Acked(e) PROVE SessionInv'
  BY <1>7, AckedKeeps
<1>8. ASSUME NEW e \in Engines, Listed(e) PROVE SessionInv'
  BY <1>8, ListedKeeps
<1> QED
  BY <1>1, <1>2, <1>3, <1>4, <1>5, <1>6, <1>7, <1>8 DEF SessionNext

\* What the inductive invariant says of the tables and of the bounds.
LEMMA InvIsTyped ==
    ASSUME SessionInv
    PROVE  SessionTypeOK
<1>1. SessionTyped /\ EventsNumbered /\ \A e \in Engines : PostOk(e) /\ RunOk(e)
  BY DEF SessionInv
<1>2. /\ run \in [Engines -> [pc : RunPcs, memory : Seq(Nat), acked : SUBSET Nat]]
      /\ post \in [Engines -> [pc : PostPcs, event : Nat]]
  BY <1>1 DEF SessionTyped
<1>3. sent \in 0..MaxEvents /\ sent \in Nat /\ 1..sent \subseteq 1..MaxEvents
  BY <1>1, SessionsAssumption DEF SessionTyped
<1>4. EventIds \subseteq 1..sent
  BY <1>1 DEF EventIds, EventsNumbered
<1>5. \A r \in sess : r.row \in SessRow /\ r.gone \in BOOLEAN
  BY <1>1 DEF SessionTyped, SessionRows
<1>6. Cardinality(sess) <= 1
  <2>1. CASE sess = {}
    BY <2>1, FS_EmptySet
  <2>2. ASSUME NEW r, sess = {r} PROVE Cardinality(sess) <= 1
    <3>1. Cardinality({r}) = 1
      BY FS_Singleton
    <3> QED
      BY <2>2, <3>1
  <2> QED
    BY <1>1, <2>1, <2>2 DEF SessionTyped
<1>7. \A r \in evts : r.row.id \in 1..MaxEvents /\ ~r.gone
  BY <1>1, <1>3 DEF EventsNumbered
<1>8. now \in 1..sent + 1
  <2> DEFINE number == [r \in evts |-> r.row.id]
  <2>1. number \in Injection(evts, 1..sent)
    BY <1>1 DEF EventsNumbered, Injection, IsInjective
  <2>2. IsFiniteSet(1..sent) /\ Cardinality(1..sent) = sent
    BY <1>3, FS_Interval
  <2>3. Cardinality(evts) <= Cardinality(1..sent)
    BY <2>1, <2>2, FS_Injection
  <2>4. Cardinality(evts) \in Nat /\ Cardinality(evts) + 1 = now
    BY <1>1, FS_CardinalityType DEF EventsNumbered
  <2> QED
    BY <1>3, <2>2, <2>3, <2>4
<1>9. ASSUME NEW e \in Engines
      PROVE  /\ run[e].pc \in RunPcs /\ post[e].pc \in PostPcs
             /\ Range(run[e].memory) \cup run[e].acked \subseteq 1..MaxEvents
  <2>1. run[e].pc \in RunPcs /\ post[e].pc \in PostPcs
    BY <1>2
  <2>2. Range(run[e].memory) \subseteq EventIds /\ run[e].acked \subseteq EventIds
    BY <1>1 DEF RunOk, Range
  <2> QED
    BY <1>3, <1>4, <2>1, <2>2
<1>10. put \in SessRow \cup {NoSession} /\ edits \in 0..MaxEdits /\ lost \in 0..MaxLost
  BY <1>1 DEF SessionTyped
<1> QED
  BY <1>3, <1>5, <1>6, <1>7, <1>8, <1>9, <1>10 DEF SessionTypeOK, RunPcs, PostPcs

LEMMA InvTellsSession ==
    ASSUME SessionInv
    PROVE  MemoryTellsSession
<1> SUFFICES ASSUME NEW e \in Engines, run[e].pc = "append"
             PROVE  /\ run[e].acked \subseteq Range(run[e].memory)
                    /\ Range(run[e].memory) \subseteq {r.row.id : r \in evts}
                    /\ \E loaded \in 0..Len(run[e].memory) :
                          LoadedThenAdded(evts, run[e].memory, run[e].acked, loaded)
  BY DEF MemoryTellsSession
<1>1. RunOk(e)
  BY DEF SessionInv
<1>2. Range(run[e].memory) \subseteq {r.row.id : r \in evts}
  BY <1>1 DEF RunOk, EventIds, Range
<1> QED
  BY <1>1, <1>2 DEF RunOk

\* For any agents and bounds: the tables of a conversation, what the engines have
\* in memory and the handlers at work are what SessionTypeOK says, whatever the user
\* does meanwhile.
THEOREM SessionTypeCorrect == SessionSpec => []SessionTypeOK
<1>1. SessionInit => SessionInv
  BY InitSessionInv
<1>2. SessionInv /\ [SessionNext]_sessionVars => SessionInv'
  BY NextSessionInv
<1>3. SessionInv => SessionTypeOK
  BY InvIsTyped
<1> QED
  BY <1>1, <1>2, <1>3, PTL DEF SessionSpec

\* For any agents and bounds, whatever requests of the user and of other agents, late
\* answers and lost ones come between: an agent that runs has in memory every event it
\* was acknowledged, nothing but stored events, all that was stored before it joined,
\* and behind that its own, in the order they were stored (get_session, append_event).
THEOREM MemoryIsTheSession == SessionSpec => []MemoryTellsSession
<1>1. SessionInit => SessionInv
  BY InitSessionInv
<1>2. SessionInv /\ [SessionNext]_sessionVars => SessionInv'
  BY NextSessionInv
<1>3. SessionInv => MemoryTellsSession
  BY InvTellsSession
<1> QED
  BY <1>1, <1>2, <1>3, PTL DEF SessionSpec

----------------------------------------------------------------------------
(* Checkpoints: the inductive invariant, for supersteps of one task. *)

TheTask == CHOOSE t \in LgTasks : TRUE
StepIds == 1..MaxSteps

\* What a task writes, and what the supersteps of a state have applied.
WritesOfStep(id) == {PutWrite(id, TheTask, i - 1, i) : i \in 1..Writes[TheTask]}
AppliedSteps == Seq({WritesOfStep(id) : id \in StepIds})

PutsOfStep(id) == {TaskWrites(id, TheTask), Interrupt(id, TheTask)}

MailRight(m) ==
    \/ m.kind = "none"
    \/ m.kind = "checkpoint" /\ m.id \in StepIds /\ m.state \in AppliedSteps
    \/ m.kind = "writes" /\ \E id \in StepIds : m.writes \in PutsOfStep(id)

\* Rows of a table.
IsRow(r) == r \in [row : {r.row}, at : {r.at}, gone : {r.gone}]

CkptsRight ==
    /\ \A r \in ckpts : IsRow(r) /\ r.row.id \in StepIds /\ r.row.state \in AppliedSteps
    /\ \A r, o \in ckpts : r.row.id = o.row.id => r = o

\* The results of a task are all there or none is.
IsResult(r) == r.row.idx # InterruptIdx
WritesRight ==
    \A r \in writes :
        /\ IsRow(r) /\ r.row.task = TheTask
        /\ IsResult(r) => r.row \in WritesOfStep(r.row.id)
        /\ (IsResult(r) /\ ~r.gone) =>
              \A w \in WritesOfStep(r.row.id) : \E o \in writes : ~o.gone /\ o.row = w

GraphRight ==
    /\ newId \in Nat \ {0}
    /\ MailRight(mail) /\ MailRight(oldMail)
    /\ mail.kind = "writes" => graphRun.pc = "step" /\ mail.writes \in PutsOfStep(graphRun.id)
    /\ graphRun.pc = "load" => \E r \in ckpts : r.row.id = listed
    /\ graphRun.pc = "step" => /\ graphRun.id \in StepIds
                              /\ graphRun.pending \in {{}, WritesOfStep(graphRun.id)}

GraphRuns == [pc : {"off", "put", "load", "step", "next"}, id : Nat, state : AppliedSteps,
              pending : {{}} \cup {WritesOfStep(id) : id \in StepIds}]

ThreadInv == graphRun \in GraphRuns /\ CkptsRight /\ WritesRight /\ GraphRight

OneOfTasks == \E t : LgTasks = {t}

LEMMA TaskIs ==
    ASSUME OneOfTasks
    PROVE  /\ LgTasks = {TheTask} /\ Writes[TheTask] \in Nat \ {0}
<1>1. PICK t : LgTasks = {t}
  BY DEF OneOfTasks
<1>2. TheTask = t
  BY <1>1 DEF TheTask
<1> QED
  BY <1>1, <1>2, CheckpointsAssumption

\* The requests of a step: all its results, or the interrupt of its task.
LEMMA PutsAre ==
    ASSUME OneOfTasks, NEW id, NEW ws \in PutsOfStep(id)
    PROVE  /\ \/ ws = TaskWrites(id, TheTask) /\ Range(ws) = WritesOfStep(id)
              \/ /\ ws = Interrupt(id, TheTask)
                 /\ Range(ws) = {PutWrite(id, TheTask, InterruptIdx, 0)}
           /\ \A w \in Range(ws) : w.id = id /\ w.task = TheTask
           /\ \A w \in WritesOfStep(id) : /\ w.idx # InterruptIdx /\ w.id = id /\ w.task = TheTask
                                         /\ [w EXCEPT !.task = TheTask] = w
           /\ \A v, w \in WritesOfStep(id) : v.idx = w.idx => v = w
           /\ WritesOfStep(id) # {}
<1>1. \A i \in 1..Writes[TheTask] : i \in Nat /\ i - 1 # InterruptIdx /\ i - 1 \in Int
  BY TaskIs DEF InterruptIdx
<1>2. \A w \in WritesOfStep(id) : /\ w.idx # InterruptIdx /\ w.id = id /\ w.task = TheTask
                                 /\ [w EXCEPT !.task = TheTask] = w
  BY <1>1 DEF WritesOfStep, PutWrite
<1>3. \A v, w \in WritesOfStep(id) : v.idx = w.idx => v = w
  BY <1>1 DEF WritesOfStep, PutWrite
<1>4. WritesOfStep(id) # {}
  BY TaskIs DEF WritesOfStep
<1>5. CASE ws = TaskWrites(id, TheTask)
  <2>1. Range(ws) = WritesOfStep(id)
    BY <1>5 DEF TaskWrites, Range, WritesOfStep
  <2> QED
    BY <1>2, <1>3, <1>4, <1>5, <2>1
<1>6. CASE ws = Interrupt(id, TheTask)
  <2>1. Range(ws) = {PutWrite(id, TheTask, InterruptIdx, 0)}
    BY <1>6 DEF Interrupt, Range
  <2>2. \A w \in Range(ws) : w.id = id /\ w.task = TheTask
    BY <2>1 DEF PutWrite
  <2> QED
    BY <1>2, <1>3, <1>4, <1>6, <2>1, <2>2
<1> QED
  BY <1>5, <1>6 DEF PutsOfStep

LEMMA WriteKeys ==
    ASSUME NEW a, NEW b
    PROVE  Key(WriteKey, a) = Key(WriteKey, b) <=> (a["id"] = b["id"] /\ a["idx"] = b["idx"])
<1>1. ASSUME Key(WriteKey, a) = Key(WriteKey, b)
      PROVE  a["id"] = b["id"] /\ a["idx"] = b["idx"]
  <2>1. Key(WriteKey, a)["id"] = a["id"] /\ Key(WriteKey, a)["idx"] = a["idx"]
    BY DEF Key, WriteKey
  <2>2. Key(WriteKey, b)["id"] = b["id"] /\ Key(WriteKey, b)["idx"] = b["idx"]
    BY DEF Key, WriteKey
  <2> QED
    BY <1>1, <2>1, <2>2
<1>2. ASSUME a["id"] = b["id"], a["idx"] = b["idx"]
      PROVE  Key(WriteKey, a) = Key(WriteKey, b)
  BY <1>2 DEF Key, WriteKey
<1> QED
  BY <1>1, <1>2

LEMMA SavedAllRows ==
    ASSUME NEW table, NEW fields, NEW rows, NEW made
    PROVE  /\ \A r \in SavedAll(table, fields, rows, made) :
                 \/ r \in table /\ \A row \in rows : Key(fields, r.row) # Key(fields, row)
                 \/ \E row \in rows : r.row = row /\ r.gone = FALSE /\ IsRow(r)
           /\ \A r \in table : (\A row \in rows : Key(fields, r.row) # Key(fields, row))
                                => r \in SavedAll(table, fields, rows, made)
           /\ \A row \in rows : \E r \in SavedAll(table, fields, rows, made) :
                 r.row = row /\ r.gone = FALSE /\ IsRow(r)
<1> DEFINE old(row) == {r \in table : Key(fields, r.row) = Key(fields, row)}
           kept == {r \in table : \A row \in rows : Key(fields, r.row) # Key(fields, row)}
<1>1. ASSUME NEW row
      PROVE  \E at : Saved(old(row), fields, row, made) = {[row |-> row, at |-> at, gone |-> FALSE]}
  <2> DEFINE same == {r \in old(row) : Key(fields, r.row) = Key(fields, row)}
             at == IF same = {} THEN made ELSE (CHOOSE r \in same : TRUE).at
             new == [row |-> row, at |-> at, gone |-> FALSE]
  <2>1. Saved(old(row), fields, row, made) = (old(row) \ same) \cup {new}
    BY DEF Saved
  <2>2. old(row) = same
    OBVIOUS
  <2> HIDE DEF same, old, at
  <2>3. Saved(old(row), fields, row, made) = {new}
    BY <2>1, <2>2
  <2> QED
    BY <2>3
<1>2. ASSUME NEW row, NEW r \in Saved(old(row), fields, row, made)
      PROVE  r.row = row /\ r.gone = FALSE /\ IsRow(r)
  <2>1. PICK at : r = [row |-> row, at |-> at, gone |-> FALSE]
    BY <1>1
  <2> QED
    BY <2>1 DEF IsRow
<1>3. \A row : \E r : r \in Saved(old(row), fields, row, made)
  <2> SUFFICES ASSUME NEW row PROVE \E r : r \in Saved(old(row), fields, row, made)
    OBVIOUS
  <2>1. PICK at : Saved(old(row), fields, row, made) = {[row |-> row, at |-> at, gone |-> FALSE]}
    BY <1>1
  <2> QED
    BY <2>1
<1>4. SavedAll(table, fields, rows, made)
        = kept \cup UNION {Saved(old(row), fields, row, made) : row \in rows}
  BY DEF SavedAll
<1> HIDE DEF old
<1>5. ASSUME NEW r \in SavedAll(table, fields, rows, made), r \notin kept
      PROVE  \E row \in rows : r.row = row /\ r.gone = FALSE /\ IsRow(r)
  <2>1. PICK row \in rows : r \in Saved(old(row), fields, row, made)
    BY <1>4, <1>5
  <2> QED
    BY <1>2, <2>1
<1>6. ASSUME NEW row \in rows
      PROVE  \E r \in SavedAll(table, fields, rows, made) : r.row = row /\ r.gone = FALSE /\ IsRow(r)
  <2>1. PICK r : r \in Saved(old(row), fields, row, made)
    BY <1>3
  <2>2. r \in SavedAll(table, fields, rows, made)
    BY <1>4, <2>1
  <2> QED
    BY <1>2, <2>1, <2>2
<1> QED
  BY <1>4, <1>5, <1>6

\* A request of writes leaves all the results of a step or none.
LEMMA PutKeeps ==
    ASSUME OneOfTasks, WritesRight, NEW id \in StepIds, NEW ws \in PutsOfStep(id),
           StoreCheckpointWrites(ws)
    PROVE  WritesRight'
<1> DEFINE hit(r) == \E w \in Range(ws) : r.row.id = w.id /\ r.row.idx = w.idx
<1>1. writes' = SavedAll(writes, WriteKey, Range(ws), newId)
  BY DEF StoreCheckpointWrites
<1> DEFINE written == SavedAll(writes, WriteKey, Range(ws), newId)
<1>2. \A w \in Range(ws) : \E o \in writes' : o.row = w /\ o.gone = FALSE
  <2>1. \A w \in Range(ws) : \E o \in written : o.row = w /\ o.gone = FALSE /\ IsRow(o)
    BY SavedAllRows
  <2> HIDE DEF written
  <2>2. writes' = written
    BY <1>1 DEF written
  <2> QED
    BY <2>1, <2>2
<1>3. ASSUME NEW r \in writes'
      PROVE  \/ r \in writes /\ ~hit(r)
             \/ \E w \in Range(ws) : r.row = w /\ IsRow(r)
  <2>1. \/ r \in writes /\ \A w \in Range(ws) : Key(WriteKey, r.row) # Key(WriteKey, w)
        \/ \E w \in Range(ws) : r.row = w /\ r.gone = FALSE /\ IsRow(r)
    BY <1>1, SavedAllRows
  <2> QED
    BY <2>1, WriteKeys
<1>4. ASSUME NEW r \in writes, ~hit(r)
      PROVE  r \in writes'
  <2>1. \A w \in Range(ws) : Key(WriteKey, r.row) # Key(WriteKey, w)
    BY <1>4, WriteKeys
  <2> QED
    BY <1>1, <2>1, SavedAllRows
<1>a. /\ \A w \in Range(ws) : w.id = id /\ w.task = TheTask
      /\ \A w \in WritesOfStep(id) : w.idx # InterruptIdx /\ w.id = id
      /\ \/ Range(ws) = WritesOfStep(id)
         \/ \A w \in Range(ws) : w.idx = InterruptIdx
  BY PutsAre DEF PutWrite
<1> HIDE DEF hit
<1>5. SUFFICES ASSUME NEW r \in writes'
               PROVE  /\ IsRow(r) /\ r.row.task = TheTask
                      /\ IsResult(r) => r.row \in WritesOfStep(r.row.id)
                      /\ (IsResult(r) /\ ~r.gone) =>
                           \A w \in WritesOfStep(r.row.id) : \E o \in writes' : ~o.gone /\ o.row = w
  BY DEF WritesRight, IsResult
<1>6. CASE r \in writes /\ ~hit(r)
  <2>1. /\ IsRow(r) /\ r.row.task = TheTask
        /\ IsResult(r) => r.row \in WritesOfStep(r.row.id)
    BY <1>6 DEF WritesRight
  <2>2. ASSUME IsResult(r), ~r.gone, NEW w \in WritesOfStep(r.row.id)
        PROVE  \E o \in writes' : ~o.gone /\ o.row = w
    <3>1. PICK o \in writes : ~o.gone /\ o.row = w
      BY <1>6, <2>2 DEF WritesRight
    <3>2. CASE ~hit(o)
      BY <1>4, <3>1, <3>2
    <3>3. CASE hit(o)
      <4>1. PICK v \in Range(ws) : w.id = v.id /\ w.idx = v.idx
        BY <3>1, <3>3 DEF hit
      <4>2. w.idx # InterruptIdx /\ w.id = r.row.id /\ v.id = id
        BY <1>a, <2>2, PutsAre DEF PutsOfStep
      <4>3. v \in WritesOfStep(id) /\ w \in WritesOfStep(id)
        BY <1>a, <2>2, <4>1, <4>2
      <4>4. v = w
        BY <4>1, <4>3, PutsAre
      <4> QED
        BY <1>2, <4>4
    <3> QED
      BY <3>2, <3>3
  <2> QED
    BY <2>1, <2>2
<1>7. ASSUME NEW v \in Range(ws), r.row = v, IsRow(r)
      PROVE  /\ IsRow(r) /\ r.row.task = TheTask
             /\ IsResult(r) => r.row \in WritesOfStep(r.row.id)
             /\ (IsResult(r) /\ ~r.gone) =>
                  \A w \in WritesOfStep(r.row.id) : \E o \in writes' : ~o.gone /\ o.row = w
  <2>1. IsRow(r) /\ r.row = v /\ v.task = TheTask /\ v.id = id
    BY <1>7, <1>a
  <2>2. IsResult(r) => Range(ws) = WritesOfStep(id)
    BY <1>a, <2>1 DEF IsResult
  <2> QED
    BY <1>2, <2>1, <2>2
<1> QED
  BY <1>3, <1>6, <1>7

LEMMA CheckpointKeeps ==
    ASSUME CkptsRight, NEW id \in StepIds, NEW state \in AppliedSteps,
           StoreCheckpoint([id |-> id, state |-> state])
    PROVE  CkptsRight' /\ \A r \in ckpts : \E o \in ckpts' : o.row.id = r.row.id
<1> DEFINE c == [id |-> id, state |-> state]
           old == {r \in ckpts : Key({"id"}, r.row) = Key({"id"}, c)}
           made == IF old = {} THEN newId ELSE (CHOOSE r \in old : TRUE).at
           new == [row |-> c, at |-> made, gone |-> FALSE]
<1>1. ckpts' = (ckpts \ old) \cup {new}
  BY DEF StoreCheckpoint, Saved
<1>2. c.id = id /\ c.state = state /\ new.row = c /\ IsRow(new)
  BY DEF IsRow
<1>3. \A r \in ckpts : r \in old <=> r.row.id = id
  <2> SUFFICES ASSUME NEW r \in ckpts
               PROVE  Key({"id"}, r.row) = Key({"id"}, c) <=> r.row.id = id
    OBVIOUS
  <2>1. Key({"id"}, r.row)["id"] = r.row["id"] /\ Key({"id"}, c)["id"] = id
    BY DEF Key
  <2>2. r.row.id = id => Key({"id"}, r.row) = Key({"id"}, c)
    BY DEF Key
  <2> QED
    BY <2>1, <2>2
<1> HIDE DEF c, old, new
<1>5. \A r \in ckpts' : IsRow(r) /\ r.row.id \in StepIds /\ r.row.state \in AppliedSteps
  BY <1>1, <1>2 DEF CkptsRight
<1>6. \A r, o \in ckpts' : r.row.id = o.row.id => r = o
  BY <1>1, <1>2, <1>3 DEF CkptsRight
<1>7. \A r \in ckpts : \E o \in ckpts' : o.row.id = r.row.id
  BY <1>1, <1>2, <1>3
<1> QED
  BY <1>5, <1>6, <1>7 DEF CkptsRight

LEMMA HandleKeeps ==
    ASSUME OneOfTasks, CkptsRight, WritesRight, NEW m, MailRight(m), Handle(m)
    PROVE  /\ CkptsRight' /\ WritesRight'
           /\ \A r \in ckpts : \E o \in ckpts' : o.row.id = r.row.id
<1>1. CASE m.kind = "checkpoint"
  <2>1. /\ StoreCheckpoint([id |-> m.id, state |-> m.state])
        /\ m.id \in StepIds /\ m.state \in AppliedSteps
    BY <1>1 DEF Handle, MailRight
  <2>2. writes' = writes
    BY <2>1 DEF StoreCheckpoint
  <2> QED
    BY <2>1, <2>2, CheckpointKeeps DEF WritesRight
<1>2. CASE m.kind = "writes"
  <2>1. StoreCheckpointWrites(m.writes) /\ \E id \in StepIds : m.writes \in PutsOfStep(id)
    BY <1>2 DEF Handle, MailRight
  <2>2. ckpts' = ckpts
    BY <2>1 DEF StoreCheckpointWrites
  <2> QED
    BY <2>1, <2>2, PutKeeps DEF CkptsRight
<1> QED
  BY <1>1, <1>2 DEF Handle

\* The newest checkpoint is one of those there are.
LEMMA MaxIsThere ==
    ASSUME NEW S \in SUBSET Nat, IsFiniteSet(S), S # {}
    PROVE  Max(S) \in S
<1> DEFINE rows == {[at |-> i] : i \in S}
           n == Cardinality(rows)
           first == NewestFirst(rows)[1]
<1>1. IsFiniteSet(rows)
  <2> DEFINE f == [i \in S |-> [at |-> i]]
  <2>1. f \in Surjection(S, rows)
    BY DEF Surjection
  <2> QED
    BY <2>1, FS_Surjection
<1>2. /\ n \in Nat
      /\ \A i \in 1..n : NewestFirst(rows)[i] \in rows
      /\ \A r \in rows : \E i \in 1..n : NewestFirst(rows)[i] = r
      /\ \A i, j \in 1..n : i < j => NewestFirst(rows)[i].at > NewestFirst(rows)[j].at
  <2>1. \A r \in rows : r.at \in Nat /\ r = [at |-> r.at]
    <3> SUFFICES ASSUME NEW i \in S PROVE [at |-> i].at = i
      OBVIOUS
    <3> QED
      OBVIOUS
  <2>2. \A r, o \in rows : r.at = o.at => r = o
    BY <2>1
  <2> HIDE DEF rows
  <2> QED
    BY <1>1, <2>1, <2>2, NewestFirstSorted
<1>3. 1 \in 1..n
  <2>1. rows # {}
    OBVIOUS
  <2> QED
    BY <1>1, <1>2, <2>1, FS_EmptySet
<1>4. first \in rows /\ \A r \in rows : r = first \/ first.at > r.at
  BY <1>2, <1>3
<1>5. first.at \in S /\ \A i \in S : i = first.at \/ first.at > i
  <2>1. PICK m \in S : first = [at |-> m]
    BY <1>4
  <2>2. ASSUME NEW i \in S PROVE [at |-> i] = first \/ first.at > i
    <3>1. [at |-> i] \in rows /\ [at |-> i].at = i
      OBVIOUS
    <3> HIDE DEF first, rows
    <3> QED
      BY <1>4, <3>1
  <2>3. first.at = m
    BY <2>1
  <2> HIDE DEF first
  <2>4. \A i \in S : i = m \/ m > i
    <3> SUFFICES ASSUME NEW i \in S PROVE i = m \/ m > i
      OBVIOUS
    <3>1. [at |-> i].at = i
      OBVIOUS
    <3> QED
      BY <2>1, <2>2, <2>3, <3>1
  <2> QED
    BY <2>3, <2>4
<1> HIDE DEF first
<1>6. \E m \in S : \A i \in S : m >= i
  <2>1. ASSUME NEW m \in Nat, NEW i \in Nat, i = m \/ m > i PROVE m >= i
    BY <2>1
  <2>2. \A i \in S : i \in Nat
    OBVIOUS
  <2> QED
    BY <1>5, <2>1, <2>2
<1> QED
  BY <1>6 DEF Max

LEMMA InitThreadInv == LgInit => ThreadInv
<1> SUFFICES ASSUME LgInit PROVE ThreadInv
  OBVIOUS
<1>1. /\ ckpts = {} /\ writes = {} /\ newId = 1 /\ graphRun = NoRun
      /\ mail.kind = "none" /\ oldMail.kind = "none"
  BY DEF LgInit, NoMail
<1>2. NoRun \in GraphRuns /\ NoRun.pc = "off"
  <2>1. <<>> \in AppliedSteps
    BY DEF AppliedSteps
  <2> QED
    BY <2>1 DEF NoRun, GraphRuns
<1>3. CkptsRight
  BY <1>1, FS_EmptySet DEF CkptsRight
<1>4. WritesRight
  BY <1>1 DEF WritesRight
<1>5. GraphRight
  BY <1>1, <1>2 DEF GraphRight, MailRight
<1> QED
  BY <1>1, <1>2, <1>3, <1>4, <1>5 DEF ThreadInv

\* A deletion of the thread leaves no write that is live.
LEMMA DeleteThreadKeeps ==
    ASSUME ThreadInv, DeleteGraphThread
    PROVE  ThreadInv'
<1>1. /\ ckpts' = {IF Matches(r.row, <<>>) THEN [r EXCEPT !.gone = TRUE] ELSE r : r \in ckpts}
      /\ writes' = {IF Matches(r.row, <<>>) THEN [r EXCEPT !.gone = TRUE] ELSE r : r \in writes}
      /\ UNCHANGED <<newId, graphRun, mail, oldMail, listed>>
  BY DEF DeleteGraphThread, Deleted
<1>2. \A r : Matches(r.row, <<>>)
  BY DEF Matches
<1> DEFINE gone(r) == [r EXCEPT !.gone = TRUE]
<1>3. ckpts' = {gone(r) : r \in ckpts} /\ writes' = {gone(r) : r \in writes}
  BY <1>1, <1>2
<1>4. \A r : IsRow(r) => /\ gone(r).row = r.row /\ gone(r).gone = TRUE /\ IsRow(gone(r))
                        /\ gone(r).at = r.at
  <2> SUFFICES ASSUME NEW r, IsRow(r)
               PROVE  /\ gone(r).row = r.row /\ gone(r).gone = TRUE /\ IsRow(gone(r))
                      /\ gone(r).at = r.at
    OBVIOUS
  <2>1. gone(r) \in [row : {r.row}, at : {r.at}, gone : {TRUE}]
    BY DEF IsRow
  <2> HIDE DEF gone
  <2>2. gone(r).row = r.row /\ gone(r).at = r.at /\ gone(r).gone = TRUE
    BY <2>1
  <2> QED
    BY <2>1, <2>2 DEF IsRow
<1> HIDE DEF gone
<1>5. CkptsRight'
  <2>2. \A r \in ckpts : IsRow(r)
    BY DEF ThreadInv, CkptsRight
  <2>3. \A r \in ckpts' : IsRow(r) /\ r.row.id \in StepIds /\ r.row.state \in AppliedSteps
    BY <1>3, <1>4, <2>2 DEF ThreadInv, CkptsRight
  <2>4. \A r, o \in ckpts : gone(r).row.id = gone(o).row.id => r = o
    BY <1>4, <2>2 DEF ThreadInv, CkptsRight
  <2>5. \A r, o \in ckpts' : r.row.id = o.row.id => r = o
    BY <1>3, <2>4
  <2> QED
    BY <2>3, <2>5 DEF CkptsRight
<1>6. WritesRight'
  <2>1. \A r \in writes : IsRow(r)
    BY DEF ThreadInv, WritesRight
  <2>2. \A r \in writes' : /\ IsRow(r) /\ r.row.task = TheTask /\ r.gone = TRUE
                           /\ IsResult(r) => r.row \in WritesOfStep(r.row.id)
    BY <1>3, <1>4, <2>1 DEF ThreadInv, WritesRight, IsResult
  <2> QED
    BY <2>2 DEF WritesRight, IsResult
<1>7. \A r \in ckpts : \E o \in ckpts' : o.row.id = r.row.id
  BY <1>3, <1>4 DEF ThreadInv, CkptsRight
<1>8. GraphRight'
  BY <1>1, <1>7 DEF ThreadInv, GraphRight, MailRight
<1> QED
  BY <1>1, <1>5, <1>6, <1>8 DEF ThreadInv

----------------------------------------------------------------------------
(* Checkpoints: the graph. *)

\* A step of the graph that leaves the tables alone.
LEMMA TablesStay ==
    ASSUME ThreadInv, UNCHANGED <<ckpts, writes>>
    PROVE  CkptsRight' /\ WritesRight'
BY DEF ThreadInv, CkptsRight, WritesRight, IsResult

LEMMA AgetKeeps ==
    ASSUME ThreadInv, AgetTuple
    PROVE  ThreadInv'
<1> DEFINE ids == {c.id : c \in Plain(Found(ckpts, <<>>))}
<1>1. /\ graphRun.pc = "off" /\ UNCHANGED <<ckpts, writes, newId, mail, oldMail>>
      /\ listed' = (IF ids = {} THEN 0 ELSE Max(ids))
      /\ graphRun' = [NoRun EXCEPT !.pc = IF ids = {} THEN "put" ELSE "load"]
  BY DEF AgetTuple
<1>2. \A i \in ids : i \in StepIds /\ \E r \in ckpts : r.row.id = i
  BY DEF Plain, Found, ThreadInv, CkptsRight
<1> HIDE DEF ids
<1>3. IsFiniteSet(ids) /\ ids \in SUBSET Nat
  <2>1. ids \in SUBSET StepIds /\ MaxSteps \in Nat
    BY <1>2, CheckpointsAssumption
  <2>2. IsFiniteSet(StepIds)
    BY <2>1, FS_Interval DEF StepIds
  <2>3. IsFiniteSet(ids)
    BY <2>1, <2>2, FS_Subset
  <2>4. StepIds \subseteq Nat
    BY <2>1 DEF StepIds
  <2> QED
    BY <2>1, <2>3, <2>4
<1>4. /\ graphRun'.pc = IF ids = {} THEN "put" ELSE "load"
      /\ graphRun' \in GraphRuns
  <2>1. <<>> \in AppliedSteps
    BY DEF AppliedSteps
  <2> QED
    BY <1>1, <2>1 DEF NoRun, GraphRuns
<1>5. graphRun'.pc = "load" => \E r \in ckpts' : r.row.id = listed'
  <2> SUFFICES ASSUME ids # {} PROVE \E r \in ckpts' : r.row.id = Max(ids)
    BY <1>1, <1>4
  <2> QED
    BY <1>1, <1>2, <1>3, MaxIsThere
<1>6. GraphRight'
  BY <1>1, <1>4, <1>5 DEF ThreadInv, GraphRight, MailRight
<1> QED
  BY <1>1, <1>4, <1>6, TablesStay DEF ThreadInv

\* What a step is recovered with is what its task wrote, or nothing.
LEMMA LoadedKeeps ==
    ASSUME OneOfTasks, ThreadInv, Loaded
    PROVE  ThreadInv'
<1> DEFINE r == CHOOSE o \in ckpts : o.row.id = listed
           rows == Plain(Found(writes, [id |-> listed]))
           pending == {w \in Tuple(listed) : w.idx # InterruptIdx}
<1>1. /\ graphRun.pc = "load" /\ UNCHANGED <<ckpts, writes, newId, mail, oldMail>>
      /\ graphRun' = [pc |-> "step", id |-> r.row.id, state |-> r.row.state, pending |-> pending]
  BY DEF Loaded
<1>2. r \in ckpts /\ r.row.id = listed /\ listed \in StepIds /\ r.row.state \in AppliedSteps
  BY <1>1 DEF ThreadInv, GraphRight, CkptsRight
<1> HIDE DEF r
<1>3. \A w \in rows : \E o \in writes : ~o.gone /\ o.row = w /\ w.id = listed
  BY DEF Plain, Found, Matches
<1>4. \A o \in writes : (~o.gone /\ o.row.id = listed) => o.row \in rows
  BY DEF Plain, Found, Matches
<1> HIDE DEF rows
<1>5. ASSUME NEW w \in rows, w.idx # InterruptIdx
      PROVE  w \in WritesOfStep(listed) /\ \A v \in WritesOfStep(listed) : v \in rows
  <2>1. PICK o \in writes : ~o.gone /\ o.row = w /\ w.id = listed
    BY <1>3
  <2>2. /\ w \in WritesOfStep(listed)
        /\ \A v \in WritesOfStep(listed) : \E x \in writes : ~x.gone /\ x.row = v
    BY <1>5, <2>1 DEF ThreadInv, WritesRight, IsResult
  <2>3. \A v \in WritesOfStep(listed) : v.id = listed
    BY PutsAre DEF PutsOfStep
  <2> QED
    BY <1>4, <2>2, <2>3
<1> DEFINE last == CHOOSE w \in rows : \A o \in rows : o.task <= w.task
<1>6. Tuple(listed) = {[w EXCEPT !.task = last.task] : w \in rows}
  BY DEF Tuple, rows
<1>7. TheTask \in Nat /\ \A w \in rows : w.task = TheTask
  <2>1. TheTask \in Nat
    BY TaskIs, CheckpointsAssumption
  <2> QED
    BY <1>3, <2>1 DEF ThreadInv, WritesRight
<1>8. rows # {} => last.task = TheTask
  <2> SUFFICES ASSUME NEW w \in rows PROVE last.task = TheTask
    OBVIOUS
  <2>1. \A o \in rows : o.task <= w.task
    BY <1>7
  <2>2. last \in rows
    BY <2>1
  <2> QED
    BY <1>7, <2>2
<1> HIDE DEF last
<1>9. \A w \in rows : [w EXCEPT !.task = last.task].idx = w.idx
  <2> SUFFICES ASSUME NEW w \in rows PROVE [w EXCEPT !.task = last.task].idx = w.idx
    OBVIOUS
  <2> QED
    OBVIOUS
<1>10. \A w \in WritesOfStep(listed) : w \in rows => [w EXCEPT !.task = last.task] = w
  BY <1>8, PutsAre DEF PutsOfStep
<1>11. pending \in {{}, WritesOfStep(listed)}
  <2>1. CASE \A w \in rows : w.idx = InterruptIdx
    <3>1. pending = {}
      BY <1>6, <1>9, <2>1
    <3> QED
      BY <3>1
  <2>2. ASSUME NEW v \in rows, v.idx # InterruptIdx
        PROVE  pending = WritesOfStep(listed)
    <3>1. \A w \in WritesOfStep(listed) : w \in rows /\ w.idx # InterruptIdx
      BY <1>5, <2>2, PutsAre DEF PutsOfStep
    <3>2. ASSUME NEW w \in WritesOfStep(listed) PROVE w \in pending
      BY <1>6, <1>10, <3>1
    <3>3. ASSUME NEW u \in pending PROVE u \in WritesOfStep(listed)
      <4>1. PICK w \in rows : u = [w EXCEPT !.task = last.task] /\ u.idx # InterruptIdx
        BY <1>6
      <4>2. w.idx # InterruptIdx
        BY <1>9, <4>1
      <4> QED
        BY <1>5, <1>10, <4>1, <4>2
    <3> QED
      BY <3>2, <3>3
  <2> QED
    BY <2>1, <2>2
<1> HIDE DEF pending
<1>12. graphRun' \in GraphRuns
  <2>1. listed \in Nat
    BY <1>2, CheckpointsAssumption DEF StepIds
  <2> QED
    BY <1>1, <1>2, <1>11, <2>1 DEF GraphRuns
<1>13. /\ graphRun'.pc = "step" /\ graphRun'.id = listed /\ graphRun'.pending = pending
  BY <1>1, <1>2
<1>14. mail.kind # "writes"
  BY <1>1 DEF ThreadInv, GraphRight
<1>15. GraphRight'
  BY <1>1, <1>2, <1>11, <1>13, <1>14 DEF ThreadInv, GraphRight, MailRight
<1> QED
  BY <1>1, <1>12, <1>15, TablesStay DEF ThreadInv

LEMMA TaskKeeps ==
    ASSUME OneOfTasks, ThreadInv, NEW t \in LgTasks, PregelTask(t)
    PROVE  ThreadInv'
<1>1. /\ graphRun.pc = "step" /\ UNCHANGED <<ckpts, writes, newId, graphRun, oldMail, listed>>
      /\ \E ws \in PutsOfStep(graphRun.id) : mail' = [kind |-> "writes", writes |-> ws]
  BY TaskIs DEF PregelTask, PutsOfStep
<1>2. graphRun.id \in StepIds
  BY <1>1 DEF ThreadInv, GraphRight
<1>3. mail'.kind = "writes" /\ mail'.writes \in PutsOfStep(graphRun.id)
  BY <1>1
<1>4. MailRight(mail')
  BY <1>2, <1>3 DEF MailRight
<1>5. GraphRight'
  BY <1>1, <1>3, <1>4 DEF ThreadInv, GraphRight, MailRight
<1> QED
  BY <1>1, <1>5, TablesStay DEF ThreadInv

LEMMA StepKeeps ==
    ASSUME OneOfTasks, ThreadInv, PregelStep
    PROVE  ThreadInv'
<1> DEFINE state == IF graphRun.pc = "put" THEN <<>> ELSE Append(graphRun.state, graphRun.pending)
<1>1. /\ graphRun.pc = "put" \/ (graphRun.pc = "step" /\ LgTasks = {w.task : w \in graphRun.pending})
      /\ newId <= MaxSteps /\ newId' = newId + 1
      /\ mail' = [kind |-> "checkpoint", id |-> newId, state |-> state]
      /\ graphRun' = [graphRun EXCEPT !.pc = "next", !.state = state]
      /\ UNCHANGED <<ckpts, writes, oldMail, listed>>
  BY DEF PregelStep
<1>2. newId \in StepIds /\ newId' \in Nat \ {0}
  BY <1>1, CheckpointsAssumption DEF ThreadInv, GraphRight, StepIds
<1>3. state \in AppliedSteps
  <2>1. CASE graphRun.pc = "put"
    BY <2>1 DEF AppliedSteps
  <2>2. CASE graphRun.pc = "step"
    <3>1. graphRun.id \in StepIds /\ graphRun.pending \in {{}, WritesOfStep(graphRun.id)}
      BY <2>2 DEF ThreadInv, GraphRight
    <3>2. graphRun.pending # {}
      BY <1>1, <2>2, TaskIs
    <3>3. graphRun.state \in AppliedSteps
      BY DEF ThreadInv, GraphRuns
    <3>4. Append(graphRun.state, graphRun.pending) \in AppliedSteps
      BY <3>1, <3>2, <3>3, AppendProperties DEF AppliedSteps
    <3> QED
      BY <2>2, <3>4
  <2> QED
    BY <1>1, <2>1, <2>2
<1> HIDE DEF state
<1>4. graphRun' \in GraphRuns /\ graphRun'.pc = "next"
  BY <1>1, <1>3 DEF ThreadInv, GraphRuns
<1>5. mail'.kind = "checkpoint" /\ mail'.id = newId /\ mail'.state = state
  BY <1>1
<1>6. MailRight(mail')
  BY <1>2, <1>3, <1>5 DEF MailRight
<1>7. GraphRight'
  BY <1>1, <1>2, <1>4, <1>5, <1>6 DEF ThreadInv, GraphRight, MailRight
<1> QED
  BY <1>1, <1>4, <1>7, TablesStay DEF ThreadInv

LEMMA AnsweredKeeps ==
    ASSUME OneOfTasks, ThreadInv, Answered
    PROVE  ThreadInv'
<1>1. /\ Handle(mail) /\ mail' = NoMail /\ UNCHANGED <<newId, oldMail, listed>>
      /\ mail.kind = "checkpoint" =>
            graphRun' = [graphRun EXCEPT !.pc = "step", !.id = mail.id, !.pending = {}]
      /\ mail.kind # "checkpoint" =>
            LET results == {w \in Range(mail.writes) : w.idx # InterruptIdx} IN
            graphRun' = IF results = {} THEN NoRun ELSE [graphRun EXCEPT !.pending = @ \cup results]
  BY DEF Answered
<1>2. MailRight(mail) /\ CkptsRight' /\ WritesRight'
  BY <1>1, HandleKeeps DEF ThreadInv, GraphRight
<1>3. mail'.kind = "none"
  BY <1>1 DEF NoMail
<1>4. mail.kind \in {"checkpoint", "writes"}
  BY <1>1 DEF Handle
<1>5. /\ graphRun' \in GraphRuns
      /\ graphRun'.pc \in {"off", "step"}
      /\ graphRun'.pc = "step" => /\ graphRun'.id \in StepIds
                                 /\ graphRun'.pending \in {{}, WritesOfStep(graphRun'.id)}
  <2>1. CASE mail.kind = "checkpoint"
    <3>1. mail.id \in StepIds /\ mail.id \in Nat
      BY <1>2, <2>1, CheckpointsAssumption DEF MailRight, StepIds
    <3>2. graphRun' = [graphRun EXCEPT !.pc = "step", !.id = mail.id, !.pending = {}]
      BY <1>1, <2>1
    <3> QED
      BY <3>1, <3>2 DEF ThreadInv, GraphRuns
  <2>2. CASE mail.kind = "writes"
    <3> DEFINE results == {w \in Range(mail.writes) : w.idx # InterruptIdx}
    <3>1. graphRun' = IF results = {} THEN NoRun ELSE [graphRun EXCEPT !.pending = @ \cup results]
      BY <1>1, <2>2
    <3>2. /\ graphRun.pc = "step" /\ graphRun.id \in StepIds
          /\ mail.writes \in PutsOfStep(graphRun.id)
          /\ graphRun.pending \in {{}, WritesOfStep(graphRun.id)}
      BY <2>2 DEF ThreadInv, GraphRight
    <3>3. results = {} \/ results = WritesOfStep(graphRun.id)
      <4>1. CASE Range(mail.writes) = WritesOfStep(graphRun.id)
        BY <3>2, <4>1, PutsAre
      <4>2. CASE Range(mail.writes) = {PutWrite(graphRun.id, TheTask, InterruptIdx, 0)}
        BY <4>2 DEF PutWrite
      <4> QED
        BY <3>2, <4>1, <4>2, PutsAre
    <3> HIDE DEF results
    <3>4. CASE results = {}
      <4>1. <<>> \in AppliedSteps
        BY DEF AppliedSteps
      <4> QED
        BY <3>1, <3>4, <4>1 DEF NoRun, GraphRuns
    <3>5. CASE results # {}
      <4>1. graphRun' = [graphRun EXCEPT !.pending = WritesOfStep(graphRun.id)]
        BY <3>1, <3>2, <3>3, <3>5
      <4> QED
        BY <3>2, <4>1 DEF ThreadInv, GraphRuns
    <3> QED
      BY <3>4, <3>5
  <2> QED
    BY <1>4, <2>1, <2>2
<1>6. GraphRight'
  BY <1>1, <1>3, <1>5 DEF ThreadInv, GraphRight, MailRight
<1> QED
  BY <1>2, <1>5, <1>6 DEF ThreadInv

LEMMA NextThreadInv ==
    ASSUME OneOfTasks, ThreadInv, [LgNext]_lgVars
    PROVE  ThreadInv'
<1>1. CASE UNCHANGED lgVars
  BY <1>1, TablesStay DEF lgVars, ThreadInv, GraphRight, MailRight
<1>2. CASE PodEnds
  <2>1. /\ graphRun' = NoRun /\ mail' = NoMail /\ oldMail' = mail
        /\ UNCHANGED <<ckpts, writes, newId>>
    BY <1>2 DEF PodEnds
  <2>2. NoRun \in GraphRuns /\ NoRun.pc = "off" /\ NoMail.kind = "none"
    <3>1. <<>> \in AppliedSteps
      BY DEF AppliedSteps
    <3> QED
      BY <3>1 DEF NoRun, NoMail, GraphRuns
  <2>3. GraphRight'
    BY <2>1, <2>2 DEF ThreadInv, GraphRight, MailRight
  <2> QED
    BY <2>1, <2>2, <2>3, TablesStay DEF ThreadInv
<1>3. CASE LateRequest
  <2>1. /\ oldMail' = NoMail /\ UNCHANGED <<newId, graphRun, mail, listed>>
        /\ Handle(oldMail) \/ UNCHANGED <<ckpts, writes>>
    BY <1>3 DEF LateRequest
  <2>2. /\ CkptsRight' /\ WritesRight'
        /\ \A r \in ckpts : \E o \in ckpts' : o.row.id = r.row.id
    <3>1. CASE Handle(oldMail)
      BY <3>1, HandleKeeps DEF ThreadInv, GraphRight
    <3>2. CASE UNCHANGED <<ckpts, writes>>
      BY <3>2, TablesStay
    <3> QED
      BY <2>1, <3>1, <3>2
  <2>3. NoMail.kind = "none"
    BY DEF NoMail
  <2>4. GraphRight'
    BY <2>1, <2>2, <2>3 DEF ThreadInv, GraphRight, MailRight
  <2> QED
    BY <2>1, <2>2, <2>4 DEF ThreadInv
<1> QED
  BY <1>1, <1>2, <1>3, DeleteThreadKeeps, AgetKeeps, LoadedKeeps, TaskKeeps, StepKeeps,
     AnsweredKeeps DEF LgNext

LEMMA InvApplies ==
    ASSUME OneOfTasks, ThreadInv
    PROVE  StepsApplied
<1> SUFFICES ASSUME NEW r \in ckpts, NEW s \in DOMAIN r.row.state
             PROVE  {[idx |-> w.idx, task |-> w.task, value |-> w.value] : w \in r.row.state[s]}
                        = UNION {Results(t) : t \in LgTasks}
  BY DEF StepsApplied
<1>1. r.row.state \in AppliedSteps
  BY DEF ThreadInv, CkptsRight
<1>2. PICK id \in StepIds : r.row.state[s] = WritesOfStep(id)
  <2> DEFINE state == r.row.state
  <2>1. state \in Seq({WritesOfStep(id) : id \in StepIds})
    BY <1>1 DEF AppliedSteps
  <2> HIDE DEF state
  <2>2. \A i \in DOMAIN state : state[i] \in {WritesOfStep(id) : id \in StepIds}
    BY <2>1, LenProperties, ElementOfSeq
  <2> QED
    BY <2>2 DEF state
<1>3. UNION {Results(t) : t \in LgTasks} = Results(TheTask)
  BY TaskIs
<1>4. {[idx |-> w.idx, task |-> w.task, value |-> w.value] : w \in WritesOfStep(id)} = Results(TheTask)
  <2> DEFINE applied(w) == [idx |-> w.idx, task |-> w.task, value |-> w.value]
             write(i) == PutWrite(id, TheTask, i - 1, i)
             result(i) == [idx |-> i - 1, task |-> TheTask, value |-> i]
  <2>1. \A i \in 1..Writes[TheTask] : applied(write(i)) = result(i)
    BY DEF PutWrite
  <2> HIDE DEF applied, write, result
  <2>2. {applied(w) : w \in {write(i) : i \in 1..Writes[TheTask]}} = {result(i) : i \in 1..Writes[TheTask]}
    BY <2>1
  <2> QED
    BY <2>2 DEF WritesOfStep, Results, applied, write, result
<1> QED
  BY <1>2, <1>3, <1>4

\* Whatever crashes, late requests and deletions of the thread, for any number of
\* steps and channels: every superstep of a stored checkpoint has applied all that
\* its task wrote and nothing else.  For supersteps of one task: the primary key of
\* a write lacks the task, and with two a step may apply what neither wrote.
THEOREM StepsAreApplied ==
    ASSUME NEW t, LgTasks = {t}
    PROVE  LgSpec => []StepsApplied
<1>1. OneOfTasks
  BY DEF OneOfTasks
<1>2. LgInit => ThreadInv
  BY InitThreadInv
<1>3. ThreadInv /\ [LgNext]_lgVars => ThreadInv'
  BY <1>1, NextThreadInv
<1>4. ThreadInv => StepsApplied
  BY <1>1, InvApplies
<1> QED
  BY <1>2, <1>3, <1>4, PTL DEF LgSpec

----------------------------------------------------------------------------
(* TaskExecution: the inductive invariants. *)

\* No event asks about an interrupt there has not been.
AsksInv ==
    /\ \A i \in DOMAIN queue : queue[i].ask \in 0..asks
    /\ taken # NoEvent => taken.ask \in 0..asks
    /\ stored.ask \in 0..asks

\* The question about the interrupt the thread waits at.
Question == [state |-> "input_required", ask |-> thread, final |-> FALSE]

\* What the last event of an execution may be, for how the graph stands.
Outcomes ==
    {FinalStatus("failed")}
    \cup (IF thread = 0 THEN {FinalStatus("completed")} ELSE {Question})
    \cup (IF thread = 0 /\ ~said THEN {FinalStatus("working")} ELSE {})

\* e is the last event there is to save, and the consumer is there to save it,
\* or it was the last one saved.
LastIs(e) ==
    /\ queue # <<>> => queue[Len(queue)] = e
    /\ queue = <<>> /\ taken # NoEvent => taken = e
    /\ queue = <<>> /\ taken = NoEvent => stored = [state |-> e.state, ask |-> e.ask]
    /\ queue # <<>> \/ taken # NoEvent => consumer = "on"

\* Only the last event that is still to be saved is a final one.
FinalIsLast ==
    /\ \A i \in DOMAIN queue : queue[i].final => i = Len(queue)
    /\ taken # NoEvent /\ taken.final => queue = <<>>

NoFinal ==
    /\ consumer = "on"
    /\ \A i \in DOMAIN queue : ~queue[i].final
    /\ taken # NoEvent => ~taken.final

\* What is under way at each point of an execution.
RequestInv ==
    NoFailure =>
        /\ pc \in {"start", "run", "wait"} => NoFinal
        /\ pc = "run" => thread = 0
        /\ pc = "wait" => thread # 0 /\ LastIs(Question)
        /\ pc = "done" => FinalIsLast /\ \E e \in Outcomes : LastIs(e)
        /\ pc = "idle" => queue = <<>> /\ taken = NoEvent

TaskParts == RequestInv /\ StoredTellsGraph
----------------------------------------------------------------------------
(* TaskExecution: the queue. *)

\* What is in the queue once events are published.
LEMMA Published ==
    ASSUME NEW q \in Seq(Event), NEW events \in Seq(Event)
    PROVE  /\ q \o events \in Seq(Event)
           /\ Len(q \o events) = Len(q) + Len(events)
           /\ \A i \in DOMAIN (q \o events) :
                 \/ i \in DOMAIN q /\ (q \o events)[i] = q[i]
                 \/ \E j \in DOMAIN events : i = Len(q) + j /\ (q \o events)[i] = events[j]
<1>1. /\ q \o events \in Seq(Event) /\ Len(q \o events) = Len(q) + Len(events)
      /\ \A i \in 1 .. Len(q) + Len(events) :
            (q \o events)[i] = IF i <= Len(q) THEN q[i] ELSE events[i - Len(q)]
  BY ConcatProperties
<1>2. Len(q) \in Nat /\ Len(events) \in Nat /\ DOMAIN q = 1 .. Len(q) /\ DOMAIN events = 1 .. Len(events)
      /\ DOMAIN (q \o events) = 1 .. Len(q) + Len(events)
  BY <1>1
<1>3. ASSUME NEW i \in 1 .. Len(q) + Len(events)
      PROVE  \/ i \in 1 .. Len(q) /\ (q \o events)[i] = q[i]
             \/ \E j \in 1 .. Len(events) : i = Len(q) + j /\ (q \o events)[i] = events[j]
  <2>1. CASE i <= Len(q)
    BY <1>1, <1>2, <2>1
  <2>2. CASE ~(i <= Len(q))
    <3>1. i - Len(q) \in 1 .. Len(events) /\ i = Len(q) + (i - Len(q))
      BY <1>2, <2>2
    <3>2. (q \o events)[i] = events[i - Len(q)]
      BY <1>1, <2>2
    <3> QED
      BY <3>1, <3>2
  <2> QED
    BY <2>1, <2>2
<1> QED
  BY <1>1, <1>2, <1>3

\* The first event, and those behind it.
LEMMA FirstEvent ==
    ASSUME NEW q \in Seq(Event), q # <<>>
    PROVE  /\ Head(q) = q[1] /\ Head(q) \in Event /\ Tail(q) \in Seq(Event)
           /\ Len(q) \in Nat /\ Len(q) >= 1 /\ Len(Tail(q)) = Len(q) - 1
           /\ 1 \in DOMAIN q
           /\ \A i \in DOMAIN Tail(q) : i + 1 \in DOMAIN q /\ Tail(q)[i] = q[i + 1]
           /\ Tail(q) = <<>> <=> Len(q) = 1
           /\ Tail(q) # <<>> => Tail(q)[Len(Tail(q))] = q[Len(q)]
<1>1. /\ Head(q) = q[1] /\ Head(q) \in Event /\ Tail(q) \in Seq(Event)
      /\ Len(Tail(q)) = Len(q) - 1
      /\ \A i \in 1 .. Len(Tail(q)) : Tail(q)[i] = q[i + 1]
  BY HeadTailProperties
<1>2. Len(q) \in Nat /\ Len(q) >= 1 /\ DOMAIN q = 1 .. Len(q) /\ DOMAIN Tail(q) = 1 .. Len(q) - 1
  BY <1>1, EmptySeq
<1>3. Tail(q) = <<>> <=> Len(q) = 1
  <2>1. Tail(q) # <<>> => Len(Tail(q)) # 0
    BY <1>1, EmptySeq
  <2>2. Tail(q) = <<>> => Len(Tail(q)) = 0
    BY EmptySeq
  <2> QED
    BY <1>1, <1>2, <2>1, <2>2
<1>4. Tail(q) # <<>> => Len(q) - 1 \in 1 .. Len(Tail(q))
  BY <1>1, <1>2, <1>3
<1>5. \A i \in DOMAIN Tail(q) : i + 1 \in DOMAIN q /\ Tail(q)[i] = q[i + 1]
  BY <1>1, <1>2
<1>6. Tail(q) # <<>> => Tail(q)[Len(Tail(q))] = q[Len(q)]
  BY <1>1, <1>2, <1>4
<1> QED
  BY <1>1, <1>2, <1>3, <1>5, <1>6

----------------------------------------------------------------------------
(* TaskExecution: type correctness. *)

LEMMA DecisionType ==
    ASSUME NEW message
    PROVE  ExtractDecision(message) \in Decisions \cup {"none"}
BY DEF ExtractDecision, DataDecision, TextDecision, Decisions

\* Events of the executor.
LEMMA StatusType ==
    \A state \in States \cup {"artifact"} :
        /\ Status(state) \in Event /\ Status(state).ask = 0 /\ ~Status(state).final
        /\ FinalStatus(state) \in Event /\ FinalStatus(state).ask = 0 /\ FinalStatus(state).final
        /\ Status(state).state = state /\ FinalStatus(state).state = state
BY DEF Status, FinalStatus, Event

\* One event, or two.
LEMMA EventsType ==
    /\ \A e \in Event : <<e>> \in Seq(Event) /\ Len(<<e>>) = 1 /\ <<e>>[1] = e /\ DOMAIN <<e>> = {1}
    /\ \A e, f \in Event : /\ <<e, f>> \in Seq(Event) /\ Len(<<e, f>>) = 2
                           /\ <<e, f>>[1] = e /\ <<e, f>>[2] = f /\ DOMAIN <<e, f>> = {1, 2}
OBVIOUS

\* What events ask about.
AsksUpTo(events, n) == events \in Seq(Event) /\ \A i \in DOMAIN events : events[i].ask \in 0..n

LEMMA EventsAsk ==
    ASSUME NEW n \in Nat
    PROVE  /\ \A e \in Event : e.ask \in 0..n => AsksUpTo(<<e>>, n)
           /\ \A e, f \in Event : e.ask \in 0..n /\ f.ask \in 0..n => AsksUpTo(<<e, f>>, n)
           /\ \A s, t \in Seq(Event) : AsksUpTo(s, n) /\ AsksUpTo(t, n) => AsksUpTo(s \o t, n)
<1>1. ASSUME NEW e \in Event, e.ask \in 0..n PROVE AsksUpTo(<<e>>, n)
  BY <1>1, EventsType DEF AsksUpTo
<1>2. ASSUME NEW e \in Event, NEW f \in Event, e.ask \in 0..n, f.ask \in 0..n PROVE AsksUpTo(<<e, f>>, n)
  <2> DEFINE s == <<e, f>>
  <2>1. s \in Seq(Event) /\ s[1] = e /\ s[2] = f /\ DOMAIN s = {1, 2}
    BY EventsType
  <2> HIDE DEF s
  <2>2. \A i \in DOMAIN s : s[i].ask \in 0..n
    BY <1>2, <2>1
  <2>3. AsksUpTo(s, n)
    BY <2>1, <2>2 DEF AsksUpTo
  <2> QED
    BY <2>3 DEF s
<1>3. ASSUME NEW s \in Seq(Event), NEW t \in Seq(Event), AsksUpTo(s, n), AsksUpTo(t, n)
      PROVE  AsksUpTo(s \o t, n)
  BY <1>3, Published DEF AsksUpTo
<1> QED
  BY <1>1, <1>2, <1>3

\* What publishing does to the type invariant.
LEMMA PublishType ==
    ASSUME TypeOK, AsksInv, NEW events \in Seq(Event), Publish(events),
           NEW n \in Nat, n >= asks,
           \A i \in DOMAIN events : events[i].ask \in 0..n
    PROVE  queue' \in Seq(Event) /\ \A i \in DOMAIN queue' : queue'[i].ask \in 0..n
<1>1. queue' = queue \o events /\ queue \in Seq(Event) /\ asks \in Nat
  BY TaskAssumption DEF Publish, TypeOK
<1>2. \A x \in 0..asks : x \in 0..n
  BY <1>1
<1> QED
  BY <1>1, <1>2, Published DEF AsksInv

LEMMA StoreType ==
    ASSUME TypeOK, AsksInv, taken # NoEvent, Store(After(taken))
    PROVE  stored' \in TaskRecord /\ stored'.ask \in 0..asks /\ shown' \subseteq 1..asks
<1>1. taken \in Event /\ taken.ask \in 0..asks /\ stored \in TaskRecord /\ stored.ask \in 0..asks
      /\ asks \in Nat /\ shown \subseteq 1..asks
  BY TaskAssumption DEF TypeOK, AsksInv
<1>2. After(taken) \in TaskRecord /\ After(taken).ask \in 0..asks
  <2>1. CASE taken.state = "artifact"
    BY <1>1, <2>1 DEF After
  <2>2. CASE taken.state # "artifact"
    <3>1. taken.state \in States /\ taken.ask \in Nat
      BY <1>1, <2>2 DEF Event
    <3> QED
      BY <1>1, <2>2, <3>1 DEF After, TaskRecord
  <2> QED
    BY <2>1, <2>2
<1>3. After(taken).ask # 0 => After(taken).ask \in 1..asks
  BY <1>1, <1>2
<1> QED
  BY <1>1, <1>2, <1>3 DEF Store

TypeParts == TypeOK /\ AsksInv

LEMMA InitType == Init => TypeParts
<1> SUFFICES ASSUME Init PROVE TypeParts
  OBVIOUS
<1>1. stored \in TaskRecord /\ queue \in Seq(Event) /\ DOMAIN queue = {}
  BY DEF Init, TaskRecord, States
<1>2. sends \in 0..MaxSends /\ faults \in 0..MaxFaults /\ crashes \in 0..MaxCrashes /\ asks \in 0..MaxAsks
  BY TaskAssumption DEF Init
<1>3. thread \in 0..asks /\ ran \subseteq 1..asks /\ shown \subseteq 1..asks /\ stored.ask \in 0..asks
  BY DEF Init
<1>4. TypeOK
  BY <1>1, <1>2, <1>3 DEF Init, TypeOK
<1>5. AsksInv
  BY <1>1, <1>3 DEF Init, AsksInv
<1> QED
  BY <1>4, <1>5 DEF TypeParts

LEMMA ExecuteType ==
    ASSUME TypeParts, NEW message \in Messages, Execute(message)
    PROVE  TypeParts'
<1> USE DEF TypeParts
<1>1. asks \in Nat /\ UNCHANGED <<stored, thread, asks, ran, shown, taken, signal, faults, crashes>>
  BY TaskAssumption DEF Execute, TypeOK, graph
<1>2. input' \in Decisions \cup {"message"}
  BY DecisionType DEF Execute, IsResumeCommand
<1>3. PICK events \in Seq(Event) : Publish(events) /\ \A i \in DOMAIN events : events[i].ask \in 0..asks
  <2> DEFINE submitted == Status("submitted")
             working   == Status("working")
  <2>1. submitted \in Event /\ submitted.ask = 0 /\ working \in Event /\ working.ask = 0
    BY StatusType DEF States
  <2>2. Publish(<<working>>) \/ Publish(<<submitted>> \o <<working>>) \/ Publish(<<>> \o <<working>>)
    BY DEF Execute
  <2> HIDE DEF submitted, working
  <2>3. AsksUpTo(<<working>>, asks) /\ AsksUpTo(<<submitted>>, asks) /\ AsksUpTo(<<>>, asks)
    <3>1. 0 \in 0..asks /\ <<>> \in Seq(Event) /\ DOMAIN <<>> = {}
      BY <1>1
    <3> QED
      BY <1>1, <2>1, <3>1, EventsAsk DEF AsksUpTo
  <2>4. AsksUpTo(<<submitted>> \o <<working>>, asks) /\ AsksUpTo(<<>> \o <<working>>, asks)
    <3>1. <<working>> \in Seq(Event) /\ <<submitted>> \in Seq(Event) /\ <<>> \in Seq(Event)
      BY <2>3 DEF AsksUpTo
    <3> QED
      BY <1>1, <2>3, <3>1, EventsAsk
  <2> QED
    BY <2>2, <2>3, <2>4 DEF AsksUpTo
<1>4. queue' \in Seq(Event) /\ \A i \in DOMAIN queue' : queue'[i].ask \in 0..asks
  BY <1>1, <1>3, PublishType
<1>5. sends' \in 0..MaxSends
  BY TaskAssumption DEF Execute, TypeOK
<1>6. pc' = "start" /\ said' \in BOOLEAN /\ consumer' = "on"
  BY DEF Execute
<1>7. TypeOK'
  BY <1>1, <1>2, <1>4, <1>5, <1>6 DEF TypeOK
<1>8. AsksInv'
  BY <1>1, <1>4 DEF AsksInv
<1> QED
  BY <1>7, <1>8

\* A step of the executor that publishes events.
LEMMA ExecutorType ==
    ASSUME TypeParts, NEW events \in Seq(Event), Publish(events),
           asks' \in 0..MaxAsks, asks' >= asks, thread' \in 0..asks',
           \A i \in DOMAIN events : events[i].ask \in 0..asks',
           pc' \in {"run", "wait", "done"}, said' \in BOOLEAN, signal' \in {"none", "entry", "set"},
           UNCHANGED <<stored, ran, shown, input, taken, consumer, bounds>>
    PROVE  TypeParts'
<1> USE DEF TypeParts
<1>1. asks \in Nat /\ asks' \in Nat
  BY TaskAssumption DEF TypeOK
<1>2. \A x \in 0..asks : x \in 0..asks'
  BY <1>1
<1>3. \A x \in 1..asks : x \in 1..asks'
  BY <1>1
<1>4. queue' \in Seq(Event) /\ \A i \in DOMAIN queue' : queue'[i].ask \in 0..asks'
  BY <1>1, PublishType
<1>5. TypeOK'
  BY <1>3, <1>4 DEF TypeOK, bounds
<1>6. AsksInv'
  BY <1>2, <1>4 DEF AsksInv
<1> QED
  BY <1>5, <1>6

LEMMA GraphType ==
    ASSUME TypeParts, Graph \/ SaveSeen \/ SaveTimeout \/ ExecutionTimeout
    PROVE  TypeParts'
<1>1. /\ asks \in 0..MaxAsks /\ asks >= asks /\ thread \in 0..asks /\ said \in BOOLEAN
      /\ asks < MaxAsks => asks + 1 \in 0..MaxAsks /\ asks + 1 >= asks /\ asks + 1 \in 0..(asks + 1)
      /\ signal \in {"none", "entry", "set"} /\ 0 \in 0..asks /\ 0 \in 0..(asks + 1)
      /\ asks + 1 \in Nat
  BY TaskAssumption DEF TypeParts, TypeOK
<1>2. CASE GraphStart
  <2>1. thread # 0 => thread \in 1..asks
    BY <1>1, TaskAssumption
  <2>2. ran' \subseteq 1..asks
    BY <1>2, <2>1 DEF GraphStart, TypeParts, TypeOK
  <2> QED
    BY <1>1, <1>2, <2>2 DEF GraphStart, TypeParts, TypeOK, AsksInv, bounds
<1>3. CASE GraphSay
  <2>1. Status("working") \in Event /\ Status("working").ask = 0
    BY StatusType DEF States
  <2> HIDE DEF Status
  <2>2. <<Status("working")>> \in Seq(Event)
        /\ \A i \in DOMAIN <<Status("working")>> : <<Status("working")>>[i].ask \in 0..asks
    BY <1>1, <2>1, EventsType
  <2>3. /\ Publish(<<Status("working")>>) /\ UNCHANGED <<asks, thread, signal, pc>> /\ pc = "run" /\ said' = TRUE
        /\ UNCHANGED <<stored, ran, shown, input, taken, consumer, bounds>>
    BY <1>3 DEF GraphSay, graph
  <2> QED
    BY <1>1, <2>2, <2>3, ExecutorType
<1>4. CASE GraphInterrupt
  <2> DEFINE e == [state |-> "input_required", ask |-> asks + 1, final |-> FALSE]
  <2>1. e \in Event /\ e.ask = asks + 1
    BY <1>1 DEF Event, States
  <2>2. /\ Publish(<<e>>) /\ asks < MaxAsks /\ asks' = asks + 1 /\ thread' = asks + 1 /\ said' = said
        /\ signal' = "entry" /\ pc' = "wait"
        /\ UNCHANGED <<stored, ran, shown, input, taken, consumer, bounds>>
    BY <1>4 DEF GraphInterrupt
  <2> HIDE DEF e
  <2>3. <<e>> \in Seq(Event) /\ \A i \in DOMAIN <<e>> : <<e>>[i].ask \in 0..(asks + 1)
    BY <1>1, <2>1, <2>2, EventsType
  <2> QED
    BY <1>1, <2>2, <2>3, ExecutorType
<1>5. CASE GraphRaise \/ ExecutionTimeout
  <2> DEFINE e == FinalStatus("failed")
  <2>1. e \in Event /\ e.ask = 0
    BY StatusType DEF States
  <2>2. /\ Publish(<<e>>) /\ pc' = "done" /\ said' = said /\ signal' \in {signal, "none"}
        /\ \/ asks' = asks /\ thread' = thread
           \/ asks < MaxAsks /\ asks' = asks + 1 /\ thread' = asks + 1
        /\ UNCHANGED <<stored, ran, shown, input, taken, consumer, bounds>>
    BY <1>5 DEF GraphRaise, ExecutionTimeout, graph
  <2> HIDE DEF e
  <2>3. <<e>> \in Seq(Event) /\ \A i \in DOMAIN <<e>> : <<e>>[i].ask \in 0..asks /\ <<e>>[i].ask \in 0..(asks + 1)
    BY <1>1, <2>1, EventsType
  <2> QED
    BY <1>1, <2>2, <2>3, ExecutorType
<1>6. CASE GraphEnd
  <2> DEFINE a == Status("artifact")
             c == FinalStatus("completed")
             f == FinalStatus("working")
  <2>1. a \in Event /\ a.ask = 0 /\ c \in Event /\ c.ask = 0 /\ f \in Event /\ f.ask = 0
    BY StatusType DEF States
  <2>2. /\ Publish(<<a, c>>) \/ Publish(<<f>>)
        /\ pc' = "done" /\ UNCHANGED <<asks, thread, said, signal>>
        /\ UNCHANGED <<stored, ran, shown, input, taken, consumer, bounds>>
    BY <1>6 DEF GraphEnd, graph
  <2> HIDE DEF a, c, f
  <2>3. AsksUpTo(<<a, c>>, asks) /\ AsksUpTo(<<f>>, asks)
    <3>1. asks \in Nat /\ 0 \in 0..asks
      BY <1>1
    <3> QED
      BY <2>1, <3>1, EventsAsk
  <2> QED
    BY <1>1, <2>2, <2>3, ExecutorType DEF AsksUpTo
<1>7. CASE SaveSeen \/ SaveTimeout
  BY <1>7 DEF SaveSeen, SaveTimeout, TypeParts, TypeOK, AsksInv, graph, bounds
<1> QED
  BY <1>2, <1>3, <1>4, <1>5, <1>6, <1>7 DEF Graph

LEMMA ConsumerType ==
    ASSUME TypeParts, Consumer \/ RequestEnds \/ Crash
    PROVE  TypeParts'
<1>1. CASE Take
  <2>1. queue \in Seq(Event) /\ queue # <<>> /\ taken' = Head(queue) /\ queue' = Tail(queue)
    BY <1>1 DEF Take, TypeParts, TypeOK
  <2>2. /\ Head(queue) = queue[1] /\ Head(queue) \in Event /\ Tail(queue) \in Seq(Event) /\ 1 \in DOMAIN queue
        /\ \A i \in DOMAIN Tail(queue) : i + 1 \in DOMAIN queue /\ Tail(queue)[i] = queue[i + 1]
    BY <2>1, FirstEvent
  <2>3. AsksInv'
    BY <1>1, <2>1, <2>2 DEF Take, AsksInv, TypeParts, graph
  <2> QED
    BY <1>1, <2>1, <2>2, <2>3 DEF Take, TypeParts, TypeOK, graph, engine, bounds
<1>2. CASE Save
  <2>1. stored' \in TaskRecord /\ stored'.ask \in 0..asks /\ shown' \subseteq 1..asks
    BY <1>2, StoreType DEF Save, TypeParts
  <2> QED
    BY <1>2, <2>1 DEF Save, TypeParts, TypeOK, AsksInv, graph, bounds
<1>3. CASE SaveFails
  <2>1. stored' \in TaskRecord /\ stored'.ask \in 0..asks /\ shown' \subseteq 1..asks
    BY <1>3, StoreType DEF SaveFails, TypeParts, TypeOK, AsksInv
  <2>2. faults' \in 0..MaxFaults
    BY <1>3, TaskAssumption DEF SaveFails, TypeParts, TypeOK
  <2> QED
    BY <1>3, <2>1, <2>2 DEF SaveFails, TypeParts, TypeOK, AsksInv, graph, engine
<1>4. <<>> \in Seq(Event) /\ DOMAIN <<>> = {}
  OBVIOUS
<1>5. CASE RequestEnds
  BY <1>4, <1>5 DEF RequestEnds, TypeParts, TypeOK, AsksInv, graph, bounds
<1>6. CASE Crash
  <2>1. stored' \in TaskRecord /\ stored'.ask \in 0..asks /\ shown' \subseteq 1..asks
    BY <1>6, StoreType DEF Crash, TypeParts, TypeOK, AsksInv
  <2>2. crashes' \in 0..MaxCrashes
    BY <1>6, TaskAssumption DEF Crash, TypeParts, TypeOK
  <2> QED
    BY <1>4, <1>6, <2>1, <2>2 DEF Crash, TypeParts, TypeOK, AsksInv, graph
<1> QED
  BY <1>1, <1>2, <1>3, <1>5, <1>6 DEF Consumer

LEMMA NextTypeParts == TypeParts /\ [Next]_vars => TypeParts'
<1>1. TypeParts /\ UNCHANGED vars => TypeParts'
  BY DEF vars, TypeParts, TypeOK, AsksInv, graph, engine, bounds
<1> QED
  BY <1>1, ExecuteType, GraphType, ConsumerType DEF Next

\* What a task, the events on their way to it and the executor hold is what it
\* should be; in particular no question is ever published or stored, and no tool
\* run, for an interrupt the graph has not stopped at.
THEOREM TaskTypeCorrect == Spec => []TypeOK
<1>1. TypeParts => TypeOK
  BY DEF TypeParts
<1> QED
  BY <1>1, InitType, NextTypeParts, PTL DEF Spec

----------------------------------------------------------------------------
(* TaskExecution: the stored task and the graph. *)

\* A failed save and a crash are not forgotten.
LEMMA FailuresStay ==
    ASSUME TypeOK, [Next]_vars, NoFailure'
    PROVE  NoFailure /\ ~SaveFails /\ ~Crash
<1>1. faults \in 0..MaxFaults /\ crashes \in 0..MaxCrashes /\ MaxFaults \in Nat /\ MaxCrashes \in Nat
      /\ faults' = MaxFaults /\ crashes' = MaxCrashes
  BY TaskAssumption DEF TypeOK, NoFailure
<1>2. ~SaveFails /\ ~Crash
  BY <1>1 DEF SaveFails, Crash
<1>3. faults' = faults /\ crashes' = crashes
  BY <1>2 DEF Next, vars, bounds, Execute, Graph, GraphStart, GraphSay, GraphInterrupt, GraphRaise, GraphEnd,
              SaveSeen, SaveTimeout, ExecutionTimeout, Consumer, Take, Save, RequestEnds
<1> QED
  BY <1>1, <1>2, <1>3 DEF NoFailure

\* Events behind those of a running execution.
LEMMA PublishNoFinal ==
    ASSUME TypeOK, NoFinal, NEW events \in Seq(Event), Publish(events),
           \A i \in DOMAIN events : ~events[i].final,
           UNCHANGED <<taken, consumer>>
    PROVE  NoFinal'
<1>1. queue' = queue \o events /\ queue \in Seq(Event)
  BY DEF Publish, TypeOK
<1>2. \A i \in DOMAIN queue' : ~queue'[i].final
  BY <1>1, Published DEF NoFinal
<1> QED
  BY <1>2 DEF NoFinal

\* The last of them.
LEMMA PublishLast ==
    ASSUME TypeOK, NoFinal, NEW events \in Seq(Event), Publish(events),
           events # <<>>, \A i \in DOMAIN events : events[i].final => i = Len(events),
           UNCHANGED <<taken, consumer>>
    PROVE  /\ queue' # <<>> /\ queue'[Len(queue')] = events[Len(events)]
           /\ consumer' = "on" /\ FinalIsLast'
<1>1. queue' = queue \o events /\ queue \in Seq(Event)
  BY DEF Publish, TypeOK
<1>2. Len(events) \in Nat /\ Len(events) # 0 /\ Len(queue) \in Nat
  BY <1>1, EmptySeq
<1>3. /\ queue' \in Seq(Event) /\ Len(queue') = Len(queue) + Len(events)
      /\ \A i \in DOMAIN queue' :
            \/ i \in DOMAIN queue /\ queue'[i] = queue[i]
            \/ \E j \in DOMAIN events : i = Len(queue) + j /\ queue'[i] = events[j]
  BY <1>1, Published
<1>4. DOMAIN queue = 1..Len(queue) /\ DOMAIN events = 1..Len(events) /\ DOMAIN queue' = 1..Len(queue')
  BY <1>1, <1>3
<1>5. queue' # <<>>
  BY <1>2, <1>3, EmptySeq
<1>6. queue'[Len(queue')] = events[Len(events)]
  <2>1. Len(queue') \in DOMAIN queue' /\ Len(queue') \notin DOMAIN queue
    BY <1>2, <1>3, <1>4
  <2>2. PICK j \in DOMAIN events : Len(queue') = Len(queue) + j /\ queue'[Len(queue')] = events[j]
    BY <1>3, <2>1
  <2>3. j = Len(events)
    BY <1>2, <1>3, <1>4, <2>2
  <2> QED
    BY <2>2, <2>3
<1>7. \A i \in DOMAIN queue' : queue'[i].final => i = Len(queue')
  BY <1>2, <1>3, <1>4 DEF NoFinal
<1> QED
  BY <1>5, <1>6, <1>7 DEF NoFinal, FinalIsLast

\* One event.
LEMMA PublishOne ==
    ASSUME TypeOK, NoFinal, NEW e \in Event, Publish(<<e>>), UNCHANGED <<taken, consumer>>
    PROVE  /\ queue' # <<>> /\ queue'[Len(queue')] = e /\ consumer' = "on" /\ FinalIsLast'
           /\ ~e.final => NoFinal'
<1>1. <<e>> \in Seq(Event) /\ Len(<<e>>) = 1 /\ <<e>>[1] = e /\ DOMAIN <<e>> = {1} /\ <<e>> # <<>>
  BY EventsType, EmptySeq
<1>2. ~e.final => NoFinal'
  BY <1>1, PublishNoFinal
<1> QED
  BY <1>1, <1>2, PublishLast

\* A step that leaves the events alone.
LEMMA EventsAlone ==
    ASSUME UNCHANGED <<queue, taken, consumer>>
    PROVE  /\ NoFinal => NoFinal' /\ FinalIsLast'
           /\ FinalIsLast => FinalIsLast'
BY DEF NoFinal, FinalIsLast

LEMMA NoFinalWeaker == NoFinal => FinalIsLast
BY DEF NoFinal, FinalIsLast

\* A request starts, the graph runs, and nothing final is published.
LEMMA ExecuteRequest ==
    ASSUME TypeParts, TaskParts, NEW message \in Messages, Execute(message), NoFailure, NoFailure'
    PROVE  TaskParts'
<1>1. pc = "idle" /\ queue = <<>> /\ taken = NoEvent /\ queue \in Seq(Event)
  BY DEF Execute, TaskParts, RequestInv, TypeParts, TypeOK
<1>2. PICK events \in Seq(Event) : Publish(events) /\ \A i \in DOMAIN events : ~events[i].final
  <2> DEFINE submitted == Status("submitted")
             working   == Status("working")
             NotFinal(s) == s \in Seq(Event) /\ \A i \in DOMAIN s : ~s[i].final
  <2>1. submitted \in Event /\ ~submitted.final /\ working \in Event /\ ~working.final
    BY StatusType DEF States
  <2>2. Publish(<<working>>) \/ Publish(<<submitted>> \o <<working>>) \/ Publish(<<>> \o <<working>>)
    BY DEF Execute
  <2> HIDE DEF submitted, working
  <2>3. NotFinal(<<working>>) /\ NotFinal(<<submitted>>) /\ NotFinal(<<>>)
    <3>1. <<>> \in Seq(Event) /\ DOMAIN <<>> = {}
      OBVIOUS
    <3> QED
      BY <2>1, <3>1, EventsType
  <2>4. NotFinal(<<submitted>> \o <<working>>) /\ NotFinal(<<>> \o <<working>>)
    BY <2>3, Published
  <2> QED
    BY <2>2, <2>3, <2>4
<1>3. queue' = queue \o events /\ DOMAIN queue = {}
  BY <1>1, <1>2 DEF Publish
<1>4. \A i \in DOMAIN queue' : ~queue'[i].final
  BY <1>1, <1>2, <1>3, Published
<1>5. pc' = "start" /\ consumer' = "on" /\ taken' = NoEvent
  BY <1>1 DEF Execute
<1> QED
  BY <1>4, <1>5 DEF TaskParts, RequestInv, NoFinal, StoredTellsGraph

\* The event e is the last one of an execution that is over.
LEMMA Done ==
    ASSUME pc' = "done", FinalIsLast', NEW e, e \in Outcomes',
           queue' # <<>>, queue'[Len(queue')] = e, consumer' = "on"
    PROVE  TaskParts'
<1>1. \E d \in Outcomes' : /\ queue' # <<>> => queue'[Len(queue')] = d
                           /\ queue' = <<>> /\ taken' # NoEvent => taken' = d
                           /\ queue' = <<>> /\ taken' = NoEvent => stored' = [state |-> d.state, ask |-> d.ask]
                           /\ queue' # <<>> \/ taken' # NoEvent => consumer' = "on"
  OBVIOUS
<1>2. (\E d \in Outcomes : LastIs(d))'
  BY <1>1 DEF LastIs
<1> QED
  BY <1>2 DEF TaskParts, RequestInv, StoredTellsGraph

LEMMA GraphRequest ==
    ASSUME TypeParts, TaskParts, Graph \/ SaveSeen \/ SaveTimeout \/ ExecutionTimeout, NoFailure, NoFailure'
    PROVE  TaskParts'
<1> USE DEF TaskParts
<1>1. CASE GraphStart
  <2>1. NoFinal /\ UNCHANGED <<queue, taken, consumer>> /\ pc' = "run" /\ thread' = 0
    BY <1>1 DEF GraphStart, RequestInv
  <2> QED
    BY <2>1, EventsAlone DEF RequestInv, StoredTellsGraph
<1>2. CASE GraphSay
  <2>1. Status("working") \in Event /\ ~Status("working").final
    BY StatusType DEF States
  <2>2. /\ NoFinal /\ thread = 0 /\ Publish(<<Status("working")>>)
        /\ UNCHANGED <<taken, consumer>> /\ pc' = "run" /\ thread' = thread
    BY <1>2 DEF GraphSay, RequestInv, graph
  <2> HIDE DEF Status
  <2>3. NoFinal'
    BY <2>1, <2>2, PublishOne DEF TypeParts
  <2> QED
    BY <2>2, <2>3 DEF RequestInv, StoredTellsGraph
<1>3. CASE GraphInterrupt
  <2> DEFINE e == [state |-> "input_required", ask |-> asks + 1, final |-> FALSE]
  <2>1. e \in Event /\ ~e.final /\ e = Question' /\ asks + 1 # 0
    <3>1. asks \in Nat
      BY TaskAssumption DEF TypeParts, TypeOK
    <3>2. thread' = asks + 1
      BY <1>3 DEF GraphInterrupt
    <3> QED
      BY <3>1, <3>2 DEF Event, States, Question
  <2>2. /\ NoFinal /\ Publish(<<e>>) /\ UNCHANGED <<taken, consumer>>
        /\ pc' = "wait" /\ thread' # 0
    BY <1>3, <2>1 DEF GraphInterrupt, RequestInv
  <2> HIDE DEF e
  <2>3. queue' # <<>> /\ queue'[Len(queue')] = e /\ consumer' = "on" /\ NoFinal'
    BY <2>1, <2>2, PublishOne DEF TypeParts
  <2>4. LastIs(Question)'
    BY <2>1, <2>3 DEF LastIs
  <2> QED
    BY <2>2, <2>3, <2>4 DEF RequestInv, StoredTellsGraph
<1>4. CASE GraphRaise \/ ExecutionTimeout
  <2> DEFINE e == FinalStatus("failed")
  <2>1. e \in Event /\ e \in Outcomes'
    BY StatusType DEF States, Outcomes
  <2>2. NoFinal /\ Publish(<<e>>) /\ UNCHANGED <<taken, consumer>> /\ pc' = "done"
    BY <1>4 DEF GraphRaise, ExecutionTimeout, RequestInv
  <2> HIDE DEF e
  <2>3. queue' # <<>> /\ queue'[Len(queue')] = e /\ consumer' = "on" /\ FinalIsLast'
    BY <2>1, <2>2, PublishOne DEF TypeParts
  <2> QED
    BY <2>1, <2>2, <2>3, Done
<1>5. CASE GraphEnd
  <2>1. /\ NoFinal /\ thread = 0 /\ UNCHANGED <<taken, consumer, thread, said>> /\ pc' = "done"
    BY <1>5 DEF GraphEnd, RequestInv, graph
  <2>2. CASE said
    <3> DEFINE a == Status("artifact")
               c == FinalStatus("completed")
    <3>1. a \in Event /\ ~a.final /\ c \in Event /\ c \in Outcomes'
      BY <2>1, StatusType DEF States, Outcomes
    <3>2. Publish(<<a, c>>)
      BY <1>5, <2>2 DEF GraphEnd
    <3> HIDE DEF a, c
    <3>3. /\ <<a, c>> \in Seq(Event) /\ Len(<<a, c>>) = 2 /\ DOMAIN <<a, c>> = {1, 2}
          /\ <<a, c>>[1] = a /\ <<a, c>>[2] = c
      BY <3>1, EventsType
    <3>4. <<a, c>> # <<>> /\ \A i \in DOMAIN <<a, c>> : <<a, c>>[i].final => i = Len(<<a, c>>)
      BY <3>1, <3>3
    <3>5. /\ queue' # <<>> /\ queue'[Len(queue')] = <<a, c>>[Len(<<a, c>>)]
          /\ consumer' = "on" /\ FinalIsLast'
      BY <2>1, <3>2, <3>3, <3>4, PublishLast DEF TypeParts
    <3> QED
      BY <2>1, <3>1, <3>3, <3>5, Done
  <2>3. CASE ~said
    <3> DEFINE f == FinalStatus("working")
    <3>1. f \in Event /\ f \in Outcomes'
      BY <2>1, <2>3, StatusType DEF States, Outcomes
    <3>2. Publish(<<f>>)
      BY <1>5, <2>3 DEF GraphEnd
    <3> HIDE DEF f
    <3>3. queue' # <<>> /\ queue'[Len(queue')] = f /\ consumer' = "on" /\ FinalIsLast'
      BY <2>1, <3>1, <3>2, PublishOne DEF TypeParts
    <3> QED
      BY <2>1, <3>1, <3>3, Done
  <2> QED
    BY <2>2, <2>3
<1>6. CASE SaveSeen \/ SaveTimeout
  <2>1. /\ NoFinal /\ thread # 0 /\ LastIs(Question) /\ pc' = "done"
        /\ UNCHANGED <<stored, thread, said, queue, taken, consumer>>
    BY <1>6 DEF SaveSeen, SaveTimeout, RequestInv, graph
  <2>2. Question' = Question /\ LastIs(Question)' /\ Question' \in Outcomes'
    BY <2>1 DEF Question, LastIs, Outcomes
  <2>3. (\E e \in Outcomes : LastIs(e))'
    BY <2>2 DEF LastIs
  <2> QED
    BY <2>1, <2>3, EventsAlone DEF RequestInv, StoredTellsGraph
<1> QED
  BY <1>1, <1>2, <1>3, <1>4, <1>5, <1>6 DEF Graph

\* The outcomes of an execution, which are statuses.
LEMMA OutcomeIsStatus ==
    /\ Question.state # "artifact"
    /\ \A e \in Outcomes : e.state # "artifact"
BY DEF Question, Outcomes, FinalStatus

\* The consumer takes the events in turn.
LEMMA TakeRequest ==
    ASSUME TypeParts, TaskParts, Take, NoFailure, NoFailure'
    PROVE  TaskParts'
<1>1. /\ queue \in Seq(Event) /\ queue # <<>> /\ taken = NoEvent
      /\ taken' = Head(queue) /\ queue' = Tail(queue)
      /\ consumer = "on" /\ consumer' = "on" /\ UNCHANGED <<stored, thread, said, pc>>
  BY DEF Take, TypeParts, TypeOK, graph, engine
<1>2. /\ Head(queue) = queue[1] /\ Head(queue) \in Event
      /\ Len(queue) \in Nat /\ Len(queue) >= 1 /\ Len(Tail(queue)) = Len(queue) - 1 /\ 1 \in DOMAIN queue
      /\ \A i \in DOMAIN Tail(queue) : i + 1 \in DOMAIN queue /\ Tail(queue)[i] = queue[i + 1]
      /\ Tail(queue) = <<>> <=> Len(queue) = 1
      /\ Tail(queue) # <<>> => Tail(queue)[Len(Tail(queue))] = queue[Len(queue)]
      /\ Tail(queue) \in Seq(Event)
  BY <1>1, FirstEvent
<1>3. NoEvent \notin Event
  BY TaskAssumption
<1>4. taken' # NoEvent
  BY <1>1, <1>2, <1>3
<1>5. NoFinal => NoFinal'
  BY <1>1, <1>2 DEF NoFinal
<1>6. FinalIsLast => FinalIsLast'
  <2> SUFFICES ASSUME FinalIsLast PROVE FinalIsLast'
    OBVIOUS
  <2>1. DOMAIN Tail(queue) = 1..(Len(queue) - 1)
    BY <1>2
  <2>2. ASSUME NEW i \in DOMAIN Tail(queue), Tail(queue)[i].final PROVE i = Len(Tail(queue))
    <3>1. i + 1 \in DOMAIN queue /\ queue[i + 1].final
      BY <1>2, <2>2
    <3>2. i + 1 = Len(queue)
      BY <3>1 DEF FinalIsLast
    <3> QED
      BY <1>2, <2>1, <3>2
  <2>3. Head(queue).final => Tail(queue) = <<>>
    BY <1>2 DEF FinalIsLast
  <2> QED
    BY <1>1, <2>2, <2>3 DEF FinalIsLast
<1>7. ASSUME NEW e, LastIs(e)
      PROVE  /\ queue' # <<>> => queue'[Len(queue')] = e
             /\ queue' = <<>> /\ taken' # NoEvent => taken' = e
             /\ queue' = <<>> /\ taken' = NoEvent => stored' = [state |-> e.state, ask |-> e.ask]
             /\ queue' # <<>> \/ taken' # NoEvent => consumer' = "on"
  BY <1>1, <1>2, <1>4, <1>7 DEF LastIs
<1>8. Outcomes' = Outcomes /\ Question' = Question
  BY <1>1 DEF Outcomes, Question
<1>9. LastIs(Question) => LastIs(Question)'
  BY <1>7, <1>8 DEF LastIs
<1>10. (\E e \in Outcomes : LastIs(e)) => (\E e \in Outcomes : LastIs(e))'
  BY <1>7, <1>8 DEF LastIs
<1>11. pc # "idle"
  BY <1>1 DEF TaskParts, RequestInv
<1> QED
  BY <1>1, <1>5, <1>6, <1>9, <1>10, <1>11 DEF TaskParts, RequestInv, StoredTellsGraph

\* and saves them.
LEMMA SaveRequest ==
    ASSUME TypeParts, TaskParts, Save, NoFailure, NoFailure'
    PROVE  TaskParts'
<1>1. /\ taken # NoEvent /\ taken' = NoEvent /\ queue' = queue /\ stored' = After(taken)
      /\ consumer' = (IF taken.final THEN "off" ELSE "on") /\ UNCHANGED <<thread, said, pc>>
  BY DEF Save, Store, graph
<1>2. NoFinal => NoFinal'
  BY <1>1 DEF NoFinal
<1>3. FinalIsLast => FinalIsLast'
  BY <1>1 DEF FinalIsLast
<1>4. ASSUME NEW e, LastIs(e), e.state # "artifact", FinalIsLast
      PROVE  /\ queue' # <<>> => queue'[Len(queue')] = e
             /\ queue' = <<>> /\ taken' # NoEvent => taken' = e
             /\ queue' = <<>> /\ taken' = NoEvent => stored' = [state |-> e.state, ask |-> e.ask]
             /\ queue' # <<>> \/ taken' # NoEvent => consumer' = "on"
  <2>1. queue = <<>> => taken = e
    BY <1>1, <1>4 DEF LastIs
  <2>2. queue = <<>> => stored' = [state |-> e.state, ask |-> e.ask]
    BY <1>1, <1>4, <2>1 DEF After
  <2>3. queue # <<>> => ~taken.final
    BY <1>1, <1>4 DEF FinalIsLast
  <2> QED
    BY <1>1, <1>4, <2>2, <2>3 DEF LastIs
<1>5. Outcomes' = Outcomes /\ Question' = Question
  BY <1>1 DEF Outcomes, Question
<1>6. LastIs(Question) /\ NoFinal => LastIs(Question)'
  BY <1>4, <1>5, OutcomeIsStatus, NoFinalWeaker DEF LastIs
<1>7. FinalIsLast /\ (\E e \in Outcomes : LastIs(e)) => (\E e \in Outcomes : LastIs(e))'
  BY <1>4, <1>5, OutcomeIsStatus DEF LastIs
<1>8. pc # "idle"
  BY <1>1 DEF TaskParts, RequestInv
<1> QED
  BY <1>1, <1>2, <1>3, <1>6, <1>7, <1>8 DEF TaskParts, RequestInv, StoredTellsGraph

\* The request ends when its last event is saved.
LEMMA EndRequest ==
    ASSUME TypeParts, TaskParts, RequestEnds, NoFailure, NoFailure'
    PROVE  TaskParts'
<1>1. /\ pc = "done" /\ taken = NoEvent /\ (consumer = "off" \/ queue = <<>>)
      /\ pc' = "idle" /\ queue' = <<>> /\ taken' = NoEvent /\ UNCHANGED <<stored, thread, said>>
  BY DEF RequestEnds, graph
<1>2. PICK e \in Outcomes : LastIs(e)
  BY <1>1 DEF TaskParts, RequestInv
<1>3. stored = [state |-> e.state, ask |-> e.ask]
  BY <1>1, <1>2 DEF LastIs
<1>4. \/ e.state = "failed"
      \/ e.state = "completed" /\ thread = 0
      \/ e.state = "input_required" /\ e.ask = thread /\ thread # 0
      \/ e.state = "working" /\ ~said /\ thread = 0
  BY <1>2 DEF Outcomes, FinalStatus, Question
<1>5. stored.state = e.state /\ stored.ask = e.ask
  BY <1>3
<1>6. StoredTellsGraph'
  BY <1>1, <1>4, <1>5 DEF StoredTellsGraph
<1> QED
  BY <1>1, <1>6 DEF TaskParts, RequestInv

\* Between requests, and without a failed save or a crash, the stored task tells
\* how the graph stands.  The last event an execution publishes tells it; no
\* final event goes before it, so the consumer does not stop early, and saves it.
THEOREM StoredIsRight == Spec => []StoredTellsGraph
<1>1. Init => TypeParts /\ TaskParts
  BY InitType DEF Init, TaskParts, RequestInv, StoredTellsGraph
<1>2. TypeParts /\ TaskParts /\ [Next]_vars => TypeParts' /\ TaskParts'
  <2> SUFFICES ASSUME TypeParts, TaskParts, [Next]_vars PROVE TypeParts' /\ TaskParts'
    OBVIOUS
  <2>2. TypeParts'
    BY NextTypeParts
  <2>3. CASE ~NoFailure'
    BY <2>2, <2>3 DEF TaskParts, RequestInv, StoredTellsGraph
  <2>4. CASE NoFailure'
    <3>1. NoFailure /\ ~SaveFails /\ ~Crash
      BY <2>4, FailuresStay DEF TypeParts
    <3>2. UNCHANGED vars => TaskParts'
      BY DEF vars, graph, engine, bounds, TaskParts, RequestInv, StoredTellsGraph, NoFailure, NoFinal,
             FinalIsLast, LastIs, Outcomes, Question
    <3> QED
      BY <2>2, <2>4, <3>1, <3>2, ExecuteRequest, GraphRequest, TakeRequest, SaveRequest, EndRequest
         DEF Next, Consumer
  <2> QED
    BY <2>3, <2>4
<1>3. TaskParts => StoredTellsGraph
  BY DEF TaskParts
<1> QED
  BY <1>1, <1>2, <1>3, PTL DEF Spec

----------------------------------------------------------------------------
(* TaskExecution implements TaskDialog: the inductive invariant. *)

\* The state of the task once e is saved: an artifact is only saved for a task that works.
StateOf(e) == IF e.state = "artifact" THEN "working" ELSE e.state

\* What may be saved of a task in state s.
Fits(s, e) ==
    /\ \/ e.state = "submitted" /\ s = "none" /\ ~e.final
       \/ e.state = "working" /\ s \in {"submitted", "working", "input_required"}
       \/ e.state \in {"input_required", "artifact"} /\ s = "working" /\ ~e.final
       \/ e.state = "completed" /\ s = "working" /\ e.final
       \/ e.state = "failed" /\ s \in {"working", "input_required"} /\ e.final
    /\ e.state # "input_required" => e.ask = 0

\* In a request nothing follows a final event, and a question is only given up.
GoesOn(e, f) == Fits(StateOf(e), f) /\ ~e.final /\ (e.state = "input_required" => f.state = "failed")

\* The events of p can be saved one after the other, the first in state s.
Follow(s, p) ==
    /\ p # <<>> => Fits(s, p[1])
    /\ \A i \in DOMAIN p : i + 1 \in DOMAIN p => GoesOn(p[i], p[i + 1])

LastState(s, p) == IF p = <<>> THEN s ELSE StateOf(p[Len(p)])

\* No event of p is final, and none but the last a question.
Going(p) == \A i \in DOMAIN p : ~p[i].final
NoQuestionIn(p) == \A i \in DOMAIN p : p[i].state # "input_required"

\* A question that is not saved yet is a new one, and the only one.
NewQuestion(asked, p) ==
    \A i \in DOMAIN p : p[i].state = "input_required" =>
        /\ p[i].ask # 0 /\ p[i].ask \notin asked
        /\ \A j \in DOMAIN p : j # i => p[j].state # "input_required"

DialogInv ==
    /\ stored.state # "input_required" => stored.ask = 0
    /\ taken # NoEvent => consumer = "on"
    /\ pc = "idle" => consumer = "off" /\ queue = <<>> /\ taken = NoEvent
    /\ consumer = "on" =>
        /\ Follow(stored.state, Unsaved) /\ NewQuestion(shown, Unsaved)
        /\ pc # "done" => Going(Unsaved)
        /\ pc \in {"start", "run"} => LastState(stored.state, Unsaved) = "working" /\ NoQuestionIn(Unsaved)
        /\ pc = "wait" => LastState(stored.state, Unsaved) = "input_required"

----------------------------------------------------------------------------
(* TaskExecution: the events that are not saved yet. *)

LEMMA UnsavedType == TypeOK => Unsaved \in Seq(Event)
BY DEF TypeOK, Unsaved

\* Taking an event leaves what is to be saved as it is.
LEMMA TakeUnsaved ==
    ASSUME NEW q \in Seq(Event), q # <<>>
    PROVE  <<Head(q)>> \o Tail(q) = q
OBVIOUS

\* The event the consumer has in hand is the first, and the rest is in the queue.
LEMMA TakenIsFirst ==
    ASSUME TypeOK, taken # NoEvent
    PROVE  /\ taken \in Event /\ Unsaved \in Seq(Event) /\ Unsaved # <<>>
           /\ Unsaved[1] = taken /\ Head(Unsaved) = taken /\ Tail(Unsaved) = queue
<1>1. taken \in Event /\ queue \in Seq(Event) /\ Unsaved = <<taken>> \o queue
  BY DEF TypeOK, Unsaved
<1>2. ASSUME NEW e \in Event, NEW q \in Seq(Event)
      PROVE  /\ <<e>> \o q \in Seq(Event) /\ <<e>> \o q # <<>> /\ (<<e>> \o q)[1] = e
             /\ Head(<<e>> \o q) = e /\ Tail(<<e>> \o q) = q
  OBVIOUS
<1> QED
  BY <1>1, <1>2

\* An event is published.
LEMMA PublishUnsaved ==
    ASSUME TypeOK, NEW events \in Seq(Event), Publish(events), taken' = taken
    PROVE  Unsaved' = Unsaved \o events
<1>1. queue \in Seq(Event) /\ queue' = queue \o events /\ (taken = NoEvent \/ taken \in Event)
  BY DEF TypeOK, Publish
<1>2. ASSUME NEW e \in Event, NEW q \in Seq(Event)
      PROVE  <<e>> \o (q \o events) = (<<e>> \o q) \o events
  OBVIOUS
<1> QED
  BY <1>1, <1>2 DEF Unsaved

LEMMA OneBehind ==
    ASSUME NEW p \in Seq(Event), NEW e \in Event
    PROVE  /\ p \o <<e>> \in Seq(Event) /\ p \o <<e>> # <<>> /\ Len(p \o <<e>>) = Len(p) + 1
           /\ Len(p) \in Nat /\ DOMAIN (p \o <<e>>) = 1..(Len(p) + 1) /\ DOMAIN p = 1..Len(p)
           /\ (p \o <<e>>)[Len(p) + 1] = e
           /\ \A i \in DOMAIN p : (p \o <<e>>)[i] = p[i]
           /\ p = <<>> <=> Len(p) = 0
OBVIOUS

LEMMA AppendTwo ==
    ASSUME NEW p \in Seq(Event), NEW e \in Event, NEW f \in Event
    PROVE  /\ p \o <<e, f>> = (p \o <<e>>) \o <<f>>
           /\ <<>> \o <<e>> = <<e>> /\ <<e>> \o <<f>> = <<e, f>>
<1>1. <<>> \o <<e>> = <<e>>
  OBVIOUS
<1>2. <<e>> \o <<f>> = <<e, f>>
  <2> DEFINE s == <<e>> \o <<f>>
             t == <<e, f>>
  <2>1. /\ s \in Seq(Event) /\ Len(s) = 2 /\ s[1] = e /\ s[2] = f
        /\ t \in Seq(Event) /\ Len(t) = 2 /\ t[1] = e /\ t[2] = f
    OBVIOUS
  <2> HIDE DEF s, t
  <2>2. \A i \in 1..Len(s) : s[i] = t[i]
    BY <2>1
  <2>3. s = t
    BY <2>1, <2>2, SeqEqual
  <2> QED
    BY <2>3 DEF s, t
<1>3. p \o (<<e>> \o <<f>>) = (p \o <<e>>) \o <<f>>
  OBVIOUS
<1> QED
  BY <1>1, <1>2, <1>3

----------------------------------------------------------------------------
(* TaskExecution: what follows on what. *)

LEMMA FollowAppend ==
    ASSUME NEW s, NEW p \in Seq(Event), NEW e \in Event,
           Follow(s, p), Going(p), Fits(LastState(s, p), e),
           e.state = "failed" \/ NoQuestionIn(p)
    PROVE  Follow(s, p \o <<e>>) /\ LastState(s, p \o <<e>>) = StateOf(e)
<1> DEFINE q == p \o <<e>>
<1>1. /\ q \in Seq(Event) /\ q # <<>> /\ Len(q) = Len(p) + 1 /\ Len(p) \in Nat
      /\ DOMAIN q = 1..(Len(p) + 1) /\ DOMAIN p = 1..Len(p) /\ q[Len(p) + 1] = e
      /\ \A i \in DOMAIN p : q[i] = p[i]
      /\ p = <<>> <=> Len(p) = 0
  BY OneBehind
<1> HIDE DEF q
<1>2. Fits(s, q[1])
  <2>1. CASE p = <<>>
    BY <1>1, <2>1 DEF LastState
  <2>2. CASE p # <<>>
    BY <1>1, <2>2 DEF Follow
  <2> QED
    BY <2>1, <2>2
<1>3. ASSUME NEW i \in DOMAIN q, i + 1 \in DOMAIN q PROVE GoesOn(q[i], q[i + 1])
  <2>1. CASE i + 1 \in DOMAIN p
    BY <1>1, <1>3, <2>1 DEF Follow
  <2>2. CASE i + 1 \notin DOMAIN p
    <3>1. i = Len(p) /\ i \in DOMAIN p /\ p # <<>> /\ q[i] = p[i] /\ q[i + 1] = e
      BY <1>1, <1>3, <2>2
    <3>2. Fits(StateOf(p[i]), e) /\ ~p[i].final
      BY <3>1 DEF LastState, Going
    <3>3. p[i].state = "input_required" => e.state = "failed"
      BY <3>1 DEF NoQuestionIn
    <3> QED
      BY <3>1, <3>2, <3>3 DEF GoesOn
  <2> QED
    BY <2>1, <2>2
<1>4. Follow(s, q)
  BY <1>2, <1>3 DEF Follow
<1>5. LastState(s, q) = StateOf(e)
  BY <1>1 DEF LastState
<1> QED
  BY <1>4, <1>5 DEF q

\* What an append keeps.
LEMMA AppendKeeps ==
    ASSUME NEW asked, NEW p \in Seq(Event), NEW e \in Event
    PROVE  /\ Going(p) /\ ~e.final => Going(p \o <<e>>)
           /\ NoQuestionIn(p) /\ e.state # "input_required" => NoQuestionIn(p \o <<e>>)
           /\ NewQuestion(asked, p) /\ e.state # "input_required" => NewQuestion(asked, p \o <<e>>)
           /\ NoQuestionIn(p) /\ e.ask # 0 /\ e.ask \notin asked => NewQuestion(asked, p \o <<e>>)
<1> DEFINE q == p \o <<e>>
<1>1. /\ Len(p) \in Nat /\ DOMAIN q = 1..(Len(p) + 1) /\ DOMAIN p = 1..Len(p) /\ q[Len(p) + 1] = e
      /\ \A i \in DOMAIN p : q[i] = p[i]
  BY OneBehind
<1> HIDE DEF q
<1>2. \A i \in DOMAIN q : (i \in DOMAIN p /\ q[i] = p[i]) \/ (i = Len(p) + 1 /\ q[i] = e)
  BY <1>1
<1>3. Going(p) /\ ~e.final => Going(q)
  BY <1>2 DEF Going
<1>4. NoQuestionIn(p) /\ e.state # "input_required" => NoQuestionIn(q)
  BY <1>2 DEF NoQuestionIn
<1>5. NewQuestion(asked, p) /\ e.state # "input_required" => NewQuestion(asked, q)
  BY <1>2 DEF NewQuestion
<1>6. NoQuestionIn(p) /\ e.ask # 0 /\ e.ask \notin asked => NewQuestion(asked, q)
  BY <1>2 DEF NoQuestionIn, NewQuestion
<1> QED
  BY <1>3, <1>4, <1>5, <1>6 DEF q

\* Once the first event is saved the others can be.
LEMMA FollowTail ==
    ASSUME NEW s, NEW p \in Seq(Event), p # <<>>, Follow(s, p)
    PROVE  /\ Follow(StateOf(p[1]), Tail(p))
           /\ LastState(StateOf(p[1]), Tail(p)) = LastState(s, p)
           /\ Going(p) => Going(Tail(p))
           /\ NoQuestionIn(p) => NoQuestionIn(Tail(p))
           /\ p[1].final => Tail(p) = <<>>
           /\ p[1].state = "input_required" /\ Tail(p) # <<>> => Tail(p)[1].state = "failed"
<1> DEFINE q == Tail(p)
<1>1. /\ Len(p) \in Nat /\ Len(p) >= 1 /\ Len(q) = Len(p) - 1 /\ q \in Seq(Event)
      /\ \A i \in DOMAIN q : i + 1 \in DOMAIN p /\ q[i] = p[i + 1]
      /\ q = <<>> <=> Len(p) = 1
      /\ q # <<>> => q[Len(q)] = p[Len(p)]
      /\ 1 \in DOMAIN p
  BY FirstEvent
<1>2. DOMAIN q = 1..(Len(p) - 1) /\ DOMAIN p = 1..Len(p)
  BY <1>1
<1> HIDE DEF q
<1>3. ASSUME q # <<>> PROVE 1 \in DOMAIN q /\ q[1] = p[2] /\ GoesOn(p[1], p[2])
  <2>1. 1 \in DOMAIN q /\ 1 + 1 \in DOMAIN p /\ 1 + 1 = 2
    BY <1>1, <1>2, <1>3
  <2> QED
    BY <1>1, <2>1 DEF Follow
<1>4. Follow(StateOf(p[1]), q)
  <2>1. ASSUME NEW i \in DOMAIN q, i + 1 \in DOMAIN q PROVE GoesOn(q[i], q[i + 1])
    <3>1. i + 1 \in DOMAIN p /\ (i + 1) + 1 \in DOMAIN p /\ q[i] = p[i + 1] /\ q[i + 1] = p[(i + 1) + 1]
      BY <1>1, <2>1
    <3> QED
      BY <3>1 DEF Follow
  <2> QED
    BY <1>3, <2>1 DEF Follow, GoesOn
<1>5. LastState(StateOf(p[1]), q) = LastState(s, p)
  BY <1>1 DEF LastState
<1>6. Going(p) => Going(q)
  BY <1>1 DEF Going
<1>7. NoQuestionIn(p) => NoQuestionIn(q)
  BY <1>1 DEF NoQuestionIn
<1>8. p[1].final => q = <<>>
  BY <1>3 DEF GoesOn
<1>9. p[1].state = "input_required" /\ q # <<>> => q[1].state = "failed"
  BY <1>3 DEF GoesOn
<1> QED
  BY <1>4, <1>5, <1>6, <1>7, <1>8, <1>9 DEF q
\* and what was new among them stays so.
LEMMA NewTail ==
    ASSUME NEW asked, NEW p \in Seq(Event), p # <<>>, NewQuestion(asked, p)
    PROVE  /\ NewQuestion(asked, Tail(p))
           /\ p[1].state = "input_required" => NewQuestion(asked \cup {p[1].ask}, Tail(p))
<1>1. /\ \A i \in DOMAIN Tail(p) : i + 1 \in DOMAIN p /\ Tail(p)[i] = p[i + 1] /\ i + 1 # 1
      /\ 1 \in DOMAIN p
  <2>1. DOMAIN Tail(p) \subseteq Nat \ {0}
    OBVIOUS
  <2> QED
    BY <2>1, FirstEvent
<1>2. NewQuestion(asked, Tail(p))
  <2>1. ASSUME NEW i \in DOMAIN Tail(p), Tail(p)[i].state = "input_required"
        PROVE  /\ Tail(p)[i].ask # 0 /\ Tail(p)[i].ask \notin asked
               /\ \A j \in DOMAIN Tail(p) : j # i => Tail(p)[j].state # "input_required"
    <3>1. /\ i + 1 \in DOMAIN p /\ p[i + 1].state = "input_required"
          /\ \A j \in DOMAIN Tail(p) : j # i => j + 1 # i + 1
      BY <1>1, <2>1, FirstEvent
    <3> QED
      BY <1>1, <3>1 DEF NewQuestion
  <2> QED
    BY <2>1 DEF NewQuestion
<1>3. p[1].state = "input_required" => \A i \in DOMAIN Tail(p) : Tail(p)[i].state # "input_required"
  BY <1>1 DEF NewQuestion
<1> QED
  BY <1>2, <1>3 DEF NewQuestion

----------------------------------------------------------------------------
(* TaskExecution implements TaskDialog: the invariant is kept. *)

LEMMA InitDialogInv == Init => DialogInv
BY DEF Init, DialogInv

\* Its parts, while the consumer reads.
OnInv ==
    /\ Follow(stored.state, Unsaved) /\ NewQuestion(shown, Unsaved)
    /\ pc # "done" => Going(Unsaved)
    /\ pc \in {"start", "run"} => LastState(stored.state, Unsaved) = "working" /\ NoQuestionIn(Unsaved)
    /\ pc = "wait" => LastState(stored.state, Unsaved) = "input_required"

\* A request begins with one event, or two.
LEMMA ExecuteDialog ==
    ASSUME TypeOK, DialogInv, NEW message \in Messages, Execute(message)
    PROVE  DialogInv' /\ (stored.state # "none" => Head(Unsaved').state = "working")
<1> DEFINE submitted == Status("submitted")
           working   == Status("working")
<1>1. /\ submitted \in Event /\ submitted.ask = 0 /\ ~submitted.final /\ submitted.state = "submitted"
      /\ working \in Event /\ working.ask = 0 /\ ~working.final /\ working.state = "working"
  BY StatusType DEF States
<1>2. /\ pc = "idle" /\ pc' = "start" /\ consumer' = "on" /\ UNCHANGED <<stored, shown, taken>>
      /\ stored.state \notin Terminal
      /\ \/ stored.state # "none" /\ Publish(<<working>>)
         \/ stored.state # "none" /\ Publish(<<>> \o <<working>>)
         \/ stored.state = "none" /\ Publish(<<submitted>> \o <<working>>)
  BY DEF Execute, IsResumeCommand
<1> HIDE DEF submitted, working
<1>3. Unsaved = <<>> /\ queue = <<>> /\ taken = NoEvent /\ taken' = NoEvent
  BY <1>2 DEF DialogInv, Unsaved
<1>4. stored.state \in {"none", "submitted", "working", "input_required"}
  BY <1>2 DEF TypeOK, TaskRecord, States, Terminal
<1>5. \/ stored.state # "none" /\ Unsaved' = <<>> \o <<working>>
      \/ stored.state = "none" /\ Unsaved' = (<<>> \o <<submitted>>) \o <<working>>
  BY <1>1, <1>2, <1>3, AppendTwo DEF Publish, Unsaved
<1>6. <<>> \in Seq(Event) /\ DOMAIN <<>> = {}
  OBVIOUS
<1>7. /\ Follow(stored.state, <<>>) /\ Going(<<>>) /\ NoQuestionIn(<<>>) /\ NewQuestion(shown, <<>>)
      /\ LastState(stored.state, <<>>) = stored.state
  BY <1>6 DEF Follow, Going, NoQuestionIn, NewQuestion, LastState
<1>8. ASSUME NEW p \in Seq(Event), Follow(stored.state, p), Going(p), NoQuestionIn(p), NewQuestion(shown, p),
             LastState(stored.state, p) \in {"submitted", "working", "input_required"}
      PROVE  /\ Follow(stored.state, p \o <<working>>) /\ Going(p \o <<working>>)
             /\ NoQuestionIn(p \o <<working>>) /\ NewQuestion(shown, p \o <<working>>)
             /\ LastState(stored.state, p \o <<working>>) = "working"
  <2>1. Fits(LastState(stored.state, p), working) /\ StateOf(working) = "working"
    BY <1>1, <1>8 DEF Fits, StateOf
  <2> QED
    BY <1>1, <1>8, <2>1, FollowAppend, AppendKeeps
<1>9. CASE stored.state # "none"
  <2>1. Unsaved' = <<>> \o <<working>> /\ Head(Unsaved') = working
    <3>1. <<>> \o <<working>> = <<working>> /\ Head(<<working>>) = working
      BY <1>1, AppendTwo
    <3> QED
      BY <1>5, <1>9, <3>1
  <2>2. OnInv'
    BY <1>2, <1>4, <1>6, <1>7, <1>8, <1>9, <2>1 DEF OnInv
  <2> QED
    BY <1>1, <1>2, <1>3, <2>1, <2>2 DEF OnInv, DialogInv
<1>10. CASE stored.state = "none"
  <2> DEFINE p == <<>> \o <<submitted>>
  <2>1. p \in Seq(Event)
    BY <1>1, <1>6
  <2>2. Fits("none", submitted) /\ StateOf(submitted) = "submitted"
    BY <1>1 DEF Fits, StateOf
  <2>3. /\ Follow(stored.state, p) /\ Going(p) /\ NoQuestionIn(p) /\ NewQuestion(shown, p)
        /\ LastState(stored.state, p) = "submitted"
    BY <1>1, <1>6, <1>7, <1>10, <2>2, FollowAppend, AppendKeeps
  <2>4. Unsaved' = p \o <<working>>
    BY <1>5, <1>10
  <2> HIDE DEF p
  <2>5. OnInv'
    BY <1>2, <1>8, <2>1, <2>3, <2>4 DEF OnInv
  <2> QED
    BY <1>2, <1>3, <1>10, <2>5 DEF OnInv, DialogInv
<1> QED
  BY <1>9, <1>10

LEMMA HeadStays ==
    ASSUME NEW p \in Seq(Event), NEW e \in Event
    PROVE  Head(p \o <<e>>) = IF p = <<>> THEN e ELSE Head(p)
<1>1. p # <<>> => Len(p) >= 1 /\ Head(p) = p[1] /\ (p \o <<e>>)[1] = p[1]
  BY OneBehind
<1>2. Head(p \o <<e>>) = (p \o <<e>>)[1] /\ (p = <<>> => (p \o <<e>>)[1] = e)
  BY OneBehind
<1> QED
  BY <1>1, <1>2

\* What the phase goes by.
GivenUp(s, p) == s = "input_required" /\ (p = <<>> \/ Head(p).state # "working")

LEMMA PhaseIs ==
    ASSUME TypeOK
    PROVE  /\ consumer = "off" => DialogPhase = "closed"
           /\ consumer = "on" => DialogPhase = IF GivenUp(stored.state, Unsaved) THEN "asked" ELSE "open"
BY DEF TypeOK, DialogPhase, GivenUp

LEMMA PhaseSame ==
    ASSUME TypeOK, TypeOK', UNCHANGED <<consumer, stored>>,
           consumer = "on" => (GivenUp(stored.state, Unsaved) <=> GivenUp(stored.state, Unsaved'))
    PROVE  DialogPhase' = DialogPhase
<1>1. /\ consumer' = "off" => DialogPhase' = "closed"
      /\ consumer' = "on" => DialogPhase' = IF GivenUp(stored'.state, Unsaved') THEN "asked" ELSE "open"
  BY DEF TypeOK, DialogPhase, GivenUp
<1> QED
  BY <1>1, PhaseIs DEF TypeOK

\* The executor publishes e behind p.
LEMMA PublishDialog ==
    ASSUME NEW asked, NEW s, NEW p \in Seq(Event), NEW e \in Event,
           Follow(s, p), NewQuestion(asked, p), Going(p), Fits(LastState(s, p), e),
           e.state = "failed" \/ NoQuestionIn(p),
           e.state = "input_required" => e.ask # 0 /\ e.ask \notin asked,
           LastState(s, p) = "input_required" => e.state # "working"
    PROVE  /\ p \o <<e>> \in Seq(Event)
           /\ Follow(s, p \o <<e>>) /\ NewQuestion(asked, p \o <<e>>)
           /\ LastState(s, p \o <<e>>) = StateOf(e)
           /\ ~e.final => Going(p \o <<e>>)
           /\ NoQuestionIn(p) /\ e.state # "input_required" => NoQuestionIn(p \o <<e>>)
           /\ GivenUp(s, p) <=> GivenUp(s, p \o <<e>>)
<1>1. p \o <<e>> \in Seq(Event) /\ p \o <<e>> # <<>>
  BY OneBehind
<1>2. GivenUp(s, p) <=> GivenUp(s, p \o <<e>>)
  <2>1. CASE p = <<>>
    <3>1. LastState(s, p) = s /\ Head(p \o <<e>>) = e
      BY <2>1, HeadStays DEF LastState
    <3> QED
      BY <1>1, <2>1, <3>1 DEF GivenUp
  <2>2. CASE p # <<>>
    BY <1>1, <2>2, HeadStays DEF GivenUp
  <2> QED
    BY <2>1, <2>2
<1>3. NewQuestion(asked, p \o <<e>>)
  <2>1. CASE e.state # "input_required"
    BY <2>1, AppendKeeps
  <2>2. CASE e.state = "input_required"
    BY <2>2, AppendKeeps
  <2> QED
    BY <2>1, <2>2
<1> QED
  BY <1>1, <1>2, <1>3, FollowAppend, AppendKeeps

\* The executor runs, and the consumer reads.
LEMMA ExecutorOn ==
    ASSUME TypeOK, DialogInv, consumer = "on", Graph \/ SaveSeen \/ SaveTimeout \/ ExecutionTimeout
    PROVE  /\ UNCHANGED <<stored, shown, taken, consumer>> /\ OnInv'
           /\ GivenUp(stored.state, Unsaved) <=> GivenUp(stored.state, Unsaved')
<1> DEFINE s == stored.state
           p == Unsaved
<1>1. /\ p \in Seq(Event) /\ Follow(s, p) /\ NewQuestion(shown, p)
      /\ pc # "done" => Going(p)
      /\ pc \in {"start", "run"} => LastState(s, p) = "working" /\ NoQuestionIn(p)
      /\ pc = "wait" => LastState(s, p) = "input_required"
  BY UnsavedType DEF DialogInv
<1>2. UNCHANGED <<stored, shown, taken, consumer>>
  BY DEF Graph, GraphStart, GraphSay, GraphInterrupt, GraphRaise, GraphEnd,
         SaveSeen, SaveTimeout, ExecutionTimeout, graph
<1>3. ASSUME NEW events \in Seq(Event), Publish(events) PROVE Unsaved' = p \o events
  BY <1>2, <1>3, PublishUnsaved
<1>4. ASSUME UNCHANGED queue PROVE Unsaved' = p
  BY <1>2, <1>4 DEF Unsaved
<1> HIDE DEF p
<1>5. CASE GraphStart
  <2>1. Unsaved' = p /\ pc = "start" /\ pc' = "run"
    BY <1>4, <1>5 DEF GraphStart
  <2>2. p = Unsaved
    BY DEF p
  <2> QED
    BY <1>1, <1>2, <2>1, <2>2 DEF OnInv
<1>6. CASE SaveSeen \/ SaveTimeout
  <2>1. Unsaved' = p /\ pc = "wait" /\ pc' = "done"
    BY <1>4, <1>6 DEF SaveSeen, SaveTimeout
  <2>2. p = Unsaved
    BY DEF p
  <2> QED
    BY <1>1, <1>2, <2>1, <2>2 DEF OnInv
<1>7. CASE GraphSay
  <2> DEFINE e == Status("working")
  <2>1. e \in Event /\ e.state = "working" /\ e.ask = 0 /\ ~e.final /\ pc = "run" /\ pc' = "run" /\ Publish(<<e>>)
    BY <1>7, StatusType DEF GraphSay, States
  <2> HIDE DEF e
  <2>2. Fits("working", e) /\ StateOf(e) = "working" /\ <<e>> \in Seq(Event)
    BY <2>1 DEF Fits, StateOf
  <2>3. Unsaved' = p \o <<e>> /\ p = Unsaved
    BY <1>3, <2>1, <2>2 DEF p
  <2> QED
    BY <1>1, <1>2, <2>1, <2>2, <2>3, PublishDialog DEF OnInv
<1>8. CASE GraphInterrupt
  <2> DEFINE e == [state |-> "input_required", ask |-> asks + 1, final |-> FALSE]
  <2>1. /\ e \in Event /\ e.state = "input_required" /\ ~e.final /\ e.ask # 0 /\ e.ask \notin shown
        /\ pc = "run" /\ pc' = "wait" /\ Publish(<<e>>)
    <3>1. asks \in Nat /\ shown \subseteq 1..asks
      BY TaskAssumption DEF TypeOK
    <3>2. asks + 1 \in Nat /\ asks + 1 # 0 /\ asks + 1 \notin shown
      BY <3>1
    <3> QED
      BY <1>8, <3>2 DEF GraphInterrupt, Event, States
  <2> HIDE DEF e
  <2>2. Fits("working", e) /\ StateOf(e) = "input_required" /\ <<e>> \in Seq(Event)
    BY <2>1 DEF Fits, StateOf
  <2>3. Unsaved' = p \o <<e>> /\ p = Unsaved
    BY <1>3, <2>1, <2>2 DEF p
  <2> QED
    BY <1>1, <1>2, <2>1, <2>2, <2>3, PublishDialog DEF OnInv
<1>9. CASE GraphRaise \/ ExecutionTimeout
  <2> DEFINE e == FinalStatus("failed")
  <2>1. /\ e \in Event /\ e.state = "failed" /\ e.ask = 0 /\ e.final
        /\ pc \in {"start", "run", "wait"} /\ pc' = "done" /\ Publish(<<e>>)
    BY <1>9, StatusType DEF GraphRaise, ExecutionTimeout, States
  <2> HIDE DEF e
  <2>2. Fits("working", e) /\ Fits("input_required", e) /\ <<e>> \in Seq(Event)
    BY <2>1 DEF Fits
  <2>3. Unsaved' = p \o <<e>> /\ p = Unsaved
    BY <1>3, <2>1, <2>2 DEF p
  <2> QED
    BY <1>1, <1>2, <2>1, <2>2, <2>3, PublishDialog DEF OnInv
<1>10. CASE GraphEnd
  <2>1. pc = "run" /\ pc' = "done"
    BY <1>10 DEF GraphEnd
  <2>2. CASE said
    <3> DEFINE a == Status("artifact")
               c == FinalStatus("completed")
               q == p \o <<a>>
    <3>1. /\ a \in Event /\ a.state = "artifact" /\ a.ask = 0 /\ ~a.final
          /\ c \in Event /\ c.state = "completed" /\ c.ask = 0 /\ c.final /\ Publish(<<a, c>>)
      BY <1>10, <2>2, StatusType DEF GraphEnd, States
    <3> HIDE DEF a, c
    <3>2. /\ Fits("working", a) /\ StateOf(a) = "working" /\ Fits("working", c)
          /\ <<a, c>> \in Seq(Event)
      BY <3>1 DEF Fits, StateOf
    <3>3. /\ q \in Seq(Event) /\ Follow(s, q) /\ NewQuestion(shown, q) /\ LastState(s, q) = "working"
          /\ Going(q) /\ NoQuestionIn(q) /\ (GivenUp(s, p) <=> GivenUp(s, q))
      BY <1>1, <2>1, <3>1, <3>2, PublishDialog
    <3>4. Unsaved' = q \o <<c>> /\ p = Unsaved
      BY <1>1, <1>3, <3>1, <3>2, AppendTwo DEF p
    <3> HIDE DEF q
    <3>5. Follow(s, q \o <<c>>) /\ NewQuestion(shown, q \o <<c>>) /\ (GivenUp(s, q) <=> GivenUp(s, q \o <<c>>))
      BY <3>1, <3>2, <3>3, PublishDialog
    <3> QED
      BY <1>2, <2>1, <3>3, <3>4, <3>5 DEF OnInv
  <2>3. CASE ~said
    <3> DEFINE e == FinalStatus("working")
    <3>1. e \in Event /\ e.state = "working" /\ e.ask = 0 /\ Publish(<<e>>)
      BY <1>10, <2>3, StatusType DEF GraphEnd, States
    <3> HIDE DEF e
    <3>2. Fits("working", e) /\ <<e>> \in Seq(Event)
      BY <3>1 DEF Fits
    <3>3. Unsaved' = p \o <<e>> /\ p = Unsaved
      BY <1>3, <3>1, <3>2 DEF p
    <3> QED
      BY <1>1, <1>2, <2>1, <3>1, <3>2, <3>3, PublishDialog DEF OnInv
  <2> QED
    BY <2>2, <2>3
<1> QED
  BY <1>5, <1>6, <1>7, <1>8, <1>9, <1>10 DEF Graph

\* The executor alone is not seen.
LEMMA ExecutorDialog ==
    ASSUME TypeOK, TypeOK', DialogInv, Graph \/ SaveSeen \/ SaveTimeout \/ ExecutionTimeout
    PROVE  DialogInv' /\ UNCHANGED <<stored, shown, DialogPhase>>
<1>1. /\ UNCHANGED <<stored, shown, taken, consumer>> /\ pc # "idle" /\ pc' # "idle"
  BY DEF Graph, GraphStart, GraphSay, GraphInterrupt, GraphRaise, GraphEnd,
         SaveSeen, SaveTimeout, ExecutionTimeout, graph
<1>2. CASE consumer = "on"
  BY <1>1, <1>2, ExecutorOn, PhaseSame DEF DialogInv, OnInv
<1>3. CASE consumer # "on"
  BY <1>1, <1>3, PhaseSame DEF DialogInv
<1> QED
  BY <1>2, <1>3

\* The consumer takes an event: not seen either.
LEMMA TakeDialog ==
    ASSUME TypeOK, TypeOK', DialogInv, Take
    PROVE  DialogInv' /\ UNCHANGED <<stored, shown, DialogPhase>>
<1>1. /\ queue \in Seq(Event) /\ queue # <<>> /\ taken = NoEvent /\ taken' = Head(queue)
      /\ queue' = Tail(queue) /\ consumer = "on" /\ UNCHANGED <<stored, shown, consumer, pc>>
  BY DEF Take, TypeOK, engine
<1>2. Unsaved' = Unsaved /\ taken' # NoEvent
  BY <1>1, FirstEvent, TakeUnsaved, TaskAssumption DEF Unsaved
<1>3. DialogPhase' = DialogPhase
  BY <1>1, <1>2, PhaseSame
<1> QED
  BY <1>1, <1>2, <1>3 DEF DialogInv

\* What an event is that the consumer has in hand.
LEMMA TakenFits ==
    ASSUME TypeOK, DialogInv, taken # NoEvent
    PROVE  /\ taken \in Event /\ consumer = "on" /\ pc # "idle" /\ Fits(stored.state, taken)
           /\ taken.state = "input_required" => taken.ask # 0 /\ taken.ask \notin shown
           /\ stored.state # "input_required" => stored.ask = 0
           /\ Unsaved[1] = taken /\ Head(Unsaved) = taken /\ Unsaved # <<>> /\ Tail(Unsaved) = queue
           /\ Unsaved \in Seq(Event) /\ 1 \in DOMAIN Unsaved
<1>1. /\ taken \in Event /\ Unsaved \in Seq(Event) /\ Unsaved # <<>>
      /\ Unsaved[1] = taken /\ Head(Unsaved) = taken /\ Tail(Unsaved) = queue
  BY TakenIsFirst
<1>2. 1 \in DOMAIN Unsaved
  BY <1>1, FirstEvent
<1>3. /\ consumer = "on" /\ pc # "idle" /\ Follow(stored.state, Unsaved) /\ NewQuestion(shown, Unsaved)
      /\ stored.state # "input_required" => stored.ask = 0
  BY DEF DialogInv
<1> QED
  BY <1>1, <1>2, <1>3 DEF Follow, NewQuestion

\* The task once it is saved.
LEMMA SavedTask ==
    ASSUME TypeOK, DialogInv, taken # NoEvent, Store(After(taken))
    PROVE  /\ stored'.state = StateOf(taken)
           /\ taken.state # "artifact" => stored'.ask = taken.ask
           /\ taken.state = "artifact" => stored' = stored /\ stored.state = "working"
           /\ stored'.state # "input_required" => stored'.ask = 0
           /\ shown' = IF taken.state = "input_required" THEN shown \cup {taken.ask} ELSE shown
<1>1. CASE taken.state = "artifact"
  <2>1. stored' = stored /\ stored.state = "working" /\ stored.ask = 0
    BY <1>1, TakenFits DEF Store, After, Fits
  <2> QED
    BY <1>1, <2>1 DEF StateOf, Store, After
<1>2. CASE taken.state # "artifact"
  <2>1. stored' = [state |-> taken.state, ask |-> taken.ask]
    BY <1>2 DEF Store, After
  <2>2. taken.state # "input_required" => taken.ask = 0
    BY <1>2, TakenFits DEF Fits
  <2>3. shown' = IF taken.ask # 0 THEN shown \cup {taken.ask} ELSE shown
    BY <1>2 DEF Store, After
  <2> QED
    BY <1>2, <2>1, <2>2, <2>3, TakenFits DEF StateOf
<1> QED
  BY <1>1, <1>2

\* A save that succeeds, and one behind which nothing is read any more.
LEMMA SaveKeepsInv ==
    ASSUME TypeOK, DialogInv, Save
    PROVE  DialogInv'
<1>1. /\ taken # NoEvent /\ taken' = NoEvent /\ queue' = queue /\ Store(After(taken)) /\ pc' = pc
      /\ consumer' = IF taken.final THEN "off" ELSE "on"
  BY DEF Save
<1>2. pc # "idle" /\ pc' # "idle"
  BY <1>1, TakenFits
<1>3. stored'.state # "input_required" => stored'.ask = 0
  BY <1>1, SavedTask
<1>4. CASE taken.final
  BY <1>1, <1>2, <1>3, <1>4 DEF DialogInv
<1>5. CASE ~taken.final
  <2>1. /\ Follow(stored.state, Unsaved) /\ NewQuestion(shown, Unsaved)
        /\ pc # "done" => Going(Unsaved)
        /\ pc \in {"start", "run"} => LastState(stored.state, Unsaved) = "working" /\ NoQuestionIn(Unsaved)
        /\ pc = "wait" => LastState(stored.state, Unsaved) = "input_required"
    BY <1>1, TakenFits DEF DialogInv
  <2>2. Unsaved' = Tail(Unsaved)
    BY <1>1, TakenFits DEF Unsaved
  <2>3. stored'.state = StateOf(Unsaved[1])
    BY <1>1, SavedTask, TakenFits
  <2>4. NewQuestion(shown', Tail(Unsaved))
    BY <1>1, <2>1, NewTail, SavedTask, TakenFits
  <2>5. OnInv'
    BY <1>1, <2>1, <2>2, <2>3, <2>4, FollowTail, TakenFits DEF OnInv
  <2> QED
    BY <1>1, <1>2, <1>3, <2>5 DEF OnInv, DialogInv
<1> QED
  BY <1>4, <1>5

LEMMA CloseKeepsInv ==
    ASSUME TypeOK, DialogInv, SaveFails \/ RequestEnds \/ Crash
    PROVE  DialogInv' /\ consumer' = "off"
<1>1. consumer' = "off" /\ taken' = NoEvent /\ (pc' = "idle" => queue' = <<>>)
  <2>1. CASE SaveFails
    <3>1. pc # "idle" /\ pc' = pc /\ consumer' = "off" /\ taken' = NoEvent
      BY <2>1, TakenFits DEF SaveFails, engine
    <3> QED
      BY <3>1
  <2>2. CASE RequestEnds \/ Crash
    BY <2>2 DEF RequestEnds, Crash
  <2> QED
    BY <2>1, <2>2
<1>2. stored'.state # "input_required" => stored'.ask = 0
  <2>1. CASE UNCHANGED stored
    BY <2>1 DEF DialogInv
  <2>2. CASE taken # NoEvent /\ Store(After(taken))
    BY <2>2, SavedTask
  <2> QED
    BY <2>1, <2>2 DEF SaveFails, RequestEnds, Crash
<1> QED
  BY <1>1, <1>2 DEF DialogInv

----------------------------------------------------------------------------
(* TaskExecution implements TaskDialog: each step is one of the dialog. *)

\* An event is saved, and the request goes on or ends.
LEMMA SaveSteps ==
    ASSUME TypeOK, DialogInv, taken # NoEvent, Store(After(taken)),
           \/ DialogPhase' = "closed"
           \/ ~taken.final /\ DialogPhase' = IF GivenUp(stored'.state, queue) THEN "asked" ELSE "open"
    PROVE  [Dialog!DialogNext]_(Dialog!dialogVars)
<1>1. /\ taken \in Event /\ consumer = "on" /\ Fits(stored.state, taken)
      /\ taken.state = "input_required" => taken.ask # 0 /\ taken.ask \notin shown
      /\ stored.state # "input_required" => stored.ask = 0
  BY TakenFits
<1>2. DialogPhase = IF GivenUp(stored.state, Unsaved) THEN "asked" ELSE "open"
  BY <1>1, PhaseIs
<1>3. GivenUp(stored.state, Unsaved) <=> stored.state = "input_required" /\ taken.state # "working"
  BY TakenFits DEF GivenUp
<1>4. GivenUp(stored'.state, queue) <=> taken.state = "input_required"
  <2>1. taken.state = "input_required" /\ queue # <<>> => Head(queue).state = "failed"
    <3>1. Follow(stored.state, Unsaved)
      BY <1>1 DEF DialogInv
    <3>2. taken.state = "input_required" /\ queue # <<>> => queue[1].state = "failed"
      BY <3>1, FollowTail, TakenFits
    <3>3. queue # <<>> => Head(queue) = queue[1]
      BY FirstEvent DEF TypeOK
    <3> QED
      BY <3>2, <3>3
  <2>2. stored'.state = StateOf(taken)
    BY SavedTask
  <2> QED
    BY <2>1, <2>2 DEF GivenUp, StateOf
<1>5. /\ stored'.state = StateOf(taken)
      /\ taken.state # "artifact" => stored'.ask = taken.ask
      /\ taken.state = "artifact" => stored' = stored /\ stored.state = "working"
      /\ stored'.state # "input_required" => stored'.ask = 0
      /\ shown' = IF taken.state = "input_required" THEN shown \cup {taken.ask} ELSE shown
  BY SavedTask
<1>6. CASE taken.state = "submitted"
  <2>1. /\ DialogPhase = "open" /\ stored.state = "none" /\ stored'.state = "submitted"
        /\ DialogPhase' \in {"open", "closed"} /\ stored'.ask = stored.ask /\ shown' = shown
    BY <1>1, <1>2, <1>3, <1>4, <1>5, <1>6 DEF Fits, StateOf
  <2> QED
    BY <2>1 DEF Dialog!DialogNext, Dialog!Submitted, Dialog!Onto
<1>7. CASE taken.state = "working"
  <2>1. /\ DialogPhase = "open" /\ stored.state \notin Dialog!Over \cup {"none"} /\ stored'.state = "working"
        /\ DialogPhase' \in {"open", "closed"} /\ stored'.ask = 0 /\ shown' = shown
    BY <1>1, <1>2, <1>3, <1>4, <1>5, <1>7 DEF Fits, StateOf, Dialog!Over
  <2> QED
    BY <2>1 DEF Dialog!DialogNext, Dialog!Working, Dialog!Onto, Dialog!NoQuestion
<1>8. CASE taken.state = "input_required"
  <2>1. /\ DialogPhase = "open" /\ stored.state = "working" /\ stored'.state = "input_required"
        /\ DialogPhase' \in {"asked", "closed"} /\ stored'.ask \notin shown \cup {0}
        /\ shown' = shown \cup {stored'.ask}
    BY <1>1, <1>2, <1>3, <1>4, <1>5, <1>8 DEF Fits, StateOf
  <2> QED
    BY <2>1 DEF Dialog!DialogNext, Dialog!Asks, Dialog!Onto, Dialog!NoQuestion
<1>9. CASE taken.state = "artifact"
  <2>1. DialogPhase = "open" /\ stored' = stored /\ shown' = shown /\ DialogPhase' \in {"open", "closed"}
    BY <1>1, <1>2, <1>3, <1>4, <1>5, <1>9 DEF Fits
  <2> QED
    BY <2>1 DEF Dialog!DialogNext, Dialog!Stops, Dialog!dialogVars
<1>10. CASE taken.state \in {"completed", "failed"}
  <2>1. /\ \/ DialogPhase = "open" /\ stored.state = "working"
           \/ DialogPhase = "asked" /\ taken.state = "failed"
        /\ DialogPhase' = "closed" /\ stored'.state = taken.state /\ stored'.ask = 0 /\ shown' = shown
    BY <1>1, <1>2, <1>3, <1>5, <1>10 DEF Fits, StateOf
  <2> QED
    BY <1>10, <2>1 DEF Dialog!DialogNext, Dialog!Ends, Dialog!Over, Dialog!NoQuestion
<1> QED
  BY <1>1, <1>6, <1>7, <1>8, <1>9, <1>10 DEF Fits

LEMMA DialogStep ==
    ASSUME TypeOK, TypeOK', DialogInv, [Next]_vars
    PROVE  DialogInv' /\ [Dialog!DialogNext]_(Dialog!dialogVars)
<1>1. CASE UNCHANGED vars
  <2>1. Unsaved' = Unsaved /\ DialogPhase' = DialogPhase
    BY <1>1 DEF vars, Unsaved, DialogPhase
  <2> QED
    BY <1>1, <2>1 DEF vars, engine, DialogInv, Dialog!dialogVars
<1>2. ASSUME NEW message \in Messages, Execute(message)
      PROVE  DialogInv' /\ [Dialog!DialogNext]_(Dialog!dialogVars)
  <2>1. /\ DialogInv' /\ (stored.state # "none" => Head(Unsaved').state = "working")
    BY <1>2, ExecuteDialog
  <2>2. /\ pc = "idle" /\ consumer' = "on" /\ UNCHANGED <<stored, shown>> /\ stored.state \notin Terminal
        /\ Unsaved' # <<>>
    <3>1. /\ pc = "idle" /\ consumer' = "on" /\ UNCHANGED <<stored, shown, taken>> /\ stored.state \notin Terminal
          /\ \E events \in {<<Status("submitted")>>, <<>>} : Publish(events \o <<Status("working")>>) \/ Publish(<<Status("working")>>)
      BY <1>2 DEF Execute
    <3>2. queue' # <<>> /\ taken = NoEvent
      BY <1>2, <3>1 DEF Publish, DialogInv
    <3> QED
      BY <3>1, <3>2 DEF Unsaved
  <2>3. DialogPhase = "closed"
    BY <2>2, PhaseIs DEF DialogInv
  <2>4. DialogPhase' = "open"
    BY <2>1, <2>2 DEF DialogPhase
  <2>5. Dialog!Opened
    BY <2>2, <2>3, <2>4 DEF Dialog!Opened, Dialog!Over, Terminal
  <2> QED
    BY <2>1, <2>5 DEF Dialog!DialogNext
<1>3. CASE Graph \/ SaveSeen \/ SaveTimeout \/ ExecutionTimeout \/ Take
  BY <1>3, ExecutorDialog, TakeDialog DEF Dialog!dialogVars
<1>4. CASE Save
  <2>1. /\ taken # NoEvent /\ taken' = NoEvent /\ queue' = queue /\ Store(After(taken))
        /\ consumer' = IF taken.final THEN "off" ELSE "on"
    BY <1>4 DEF Save
  <2>2. \/ DialogPhase' = "closed"
        \/ ~taken.final /\ DialogPhase' = IF GivenUp(stored'.state, queue) THEN "asked" ELSE "open"
    BY <2>1 DEF DialogPhase, GivenUp, Unsaved
  <2> QED
    BY <1>4, <2>1, <2>2, SaveKeepsInv, SaveSteps
<1>5. CASE SaveFails \/ RequestEnds \/ Crash
  <2>1. DialogInv' /\ DialogPhase' = "closed"
    BY <1>5, CloseKeepsInv DEF DialogPhase
  <2>2. CASE UNCHANGED <<stored, shown>>
    BY <2>1, <2>2 DEF Dialog!DialogNext, Dialog!Stops, Dialog!dialogVars
  <2>3. CASE taken # NoEvent /\ Store(After(taken))
    BY <2>1, <2>3, SaveSteps
  <2> QED
    BY <1>5, <2>1, <2>2, <2>3 DEF SaveFails, RequestEnds, Crash
<1> QED
  BY <1>1, <1>2, <1>3, <1>4, <1>5 DEF Next, Consumer

\* Every run of the LangGraph engine is a dialog that TaskDialog allows: each
\* question is new, a task that asks does not go on without an answer, and one that
\* is over stays so, whatever saves fail, time out or are cut off, for any messages
\* and bounds (_executor.py:391-512, _hitl.py:235-315, _task_store.py:39-113).
THEOREM TaskDialogImplemented == Spec => LifeOfDialog
<1>1. Init => TypeParts /\ DialogInv /\ Dialog!DialogInit
  BY InitType, InitDialogInv DEF Init, Dialog!DialogInit, Dialog!NoQuestion, DialogPhase
<1>2. TypeParts /\ [Next]_vars => TypeParts'
  BY NextTypeParts
<1>3. TypeParts => TypeOK
  BY DEF TypeParts
<1>4. TypeParts /\ DialogInv /\ [Next]_vars
         => TypeParts' /\ DialogInv' /\ [Dialog!DialogNext]_(Dialog!dialogVars)
  BY <1>2, <1>3, DialogStep DEF TypeParts
<1> QED
  BY <1>1, <1>4, PTL DEF Spec, LifeOfDialog, Dialog!DialogSpec
=============================================================================
