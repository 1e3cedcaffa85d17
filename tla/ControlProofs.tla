--------------------------- MODULE ControlProofs ---------------------------
(***************************************************************************)
(* Proofs about the parts of the control plane: those that follow other    *)
(* objects than Agents (ToolWatches), the handlers that write Agents       *)
(* (AgentApi), those of ModelConfigs with their controller (ModelConfigs), *)
(* the mux, for any Agents, cards and replicas (A2AHandlers), and the      *)
(* database manager, for any callers, tables and bounds (DbManager); and,  *)
(* with those of AgentReconcileProofs, about all of them side by side.     *)
(***************************************************************************)
EXTENDS MCControlPlane, AgentReconcileProofs, SequenceTheorems, FiniteSetTheorems

----------------------------------------------------------------------------
(* ToolWatches: why RenderedIsCurrent holds. *)

Followed(s) == \A i \in DOMAIN s.tools : ~Unfollowed(s, i)

\* Something will still have the Agent rendered.
Awaits(u) == u \in agentNews \cup dueAgents

\* The i-th object of s is as `value` says, or news of it is on the way.
Fits(s, i, value) == value = cthings[ReadsOf(s)[i]] \/ ReadsOf(s)[i] \in news

\* The pass that is under way goes by the spec in the cache, and what it has read
\* is current but for news on the way.
ReadingFits ==
    (reading # NoAgent /\ ~Awaits(reading.agent)) =>
        /\ reading.spec = cspec[reading.agent]
        /\ Followed(reading.spec) =>
              \A i \in DOMAIN reading.got : Fits(reading.spec, i, reading.got[i])

\* So is what an Agent was last rendered to; an Agent that could not be rendered
\* misses an object, but for news on the way.
RenderedFits ==
    \A u \in Users : (~Awaits(u) /\ reading.agent # u /\ Followed(cspec[u])) =>
        \/ /\ rendered[u] \in Seq(1..MaxEdits + 1) /\ Len(rendered[u]) = Len(ReadsOf(cspec[u]))
           /\ \A i \in DOMAIN rendered[u] : Fits(cspec[u], i, rendered[u][i])
        \/ /\ rendered[u] = Unrendered
           /\ \E i \in DOMAIN ReadsOf(cspec[u]) : Fits(cspec[u], i, 0)

WatchInv == WatchTypeOK /\ ReadingFits /\ RenderedFits

----------------------------------------------------------------------------
(* What a spec is rendered from. *)

LEMMA SeqOfMore ==
    ASSUME NEW S, NEW T, S \subseteq T, NEW q \in Seq(S)
    PROVE  q \in Seq(T)
OBVIOUS

LEMMA SeqElement ==
    ASSUME NEW S, NEW q \in Seq(S), NEW i \in DOMAIN q
    PROVE  q[i] \in S
OBVIOUS

LEMMA ReadsAre ==
    ASSUME NEW s \in UserSpecs
    PROVE  /\ ReadsOf(s) \in Seq(Used) /\ Len(ReadsOf(s)) \in Nat
           /\ DOMAIN ReadsOf(s) = 1 .. Len(ReadsOf(s))
           /\ 1 \in DOMAIN ReadsOf(s) /\ ReadsOf(s)[1] = ModelOf(s)
           /\ \A i \in DOMAIN ReadsOf(s) : i = 1 \/ \E k \in DOMAIN s.tools : ReadsOf(s)[i] = Referent(s.tools[k])
<1> DEFINE tools == s.tools
           first == <<ModelOf(s)>>
           rest  == [i \in DOMAIN s.tools |-> Referent(s.tools[i])]
           S     == {ModelOf(s)} \cup {Referent(s.tools[i]) : i \in DOMAIN s.tools}
<1>1. Len(tools) \in Nat /\ DOMAIN tools = 1 .. Len(tools)
  BY WatchAssumption
<1>2. rest \in Seq(S) /\ Len(rest) = Len(tools)
  <2>1. rest \in [1 .. Len(tools) -> S]
    BY <1>1
  <2> QED
    BY <1>1, <2>1
<1>3. first \in Seq(S) /\ Len(first) = 1 /\ first[1] = ModelOf(s)
  OBVIOUS
<1>4. ReadsOf(s) = first \o rest
  BY DEF ReadsOf
<1>5. \A k \in DOMAIN tools : rest[k] = Referent(tools[k])
  OBVIOUS
<1> HIDE DEF first, rest, S
<1>6. /\ Len(first \o rest) = 1 + Len(tools)
      /\ \A i \in 1 .. 1 + Len(tools) : (first \o rest)[i] = IF i <= 1 THEN first[i] ELSE rest[i - 1]
      /\ first \o rest \in Seq(S)
  <2>1. /\ Len(first \o rest) = Len(first) + Len(rest) /\ first \o rest \in Seq(S)
        /\ \A i \in 1 .. Len(first) + Len(rest) :
              (first \o rest)[i] = IF i <= Len(first) THEN first[i] ELSE rest[i - Len(first)]
    BY <1>2, <1>3, ConcatProperties
  <2> QED
    BY <1>2, <1>3, <2>1
<1>7. DOMAIN ReadsOf(s) = 1 .. 1 + Len(tools) /\ Len(ReadsOf(s)) = 1 + Len(tools)
  BY <1>4, <1>6
<1>8. ReadsOf(s)[1] = ModelOf(s)
  BY <1>1, <1>3, <1>4, <1>6
<1>9. ASSUME NEW i \in 1 .. 1 + Len(tools), i # 1
      PROVE  \E k \in DOMAIN tools : ReadsOf(s)[i] = Referent(tools[k])
  <2>1. i - 1 \in DOMAIN tools /\ ~(i <= 1)
    BY <1>1, <1>9
  <2>2. ReadsOf(s)[i] = rest[i - 1]
    BY <1>4, <1>6, <2>1
  <2> QED
    BY <1>5, <2>1, <2>2
<1>10. ReadsOf(s) \in Seq(Used)
  <2>1. ReadsOf(s) \in Seq(S) /\ \A i \in DOMAIN ReadsOf(s) : ReadsOf(s)[i] \in Used
    BY <1>4, <1>6, WatchAssumption
  <2> QED
    BY <2>1, <1>7
<1> QED
  BY <1>1, <1>7, <1>8, <1>9, <1>10

\* The finder of its kind finds the Agent for every object a followed spec reads.
LEMMA FollowedIsFound ==
    ASSUME NEW s \in UserSpecs, Followed(s), NEW i \in DOMAIN ReadsOf(s)
    PROVE  Finds(s, ReadsOf(s)[i])
<1>1. CASE i = 1
  <2>1. ReadsOf(s)[i] = [kind |-> "ModelConfig", name |-> s.model]
    BY <1>1, ReadsAre DEF ModelOf
  <2> QED
    BY <2>1 DEF Finds, findAgentsUsingModelConfig
<1>2. CASE i # 1
  <2>1. PICK k \in DOMAIN s.tools : ReadsOf(s)[i] = Referent(s.tools[k])
    BY <1>2, ReadsAre
  <2> DEFINE o == ReadsOf(s)[i]
             t == s.tools[k]
  <2>2. o.kind = Target(t.form) /\ o.name = t.name
    BY <2>1 DEF Referent
  <2>3. ~Unfollowed(s, k)
    BY DEF Followed
  <2> HIDE DEF o, t
  <2>4. t.form \in {"kagent.dev/MCPServer", "kagent.dev/RemoteMCPServer", "/RemoteMCPServer", "/Service"}
    BY <2>3 DEF Unfollowed, McpForms, t
  <2>5. CASE t.form = "kagent.dev/MCPServer"
    <3>1. o.kind = "MCPServer"
      BY <2>2, <2>5 DEF Target
    <3>2. findAgentsUsingMCPServer(s, o)
      BY <2>2, <2>5 DEF findAgentsUsingMCPServer, t
    <3> QED
      BY <3>1, <3>2 DEF Finds, o
  <2>6. CASE t.form \in {"kagent.dev/RemoteMCPServer", "/RemoteMCPServer"}
    <3>1. o.kind = "RemoteMCPServer" /\ Target(t.form) = "RemoteMCPServer"
      BY <2>2, <2>6 DEF Target
    <3>2. \A j \in 1..k : s.tools[j].form \in McpForms
      BY <2>3, <3>1 DEF Unfollowed, t
    <3>3. findAgentsUsingRemoteMCPServer(s, o)
      BY <2>2, <3>2 DEF findAgentsUsingRemoteMCPServer, t
    <3> QED
      BY <3>1, <3>3 DEF Finds, o
  <2>7. CASE t.form = "/Service"
    <3>1. o.kind = "Service"
      BY <2>2, <2>7 DEF Target
    <3>2. findAgentsUsingMCPService(s, o)
      BY <2>2, <2>7 DEF findAgentsUsingMCPService, t
    <3> QED
      BY <3>1, <3>2 DEF Finds, o
  <2> QED
    BY <2>4, <2>5, <2>6, <2>7
<1> QED
  BY <1>1, <1>2

----------------------------------------------------------------------------
(* ToolWatches: types. *)

LEMMA NoAgentIsNone ==
    \A p \in Passes : p # NoAgent /\ p.agent # NoAgent.agent
BY WatchAssumption DEF Passes, NoAgent

LEMMA UnrenderedType ==
    Unrendered \in Seq(0..MaxEdits + 1)
<1>1. 0 \in 0..MaxEdits + 1
  BY WatchAssumption
<1> QED
  BY <1>1 DEF Unrendered

\* What a step of the worker does: the pass ends with all it read, it ends at an
\* object that is not there, or it has read one object more.
LEMMA ReadNextIs ==
    ASSUME WatchTypeOK, ReadNext
    PROVE  /\ reading \in Passes
           /\ \/ /\ Len(reading.got) = Len(ReadsOf(reading.spec))
                 /\ reading' = NoAgent /\ rendered' = [rendered EXCEPT ![reading.agent] = reading.got]
              \/ /\ reading' = NoAgent /\ rendered' = [rendered EXCEPT ![reading.agent] = Unrendered]
                 /\ \E i \in DOMAIN ReadsOf(reading.spec) : cthings[ReadsOf(reading.spec)[i]] = 0
              \/ \E i \in DOMAIN ReadsOf(reading.spec), seen \in 1..MaxEdits + 1 :
                    /\ i = Len(reading.got) + 1 /\ seen = cthings[ReadsOf(reading.spec)[i]]
                    /\ reading' = [reading EXCEPT !.got = Append(reading.got, seen)]
                    /\ rendered' = rendered
           /\ UNCHANGED <<spec, things, cspec, cthings, agentNews, news, dueAgents, edits>>
<1> DEFINE todo == ReadsOf(reading.spec)
           next == Len(reading.got) + 1
<1>1. reading \in Passes /\ Len(reading.got) <= Len(todo)
  BY DEF WatchTypeOK, ReadNext
<1>2. /\ reading.spec \in UserSpecs /\ reading.got \in Seq(1..MaxEdits + 1)
      /\ Len(reading.got) \in Nat
  BY <1>1 DEF Passes
<1>3. todo \in Seq(Used) /\ Len(todo) \in Nat /\ DOMAIN todo = 1 .. Len(todo)
  BY <1>2, ReadsAre
<1> HIDE DEF todo
<1>4. CASE next > Len(todo)
  <2>1. Len(reading.got) = Len(todo)
    BY <1>1, <1>2, <1>3, <1>4
  <2> QED
    BY <1>1, <1>2, <1>3, <1>4, <2>1 DEF ReadNext, todo
<1>5. CASE ~(next > Len(todo))
  <2>1. next \in DOMAIN todo /\ next <= Len(todo)
    BY <1>2, <1>3, <1>5
  <2>2. cthings[todo[next]] \in 0..MaxEdits + 1
    BY <1>3, <2>1 DEF WatchTypeOK
  <2>3. CASE cthings[todo[next]] = 0
    BY <1>1, <1>5, <2>1, <2>3 DEF ReadNext, todo
  <2>4. CASE cthings[todo[next]] # 0
    <3>1. cthings[todo[next]] \in 1..MaxEdits + 1
      BY <2>2, <2>4, WatchAssumption
    <3>2. reading' = [reading EXCEPT !.got = Append(reading.got, cthings[todo[next]])] /\ rendered' = rendered
      BY <1>1, <1>5, <2>1, <2>4 DEF ReadNext, todo
    <3> QED
      BY <1>1, <2>1, <3>1, <3>2 DEF ReadNext, todo
  <2> QED
    BY <2>3, <2>4
<1> QED
  BY <1>4, <1>5

LEMMA WatchTypeStep ==
    WatchTypeOK /\ [WatchNext]_watchVars => WatchTypeOK'
<1> SUFFICES ASSUME WatchTypeOK, [WatchNext]_watchVars PROVE WatchTypeOK'
  OBVIOUS
<1> USE DEF WatchTypeOK
<1>1. CASE UNCHANGED watchVars
  BY <1>1 DEF watchVars
<1>2. ASSUME NEW u \in Users, EditAgent(u) PROVE WatchTypeOK'
  <2>1. spec' \in [Users -> UserSpecs]
    BY <1>2 DEF EditAgent
  <2>2. edits' \in 0..MaxEdits
    BY <1>2, WatchAssumption DEF EditAgent, Spend
  <2> QED
    BY <1>2, <2>1, <2>2 DEF EditAgent
<1>3. ASSUME NEW u \in Users, SeeAgent(u) PROVE WatchTypeOK'
  <2>1. cspec' \in [Users -> UserSpecs]
    BY <1>3 DEF SeeAgent
  <2> QED
    BY <1>3, <2>1 DEF SeeAgent
<1>4. ASSUME NEW u \in Users, EnqueueAgent(u) PROVE WatchTypeOK'
  BY <1>4 DEF EnqueueAgent
<1>5. ASSUME NEW u \in Users, BeginRender(u) PROVE WatchTypeOK'
  <2> DEFINE pass == [agent |-> u, spec |-> cspec[u], got |-> <<>>]
  <2>1. pass \in Passes
    <3>1. <<>> \in Seq(1..MaxEdits + 1) /\ cspec[u] \in UserSpecs
      OBVIOUS
    <3> QED
      BY <3>1 DEF Passes
  <2>2. Len(pass.got) <= Len(ReadsOf(pass.spec))
    <3>1. Len(ReadsOf(cspec[u])) \in Nat /\ Len(<<>>) = 0
      BY ReadsAre
    <3> QED
      BY <3>1
  <2>3. reading' = pass
    BY <1>5 DEF BeginRender
  <2> HIDE DEF pass
  <2> QED
    BY <1>5, <2>1, <2>2, <2>3 DEF BeginRender
<1>6. ASSUME NEW o \in Used, EditThing(o) PROVE WatchTypeOK'
  <2>1. edits' \in 0..MaxEdits
    BY <1>6, WatchAssumption DEF EditThing, Spend
  <2>2. {0, MaxEdits + 2 - edits} \subseteq 0..MaxEdits + 1
    BY <1>6, WatchAssumption DEF EditThing, Spend
  <2>3. things' \in [Used -> 0..MaxEdits + 1]
    <3>1. PICK v \in {0, MaxEdits + 2 - edits} : things' = [things EXCEPT ![o] = v]
      BY <1>6 DEF EditThing
    <3>2. v \in 0..MaxEdits + 1
      BY <2>2, <3>1
    <3> QED
      BY <3>1, <3>2
  <2> QED
    BY <1>6, <2>1, <2>3 DEF EditThing
<1>7. ASSUME NEW o \in Used, SeeThing(o) PROVE WatchTypeOK'
  <2>1. cthings' \in [Used -> 0..MaxEdits + 1]
    BY <1>7 DEF SeeThing
  <2> QED
    BY <1>7, <2>1 DEF SeeThing
<1>8. ASSUME NEW o \in Used, EnqueueRequestsFromMapFunc(o) PROVE WatchTypeOK'
  BY <1>8 DEF EnqueueRequestsFromMapFunc
<1>9. CASE ReadNext
  <2>1. reading \in Passes /\ UNCHANGED <<spec, things, cspec, cthings, agentNews, news, dueAgents, edits>>
    BY <1>9, ReadNextIs
  <2>2. reading.got \in Seq(1..MaxEdits + 1) /\ reading.got \in Seq(0..MaxEdits + 1) /\ reading.spec \in UserSpecs
    <3>1. reading.got \in Seq(1..MaxEdits + 1) /\ reading.spec \in UserSpecs
      BY <2>1 DEF Passes
    <3> DEFINE some == 1..MaxEdits + 1
               more == 0..MaxEdits + 1
    <3>2. some \subseteq more /\ reading.got \in Seq(some)
      BY <3>1, WatchAssumption
    <3> HIDE DEF some, more
    <3>3. reading.got \in Seq(more)
      BY <3>2, SeqOfMore
    <3> USE DEF some, more
    <3> QED
      BY <3>1, <3>3
  <2>3. CASE reading' = NoAgent /\ (\/ rendered' = [rendered EXCEPT ![reading.agent] = reading.got]
                                   \/ rendered' = [rendered EXCEPT ![reading.agent] = Unrendered])
    <3>1. rendered' \in [Users -> Seq(0..MaxEdits + 1)]
      BY <2>2, <2>3, UnrenderedType
    <3> QED
      BY <2>1, <2>3, <3>1
  <2>4. CASE \E i \in DOMAIN ReadsOf(reading.spec), seen \in 1..MaxEdits + 1 :
                 /\ i = Len(reading.got) + 1
                 /\ reading' = [reading EXCEPT !.got = Append(reading.got, seen)]
                 /\ rendered' = rendered
    <3>1. PICK i \in DOMAIN ReadsOf(reading.spec), seen \in 1..MaxEdits + 1 :
                 /\ i = Len(reading.got) + 1
                 /\ reading' = [reading EXCEPT !.got = Append(reading.got, seen)]
                 /\ rendered' = rendered
      BY <2>4
    <3>2. Append(reading.got, seen) \in Seq(1..MaxEdits + 1) /\ Len(Append(reading.got, seen)) = i
      BY <2>2, <3>1, AppendProperties
    <3>3. reading' \in Passes /\ reading'.spec = reading.spec /\ Len(reading'.got) = i
      BY <2>1, <3>1, <3>2 DEF Passes
    <3>4. i <= Len(ReadsOf(reading.spec))
      BY <2>2, ReadsAre
    <3> QED
      BY <2>1, <3>1, <3>3, <3>4
  <2> QED
    BY <1>9, <2>3, <2>4, ReadNextIs
<1> QED
  BY <1>1, <1>2, <1>3, <1>4, <1>5, <1>6, <1>7, <1>8, <1>9 DEF WatchNext

LEMMA WatchInitType ==
    WatchInit => WatchTypeOK
<1> SUFFICES ASSUME WatchInit PROVE WatchTypeOK
  OBVIOUS
<1>1. things \in [Used -> 0..MaxEdits + 1] /\ edits \in 0..MaxEdits
  BY WatchAssumption DEF WatchInit
<1>2. rendered \in [Users -> Seq(0..MaxEdits + 1)]
  BY UnrenderedType DEF WatchInit
<1> QED
  BY <1>1, <1>2 DEF WatchInit, WatchTypeOK

\* A pass, the caches and the news of the informers are of the Agents and objects
\* there are, at the versions there have been (agent_controller.go:81-166).
THEOREM WatchTypeCorrect ==
    WatchSpec => []WatchTypeOK
BY WatchInitType, WatchTypeStep, PTL DEF WatchSpec

----------------------------------------------------------------------------
(* ToolWatches: no change is lost. *)

\* A change of an object, or news of it, is news still.
NewsKept(o) == (o \in news \/ cthings'[o] # cthings[o]) => o \in news'

LEMMA FitsKept ==
    ASSUME NEW s \in UserSpecs, NEW i \in DOMAIN ReadsOf(s), NewsKept(ReadsOf(s)[i]),
           NEW value, Fits(s, i, value)
    PROVE  value = cthings'[ReadsOf(s)[i]] \/ ReadsOf(s)[i] \in news'
BY DEF Fits, NewsKept

\* What leaves the worker alone loses nothing, if whoever is to be rendered again
\* still is, and news of what a followed spec reads stays until then.
LEMMA NothingLost ==
    ASSUME WatchTypeOK, ReadingFits, RenderedFits, UNCHANGED <<reading, rendered>>,
           \A u \in Users : ~Awaits(u)' => ~Awaits(u) /\ cspec'[u] = cspec[u],
           \A u \in Users : ~Awaits(u)' /\ Followed(cspec[u]) =>
               \A i \in DOMAIN ReadsOf(cspec[u]) : NewsKept(ReadsOf(cspec[u])[i])
    PROVE  ReadingFits' /\ RenderedFits'
<1>1. ASSUME NEW u \in Users, reading # NoAgent, reading.agent = u, ~Awaits(u)'
      PROVE  /\ reading.spec = cspec'[u]
             /\ Followed(reading.spec) =>
                   \A i \in DOMAIN reading.got : Fits(reading.spec, i, reading.got[i])'
  <2> DEFINE s == cspec[u]
  <2>1. ~Awaits(u) /\ cspec'[u] = s /\ s \in UserSpecs
    BY <1>1 DEF WatchTypeOK
  <2>2. reading.spec = s /\ (Followed(s) => \A i \in DOMAIN reading.got : Fits(s, i, reading.got[i]))
    BY <1>1, <2>1 DEF ReadingFits
  <2>3. Followed(s) => \A i \in DOMAIN ReadsOf(s) : NewsKept(ReadsOf(s)[i])
    BY <1>1
  <2>4. \A i \in DOMAIN reading.got : i \in DOMAIN ReadsOf(s)
    <3>1. reading.got \in Seq(1..MaxEdits + 1) /\ Len(reading.got) <= Len(ReadsOf(s))
      BY <1>1, <2>2 DEF WatchTypeOK, Passes
    <3>2. Len(ReadsOf(s)) \in Nat /\ DOMAIN ReadsOf(s) = 1 .. Len(ReadsOf(s))
      BY <2>1, ReadsAre
    <3> QED
      BY <3>1, <3>2
  <2> HIDE DEF s
  <2>5. ASSUME Followed(s), NEW i \in DOMAIN reading.got
        PROVE  reading.got[i] = cthings'[ReadsOf(s)[i]] \/ ReadsOf(s)[i] \in news'
    BY <2>1, <2>2, <2>3, <2>4, <2>5, FitsKept
  <2> QED
    BY <2>1, <2>2, <2>5 DEF Fits
<1>2. ReadingFits'
  <2>1. reading # NoAgent => reading.agent \in Users
    BY DEF WatchTypeOK, Passes
  <2> QED
    BY <1>1, <2>1 DEF ReadingFits
<1> DEFINE Then(s, i, value) == value = cthings'[ReadsOf(s)[i]] \/ ReadsOf(s)[i] \in news'
<1>3. ASSUME NEW u \in Users, ~Awaits(u)', reading.agent # u, Followed(cspec'[u])
      PROVE  /\ cspec'[u] = cspec[u]
             /\ \/ /\ rendered[u] \in Seq(1..MaxEdits + 1) /\ Len(rendered[u]) = Len(ReadsOf(cspec[u]))
                   /\ \A i \in DOMAIN rendered[u] : Then(cspec[u], i, rendered[u][i])
                \/ /\ rendered[u] = Unrendered
                   /\ \E i \in DOMAIN ReadsOf(cspec[u]) : Then(cspec[u], i, 0)
  <2> DEFINE s == cspec[u]
  <2>1. ~Awaits(u) /\ cspec'[u] = s /\ s \in UserSpecs /\ Followed(s)
    BY <1>3 DEF WatchTypeOK
  <2>2. \A i \in DOMAIN ReadsOf(s) : NewsKept(ReadsOf(s)[i])
    BY <1>3, <2>1
  <2>3. CASE /\ rendered[u] \in Seq(1..MaxEdits + 1) /\ Len(rendered[u]) = Len(ReadsOf(s))
             /\ \A i \in DOMAIN rendered[u] : Fits(s, i, rendered[u][i])
    <3>1. \A i \in DOMAIN rendered[u] : i \in DOMAIN ReadsOf(s)
      <4>1. DOMAIN ReadsOf(s) = 1 .. Len(ReadsOf(s))
        BY <2>1, ReadsAre
      <4> QED
        BY <2>3, <4>1
    <3> HIDE DEF s
    <3>2. ASSUME NEW i \in DOMAIN rendered[u]
          PROVE  rendered[u][i] = cthings'[ReadsOf(s)[i]] \/ ReadsOf(s)[i] \in news'
      BY <2>1, <2>2, <2>3, <3>1, FitsKept
    <3> QED
      BY <2>1, <2>3, <3>2 DEF s
  <2>4. CASE rendered[u] = Unrendered /\ \E i \in DOMAIN ReadsOf(s) : Fits(s, i, 0)
    <3> HIDE DEF s
    <3>1. PICK i \in DOMAIN ReadsOf(s) : Fits(s, i, 0)
      BY <2>4
    <3>2. 0 = cthings'[ReadsOf(s)[i]] \/ ReadsOf(s)[i] \in news'
      BY <2>1, <2>2, <3>1, FitsKept
    <3> QED
      BY <2>1, <2>4, <3>2 DEF s
  <2> QED
    BY <1>3, <2>1, <2>3, <2>4 DEF RenderedFits
<1>4. RenderedFits'
  <2>1. ASSUME NEW u \in Users, (~Awaits(u) /\ reading.agent # u /\ Followed(cspec[u]))'
        PROVE  (\/ /\ rendered[u] \in Seq(1..MaxEdits + 1) /\ Len(rendered[u]) = Len(ReadsOf(cspec[u]))
                   /\ \A i \in DOMAIN rendered[u] : Fits(cspec[u], i, rendered[u][i])
                \/ /\ rendered[u] = Unrendered
                   /\ \E i \in DOMAIN ReadsOf(cspec[u]) : Fits(cspec[u], i, 0))'
    BY <1>3, <2>1 DEF Fits
  <2> QED
    BY <2>1 DEF RenderedFits
<1> QED
  BY <1>2, <1>4

LEMMA WatchStep ==
    WatchInv /\ [WatchNext]_watchVars => WatchInv'
<1> SUFFICES ASSUME WatchTypeOK, ReadingFits, RenderedFits, [WatchNext]_watchVars
             PROVE  ReadingFits' /\ RenderedFits'
  BY WatchTypeStep DEF WatchInv
<1>1. CASE UNCHANGED watchVars
  BY <1>1, NothingLost DEF watchVars, Awaits, NewsKept
<1>2. ASSUME NEW u \in Users, EditAgent(u) PROVE ReadingFits' /\ RenderedFits'
  BY <1>2, NothingLost DEF EditAgent, Awaits, NewsKept
<1>3. ASSUME NEW u \in Users, SeeAgent(u) PROVE ReadingFits' /\ RenderedFits'
  <2>1. \A v \in Users : ~Awaits(v)' => ~Awaits(v) /\ cspec'[v] = cspec[v]
    BY <1>3 DEF SeeAgent, Awaits, WatchTypeOK
  <2>2. \A o \in Used : NewsKept(o)
    BY <1>3 DEF SeeAgent, NewsKept
  <2>3. \A v \in Users : \A i \in DOMAIN ReadsOf(cspec[v]) : NewsKept(ReadsOf(cspec[v])[i])
    BY <1>3 DEF SeeAgent, NewsKept
  <2> QED
    BY <1>3, <2>1, <2>3, NothingLost DEF SeeAgent
<1>4. ASSUME NEW u \in Users, EnqueueAgent(u) PROVE ReadingFits' /\ RenderedFits'
  BY <1>4, NothingLost DEF EnqueueAgent, Awaits, NewsKept
<1>5. ASSUME NEW u \in Users, BeginRender(u) PROVE ReadingFits' /\ RenderedFits'
  <2> DEFINE pass == [agent |-> u, spec |-> cspec[u], got |-> <<>>]
  <2>1. pass.agent = u /\ pass.spec = cspec[u] /\ DOMAIN pass.got = {}
    OBVIOUS
  <2>2. reading' = pass /\ reading = NoAgent
        /\ UNCHANGED <<cspec, cthings, agentNews, news, rendered>> /\ dueAgents' = dueAgents \ {u}
    BY <1>5 DEF BeginRender
  <2> HIDE DEF pass
  <2>3. ReadingFits'
    BY <2>1, <2>2 DEF ReadingFits
  <2>4. NoAgent.agent \notin Users
    BY WatchAssumption DEF NoAgent
  <2>5. RenderedFits'
    <3>1. \A v \in Users : reading'.agent # v /\ ~Awaits(v)' => reading.agent # v /\ ~Awaits(v)
      BY <2>1, <2>2, <2>4 DEF Awaits
    <3> QED
      BY <2>2, <3>1 DEF RenderedFits, Fits
  <2> QED
    BY <2>3, <2>5
<1>6. ASSUME NEW o \in Used, EditThing(o) PROVE ReadingFits' /\ RenderedFits'
  BY <1>6, NothingLost DEF EditThing, Awaits, NewsKept
<1>7. ASSUME NEW o \in Used, SeeThing(o) PROVE ReadingFits' /\ RenderedFits'
  <2>1. \A v \in Users : ~Awaits(v)' => ~Awaits(v) /\ cspec'[v] = cspec[v]
    BY <1>7 DEF SeeThing, Awaits
  <2>2. \A p \in Used : NewsKept(p)
    BY <1>7 DEF SeeThing, NewsKept, WatchTypeOK
  <2>3. \A v \in Users : \A i \in DOMAIN ReadsOf(cspec[v]) : ReadsOf(cspec[v])[i] \in Used
    BY WatchAssumption DEF WatchTypeOK
  <2> QED
    BY <1>7, <2>1, <2>2, <2>3, NothingLost DEF SeeThing
<1>8. ASSUME NEW o \in Used, EnqueueRequestsFromMapFunc(o) PROVE ReadingFits' /\ RenderedFits'
  <2>1. /\ UNCHANGED <<cspec, cthings, agentNews, reading, rendered>> /\ news' = news \ {o}
        /\ dueAgents' = dueAgents \cup {u \in Users : Finds(cspec[u], o)}
    BY <1>8 DEF EnqueueRequestsFromMapFunc
  <2>2. \A v \in Users : ~Awaits(v)' => ~Awaits(v) /\ cspec'[v] = cspec[v] /\ ~Finds(cspec[v], o)
    BY <2>1 DEF Awaits
  <2>3. ASSUME NEW v \in Users, ~Awaits(v)', Followed(cspec[v]), NEW i \in DOMAIN ReadsOf(cspec[v])
        PROVE  NewsKept(ReadsOf(cspec[v])[i])
    <3> DEFINE s == cspec[v]
    <3>1. s \in UserSpecs
      BY DEF WatchTypeOK
    <3>2. ~Finds(s, o)
      BY <2>2, <2>3
    <3>3. Followed(s) /\ i \in DOMAIN ReadsOf(s)
      BY <2>3
    <3> HIDE DEF s
    <3>4. Finds(s, ReadsOf(s)[i])
      BY <3>1, <3>3, FollowedIsFound
    <3>5. ReadsOf(s)[i] # o
      BY <3>2, <3>4
    <3> QED
      BY <2>1, <3>5 DEF NewsKept, s
  <2> QED
    BY <2>1, <2>2, <2>3, NothingLost
<1>9. CASE ReadNext
  <2> DEFINE a == reading.agent
             s == reading.spec
  <2>1. reading \in Passes /\ UNCHANGED <<spec, things, cspec, cthings, agentNews, news, dueAgents, edits>>
    BY <1>9, ReadNextIs
  <2>2. a \in Users /\ s \in UserSpecs /\ reading.got \in Seq(1..MaxEdits + 1) /\ reading # NoAgent
    BY <2>1, NoAgentIsNone DEF Passes
  <2>3. ~Awaits(a) => s = cspec[a] /\ (Followed(s) => \A i \in DOMAIN reading.got : Fits(s, i, reading.got[i]))
    BY <2>2 DEF ReadingFits
  <2>4. \A u \in Users : Awaits(u)' <=> Awaits(u)
    BY <2>1 DEF Awaits
  <2>5. NoAgent.agent \notin Users
    BY WatchAssumption DEF NoAgent
  <2>6. ASSUME reading' = NoAgent,
               NEW r \in Seq(0..MaxEdits + 1), rendered' = [rendered EXCEPT ![a] = r],
               (~Awaits(a) /\ Followed(cspec[a])) =>
                  \/ /\ r \in Seq(1..MaxEdits + 1) /\ Len(r) = Len(ReadsOf(cspec[a]))
                     /\ \A i \in DOMAIN r : Fits(cspec[a], i, r[i])
                  \/ r = Unrendered /\ \E i \in DOMAIN ReadsOf(cspec[a]) : Fits(cspec[a], i, 0)
        PROVE  ReadingFits' /\ RenderedFits'
    <3>1. ReadingFits'
      BY <2>6 DEF ReadingFits
    <3>2. rendered'[a] = r /\ \A u \in Users : u # a => rendered'[u] = rendered[u]
      BY <2>2, <2>6 DEF WatchTypeOK
    <3> HIDE DEF a, s
    <3>3. ASSUME NEW u \in Users, u # a, ~Awaits(u), Followed(cspec[u])
          PROVE  \/ /\ rendered'[u] \in Seq(1..MaxEdits + 1) /\ Len(rendered'[u]) = Len(ReadsOf(cspec[u]))
                    /\ \A i \in DOMAIN rendered'[u] : Fits(cspec[u], i, rendered'[u][i])
                 \/ /\ rendered'[u] = Unrendered
                    /\ \E i \in DOMAIN ReadsOf(cspec[u]) : Fits(cspec[u], i, 0)
      BY <3>2, <3>3 DEF RenderedFits, a
    <3>4. ASSUME NEW u \in Users, ~Awaits(u), Followed(cspec[u])
          PROVE  \/ /\ rendered'[u] \in Seq(1..MaxEdits + 1) /\ Len(rendered'[u]) = Len(ReadsOf(cspec[u]))
                    /\ \A i \in DOMAIN rendered'[u] : Fits(cspec[u], i, rendered'[u][i])
                 \/ /\ rendered'[u] = Unrendered
                    /\ \E i \in DOMAIN ReadsOf(cspec[u]) : Fits(cspec[u], i, 0)
      <4>1. CASE u = a
        BY <2>6, <3>2, <3>4, <4>1
      <4>2. CASE u # a
        BY <3>3, <3>4, <4>2
      <4> QED
        BY <4>1, <4>2
    <3>5. RenderedFits'
      BY <2>1, <2>4, <3>4 DEF RenderedFits, Fits
    <3> QED
      BY <3>1, <3>5
  <2>7. CASE /\ Len(reading.got) = Len(ReadsOf(s))
             /\ reading' = NoAgent /\ rendered' = [rendered EXCEPT ![a] = reading.got]
    <3> DEFINE some == 1..MaxEdits + 1
               more == 0..MaxEdits + 1
    <3>1. some \subseteq more /\ reading.got \in Seq(some)
      BY <2>2, WatchAssumption
    <3> HIDE DEF some, more
    <3>2. reading.got \in Seq(more)
      BY <3>1, SeqOfMore
    <3> USE DEF some, more
    <3> QED
      BY <2>2, <2>3, <2>6, <2>7, <3>2
  <2>8. CASE /\ reading' = NoAgent /\ rendered' = [rendered EXCEPT ![a] = Unrendered]
             /\ \E i \in DOMAIN ReadsOf(s) : cthings[ReadsOf(s)[i]] = 0
    <3>1. \E i \in DOMAIN ReadsOf(s) : Fits(s, i, 0)
      BY <2>8 DEF Fits
    <3> QED
      BY <2>3, <2>6, <2>8, <3>1, UnrenderedType
  <2>9. CASE \E i \in DOMAIN ReadsOf(s), seen \in 1..MaxEdits + 1 :
                /\ i = Len(reading.got) + 1 /\ seen = cthings[ReadsOf(s)[i]]
                /\ reading' = [reading EXCEPT !.got = Append(reading.got, seen)]
                /\ rendered' = rendered
    <3>1. PICK i \in DOMAIN ReadsOf(s), seen \in 1..MaxEdits + 1 :
                /\ i = Len(reading.got) + 1 /\ seen = cthings[ReadsOf(s)[i]]
                /\ reading' = [reading EXCEPT !.got = Append(reading.got, seen)]
                /\ rendered' = rendered
      BY <2>9
    <3> DEFINE more == Append(reading.got, seen)
    <3>2. /\ more \in Seq(1..MaxEdits + 1) /\ Len(more) = Len(reading.got) + 1 /\ more[i] = seen
          /\ \A j \in 1 .. Len(reading.got) : more[j] = reading.got[j]
      BY <2>2, <3>1, AppendProperties
    <3>3. reading'.got = more /\ reading'.spec = s /\ reading'.agent = a /\ reading' # NoAgent
      <4>1. reading'.got = more /\ reading'.spec = s /\ reading'.agent = a
        BY <2>1, <3>1 DEF Passes
      <4> QED
        BY <2>2, <2>5, <4>1
    <3> HIDE DEF more
    <3>4. ASSUME ~Awaits(a), Followed(s), NEW j \in DOMAIN more
          PROVE  Fits(s, j, more[j])
      <4>1. CASE j = i
        BY <3>1, <3>2, <4>1 DEF Fits
      <4>2. CASE j # i
        <5>1. j \in 1 .. Len(reading.got) /\ j \in DOMAIN reading.got
          BY <2>2, <3>1, <3>2, <4>2
        <5> QED
          BY <2>3, <3>2, <3>4, <5>1
      <4> QED
        BY <4>1, <4>2
    <3>5. ReadingFits'
      BY <2>1, <2>2, <2>3, <2>4, <3>3, <3>4 DEF ReadingFits, Fits
    <3>6. RenderedFits'
      BY <2>1, <2>4, <3>1, <3>3 DEF RenderedFits, Fits
    <3> QED
      BY <3>5, <3>6
  <2> QED
    BY <1>9, <2>7, <2>8, <2>9, ReadNextIs
<1> QED
  BY <1>1, <1>2, <1>3, <1>4, <1>5, <1>6, <1>7, <1>8, <1>9 DEF WatchNext

LEMMA WatchInvKept ==
    WatchSpec => []WatchInv
<1>1. WatchInit => WatchInv
  BY WatchInitType DEF WatchInit, WatchInv, ReadingFits, RenderedFits, Awaits
<1> QED
  BY <1>1, WatchStep, PTL DEF WatchSpec

\* Whatever the Agents, their references and the objects there are, and in
\* whatever order caches, handlers and passes run: once all is at rest, an Agent
\* whose references the controller follows is rendered from what there is
\* (agent_controller.go:81-166 against adk_api_translator.go:965-1042).
THEOREM CurrentRendered ==
    WatchSpec => []RenderedIsCurrent
<1>1. WatchInv => RenderedIsCurrent
  <2> SUFFICES ASSUME WatchTypeOK, RenderedFits, Settled,
                      NEW u \in Users, \A i \in DOMAIN spec[u].tools : ~Unfollowed(spec[u], i)
               PROVE  rendered[u] = RenderingOf(spec[u])
    BY DEF WatchInv, RenderedIsCurrent
  <2> DEFINE s == spec[u]
  <2>1. /\ s \in UserSpecs /\ cspec[u] = s /\ cthings = things /\ news = {} /\ Followed(s)
        /\ ~Awaits(u) /\ reading.agent # u /\ things \in [Used -> 0..MaxEdits + 1]
    BY WatchAssumption DEF WatchTypeOK, Settled, Followed, Awaits, NoAgent
  <2>2. /\ ReadsOf(s) \in Seq(Used) /\ Len(ReadsOf(s)) \in Nat /\ DOMAIN ReadsOf(s) = 1 .. Len(ReadsOf(s))
    BY <2>1, ReadsAre
  <2>3. \A i, value : Fits(s, i, value) => value = things[ReadsOf(s)[i]]
    BY <2>1 DEF Fits
  <2>r. \/ /\ rendered[u] \in Seq(1..MaxEdits + 1) /\ Len(rendered[u]) = Len(ReadsOf(s))
           /\ \A i \in DOMAIN rendered[u] : Fits(s, i, rendered[u][i])
        \/ /\ rendered[u] = Unrendered /\ \E i \in DOMAIN ReadsOf(s) : Fits(s, i, 0)
    BY <2>1 DEF RenderedFits
  <2> HIDE DEF s
  <2>4. CASE /\ rendered[u] \in Seq(1..MaxEdits + 1) /\ Len(rendered[u]) = Len(ReadsOf(s))
             /\ \A i \in DOMAIN rendered[u] : Fits(s, i, rendered[u][i])
    <3>1. DOMAIN rendered[u] = DOMAIN ReadsOf(s)
      BY <2>2, <2>4
    <3>2. \A i \in DOMAIN ReadsOf(s) : rendered[u][i] = things[ReadsOf(s)[i]] /\ rendered[u][i] # 0
      <4>1. \A i \in DOMAIN rendered[u] : rendered[u][i] \in 1..MaxEdits + 1
        BY <2>4, SeqElement
      <4>2. \A i \in DOMAIN rendered[u] : rendered[u][i] # 0
        BY <4>1
      <4> QED
        BY <2>3, <2>4, <3>1, <4>2
    <3>3. RenderingOf(s) = [i \in DOMAIN ReadsOf(s) |-> things[ReadsOf(s)[i]]]
      BY <3>2 DEF RenderingOf
    <3>4. rendered[u] = [i \in DOMAIN rendered[u] |-> rendered[u][i]]
      BY <2>4
    <3> QED
      BY <3>1, <3>2, <3>3, <3>4 DEF s
  <2>5. CASE rendered[u] = Unrendered /\ \E i \in DOMAIN ReadsOf(s) : Fits(s, i, 0)
    BY <2>3, <2>5 DEF RenderingOf, s
  <2> QED
    BY <2>r, <2>4, <2>5
<1> QED
  BY <1>1, WatchInvKept, PTL

----------------------------------------------------------------------------
(* AgentApi: types. *)

LEMMA CopyTools ==
    /\ \A copy \in Copies : copy.rv \in Nat
    /\ \A copy \in Copies : copy.rv > 0 => copy.tools \in ToolSets /\ copy.tools \subseteq ApiAgents
    /\ \A rv \in Nat \ {0}, tools \in ToolSets : [rv |-> rv, tools |-> tools] \in Copies
    /\ Nowhere \in Copies /\ Nowhere.rv = 0
BY ApiAssumption DEF Copies, Nowhere

Pending == {c \in ApiClients : request[c] # Waiting}

LEMMA PendingFinite ==
    /\ IsFiniteSet(Pending) /\ Cardinality(Pending) \in Nat
    /\ \A c \in ApiClients : c \notin Pending =>
          Cardinality(Pending \cup {c}) = Cardinality(Pending) + 1
    /\ \A c \in Pending : Cardinality(Pending \ {c}) = Cardinality(Pending) - 1
<1>1. IsFiniteSet(Pending)
  BY ApiAssumption, FS_Subset DEF Pending
<1>2. Cardinality(Pending) \in Nat
  BY <1>1, FS_CardinalityType
<1> QED
  BY <1>1, <1>2, FS_AddElement, FS_RemoveElement

\* A handler's read, and a handler's answer.
LEMMA AsksType ==
    ASSUME AgentApiTypeOK, NEW c \in ApiClients, NEW r \in Requests,
           r.op # "delete" => r.tools \in ToolSets,
           request[c] = Waiting, r # Waiting, request' = [request EXCEPT ![c] = r],
           requestsLeft > 0, requestsLeft' = requestsLeft - 1,
           UNCHANGED <<storedAgent, cachedAgent, revision, appliedLeft, validated>>
    PROVE  AgentApiTypeOK'
<1>1. request' \in [ApiClients -> Requests \cup {Waiting}]
  BY DEF AgentApiTypeOK
<1>2. \A d \in ApiClients : (request'[d] # Waiting /\ request'[d].op # "delete") => request'[d].tools \in ToolSets
  BY DEF AgentApiTypeOK
<1>3. Pending' = Pending \cup {c} /\ c \notin Pending
  BY DEF Pending, AgentApiTypeOK
<1>4. Cardinality(Pending') = Cardinality(Pending) + 1 /\ Cardinality(Pending) \in Nat
  BY <1>3, PendingFinite
<1>5. requestsLeft' \in 0..MaxAgentRequests
  BY ApiAssumption DEF AgentApiTypeOK
<1>6. revision' + Cardinality(Pending') <= (MaxApplied - appliedLeft') + (MaxAgentRequests - requestsLeft')
  BY <1>4, ApiAssumption DEF AgentApiTypeOK, Pending
<1> QED
  BY <1>1, <1>2, <1>5, <1>6 DEF AgentApiTypeOK, Pending

LEMMA AnsweredType ==
    ASSUME AgentApiTypeOK, NEW c \in ApiClients, request[c] # Waiting, Answered(c),
           NEW n \in ApiAgents, NEW copy \in Copies,
           storedAgent' \in {storedAgent, [storedAgent EXCEPT ![n] = copy]},
           copy.rv <= revision', revision' \in {revision, revision + 1}, validated' \subseteq ApiAgents
    PROVE  AgentApiTypeOK'
<1>1. request' \in [ApiClients -> Requests \cup {Waiting}]
      /\ \A d \in ApiClients : request'[d] # Waiting => request'[d] = request[d]
  BY DEF AgentApiTypeOK, Answered
<1>2. Pending' = Pending \ {c} /\ c \in Pending
  BY DEF Pending, Answered, AgentApiTypeOK
<1>3. Cardinality(Pending') = Cardinality(Pending) - 1 /\ Cardinality(Pending) \in Nat
  BY <1>2, PendingFinite
<1>4. /\ storedAgent' \in [ApiAgents -> Copies] /\ revision' \in Nat /\ revision <= revision'
      /\ \A m \in ApiAgents : storedAgent'[m] = storedAgent[m] \/ storedAgent'[m] = copy
  BY DEF AgentApiTypeOK
<1>5. \A m \in ApiAgents : storedAgent'[m].rv <= revision' /\ cachedAgent'[m].rv <= revision'
  BY <1>4, CopyTools DEF AgentApiTypeOK, Answered
<1>6. revision' + Cardinality(Pending') <= (MaxApplied - appliedLeft') + (MaxAgentRequests - requestsLeft')
  <2>1. revision + Cardinality(Pending) <= (MaxApplied - appliedLeft) + (MaxAgentRequests - requestsLeft)
    BY DEF AgentApiTypeOK, Pending
  <2>2. (MaxApplied - appliedLeft) + (MaxAgentRequests - requestsLeft) \in Int /\ revision \in Nat
    BY ApiAssumption DEF AgentApiTypeOK
  <2>3. UNCHANGED <<requestsLeft, appliedLeft>>
    BY DEF Answered
  <2> HIDE DEF Answered
  <2> QED
    BY <1>3, <2>1, <2>2, <2>3
<1>7. cachedAgent' = cachedAgent /\ requestsLeft' = requestsLeft /\ appliedLeft' = appliedLeft
  BY DEF Answered
<1> QED
  BY <1>1, <1>4, <1>5, <1>6, <1>7 DEF AgentApiTypeOK, Pending

LEMMA ReadType ==
    ASSUME AgentApiTypeOK, NEW n \in ApiAgents
    PROVE  Read(n) \in [ApiAgents -> Copies]
BY CopyTools DEF Read, AgentApiTypeOK

LEMMA ApiTypeStep ==
    AgentApiTypeOK /\ [ApiNext]_apiVars => AgentApiTypeOK'
<1> SUFFICES ASSUME AgentApiTypeOK, [ApiNext]_apiVars PROVE AgentApiTypeOK'
  OBVIOUS
<1>1. CASE UNCHANGED apiVars
  BY <1>1 DEF apiVars, AgentApiTypeOK
<1>2. ASSUME NEW c \in ApiClients, NEW op, NEW n \in ApiAgents, NEW tools, NEW seen,
             Asks(c, op, n, tools, seen), op \in {"create", "update", "delete"},
             tools \in ToolSets \/ (op = "delete" /\ tools = {}), seen \in [ApiAgents -> Copies]
      PROVE  AgentApiTypeOK'
  <2> DEFINE r == [op |-> op, name |-> n, tools |-> tools, seen |-> seen]
  <2>1. r \in Requests /\ r.op = op /\ r.tools = tools
    BY <1>2 DEF Requests
  <2>2. r # Waiting
    BY <2>1, ApiAssumption
  <2>3. request' = [request EXCEPT ![c] = r]
    BY <1>2 DEF Asks
  <2> HIDE DEF r
  <2> QED
    BY <1>2, <2>1, <2>2, <2>3, AsksType DEF Asks
<1>3. ASSUME NEW c \in ApiClients, NEW n \in ApiAgents, NEW tools \in ToolSets, HandleCreateAgent(c, n, tools)
      PROVE  AgentApiTypeOK'
  BY <1>2, <1>3 DEF HandleCreateAgent, AgentApiTypeOK
<1>4. ASSUME NEW c \in ApiClients, NEW n \in ApiAgents, NEW tools \in ToolSets, HandleUpdateAgent(c, n, tools)
      PROVE  AgentApiTypeOK'
  BY <1>2, <1>4, ReadType DEF HandleUpdateAgent
<1>5. ASSUME NEW c \in ApiClients, NEW n \in ApiAgents, HandleDeleteAgent(c, n)
      PROVE  AgentApiTypeOK'
  BY <1>2, <1>5, ReadType DEF HandleDeleteAgent
<1>6. ASSUME NEW c \in ApiClients, StoreCreated(c) \/ StoreUpdated(c) \/ StoreDeleted(c) \/ Refused(c)
      PROVE  AgentApiTypeOK'
  <2> DEFINE r == request[c]
             n == r.name
             new == [rv |-> revision + 1, tools |-> r.tools]
  <2>1. r # Waiting /\ Answered(c) /\ r \in Requests /\ n \in ApiAgents
    BY <1>6 DEF StoreCreated, StoreUpdated, StoreDeleted, Refused, AgentApiTypeOK, Requests
  <2>2. revision \in Nat /\ Nowhere \in Copies /\ Nowhere.rv <= revision
    BY CopyTools DEF AgentApiTypeOK
  <2>3. CASE StoreCreated(c) \/ StoreUpdated(c)
    <3>1. r.tools \in ToolSets
      BY <2>1, <2>3 DEF StoreCreated, StoreUpdated, AgentApiTypeOK
    <3>2. new \in Copies /\ new.rv = revision + 1
      BY <2>2, <3>1, CopyTools
    <3>3. storedAgent' = [storedAgent EXCEPT ![n] = new] /\ revision' = revision + 1
      BY <2>3 DEF StoreCreated, StoreUpdated, Stores
    <3>4. validated' \subseteq ApiAgents
      BY <2>1, <2>3 DEF StoreCreated, StoreUpdated, AgentApiTypeOK
    <3> HIDE DEF new, n
    <3>5. new.rv <= revision' /\ storedAgent' \in {storedAgent, [storedAgent EXCEPT ![n] = new]}
      BY <2>2, <3>2, <3>3
    <3> QED
      BY <2>1, <2>2, <3>2, <3>3, <3>4, <3>5, AnsweredType
  <2>4. CASE StoreDeleted(c)
    <3>1. storedAgent' = [storedAgent EXCEPT ![n] = Nowhere] /\ revision' = revision /\ validated' \subseteq ApiAgents
      BY <2>4 DEF StoreDeleted, AgentApiTypeOK
    <3> HIDE DEF n
    <3> QED
      BY <2>1, <2>2, <3>1, AnsweredType
  <2>5. CASE Refused(c)
    <3>1. storedAgent' = storedAgent /\ revision' = revision /\ validated' \subseteq ApiAgents
      BY <2>5 DEF Refused, AgentApiTypeOK
    <3> HIDE DEF n
    <3> QED
      BY <2>1, <2>2, <3>1, AnsweredType
  <2> QED
    BY <1>6, <2>3, <2>4, <2>5
<1>7. ASSUME NEW n \in ApiAgents, SyncCache(n)
      PROVE  AgentApiTypeOK'
  BY <1>7 DEF SyncCache, AgentApiTypeOK
<1>8. ASSUME NEW n \in ApiAgents, NEW tools \in ToolSets, ApplyAgent(n, tools)
      PROVE  AgentApiTypeOK'
  <2> DEFINE new == [rv |-> revision + 1, tools |-> tools]
  <2>1. /\ storedAgent' = [storedAgent EXCEPT ![n] = new] /\ revision' = revision + 1
        /\ validated' \subseteq ApiAgents /\ UNCHANGED <<cachedAgent, request, requestsLeft>>
        /\ appliedLeft > 0 /\ appliedLeft' = appliedLeft - 1
    BY <1>8 DEF ApplyAgent, Stores, AgentApiTypeOK
  <2>r. revision \in Nat /\ revision + 1 \in Nat \ {0}
    BY DEF AgentApiTypeOK
  <2>2. revision \in Nat /\ new \in Copies /\ new.rv = revision + 1
    BY <2>r, CopyTools
  <2> HIDE DEF new
  <2>3. storedAgent' \in [ApiAgents -> Copies]
        /\ \A m \in ApiAgents : storedAgent'[m] = storedAgent[m] \/ storedAgent'[m] = new
    BY <2>1, <2>2 DEF AgentApiTypeOK
  <2>4. \A m \in ApiAgents : storedAgent'[m].rv <= revision' /\ cachedAgent'[m].rv <= revision'
    BY <2>1, <2>2, <2>3, CopyTools DEF AgentApiTypeOK
  <2>5. appliedLeft' \in 0..MaxApplied
    BY <2>1, ApiAssumption DEF AgentApiTypeOK
  <2>6. revision' + Cardinality(Pending') <= (MaxApplied - appliedLeft') + (MaxAgentRequests - requestsLeft')
    <3>1. Pending' = Pending /\ Cardinality(Pending) \in Nat
      BY <2>1, PendingFinite DEF Pending
    <3>2. revision + Cardinality(Pending) <= (MaxApplied - appliedLeft) + (MaxAgentRequests - requestsLeft)
      BY DEF AgentApiTypeOK, Pending
    <3>3. /\ MaxApplied \in Int /\ appliedLeft \in Int /\ MaxAgentRequests \in Int
          /\ requestsLeft \in Int /\ revision \in Int
      BY ApiAssumption DEF AgentApiTypeOK
    <3> QED
      BY <2>1, <3>1, <3>2, <3>3
  <2>7. revision' \in Nat
    BY <2>1, <2>2
  <2> QED
    BY <2>1, <2>3, <2>4, <2>5, <2>6, <2>7 DEF AgentApiTypeOK, Pending
<1> QED
  BY <1>1, <1>3, <1>4, <1>5, <1>6, <1>7, <1>8 DEF ApiNext

LEMMA ApiInitType ==
    ApiInit => AgentApiTypeOK
<1> SUFFICES ASSUME ApiInit PROVE AgentApiTypeOK
  OBVIOUS
<1>1. {c \in ApiClients : request[c] # Waiting} = {}
  BY DEF ApiInit
<1>2. Cardinality({}) = 0
  BY FS_EmptySet
<1>3. storedAgent \in [ApiAgents -> Copies] /\ \A n \in ApiAgents : storedAgent[n].rv <= 0
  BY CopyTools DEF ApiInit
<1>4. request \in [ApiClients -> Requests \cup {Waiting}] /\ \A c \in ApiClients : request[c] = Waiting
  BY DEF ApiInit
<1>5. /\ requestsLeft = MaxAgentRequests /\ appliedLeft = MaxApplied /\ revision = 0
      /\ cachedAgent = storedAgent /\ validated = {}
  BY DEF ApiInit
<1>6. /\ requestsLeft \in 0..MaxAgentRequests /\ appliedLeft \in 0..MaxApplied
      /\ revision + 0 <= (MaxApplied - appliedLeft) + (MaxAgentRequests - requestsLeft)
  BY <1>5, ApiAssumption
<1> QED
  BY <1>1, <1>2, <1>3, <1>4, <1>5, <1>6 DEF AgentApiTypeOK

\* What the API server holds, the cache and each request under way are copies of
\* Agents, numbered by their resource versions (handlers/agents.go).
THEOREM ApiTypeCorrect ==
    ApiSpec => []AgentApiTypeOK
BY ApiInitType, ApiTypeStep, PTL DEF ApiSpec

----------------------------------------------------------------------------
(* AgentApi: who reaches whom. *)

Closed(store, S) == \A z \in S : Callees(store, z) \subseteq S

Reached(store, x) == {y \in ApiAgents : Reaches(store, x, y)}

LEMMA CalleesType ==
    ASSUME NEW store \in [ApiAgents -> Copies], NEW x \in ApiAgents
    PROVE  Callees(store, x) \subseteq ApiAgents
BY CopyTools DEF Callees, Exists

\* What is reached is closed under calls, holds the callees, and nothing reached
\* reaches further; whoever is reached is a callee or reached from one.
LEMMA ReachedIs ==
    ASSUME NEW store \in [ApiAgents -> Copies], NEW x \in ApiAgents
    PROVE  /\ Callees(store, x) \subseteq Reached(store, x)
           /\ Closed(store, Reached(store, x))
           /\ \A y \in Reached(store, x) : Reached(store, y) \subseteq Reached(store, x)
           /\ \A y \in Reached(store, x) : \E z \in Callees(store, x) : y = z \/ y \in Reached(store, z)
<1>1. ASSUME NEW w \in ApiAgents
      PROVE  Callees(store, w) \subseteq Reached(store, w) /\ Closed(store, Reached(store, w))
  BY CalleesType DEF Reached, Reaches, Closed
<1>2. ASSUME NEW w \in ApiAgents, NEW S \in SUBSET ApiAgents, Callees(store, w) \subseteq S, Closed(store, S)
      PROVE  Reached(store, w) \subseteq S
  BY <1>2 DEF Reached, Reaches, Closed
<1>3. ASSUME NEW y \in Reached(store, x)
      PROVE  Reached(store, y) \subseteq Reached(store, x)
  <2>1. y \in ApiAgents /\ Reached(store, x) \in SUBSET ApiAgents
    BY DEF Reached
  <2>2. Callees(store, y) \subseteq Reached(store, x)
    BY <1>1 DEF Closed
  <2> QED
    BY <1>1, <1>2, <2>1, <2>2
<1>4. ASSUME NEW y \in Reached(store, x)
      PROVE  \E z \in Callees(store, x) : y = z \/ y \in Reached(store, z)
  <2> DEFINE S == {w \in ApiAgents : \E z \in Callees(store, x) : w = z \/ w \in Reached(store, z)}
  <2>1. Callees(store, x) \subseteq S
    BY CalleesType
  <2>2. ASSUME NEW w \in S, NEW v \in Callees(store, w)
        PROVE  v \in S
    <3>1. PICK z \in Callees(store, x) : w = z \/ w \in Reached(store, z)
      OBVIOUS
    <3>2. z \in ApiAgents /\ w \in ApiAgents /\ v \in ApiAgents
      BY CalleesType
    <3>3. v \in Reached(store, z)
      BY <1>1, <3>1, <3>2 DEF Closed
    <3> QED
      BY <3>2, <3>3
  <2>3. Closed(store, S)
    BY <2>2 DEF Closed
  <2> HIDE DEF S
  <2>4. S \in SUBSET ApiAgents
    BY DEF S
  <2>5. y \in S
    BY <1>2, <2>1, <2>3, <2>4
  <2> QED
    BY <2>5 DEF S
<1> QED
  BY <1>1, <1>3, <1>4

\* A set of Agents in which each calls another of the set holds a cycle, below any
\* Agent of it.
LEMMA CycleBelow ==
    ASSUME NEW store \in [ApiAgents -> Copies], NEW C \in SUBSET ApiAgents, NEW n \in C,
           \A x \in C : Callees(store, x) \cap C # {}
    PROVE  \E y \in C : (y = n \/ y \in Reached(store, n)) /\ y \in Reached(store, y)
<1> DEFINE D == {y \in C : y = n \/ y \in Reached(store, n)}
           T == {Reached(store, y) : y \in D}
           Smaller == StrictSubsetOrdering(ApiAgents)
<1>1. T \subseteq FiniteSubsetsOf(ApiAgents)
  <2>1. \A y : Reached(store, y) \in SUBSET ApiAgents
    BY DEF Reached
  <2>2. \A S \in SUBSET ApiAgents : S \in FiniteSubsetsOf(ApiAgents)
    BY ApiAssumption, FS_Subset DEF FiniteSubsetsOf
  <2> QED
    BY <2>1, <2>2
<1>2. T # {}
  <2>1. n \in D
    OBVIOUS
  <2> QED
    BY <2>1
<1>3. IsWellFoundedOn(Smaller, FiniteSubsetsOf(ApiAgents))
  BY FS_StrictSubsetOrderingWellFounded
<1> HIDE DEF T, Smaller
<1>4. PICK R \in T : \A Q \in T : ~(<<Q, R>> \in Smaller)
  BY <1>1, <1>2, <1>3, WFMin
<1>5. PICK y \in D : R = Reached(store, y)
  BY DEF T
<1>6. y \in ApiAgents /\ n \in ApiAgents
  OBVIOUS
<1>7. PICK z \in C : z \in Callees(store, y)
  OBVIOUS
<1>8. z \in Reached(store, y) /\ Reached(store, z) \subseteq Reached(store, y)
  BY <1>6, <1>7, ReachedIs
<1>9. z \in D
  <2>1. y = n \/ Reached(store, y) \subseteq Reached(store, n)
    BY <1>6, ReachedIs
  <2> QED
    BY <1>8, <2>1
<1>10. Reached(store, z) = Reached(store, y)
  <2>1. Reached(store, z) \in T
    BY <1>9 DEF T
  <2>2. ~(<<Reached(store, z), R>> \in Smaller)
    BY <1>4, <2>1
  <2>3. Reached(store, z) \in SUBSET ApiAgents /\ R \in SUBSET ApiAgents
    BY <1>5 DEF Reached
  <2> QED
    BY <1>5, <1>8, <2>2, <2>3 DEF Smaller, StrictSubsetOrdering
<1> QED
  BY <1>8, <1>9, <1>10

----------------------------------------------------------------------------
(* AgentApi: no cycle of validated Agents. *)

\* The validated Agents, with the calls between them, have no cycle: in every set of
\* them is one that calls none of the set.
NoValidatedCycle ==
    \A C \in SUBSET validated : C # {} => \E x \in C : Callees(storedAgent, x) \cap C = {}

\* A POST under way has passed the validation over what it has seen.
Validation(r) == Walks(WithNew(r.seen, r.name, r.tools), r.name)
PostsWalk == \A c \in ApiClients : (request[c] # Waiting /\ request[c].op = "create") => Validation(request[c])

ApiInv == AgentApiTypeOK /\ NoValidatedCycle /\ PostsWalk

\* Agents that are no longer validated may have changed.
LEMMA FewerValidated ==
    ASSUME NoValidatedCycle, NEW n, validated' \subseteq validated \ {n},
           \A x \in validated \ {n} : storedAgent'[x] = storedAgent[x]
    PROVE  NoValidatedCycle'
BY DEF NoValidatedCycle, Callees, Exists

\* A POST whose view still holds stores what was walked.
LEMMA CreatedWalks ==
    ASSUME AgentApiTypeOK, NoValidatedCycle, NEW r \in Requests, r.tools \in ToolSets, Validation(r),
           ViewHolds(r), validated' = validated \cup {r.name}, revision' = revision + 1,
           storedAgent' = [storedAgent EXCEPT ![r.name] = [rv |-> revision', tools |-> r.tools]]
    PROVE  NoValidatedCycle'
<1> DEFINE n    == r.name
           walked == WithNew(r.seen, r.name, r.tools)
           new  == [rv |-> revision', tools |-> r.tools]
<1>1. /\ n \in ApiAgents /\ r.seen \in [ApiAgents -> Copies] /\ revision' \in Nat \ {0}
      /\ storedAgent \in [ApiAgents -> Copies] /\ validated \subseteq ApiAgents
  BY DEF Requests, AgentApiTypeOK
<1>2. walked \in [ApiAgents -> Copies] /\ storedAgent' \in [ApiAgents -> Copies]
  <2>1. [rv |-> 1, tools |-> r.tools] \in Copies /\ new \in Copies
    <3>1. 1 \in Nat \ {0}
      OBVIOUS
    <3>2. \A rv \in Nat \ {0}, tools \in ToolSets : [rv |-> rv, tools |-> tools] \in Copies
      BY CopyTools
    <3> QED
      BY <1>1, <3>1, <3>2
  <2> QED
    BY <1>1, <2>1 DEF WithNew
<1>3. \A x \in ApiAgents : Callees(walked, x) = Callees(storedAgent', x)
  <2>1. ASSUME NEW x \in ApiAgents, x # n
        PROVE  walked[x] = storedAgent'[x] /\ storedAgent'[x] = storedAgent[x]
    BY <1>1, <2>1 DEF WithNew, ViewHolds
  <2>2. walked[n] = [rv |-> 1, tools |-> r.tools] /\ storedAgent'[n] = new
    BY <1>1 DEF WithNew
  <2> HIDE DEF walked, n
  <2>3. Callees(walked, n) = Callees(storedAgent', n)
    BY <1>1, <2>2 DEF Callees, Exists
  <2> QED
    BY <2>1, <2>3 DEF Callees, Exists
<1>4. \A x \in ApiAgents : Reached(walked, x) = Reached(storedAgent', x)
  BY <1>3 DEF Reached, Reaches
<1>5. ~(n \in Reached(walked, n)) /\ \A x \in Reached(walked, n) : ~(x \in Reached(walked, x))
  BY <1>1 DEF Validation, Walks, OnCycle, Reached
<1>6. ASSUME NEW C \in SUBSET validated', C # {}
      PROVE  \E x \in C : Callees(storedAgent', x) \cap C = {}
  <2>1. C \in SUBSET ApiAgents
    BY <1>1
  <2>2. CASE n \in C
    <3>1. SUFFICES ASSUME \A x \in C : Callees(storedAgent', x) \cap C # {}
                   PROVE  FALSE
      OBVIOUS
    <3>2. \A x \in C : Callees(walked, x) \cap C # {}
      BY <1>3, <2>1, <3>1
    <3> HIDE DEF walked
    <3>3. PICK y \in C : (y = n \/ y \in Reached(walked, n)) /\ y \in Reached(walked, y)
      BY <1>2, <2>1, <2>2, <3>2, CycleBelow
    <3> QED
      BY <1>5, <3>3
  <2>3. CASE n \notin C
    <3>1. C \in SUBSET validated
      BY <2>3
    <3>2. PICK x \in C : Callees(storedAgent, x) \cap C = {}
      BY <1>6, <3>1 DEF NoValidatedCycle
    <3>3. Callees(storedAgent', x) = Callees(storedAgent, x)
      BY <1>1, <2>1, <2>3 DEF Callees, Exists
    <3> QED
      BY <3>2, <3>3
  <2> QED
    BY <2>2, <2>3
<1> QED
  BY <1>6 DEF NoValidatedCycle

LEMMA ApiStep ==
    ApiInv /\ [ApiNext]_apiVars => ApiInv'
<1> SUFFICES ASSUME AgentApiTypeOK, NoValidatedCycle, PostsWalk, [ApiNext]_apiVars
             PROVE  NoValidatedCycle' /\ PostsWalk'
  BY ApiTypeStep DEF ApiInv
<1>a. ASSUME NEW c \in ApiClients, Answered(c) PROVE PostsWalk'
  BY <1>a DEF Answered, PostsWalk, AgentApiTypeOK
<1>1. CASE UNCHANGED apiVars
  BY <1>1 DEF apiVars, NoValidatedCycle, PostsWalk
<1>2. ASSUME NEW c \in ApiClients, NEW op, NEW n \in ApiAgents, NEW tools, NEW seen,
             Asks(c, op, n, tools, seen), op = "create" => Walks(WithNew(seen, n, tools), n)
      PROVE  NoValidatedCycle' /\ PostsWalk'
  <2> DEFINE r == [op |-> op, name |-> n, tools |-> tools, seen |-> seen]
  <2>1. r.op = op /\ r.name = n /\ r.tools = tools /\ r.seen = seen
    OBVIOUS
  <2>2. request' = [request EXCEPT ![c] = r] /\ UNCHANGED <<storedAgent, validated>>
    BY <1>2 DEF Asks
  <2> HIDE DEF r
  <2>3. r.op = "create" => Validation(r)
    BY <1>2, <2>1 DEF Validation
  <2>4. PostsWalk'
    <3>1. \A d \in ApiClients : request'[d] = IF d = c THEN r ELSE request[d]
      BY <2>2 DEF AgentApiTypeOK
    <3> QED
      BY <2>3, <3>1 DEF PostsWalk
  <2> QED
    BY <2>2, <2>4 DEF NoValidatedCycle
<1>3. ASSUME NEW c \in ApiClients, NEW n \in ApiAgents, NEW tools \in ToolSets,
             HandleCreateAgent(c, n, tools) \/ HandleUpdateAgent(c, n, tools) \/ HandleDeleteAgent(c, n)
      PROVE  NoValidatedCycle' /\ PostsWalk'
  <2>1. CASE HandleCreateAgent(c, n, tools)
    BY <1>2, <2>1 DEF HandleCreateAgent
  <2>2. CASE HandleUpdateAgent(c, n, tools)
    <3>1. Asks(c, "update", n, tools, Read(n)) /\ "update" # "create"
      BY <2>2 DEF HandleUpdateAgent
    <3> QED
      BY <1>2, <3>1
  <2>3. CASE HandleDeleteAgent(c, n)
    <3>1. Asks(c, "delete", n, {}, Read(n)) /\ "delete" # "create"
      BY <2>3 DEF HandleDeleteAgent
    <3> QED
      BY <1>2, <3>1
  <2> QED
    BY <1>3, <2>1, <2>2, <2>3
<1>d. ASSUME NEW c \in ApiClients, NEW n \in ApiAgents, HandleDeleteAgent(c, n)
      PROVE  NoValidatedCycle' /\ PostsWalk'
  <2>1. Asks(c, "delete", n, {}, Read(n)) /\ "delete" # "create"
    BY <1>d DEF HandleDeleteAgent
  <2> QED
    BY <1>2, <2>1
<1>4. ASSUME NEW c \in ApiClients, StoreCreated(c)
      PROVE  NoValidatedCycle' /\ PostsWalk'
  <2> DEFINE r == request[c]
  <2>1. /\ r # Waiting /\ r.op = "create" /\ Answered(c) /\ Stores(r.name, r.tools)
        /\ r \in Requests /\ r.tools \in ToolSets /\ Validation(r)
    BY <1>4 DEF StoreCreated, AgentApiTypeOK, PostsWalk
  <2> HIDE DEF r
  <2>2. CASE ViewHolds(r)
    BY <1>4, <1>a, <2>1, <2>2, CreatedWalks DEF StoreCreated, Stores, r
  <2>3. CASE ~ViewHolds(r)
    <3>1. validated' = validated \ {r.name} /\ r.name \in ApiAgents
      BY <1>4, <2>1, <2>3 DEF StoreCreated, r, Requests
    <3>2. \A x \in validated \ {r.name} : storedAgent'[x] = storedAgent[x]
      BY <2>1, <3>1 DEF Stores, AgentApiTypeOK
    <3>3. NoValidatedCycle'
      BY <3>1, <3>2, FewerValidated
    <3> QED
      BY <1>a, <2>1, <3>3
  <2> QED
    BY <2>2, <2>3
<1>5. ASSUME NEW c \in ApiClients, StoreUpdated(c) \/ StoreDeleted(c)
      PROVE  NoValidatedCycle' /\ PostsWalk'
  <2> DEFINE n == request[c].name
  <2>1. Answered(c) /\ validated' = validated \ {n}
    BY <1>5 DEF StoreUpdated, StoreDeleted
  <2>2. \A x \in validated \ {n} : storedAgent'[x] = storedAgent[x]
    BY <1>5 DEF StoreUpdated, StoreDeleted, Stores, AgentApiTypeOK
  <2> HIDE DEF n
  <2>3. NoValidatedCycle'
    BY <2>1, <2>2, FewerValidated
  <2> QED
    BY <1>a, <2>1, <2>3
<1>6. ASSUME NEW c \in ApiClients, Refused(c)
      PROVE  NoValidatedCycle' /\ PostsWalk'
  BY <1>6, <1>a DEF Refused, NoValidatedCycle
<1>7. ASSUME NEW n \in ApiAgents, SyncCache(n)
      PROVE  NoValidatedCycle' /\ PostsWalk'
  BY <1>7 DEF SyncCache, NoValidatedCycle, PostsWalk
<1>8. ASSUME NEW n \in ApiAgents, NEW tools \in ToolSets, ApplyAgent(n, tools)
      PROVE  NoValidatedCycle' /\ PostsWalk'
  <2>1. validated' = validated \ {n} /\ UNCHANGED request
    BY <1>8 DEF ApplyAgent
  <2>2. \A x \in validated \ {n} : storedAgent'[x] = storedAgent[x]
    BY <1>8 DEF ApplyAgent, Stores, AgentApiTypeOK
  <2>3. NoValidatedCycle'
    BY <2>1, <2>2, FewerValidated
  <2> QED
    BY <2>1, <2>3 DEF PostsWalk
<1> QED
  BY <1>1, <1>3, <1>d, <1>4, <1>5, <1>6, <1>7, <1>8 DEF ApiNext

\* An Agent on a cycle shares it with one that was not validated as it is.
LEMMA CyclesHaveUnvalidated ==
    AgentApiTypeOK /\ NoValidatedCycle => PostsCloseNoCycle
<1> SUFFICES ASSUME AgentApiTypeOK, NoValidatedCycle, NEW n \in ApiAgents, OnCycle(storedAgent, n)
             PROVE  \E x \in ApiAgents \ validated : Exists(storedAgent, x)
                        /\ (x = n \/ (Reaches(storedAgent, n, x) /\ Reaches(storedAgent, x, n)))
  BY DEF PostsCloseNoCycle
<1> DEFINE st == storedAgent
           C == {x \in ApiAgents : x = n \/ (x \in Reached(st, n) /\ n \in Reached(st, x))}
<1>1. st \in [ApiAgents -> Copies] /\ n \in Reached(st, n)
  BY DEF AgentApiTypeOK, OnCycle, Reached
<1> HIDE DEF st
<1>2. ASSUME NEW x \in C
      PROVE  Callees(st, x) \cap C # {}
  <2>1. x \in ApiAgents /\ x \in Reached(st, n) /\ n \in Reached(st, x)
    BY <1>1
  <2>2. PICK z \in Callees(st, x) : n = z \/ n \in Reached(st, z)
    BY <1>1, <2>1, ReachedIs
  <2>3. z \in Reached(st, n)
    BY <1>1, <2>1, ReachedIs DEF Closed
  <2>4. z \in ApiAgents
    BY <2>3 DEF Reached
  <2> QED
    BY <2>2, <2>3, <2>4
<1>3. n \in C /\ C \in SUBSET ApiAgents
  OBVIOUS
<1>4. PICK x \in C : x \notin validated
  <2>1. SUFFICES ASSUME C \in SUBSET validated PROVE FALSE
    OBVIOUS
  <2>2. PICK x \in C : Callees(st, x) \cap C = {}
    BY <1>3, <2>1 DEF NoValidatedCycle, st
  <2> QED
    BY <1>2, <2>2
<1>5. Exists(st, x)
  BY <1>2 DEF Callees
<1>6. x = n \/ (Reaches(st, n, x) /\ Reaches(st, x, n))
  BY DEF Reached
<1> QED
  BY <1>4, <1>5, <1>6 DEF st

\* Whatever Agents, clients and people there are: no cycle of Agents consists of
\* Agents that were validated against what the API server held when they were
\* created (handlers/agents.go:168-215, adk_api_translator.go:165-218).
THEOREM PostsCannotCloseCycle ==
    ApiSpec => []PostsCloseNoCycle
<1>1. ApiInit => ApiInv
  BY ApiInitType DEF ApiInit, ApiInv, NoValidatedCycle, PostsWalk
<1>2. ApiInv => PostsCloseNoCycle
  BY CyclesHaveUnvalidated DEF ApiInv
<1> QED
  BY <1>1, <1>2, ApiStep, PTL DEF ApiSpec

----------------------------------------------------------------------------
(* ModelConfigs: what holds of copies and requests. *)

Busy(c) == client[c] # NoCall

\* Copies of a config: those of its uid are no newer, and one of its generation has
\* its spec.
IsCopy(copy) ==
    (copy # None /\ copy.uid = config.uid) =>
        /\ copy.rv <= config.rv /\ copy.gen <= config.gen
        /\ copy.gen = config.gen => copy.ref = config.ref /\ copy.tls = config.tls

AllCopies ==
    /\ IsCopy(cconfig) /\ (hashing # NoCall => IsCopy(hashing.config))
    /\ \A c \in Clients : Busy(c) => IsCopy(client[c].config)

\* Numbers are given once: a create under way has one that no config has yet.
NumbersFresh ==
    /\ config.uid < Request /\ cconfig.uid < Request
    /\ hashing # NoCall => hashing.config.uid < Request
    /\ \A c \in Clients : Busy(c) =>
          /\ client[c].number < Request /\ client[c].config.uid < Request
          /\ \A d \in Clients : Busy(d) /\ d # c => client[d].number # client[c].number
          /\ client[c].at = "create" =>
                /\ client[c].number \notin {config.uid, cconfig.uid}
                /\ hashing # NoCall => hashing.config.uid # client[c].number
                /\ \A d \in Clients : Busy(d) => client[d].config.uid # client[c].number

\* How far each request is.
InOrder(r) ==
    /\ r.at = "create" => r.new
    /\ r.at \in {"secret", "update", "put"} => r.config # None
    /\ r.at \in {"secret", "put"} => r.key > 0 /\ ~r.stored
    /\ r.stored => r.key > 0 /\ r.at = "update"
    /\ r.at = "update" => (r.key > 0 <=> r.stored)
    /\ r.kept => r.stored

RequestsInOrder == \A c \in Clients : Busy(c) => InOrder(client[c])

----------------------------------------------------------------------------
(* ModelConfigs: why PromisedKeyIsStored holds. *)

StoredKeys == {client[c].key : c \in {d \in Clients : Busy(d) /\ client[d].stored}}

\* The config's Secret is there, nobody collects it.
Safe == secrets["m"] # None /\ secrets["m"].owner \in {0, config.uid}

PromiseKept ==
    (config # None /\ promised > 0) =>
        Safe /\ secrets["m"].value \in {promised} \cup loose \cup StoredKeys

\* A request that will be granted, if nobody is faster, has its key there.
GrantsHold ==
    \A c \in Clients : (Busy(c) /\ client[c].at = "update" /\ client[c].kept /\ config = client[c].config) =>
        Safe /\ secrets["m"].value \in loose \cup StoredKeys

----------------------------------------------------------------------------
(* ModelConfigs: why HashTellsSecrets holds. *)

\* The hash tells of a Secret what is in the cache, but for news on the way.
Tells(hash, n) == n \in secretNews \/ \A v \in Numbers : (<<n, v>> \in hash <=> csecrets[n] # None /\ v = csecrets[n].value)

\* The cache has the spec of the config.
SpecSeen == cconfig # None /\ cconfig.uid = config.uid /\ cconfig.gen = config.gen

Unhashable == sort # "ModelConfig" \/ config = None \/ configDue \/ ~SpecSeen

\* A pass has the spec of the config, and what it has hashed is in the cache.
PassTells ==
    (~Unhashable /\ hashing # NoCall) =>
        /\ hashing.config.uid = config.uid /\ hashing.config.gen = config.gen
        /\ hashing.todo \subseteq RefsOf(config)
        /\ \A n \in RefsOf(config) \ hashing.todo : Tells(hashing.hash, n)
        /\ \A n \in SecretNames, v \in Numbers : <<n, v>> \in hashing.hash => n \in RefsOf(config) \ hashing.todo

\* At rest, the status does.
StatusTells ==
    (~Unhashable /\ hashing = NoCall /\ ~stale) =>
        /\ config.status.observed = config.gen
        /\ config.status.accepted <=> \A n \in RefsOf(config) : \E v \in Numbers : <<n, v>> \in config.status.hash
        /\ \A n \in RefsOf(config) : Tells(config.status.hash, n)
        /\ \A n \in SecretNames, v \in Numbers : <<n, v>> \in config.status.hash => n \in RefsOf(config)

ConfigInv == /\ ConfigTypeOK /\ AllCopies /\ NumbersFresh /\ RequestsInOrder
             /\ PromiseKept /\ GrantsHold /\ PassTells /\ StatusTells
----------------------------------------------------------------------------
(* ModelConfigs: types. *)

LEMMA RequestIs ==
    ASSUME ConfigTypeOK
    PROVE  /\ MaxRequests \in Nat /\ Request \in Nat
           /\ requests > 0 => Request \in Numbers \ {0}
           /\ (requests > 0 /\ requests' = requests - 1) => requests' \in 0..MaxRequests /\ Request' = Request + 1
           /\ requests' = requests => requests' \in 0..MaxRequests /\ Request' = Request
BY ConfigAssumption DEF ConfigTypeOK, Request, Numbers

LEMMA NoneIsNone ==
    None \notin Configs /\ None \notin SecretRows /\ None.uid = 0
BY DEF None, Configs, SecretRows

LEMMA CallIs ==
    ASSUME ConfigTypeOK, NEW c \in Clients
    PROVE  /\ client[c] \in UnderWay \cup {NoCall}
           /\ client[c].at # "none" => client[c] \in UnderWay
           /\ client[c].at = "none" => client[c] = NoCall
           /\ NoCall \notin UnderWay
           /\ client[c] # NoCall => client[c] \in UnderWay /\ client[c].at # "none"
<1>1. client[c] \in UnderWay \cup {NoCall}
  BY DEF ConfigTypeOK
<1>2. \A r \in UnderWay : r.at # "none"
  BY DEF UnderWay
<1>3. NoCall.at = "none"
  BY DEF NoCall
<1> QED
  BY <1>1, <1>2, <1>3

LEMMA PassIs ==
    ASSUME ConfigTypeOK
    PROVE  hashing # NoCall => hashing \in HashPasses
BY DEF ConfigTypeOK

LEMMA NewConfigType ==
    ASSUME NEW u \in Numbers \ {0}, NEW ref \in SecretNames \cup {""}, NEW tls \in SecretNames \cup {""}
    PROVE  NewConfig(u, ref, tls) \in Configs
BY DEF NewConfig, Configs, Unhashed, Statuses, Hashes

LEMMA Uids ==
    ASSUME NEW c \in Configs \cup {None}
    PROVE  c.uid \in Numbers
<1>1. CASE c \in Configs
  BY <1>1 DEF Configs
<1>2. CASE c = None
  <2>1. 0 \in Numbers
    BY ConfigAssumption DEF Numbers
  <2> QED
    BY <1>2, <2>1, NoneIsNone
<1> QED
  BY <1>1, <1>2

LEMMA Respecified ==
    ASSUME NEW c \in Configs
    PROVE  [c EXCEPT !.gen = @ + 1, !.rv = @ + 1, !.tls = ""] \in Configs
<1>1. c.gen \in Nat /\ c.rv \in Nat
  BY DEF Configs
<1>2. c.gen + 1 \in Nat /\ c.rv + 1 \in Nat
  BY <1>1
<1> QED
  BY <1>2 DEF Configs

LEMMA Restated ==
    ASSUME NEW c \in Configs, NEW status \in Statuses
    PROVE  [c EXCEPT !.status = status, !.rv = @ + 1] \in Configs
<1>1. c.rv \in Nat
  BY DEF Configs
<1>2. c.rv + 1 \in Nat
  BY <1>1
<1> QED
  BY <1>2 DEF Configs

LEMMA ConfigEdited ==
    ASSUME NEW s \in SecretRows, NEW value \in Numbers
    PROVE  [s EXCEPT !.value = value, !.rv = @ + 1] \in SecretRows
<1>1. s.rv + 1 \in Nat
  BY DEF SecretRows
<1> QED
  BY <1>1 DEF SecretRows

LEMMA SecretType ==
    ASSUME NEW u \in Numbers \ {0}, NEW owner \in Numbers, NEW value \in Numbers
    PROVE  Secret(u, owner, value) \in SecretRows
BY DEF Secret, SecretRows

\* A call puts another request in the place of one.
LEMMA ClientsType ==
    ASSUME NEW clients \in [Clients -> UnderWay \cup {NoCall}], NEW c \in Clients, NEW r \in UnderWay \cup {NoCall}
    PROVE  [clients EXCEPT ![c] = r] \in [Clients -> UnderWay \cup {NoCall}]
OBVIOUS

StoredRequest(r, kept) == [r EXCEPT !.at = "update", !.stored = TRUE, !.kept = kept]

LEMMA StoredRequestIs ==
    ASSUME NEW r \in UnderWay, NEW kept \in BOOLEAN
    PROVE  /\ StoredRequest(r, kept) \in UnderWay
           /\ StoredRequest(r, kept).at = "update" /\ StoredRequest(r, kept).stored
           /\ StoredRequest(r, kept).kept = kept
           /\ StoredRequest(r, kept).key = r.key /\ StoredRequest(r, kept).config = r.config
           /\ StoredRequest(r, kept).number = r.number /\ StoredRequest(r, kept).new = r.new
BY DEF UnderWay, StoredRequest

LEMMA StoresIs ==
    ASSUME ConfigTypeOK, NEW c \in Clients, NEW kept
    PROVE  [client EXCEPT ![c].at = "update", ![c].stored = TRUE, ![c].kept = kept]
              = [client EXCEPT ![c] = StoredRequest(client[c], kept)]
BY DEF ConfigTypeOK, StoredRequest

LEMMA ConfigTypeStep ==
    ASSUME ConfigTypeOK, [ConfigNext]_configVars
    PROVE  ConfigTypeOK'
<1> USE RequestIs, NoneIsNone
<1>1. CASE UNCHANGED configVars
  BY <1>1 DEF ConfigTypeOK, configVars
<1>2. ASSUME NEW c \in Clients, NEW verb \in {"create", "put", "update", "delete"}, NEW key \in {0, Request},
             NEW valid \in BOOLEAN, BeginRequest(c, verb, key, valid)
      PROVE  ConfigTypeOK'
  <2> DEFINE r == [at |-> verb, number |-> Request, key |-> key, valid |-> valid, stored |-> FALSE, kept |-> FALSE,
                   new |-> verb = "create", config |-> cconfig, secret |-> None]
  <2>1. Request \in Numbers \ {0} /\ key \in Numbers /\ 0 \in Numbers
    BY <1>2 DEF BeginRequest, Numbers
  <2>2. r \in UnderWay
    BY <2>1 DEF UnderWay, ConfigTypeOK
  <2>3. client' = [client EXCEPT ![c] = r]
    BY <1>2 DEF BeginRequest
  <2> HIDE DEF r
  <2>4. client' \in [Clients -> UnderWay \cup {NoCall}]
    BY <2>2, <2>3, ClientsType DEF ConfigTypeOK
  <2> QED
    BY <1>2, <2>4 DEF BeginRequest, ConfigTypeOK
<1>3. ASSUME NEW c \in Clients, HandleCreate(c) \/ HandleUpdate(c) \/ HandleDelete(c)
      PROVE  ConfigTypeOK'
  <2>1. PICK verb \in {"create", "put", "update", "delete"}, key \in {0, Request}, valid \in BOOLEAN :
            BeginRequest(c, verb, key, valid)
    BY <1>3 DEF HandleCreate, HandleUpdate, HandleDelete
  <2> QED
    BY <1>2, <2>1
<1>4. ASSUME NEW c \in Clients, client[c].at # "none", NEW kept \in BOOLEAN, Grant(c, kept)
      PROVE  /\ client' \in [Clients -> UnderWay \cup {NoCall}] /\ promised' \in Numbers
             /\ stale' = stale /\ loose' = loose
  <2>1. client[c].key \in Numbers /\ 0 \in Numbers /\ promised \in Numbers
    BY <1>4, CallIs DEF UnderWay, ConfigTypeOK, Numbers
  <2> QED
    BY <1>4, <2>1, ClientsType DEF Grant, ConfigTypeOK
<1>5. ASSUME NEW c \in Clients, client[c].at # "none", Refuse(c)
      PROVE  /\ client' \in [Clients -> UnderWay \cup {NoCall}] /\ promised' = promised
             /\ stale' = stale /\ loose' \subseteq Numbers
  <2>1. client[c].key \in Numbers /\ loose \subseteq Numbers
    BY <1>5, CallIs DEF UnderWay, ConfigTypeOK
  <2> QED
    BY <1>5, <2>1, ClientsType DEF Refuse, ConfigTypeOK
<1>6. ASSUME NEW c \in Clients, CreateConfig(c)
      PROVE  ConfigTypeOK'
  <2> DEFINE key == client[c].key
             made == NewConfig(client[c].number, IF key > 0 THEN "m" ELSE "", "")
             r == [client[c] EXCEPT !.at = "secret", !.config = made]
  <2>1. client[c].at = "create" /\ client[c] \in UnderWay
    BY <1>6, CallIs DEF CreateConfig
  <2>2. client[c].number \in Numbers \ {0} /\ key \in Numbers
    BY <2>1 DEF UnderWay
  <2>3. made \in Configs
    BY <2>2, NewConfigType DEF SecretNames
  <2>4. r \in UnderWay
    BY <2>1, <2>3 DEF UnderWay
  <2>5. 0 \in Numbers
    BY DEF Numbers
  <2>6. CASE /\ config = None /\ config' = made /\ promised' = 0 /\ loose' = {} /\ UNCHANGED <<stale, requests>>
             /\ client' = [client EXCEPT ![c] = IF key = 0 THEN NoCall ELSE r]
    <3> HIDE DEF key, made, r
    <3>1. client' \in [Clients -> UnderWay \cup {NoCall}]
      BY <2>4, <2>6, ClientsType DEF ConfigTypeOK
    <3> QED
      BY <1>6, <2>3, <2>5, <2>6, <3>1 DEF CreateConfig, ConfigTypeOK
  <2>7. CASE Refuse(c) /\ config' = config /\ (requests' = requests \/ Fail)
    BY <1>5, <1>6, <2>1, <2>7 DEF CreateConfig, ConfigTypeOK, Fail
  <2>8. client' = [client EXCEPT ![c] = IF key = 0 THEN NoCall ELSE r] \/ ~(config = None /\ config' = made /\ promised' = 0 /\ loose' = {} /\ UNCHANGED <<stale, requests>>)
        \/ (Refuse(c) /\ config' = config /\ (requests' = requests \/ Fail))
    BY <1>6, <2>1 DEF CreateConfig, ConfigTypeOK
  <2> QED
    BY <1>6, <2>6, <2>7, <2>8 DEF CreateConfig
<1>7. ASSUME NEW c \in Clients, CreateSecret(c)
      PROVE  ConfigTypeOK'
  <2> DEFINE s == Secret(client[c].number, client[c].config.uid, client[c].key)
  <2>1. client[c].at = "secret" /\ client[c].at # "none" /\ client[c] \in UnderWay
    BY <1>7, CallIs DEF CreateSecret
  <2>2. client[c].number \in Numbers \ {0} /\ client[c].key \in Numbers /\ client[c].config \in Configs \cup {None}
    BY <2>1 DEF UnderWay
  <2>3. client[c].config.uid \in Numbers
    BY <2>2, Uids
  <2>4. s \in SecretRows
    BY <2>2, <2>3, SecretType
  <2>5. ASSUME NEW kept \in BOOLEAN,
               client' = [client EXCEPT ![c].at = "update", ![c].stored = TRUE, ![c].kept = kept]
        PROVE  client' \in [Clients -> UnderWay \cup {NoCall}]
    <3>1. client' = [client EXCEPT ![c] = StoredRequest(client[c], kept)]
      BY <2>5, StoresIs
    <3> QED
      BY <2>1, <3>1, StoredRequestIs, ClientsType DEF ConfigTypeOK
  <2>6. CASE /\ secrets["m"] = None /\ client[c].config.ref # "" /\ UNCHANGED requests
             /\ secrets' = [secrets EXCEPT !["m"] = s]
             /\ IF client[c].new THEN Grant(c, TRUE)
                ELSE /\ client' = [client EXCEPT ![c].at = "update", ![c].stored = TRUE,
                                                 ![c].kept = Keeps(c, secrets'["m"])]
                     /\ UNCHANGED <<promised, stale, loose>>
    <3> HIDE DEF s
    <3>1. secrets' \in [SecretNames -> SecretRows \cup {None}]
      BY <2>4, <2>6 DEF ConfigTypeOK
    <3>2. Keeps(c, secrets'["m"]) \in BOOLEAN
      BY DEF Keeps
    <3>3. client' \in [Clients -> UnderWay \cup {NoCall}] /\ promised' \in Numbers /\ stale' = stale /\ loose' = loose
      <4>1. CASE client[c].new
        BY <1>4, <2>1, <2>6, <4>1
      <4>2. CASE ~client[c].new
        BY <2>5, <2>6, <3>2, <4>2 DEF ConfigTypeOK
      <4> QED
        BY <4>1, <4>2
    <3> QED
      BY <1>7, <2>6, <3>1, <3>3 DEF CreateSecret, ConfigTypeOK
  <2>7. CASE /\ requests' = requests \/ Fail
             /\ Grant(c, FALSE) \/ Refuse(c)
             /\ UNCHANGED secrets
    <3>1. client' \in [Clients -> UnderWay \cup {NoCall}] /\ promised' \in Numbers /\ stale' = stale
          /\ loose' \subseteq Numbers
      BY <1>4, <1>5, <2>1, <2>7 DEF ConfigTypeOK
    <3> QED
      BY <1>7, <2>7, <3>1 DEF CreateSecret, ConfigTypeOK, Fail
  <2> QED
    BY <1>7, <2>6, <2>7 DEF CreateSecret
<1>8. ASSUME NEW c \in Clients, GetSecret(c)
      PROVE  ConfigTypeOK'
  <2>1. client[c].at = "put" /\ client[c] \in UnderWay
    BY <1>8, CallIs DEF GetSecret
  <2>2. csecrets["m"] \in SecretRows \cup {None}
    BY DEF ConfigTypeOK, SecretNames
  <2>3. /\ [client[c] EXCEPT !.at = "secret"] \in UnderWay
        /\ [client[c] EXCEPT !.secret = csecrets["m"]] \in UnderWay
    BY <2>1, <2>2 DEF UnderWay
  <2>4. \/ client' = [client EXCEPT ![c] = [client[c] EXCEPT !.at = "secret"]]
        \/ client' = [client EXCEPT ![c] = [client[c] EXCEPT !.secret = csecrets["m"]]]
    BY <1>8 DEF GetSecret, ConfigTypeOK
  <2>5. client' \in [Clients -> UnderWay \cup {NoCall}]
    BY <2>3, <2>4, ClientsType DEF ConfigTypeOK
  <2> QED
    BY <1>8, <2>5 DEF GetSecret, ConfigTypeOK
<1>9. ASSUME NEW c \in Clients, PutSecret(c)
      PROVE  ConfigTypeOK'
  <2>1. client[c].at = "put" /\ client[c].at # "none" /\ client[c] \in UnderWay /\ client[c].secret # None
    BY <1>9, CallIs DEF PutSecret
  <2>2. client[c].key \in Numbers /\ client[c].secret \in SecretRows
    BY <2>1 DEF UnderWay
  <2>3. CASE /\ secrets["m"] = client[c].secret /\ client[c].config.ref # ""
             /\ secrets' = [secrets EXCEPT !["m"].value = client[c].key, !["m"].rv = @ + 1]
             /\ client' = [client EXCEPT ![c].at = "update", ![c].stored = TRUE,
                                           ![c].kept = Keeps(c, secrets["m"])]
             /\ UNCHANGED <<promised, stale, loose, requests>>
    <3>1. Keeps(c, secrets["m"]) \in BOOLEAN
      BY DEF Keeps
    <3>2. client' = [client EXCEPT ![c] = StoredRequest(client[c], Keeps(c, secrets["m"]))]
      BY <2>3, StoresIs
    <3>3. client' \in [Clients -> UnderWay \cup {NoCall}]
      BY <2>1, <3>1, <3>2, StoredRequestIs, ClientsType DEF ConfigTypeOK
    <3>4. secrets' = [secrets EXCEPT !["m"] = [secrets["m"] EXCEPT !.value = client[c].key, !.rv = @ + 1]]
      BY <2>3 DEF ConfigTypeOK, SecretNames
    <3>5. [secrets["m"] EXCEPT !.value = client[c].key, !.rv = @ + 1] \in SecretRows
      BY <2>2, <2>3, ConfigEdited
    <3>6. secrets' \in [SecretNames -> SecretRows \cup {None}]
      BY <3>4, <3>5 DEF ConfigTypeOK
    <3> QED
      BY <1>9, <2>3, <3>3, <3>6 DEF PutSecret, ConfigTypeOK
  <2>4. CASE (requests' = requests \/ Fail) /\ Refuse(c) /\ UNCHANGED secrets
    BY <1>5, <1>9, <2>1, <2>4 DEF PutSecret, ConfigTypeOK, Fail
  <2> QED
    BY <1>9, <2>3, <2>4 DEF PutSecret
<1>10. ASSUME NEW c \in Clients, UpdateConfig(c)
      PROVE  ConfigTypeOK'
  <2>1. client[c].at = "update" /\ client[c].at # "none" /\ client[c] \in UnderWay
    BY <1>10, CallIs DEF UpdateConfig
  <2>2. client[c].kept \in BOOLEAN
    BY <2>1 DEF UnderWay
  <2>3. CASE /\ config' = [config EXCEPT !.gen = @ + 1, !.rv = @ + 1, !.tls = ""]
             /\ Grant(c, client[c].kept) /\ UNCHANGED requests
    <3>1. config' \in Configs \cup {None}
      <4>1. CASE config \in Configs
        BY <2>3, <4>1, Respecified
      <4>2. CASE config = None
        BY <2>3, <4>2 DEF None
      <4> QED
        BY <4>1, <4>2 DEF ConfigTypeOK
    <3> QED
      BY <1>4, <1>10, <2>1, <2>2, <2>3, <3>1 DEF UpdateConfig, ConfigTypeOK
  <2>4. CASE (requests' = requests \/ Fail) /\ Refuse(c) /\ UNCHANGED config
    BY <1>5, <1>10, <2>1, <2>4 DEF UpdateConfig, ConfigTypeOK, Fail
  <2> QED
    BY <1>10, <2>3, <2>4 DEF UpdateConfig
<1>11. ASSUME NEW c \in Clients, DeleteConfig(c)
      PROVE  ConfigTypeOK'
  <2>1. client[c].at = "delete" /\ client[c].at # "none"
    BY <1>11 DEF DeleteConfig
  <2>2. config' \in Configs \cup {None} /\ (requests' = requests \/ Fail)
    BY <1>11 DEF DeleteConfig, ConfigTypeOK
  <2> QED
    BY <1>5, <1>11, <2>1, <2>2 DEF DeleteConfig, ConfigTypeOK, Fail
<1>12. ASSUME NEW n \in SecretNames, EditSecret(n)
      PROVE  ConfigTypeOK'
  <2>1. Request \in Numbers \ {0} /\ 0 \in Numbers /\ requests' \in 0..MaxRequests
    BY <1>12 DEF EditSecret, Numbers
  <2>2. Secret(Request, 0, Request) \in SecretRows
    BY <2>1, SecretType
  <2>3. secrets[n] # None => [secrets[n] EXCEPT !.value = Request, !.rv = @ + 1] \in SecretRows
    BY <2>1, ConfigEdited DEF ConfigTypeOK
  <2>4. \/ secrets[n] # None /\ secrets' = [secrets EXCEPT ![n] = [secrets[n] EXCEPT !.value = Request, !.rv = @ + 1]]
        \/ secrets' = [secrets EXCEPT ![n] = Secret(Request, 0, Request)]
        \/ secrets' = [secrets EXCEPT ![n] = None]
    BY <1>12 DEF EditSecret, ConfigTypeOK
  <2>5. secrets' \in [SecretNames -> SecretRows \cup {None}]
    BY <2>2, <2>3, <2>4 DEF ConfigTypeOK
  <2> QED
    BY <1>12, <2>1, <2>5 DEF EditSecret, ConfigTypeOK
<1>13. ASSUME CollectSecret PROVE ConfigTypeOK'
  BY <1>13 DEF CollectSecret, ConfigTypeOK
<1>14. ASSUME SeeConfig PROVE ConfigTypeOK'
  BY <1>14 DEF SeeConfig, ConfigTypeOK
<1>15. ASSUME NEW n \in SecretNames, SeeSecret(n) \/ findModelsUsingSecret(n)
       PROVE  ConfigTypeOK'
  BY <1>15 DEF SeeSecret, findModelsUsingSecret, ConfigTypeOK
<1>16. ASSUME ReconcileModelConfig PROVE ConfigTypeOK'
  <2>1. hashing' \in HashPasses \cup {NoCall}
    <3>1. CASE cconfig = None
      BY <1>16, <3>1 DEF ReconcileModelConfig
    <3>2. CASE cconfig # None
      <4>1. cconfig \in Configs
        BY <3>2 DEF ConfigTypeOK
      <4>2. RefsOf(cconfig) \subseteq SecretNames
        BY <4>1 DEF RefsOf, Configs
      <4>3. hashing' = [at |-> "read", config |-> cconfig, todo |-> RefsOf(cconfig), hash |-> {}]
        BY <1>16, <3>2 DEF ReconcileModelConfig
      <4> QED
        BY <4>1, <4>2, <4>3 DEF HashPasses, Hashes
    <3> QED
      BY <3>1, <3>2
  <2> QED
    BY <1>16, <2>1 DEF ReconcileModelConfig, ConfigTypeOK
<1>17. ASSUME computeStatusSecretHash PROVE ConfigTypeOK'
  <2>1. hashing \in HashPasses
    BY <1>17, PassIs DEF computeStatusSecretHash
  <2>2. PICK n \in hashing.todo :
            hashing' = [hashing EXCEPT !.todo = @ \ {n},
                          !.hash = IF csecrets[n] = None THEN @ ELSE @ \cup {<<n, csecrets[n].value>>}]
    BY <1>17 DEF computeStatusSecretHash
  <2>3. n \in SecretNames
    BY <2>1 DEF HashPasses
  <2>4. csecrets[n] # None => csecrets[n].value \in Numbers
    BY <2>3 DEF ConfigTypeOK, SecretRows
  <2> DEFINE more == IF csecrets[n] = None THEN hashing.hash ELSE hashing.hash \cup {<<n, csecrets[n].value>>}
  <2>5. more \in Hashes
    BY <2>1, <2>3, <2>4 DEF HashPasses, Hashes
  <2>6. hashing' = [hashing EXCEPT !.todo = hashing.todo \ {n}, !.hash = more]
    BY <2>1, <2>2 DEF HashPasses
  <2> HIDE DEF more
  <2>7. hashing' \in HashPasses
    BY <2>1, <2>5, <2>6 DEF HashPasses
  <2> QED
    BY <1>17, <2>7 DEF computeStatusSecretHash, ConfigTypeOK
<1>18. ASSUME reconcileModelConfigStatus PROVE ConfigTypeOK'
  <2> DEFINE old == hashing.config
             ok == \A n \in RefsOf(old) : \E v \in Numbers : <<n, v>> \in hashing.hash
             status == [hash |-> hashing.hash, observed |-> old.gen, accepted |-> ok]
  <2>1. hashing \in HashPasses
    BY <1>18, PassIs DEF reconcileModelConfigStatus
  <2>2. old \in Configs /\ hashing.hash \in Hashes /\ old.gen \in Nat
    BY <2>1 DEF HashPasses, Configs
  <2>3. ok \in BOOLEAN
    OBVIOUS
  <2>4. status \in Statuses
    <3> HIDE DEF ok, old
    <3> QED
      BY <2>2, <2>3 DEF Statuses
  <2>5. \/ config' = config
        \/ config = old /\ config' = [config EXCEPT !.status = status, !.rv = @ + 1]
    BY <1>18 DEF reconcileModelConfigStatus
  <2>6. (requests' = requests \/ Fail) /\ stale' \in BOOLEAN /\ configDue' \in BOOLEAN
    BY <1>18 DEF reconcileModelConfigStatus, ConfigTypeOK
  <2> HIDE DEF old, ok, status
  <2>7. config' \in Configs \cup {None}
    <3>1. CASE config' = config
      BY <3>1 DEF ConfigTypeOK
    <3>2. CASE config = old /\ config' = [config EXCEPT !.status = status, !.rv = @ + 1]
      BY <2>2, <2>4, <3>2, Restated
    <3> QED
      BY <2>5, <3>1, <3>2
  <2> QED
    BY <1>18, <2>6, <2>7 DEF reconcileModelConfigStatus, ConfigTypeOK, Fail
<1> QED
  BY <1>1, <1>3, <1>6, <1>7, <1>8, <1>9, <1>10, <1>11, <1>12, <1>13, <1>14, <1>15, <1>16, <1>17, <1>18
  DEF ConfigNext

----------------------------------------------------------------------------
(* ModelConfigs: copies and requests. *)

\* The config is as it was, gone, or changed in place.
Grown ==
    \/ config' = config
    \/ config' = None
    \/ /\ config' # None /\ config'.uid = config.uid /\ config.rv <= config'.rv /\ config.gen <= config'.gen
       /\ config'.gen = config.gen => config'.ref = config.ref /\ config'.tls = config.tls

\* Nobody's copy is of another config than before, and no create begins.
SameCopies ==
    /\ cconfig' \in {cconfig, None} \/ (cconfig' = config /\ config' = config)
    /\ hashing' # NoCall => \/ hashing'.config = cconfig
                            \/ hashing # NoCall /\ hashing'.config = hashing.config
    /\ \A c \in Clients : client'[c] # NoCall =>
          /\ client[c] # NoCall /\ client'[c].config = client[c].config /\ client'[c].number = client[c].number
          /\ client'[c].at = "create" => client[c].at = "create"

LEMMA CopyGrows ==
    ASSUME ConfigTypeOK, ConfigTypeOK', Grown, NEW copy \in Configs \cup {None}, IsCopy(copy)
    PROVE  /\ config'.uid \in {0, config.uid}
           /\ (copy # None /\ copy.uid = config'.uid) =>
                /\ copy.rv <= config'.rv /\ copy.gen <= config'.gen
                /\ copy.gen = config'.gen => copy.ref = config'.ref /\ copy.tls = config'.tls
<1>1. CASE config' = config
  BY <1>1 DEF IsCopy
<1>2. CASE config' = None
  BY <1>2, NoneIsNone DEF Configs
<1>3. CASE config' # config /\ config' # None
  <2>1. config' \in Configs /\ config \in Configs \cup {None}
    BY <1>3 DEF ConfigTypeOK
  <2>2. config'.uid = config.uid /\ config.rv <= config'.rv /\ config.gen <= config'.gen
        /\ (config'.gen = config.gen => config'.ref = config.ref /\ config'.tls = config.tls)
    BY <1>3 DEF Grown
  <2>3. config \in Configs
    BY <2>1, <2>2, NoneIsNone DEF Configs
  <2>4. /\ config'.rv \in Nat /\ config'.gen \in Nat /\ config.rv \in Nat /\ config.gen \in Nat
    BY <2>1, <2>3 DEF Configs
  <2>5. SUFFICES ASSUME copy # None, copy.uid = config'.uid
                 PROVE  /\ copy.rv <= config'.rv /\ copy.gen <= config'.gen
                        /\ copy.gen = config'.gen => copy.ref = config'.ref /\ copy.tls = config'.tls
    BY <2>2
  <2>6. copy.rv \in Nat /\ copy.gen \in Nat
    BY <2>5 DEF Configs
  <2>7. copy.rv <= config.rv /\ copy.gen <= config.gen
        /\ (copy.gen = config.gen => copy.ref = config.ref /\ copy.tls = config.tls)
    BY <2>2, <2>5 DEF IsCopy
  <2>8. copy.gen = config'.gen => copy.gen = config.gen /\ config'.gen = config.gen
    BY <2>2, <2>4, <2>6, <2>7
  <2>9. copy.rv <= config'.rv /\ copy.gen <= config'.gen
    BY <2>2, <2>4, <2>6, <2>7
  <2> QED
    BY <2>2, <2>7, <2>8, <2>9
<1> QED
  BY <1>1, <1>2, <1>3

LEMMA CopiesKept ==
    ASSUME ConfigTypeOK, ConfigTypeOK', AllCopies, NumbersFresh, Grown, SameCopies,
           requests' = requests \/ (requests > 0 /\ requests' = requests - 1)
    PROVE  AllCopies' /\ NumbersFresh'
<1>1. Request \in Nat /\ Request' \in Nat /\ Request <= Request'
  BY RequestIs
<1>2. \A u \in Numbers : u < Request => u < Request'
  BY <1>1, ConfigAssumption DEF Numbers
<1>3. 0 < Request'
  BY RequestIs, <1>1 DEF Request, ConfigTypeOK
<1>4. /\ cconfig \in Configs \cup {None} /\ config \in Configs \cup {None}
      /\ hashing # NoCall => hashing.config \in Configs \cup {None}
      /\ \A c \in Clients : client[c] # NoCall => client[c].config \in Configs \cup {None}
  BY PassIs, CallIs DEF ConfigTypeOK, HashPasses, UnderWay
<1>5. config'.uid \in {0, config.uid}
  BY <1>4, CopyGrows DEF AllCopies
<1>6. IsCopy(None)' /\ None.uid = 0
  BY NoneIsNone DEF IsCopy
<1>7. \A copy \in Configs \cup {None} : IsCopy(copy) =>
           ((copy # None /\ copy.uid = config'.uid) =>
                /\ copy.rv <= config'.rv /\ copy.gen <= config'.gen
                /\ copy.gen = config'.gen => copy.ref = config'.ref /\ copy.tls = config'.tls)
  BY CopyGrows
<1>8. IsCopy(cconfig)'
  <2>1. CASE cconfig' = cconfig
    BY <1>4, <1>7, <2>1 DEF AllCopies, IsCopy
  <2>2. CASE cconfig' = None
    BY <2>2, NoneIsNone DEF IsCopy
  <2>3. CASE cconfig' = config /\ config' = config
    <3>1. config # None => config.rv \in Nat /\ config.gen \in Nat
      BY <1>4 DEF Configs
    <3> QED
      BY <2>3, <3>1 DEF IsCopy
  <2> QED
    BY <2>1, <2>2, <2>3 DEF SameCopies
<1>9. hashing' # NoCall => IsCopy(hashing.config)'
  <2>1. SUFFICES ASSUME hashing' # NoCall PROVE IsCopy(hashing.config)'
    OBVIOUS
  <2>2. CASE hashing'.config = cconfig
    BY <1>4, <1>7, <2>2 DEF AllCopies, IsCopy
  <2>3. CASE hashing # NoCall /\ hashing'.config = hashing.config
    BY <1>4, <1>7, <2>3 DEF AllCopies, IsCopy
  <2> QED
    BY <2>1, <2>2, <2>3 DEF SameCopies
<1>10. ASSUME NEW c \in Clients, client'[c] # NoCall
       PROVE  IsCopy(client[c].config)'
  BY <1>4, <1>7, <1>10 DEF AllCopies, IsCopy, SameCopies, Busy
<1>11. cconfig'.uid \in {0, config.uid, cconfig.uid} /\ cconfig'.uid \in Numbers /\ config'.uid \in Numbers
       /\ config.uid \in Numbers /\ cconfig.uid \in Numbers
  BY <1>4, Uids, NoneIsNone DEF SameCopies, ConfigTypeOK
<1>12. config'.uid < Request' /\ cconfig'.uid < Request'
  BY <1>2, <1>3, <1>5, <1>11 DEF NumbersFresh
<1>13. hashing' # NoCall =>
         /\ hashing'.config.uid < Request'
         /\ hashing'.config.uid = cconfig.uid \/ (hashing # NoCall /\ hashing'.config.uid = hashing.config.uid)
  BY <1>2, <1>4, <1>11, Uids DEF NumbersFresh, SameCopies
<1>14. ASSUME NEW c \in Clients, client'[c] # NoCall
       PROVE  /\ client'[c].number < Request' /\ client'[c].config.uid < Request'
              /\ \A d \in Clients : client'[d] # NoCall /\ d # c => client'[d].number # client'[c].number
              /\ client'[c].at = "create" =>
                    /\ client'[c].number \notin {config'.uid, cconfig'.uid}
                    /\ hashing' # NoCall => hashing'.config.uid # client'[c].number
                    /\ \A d \in Clients : client'[d] # NoCall => client'[d].config.uid # client'[c].number
  <2>1. client[c] # NoCall /\ client'[c].config = client[c].config /\ client'[c].number = client[c].number
        /\ (client'[c].at = "create" => client[c].at = "create")
    BY <1>14 DEF SameCopies
  <2>2. client[c].number \in Numbers /\ client[c].number # 0 /\ client[c].config.uid \in Numbers
    BY <1>4, <2>1, CallIs, Uids DEF UnderWay
  <2>3. client'[c].number < Request' /\ client'[c].config.uid < Request'
    BY <1>2, <2>1, <2>2 DEF NumbersFresh, Busy
  <2>4. \A d \in Clients : client'[d] # NoCall =>
            client[d] # NoCall /\ client'[d].number = client[d].number /\ client'[d].config = client[d].config
    BY DEF SameCopies
  <2>5. \A d \in Clients : client'[d] # NoCall /\ d # c => client'[d].number # client'[c].number
    BY <2>1, <2>4 DEF NumbersFresh, Busy
  <2>6. client'[c].at = "create" =>
                    /\ client'[c].number \notin {config'.uid, cconfig'.uid}
                    /\ hashing' # NoCall => hashing'.config.uid # client'[c].number
                    /\ \A d \in Clients : client'[d] # NoCall => client'[d].config.uid # client'[c].number
    BY <1>5, <1>11, <1>13, <2>1, <2>2, <2>4 DEF NumbersFresh, Busy
  <2> QED
    BY <2>3, <2>5, <2>6
<1> QED
  BY <1>8, <1>9, <1>10, <1>12, <1>13, <1>14 DEF AllCopies, NumbersFresh, Busy

LEMMA BeginKeepsCopies ==
    ASSUME ConfigTypeOK, ConfigTypeOK', AllCopies, NumbersFresh,
           NEW c \in Clients, NEW verb \in {"create", "put", "update", "delete"}, NEW key \in {0, Request},
           NEW valid \in BOOLEAN, BeginRequest(c, verb, key, valid)
    PROVE  AllCopies' /\ NumbersFresh'
<1>1. requests > 0 /\ Request \in Nat /\ Request' = Request + 1
  BY RequestIs DEF BeginRequest
<1>2. UNCHANGED <<config, cconfig, hashing>>
  BY DEF BeginRequest
<1>3. client'[c].config = cconfig /\ client'[c].number = Request
  BY DEF BeginRequest, ConfigTypeOK
<1>4. \A d \in Clients : d # c => client'[d] = client[d]
  BY DEF BeginRequest, ConfigTypeOK
<1>5. AllCopies'
  BY <1>2, <1>3, <1>4 DEF AllCopies, IsCopy, Busy
<1>6. \A u \in Numbers : u < Request => u < Request' /\ u # Request
  BY <1>1, ConfigAssumption DEF Numbers
<1>7. /\ config.uid \in Numbers /\ cconfig.uid \in Numbers
      /\ hashing # NoCall => hashing.config.uid \in Numbers
      /\ \A d \in Clients : client[d] # NoCall => client[d].config.uid \in Numbers /\ client[d].number \in Numbers
  BY Uids, PassIs, CallIs DEF ConfigTypeOK, HashPasses, UnderWay
<1>8. config.uid < Request /\ cconfig.uid < Request /\ (hashing # NoCall => hashing.config.uid < Request)
  BY DEF NumbersFresh
<1>9. \A d \in Clients : client[d] # NoCall => client[d].number < Request /\ client[d].config.uid < Request
  BY DEF NumbersFresh, Busy
<1>10. Request < Request'
  BY <1>1
<1>11. ASSUME NEW d \in Clients, client'[d] # NoCall
       PROVE  /\ client'[d].number < Request' /\ client'[d].config.uid < Request'
              /\ \A e \in Clients : client'[e] # NoCall /\ e # d => client'[e].number # client'[d].number
              /\ client'[d].at = "create" =>
                    /\ client'[d].number \notin {config'.uid, cconfig'.uid}
                    /\ hashing' # NoCall => hashing'.config.uid # client'[d].number
                    /\ \A e \in Clients : client'[e] # NoCall => client'[e].config.uid # client'[d].number
  <2>1. CASE d = c
    <3>1. client'[d].number < Request' /\ client'[d].config.uid < Request'
      BY <1>3, <1>6, <1>7, <1>8, <1>10, <2>1
    <3>2. \A e \in Clients : client'[e] # NoCall /\ e # d => client'[e].number # client'[d].number
      BY <1>3, <1>4, <1>6, <1>7, <1>9, <2>1
    <3>3. \A e \in Clients : client'[e] # NoCall => client'[e].config.uid # client'[d].number
      BY <1>3, <1>4, <1>6, <1>7, <1>8, <1>9, <2>1
    <3> QED
      BY <1>2, <1>3, <1>6, <1>7, <1>8, <2>1, <3>1, <3>2, <3>3
  <2>2. CASE d # c
    <3>1. client'[d] = client[d] /\ client[d] # NoCall
      BY <1>4, <1>11, <2>2
    <3>2. client'[d].number < Request' /\ client'[d].config.uid < Request'
      BY <1>6, <1>7, <1>9, <3>1
    <3>3. \A e \in Clients : client'[e] # NoCall /\ e # d => client'[e].number # client'[d].number
      BY <1>3, <1>4, <1>6, <1>7, <1>9, <3>1 DEF NumbersFresh, Busy
    <3>4. client'[d].at = "create" =>
                    /\ client'[d].number \notin {config'.uid, cconfig'.uid}
                    /\ hashing' # NoCall => hashing'.config.uid # client'[d].number
                    /\ \A e \in Clients : client'[e] # NoCall => client'[e].config.uid # client'[d].number
      BY <1>2, <1>3, <1>4, <3>1 DEF NumbersFresh, Busy
    <3> QED
      BY <3>2, <3>3, <3>4
  <2> QED
    BY <2>1, <2>2
<1> QED
  BY <1>2, <1>5, <1>6, <1>7, <1>8, <1>11 DEF NumbersFresh, Busy

LEMMA SameOrder ==
    ASSUME NEW m \in Nat, NEW n \in Nat, m = n
    PROVE  m <= n
OBVIOUS

LEMMA CreateKeepsCopies ==
    ASSUME ConfigTypeOK, ConfigTypeOK', AllCopies, NumbersFresh,
           NEW c \in Clients, client[c].at = "create",
           NEW made, made = NewConfig(client[c].number, IF client[c].key > 0 THEN "m" ELSE "", ""),
           config' = made, UNCHANGED <<cconfig, hashing, requests>>,
           client' = [client EXCEPT ![c] = IF client[c].key = 0 THEN NoCall
                                           ELSE [client[c] EXCEPT !.at = "secret", !.config = made]]
    PROVE  AllCopies' /\ NumbersFresh'
<1>1. Request' = Request
  BY RequestIs
<1>2. client[c] \in UnderWay /\ client[c] # NoCall
  BY CallIs
<1>3. made.uid = client[c].number /\ made.rv = 1 /\ made.gen = 1
  BY DEF NewConfig
<1>4. client'[c] # NoCall => client'[c].config = made /\ client'[c].number = client[c].number /\ client'[c].at = "secret"
  BY <1>2 DEF ConfigTypeOK, UnderWay
<1>5. \A d \in Clients : d # c => client'[d] = client[d]
  BY DEF ConfigTypeOK
<1>6. /\ client[c].number < Request /\ client[c].number # cconfig.uid
      /\ hashing # NoCall => hashing.config.uid # client[c].number
      /\ \A d \in Clients : client[d] # NoCall =>
            /\ client[d].config.uid # client[c].number
            /\ d # c => client[d].number # client[c].number
  BY <1>2 DEF NumbersFresh, Busy
<1> HIDE DEF NewConfig
<1>7. AllCopies'
  <2>1. IsCopy(cconfig)' /\ (hashing' # NoCall => IsCopy(hashing.config)')
    BY <1>3, <1>6 DEF IsCopy
  <2>2. ASSUME NEW d \in Clients, client'[d] # NoCall PROVE IsCopy(client[d].config)'
    <3>1. CASE d = c
      <4>1. client'[d].config = made /\ config' = made
        BY <1>4, <2>2, <3>1
      <4>2. config'.rv <= config'.rv /\ config'.gen <= config'.gen
        <5>1. config'.rv \in Nat /\ config'.gen \in Nat
          <6>1. made \in Configs
            BY <1>2, NewConfigType DEF UnderWay, SecretNames
          <6> QED
            BY <4>1, <6>1 DEF Configs
        <5> QED
          BY <5>1, SameOrder
      <4> QED
        BY <4>1, <4>2 DEF IsCopy
    <3>2. CASE d # c
      BY <1>3, <1>5, <1>6, <2>2, <3>2 DEF IsCopy
    <3> QED
      BY <3>1, <3>2
  <2> QED
    BY <2>1, <2>2 DEF AllCopies, Busy
<1>8. ASSUME NEW d \in Clients, client'[d] # NoCall
      PROVE  /\ client'[d].number < Request' /\ client'[d].config.uid < Request'
             /\ \A e \in Clients : client'[e] # NoCall /\ e # d => client'[e].number # client'[d].number
             /\ client'[d].at = "create" =>
                    /\ client'[d].number \notin {config'.uid, cconfig'.uid}
                    /\ hashing' # NoCall => hashing'.config.uid # client'[d].number
                    /\ \A e \in Clients : client'[e] # NoCall => client'[e].config.uid # client'[d].number
  <2>1. \A e \in Clients : client'[e] # NoCall => client[e] # NoCall /\ client'[e].number = client[e].number
    BY <1>2, <1>4, <1>5
  <2>2. \A e \in Clients : client'[e] # NoCall =>
             client'[e].config.uid = client[c].number \/ client'[e].config.uid = client[e].config.uid
    BY <1>3, <1>4, <1>5
  <2>3. client'[d].number < Request' /\ client'[d].config.uid < Request'
    BY <1>1, <1>6, <1>8, <2>1, <2>2 DEF NumbersFresh, Busy
  <2>4. \A e \in Clients : client'[e] # NoCall /\ e # d => client'[e].number # client'[d].number
    BY <1>8, <2>1 DEF NumbersFresh, Busy
  <2>5. client'[d].at = "create" => d # c /\ client[d].at = "create"
    BY <1>4, <1>5, <1>8
  <2>6. client'[d].at = "create" =>
                    /\ client'[d].number \notin {config'.uid, cconfig'.uid}
                    /\ hashing' # NoCall => hashing'.config.uid # client'[d].number
                    /\ \A e \in Clients : client'[e] # NoCall => client'[e].config.uid # client'[d].number
    <3>1. SUFFICES ASSUME client'[d].at = "create"
                   PROVE  /\ client'[d].number \notin {config'.uid, cconfig'.uid}
                          /\ hashing' # NoCall => hashing'.config.uid # client'[d].number
                          /\ \A e \in Clients : client'[e] # NoCall => client'[e].config.uid # client'[d].number
      OBVIOUS
    <3>2. d # c /\ client[d] # NoCall /\ client[d].at = "create" /\ client'[d].number = client[d].number
          /\ client[d].number # client[c].number
      BY <1>6, <1>8, <2>1, <2>5, <3>1
    <3>3. config'.uid = client[c].number /\ cconfig' = cconfig /\ hashing' = hashing
      BY <1>3
    <3>4. /\ client[d].number # cconfig.uid
          /\ hashing # NoCall => hashing.config.uid # client[d].number
          /\ \A e \in Clients : client[e] # NoCall => client[e].config.uid # client[d].number
      BY <3>2 DEF NumbersFresh, Busy
    <3> QED
      BY <2>1, <2>2, <3>2, <3>3, <3>4
  <2> QED
    BY <2>3, <2>4, <2>6
<1> QED
  BY <1>1, <1>3, <1>6, <1>7, <1>8 DEF NumbersFresh, Busy

\* Where a call leaves its request.
LEMMA GrantedIs ==
    ASSUME ConfigTypeOK, NEW c \in Clients, NEW kept, Grant(c, kept) \/ Refuse(c)
    PROVE  client' = [client EXCEPT ![c] = NoCall]
BY DEF Grant, Refuse

LEMMA OthersStay ==
    ASSUME ConfigTypeOK, NEW c \in Clients, NEW r, client' = [client EXCEPT ![c] = r]
    PROVE  client'[c] = r /\ \A d \in Clients : d # c => client'[d] = client[d]
BY DEF ConfigTypeOK

LEMMA GetSecretIs ==
    ASSUME ConfigTypeOK, NEW c \in Clients, GetSecret(c)
    PROVE  /\ client[c] \in UnderWay /\ client[c].at = "put"
           /\ \A d \in Clients : d # c => client'[d] = client[d]
           /\ \E r \in {[client[c] EXCEPT !.at = "secret"], [client[c] EXCEPT !.secret = csecrets["m"]]} :
                 /\ client' = [client EXCEPT ![c] = r] /\ client'[c] = r
                 /\ r.at \in {"secret", "put"}
                 /\ \A f \in {"number", "config", "key", "stored", "kept", "new", "valid"} : r[f] = client[c][f]
<1>1. client[c].at = "put" /\ client[c] \in UnderWay
  BY CallIs DEF GetSecret
<1>2. PICK r \in {[client[c] EXCEPT !.at = "secret"], [client[c] EXCEPT !.secret = csecrets["m"]]} :
          client' = [client EXCEPT ![c] = r]
  BY DEF GetSecret, ConfigTypeOK
<1>3. r.at \in {"secret", "put"} /\ \A f \in {"number", "config", "key", "stored", "kept", "new", "valid"} : r[f] = client[c][f]
  BY <1>1, <1>2 DEF UnderWay
<1> QED
  BY <1>1, <1>2, <1>3, OthersStay

LEMMA CopiesStep ==
    ASSUME ConfigTypeOK, ConfigTypeOK', AllCopies, NumbersFresh, [ConfigNext]_configVars
    PROVE  AllCopies' /\ NumbersFresh'
<1>1. CASE UNCHANGED configVars
  BY <1>1, CopiesKept DEF configVars, Grown, SameCopies
<1>2. ASSUME NEW c \in Clients, HandleCreate(c) \/ HandleUpdate(c) \/ HandleDelete(c)
      PROVE  AllCopies' /\ NumbersFresh'
  <2>1. PICK verb \in {"create", "put", "update", "delete"}, key \in {0, Request}, valid \in BOOLEAN :
            BeginRequest(c, verb, key, valid)
    BY <1>2 DEF HandleCreate, HandleUpdate, HandleDelete
  <2> QED
    BY <2>1, BeginKeepsCopies
\* The calls that only end a request, or carry it on to another at than "create".
<1>3. ASSUME NEW c \in Clients, client[c] # NoCall, Grown, UNCHANGED <<cconfig, hashing>>,
             requests' = requests \/ Fail,
             \A d \in Clients : d # c => client'[d] = client[d],
             client'[c] # NoCall => /\ client'[c].config = client[c].config /\ client'[c].number = client[c].number
                                    /\ client'[c].at # "create"
      PROVE  AllCopies' /\ NumbersFresh'
  BY <1>3, CopiesKept DEF SameCopies, Fail
<1>4. ASSUME NEW c \in Clients, CreateConfig(c)
      PROVE  AllCopies' /\ NumbersFresh'
  <2> DEFINE made == NewConfig(client[c].number, IF client[c].key > 0 THEN "m" ELSE "", "")
  <2>1. client[c].at = "create" /\ client[c] # NoCall
    BY <1>4, CallIs DEF CreateConfig
  <2>2. CASE /\ config' = made /\ requests' = requests
             /\ client' = [client EXCEPT ![c] = IF client[c].key = 0 THEN NoCall
                                                ELSE [client[c] EXCEPT !.at = "secret", !.config = made]]
    BY <1>4, <2>1, <2>2, CreateKeepsCopies DEF CreateConfig
  <2>3. CASE Refuse(c) /\ config' = config /\ (requests' = requests \/ Fail)
    BY <1>3, <1>4, <2>1, <2>3, GrantedIs, OthersStay DEF CreateConfig, Grown
  <2>4. client' = [client EXCEPT ![c] = IF client[c].key = 0 THEN NoCall
                                        ELSE [client[c] EXCEPT !.at = "secret", !.config = made]]
        \/ (Refuse(c) /\ config' = config /\ (requests' = requests \/ Fail))
    BY <1>4 DEF CreateConfig, ConfigTypeOK
  <2>5. (config' = made /\ requests' = requests) \/ (Refuse(c) /\ config' = config /\ (requests' = requests \/ Fail))
    BY <1>4 DEF CreateConfig
  <2> QED
    BY <2>2, <2>3, <2>4, <2>5
<1>5. ASSUME NEW c \in Clients, NEW kept \in BOOLEAN, client[c] \in UnderWay, Grown, UNCHANGED <<cconfig, hashing>>,
             requests' = requests \/ Fail,
             client' = [client EXCEPT ![c] = NoCall] \/ client' = [client EXCEPT ![c] = StoredRequest(client[c], kept)]
      PROVE  AllCopies' /\ NumbersFresh'
  <2>1. client'[c] # NoCall => /\ client'[c].config = client[c].config /\ client'[c].number = client[c].number
                               /\ client'[c].at # "create"
    BY <1>5, StoredRequestIs, OthersStay
  <2>2. \A d \in Clients : d # c => client'[d] = client[d]
    BY <1>5, OthersStay
  <2>3. client[c] # NoCall
    BY <1>5, CallIs
  <2> QED
    BY <1>3, <1>5, <2>1, <2>2, <2>3
<1>6. ASSUME NEW c \in Clients, CreateSecret(c) \/ PutSecret(c)
      PROVE  AllCopies' /\ NumbersFresh'
  <2>1. client[c] \in UnderWay
    BY <1>6, CallIs DEF CreateSecret, PutSecret
  <2>2. \/ client' = [client EXCEPT ![c] = NoCall]
        \/ \E kept \in BOOLEAN : client' = [client EXCEPT ![c].at = "update", ![c].stored = TRUE, ![c].kept = kept]
    BY <1>6, GrantedIs DEF CreateSecret, PutSecret, Keeps
  <2>3. \E kept \in BOOLEAN : client' = [client EXCEPT ![c] = NoCall] \/ client' = [client EXCEPT ![c] = StoredRequest(client[c], kept)]
    BY <2>2, StoresIs
  <2>4. Grown /\ UNCHANGED <<cconfig, hashing>> /\ (requests' = requests \/ Fail)
    BY <1>6 DEF CreateSecret, PutSecret, Grown
  <2> QED
    BY <1>5, <2>1, <2>3, <2>4
<1>7. ASSUME NEW c \in Clients, GetSecret(c)
      PROVE  AllCopies' /\ NumbersFresh'
  <2>1. PICK r : client' = [client EXCEPT ![c] = r] /\ client'[c] = r /\ r.at \in {"secret", "put"}
                 /\ r["number"] = client[c]["number"] /\ r["config"] = client[c]["config"]
    BY <1>7, GetSecretIs
  <2>2. Grown /\ UNCHANGED <<cconfig, hashing, requests>> /\ client[c] # NoCall
    BY <1>7, GetSecretIs, CallIs DEF GetSecret, Grown
  <2>3. \A d \in Clients : d # c => client'[d] = client[d]
    BY <1>7, GetSecretIs
  <2> QED
    BY <1>3, <2>1, <2>2, <2>3
<1>8. ASSUME NEW c \in Clients, UpdateConfig(c)
      PROVE  AllCopies' /\ NumbersFresh'
  <2>1. client[c] \in UnderWay
    BY <1>8, CallIs DEF UpdateConfig
  <2>2. CASE /\ config' = [config EXCEPT !.gen = @ + 1, !.rv = @ + 1, !.tls = ""]
             /\ Grant(c, client[c].kept) /\ UNCHANGED requests
    <3>1. Grown
      <4>1. CASE config = None
        BY <2>2, <4>1 DEF Grown, None
      <4>2. CASE config \in Configs
        <5>1. config.gen \in Nat /\ config.rv \in Nat
          BY <4>2 DEF Configs
        <5>2. config'.gen = config.gen + 1 /\ config'.rv = config.rv + 1 /\ config'.uid = config.uid
          BY <2>2, <4>2 DEF Configs
        <5>3. config' # None
          BY <4>2, <5>2, NoneIsNone DEF Configs
        <5>4. config.rv <= config'.rv /\ config.gen <= config'.gen /\ config'.gen # config.gen
          BY <5>1, <5>2
        <5> QED
          BY <5>2, <5>3, <5>4 DEF Grown
      <4> QED
        BY <4>1, <4>2 DEF ConfigTypeOK
    <3> QED
      BY <1>5, <1>8, <2>1, <2>2, <3>1, GrantedIs DEF UpdateConfig
  <2>3. CASE (requests' = requests \/ Fail) /\ Refuse(c) /\ UNCHANGED config
    BY <1>5, <1>8, <2>1, <2>3, GrantedIs DEF UpdateConfig, Grown
  <2> QED
    BY <1>8, <2>2, <2>3 DEF UpdateConfig
<1>9. ASSUME NEW c \in Clients, DeleteConfig(c)
      PROVE  AllCopies' /\ NumbersFresh'
  <2>1. client[c] \in UnderWay
    BY <1>9, CallIs DEF DeleteConfig
  <2>2. Grown /\ (requests' = requests \/ Fail) /\ UNCHANGED <<cconfig, hashing>> /\ Refuse(c)
    BY <1>9 DEF DeleteConfig, Grown
  <2> QED
    BY <1>5, <2>1, <2>2, GrantedIs
<1>10. ASSUME \/ \E n \in SecretNames : EditSecret(n) \/ SeeSecret(n) \/ findModelsUsingSecret(n)
              \/ CollectSecret
       PROVE  AllCopies' /\ NumbersFresh'
  BY <1>10, CopiesKept DEF EditSecret, SeeSecret, findModelsUsingSecret, CollectSecret, Grown, SameCopies
<1>11. ASSUME SeeConfig PROVE AllCopies' /\ NumbersFresh'
  BY <1>11, CopiesKept DEF SeeConfig, Grown, SameCopies
<1>12. ASSUME ReconcileModelConfig PROVE AllCopies' /\ NumbersFresh'
  <2>1. hashing' # NoCall => hashing'.config = cconfig
    BY <1>12 DEF ReconcileModelConfig
  <2> QED
    BY <1>12, <2>1, CopiesKept DEF ReconcileModelConfig, Grown, SameCopies
<1>13. ASSUME computeStatusSecretHash PROVE AllCopies' /\ NumbersFresh'
  <2>1. hashing # NoCall /\ hashing'.config = hashing.config
    BY <1>13, PassIs DEF computeStatusSecretHash, HashPasses
  <2> QED
    BY <1>13, <2>1, CopiesKept DEF computeStatusSecretHash, Grown, SameCopies
<1>14. ASSUME reconcileModelConfigStatus PROVE AllCopies' /\ NumbersFresh'
  <2>1. hashing # NoCall /\ hashing \in HashPasses /\ hashing' = NoCall /\ UNCHANGED <<cconfig, client>>
    BY <1>14, PassIs DEF reconcileModelConfigStatus
  <2>2. \/ config' = config
        \/ config = hashing.config /\ \E status : config' = [config EXCEPT !.status = status, !.rv = @ + 1]
    BY <1>14 DEF reconcileModelConfigStatus
  <2>3. Grown
    <3>1. CASE config' = config
      BY <3>1 DEF Grown
    <3>2. CASE config = hashing.config /\ \E status : config' = [config EXCEPT !.status = status, !.rv = @ + 1]
      <4>1. config \in Configs
        BY <2>1, <3>2 DEF HashPasses
      <4>2. config.gen \in Nat /\ config.rv \in Nat
        BY <4>1 DEF Configs
      <4>3. config'.gen = config.gen /\ config'.rv = config.rv + 1 /\ config'.uid = config.uid
            /\ config'.ref = config.ref /\ config'.tls = config.tls
        BY <3>2, <4>1 DEF Configs
      <4>4. config' # None
        BY <4>1, <4>3, NoneIsNone DEF Configs
      <4>5. config.rv <= config'.rv /\ config.gen <= config'.gen
        BY <4>2, <4>3
      <4> QED
        BY <4>3, <4>4, <4>5 DEF Grown
    <3> QED
      BY <2>2, <3>1, <3>2
  <2>4. requests' = requests \/ (requests > 0 /\ requests' = requests - 1)
    BY <1>14 DEF reconcileModelConfigStatus, Fail
  <2> QED
    BY <2>1, <2>3, <2>4, CopiesKept DEF SameCopies
<1> QED
  BY <1>1, <1>2, <1>4, <1>6, <1>7, <1>8, <1>9, <1>10, <1>11, <1>12, <1>13, <1>14 DEF ConfigNext

LEMMA CreatedRequestIs ==
    ASSUME ConfigTypeOK, NEW c \in Clients, client[c].at = "create", NEW made
    PROVE  LET r == [client[c] EXCEPT !.at = "secret", !.config = made]
           IN  /\ r.at = "secret" /\ r.config = made /\ r.key = client[c].key
               /\ r.stored = client[c].stored /\ r.kept = client[c].kept /\ r.new = client[c].new
<1>1. client[c] \in UnderWay
  BY CallIs
<1> QED
  BY <1>1 DEF UnderWay

\* A call leaves its request behind as it should, or done with.
LEMMA OneOrdered ==
    ASSUME ConfigTypeOK, RequestsInOrder, NEW c \in Clients,
           \A d \in Clients : d # c => client'[d] = client[d],
           client'[c] # NoCall => InOrder(client'[c])
    PROVE  RequestsInOrder'
BY DEF RequestsInOrder, Busy, InOrder

LEMMA OrderStep ==
    ASSUME ConfigTypeOK, ConfigTypeOK', RequestsInOrder, [ConfigNext]_configVars
    PROVE  RequestsInOrder'
<1>1. CASE client' = client
  BY <1>1 DEF RequestsInOrder, Busy, InOrder
<1>3. ASSUME NEW c \in Clients, client' = [client EXCEPT ![c] = NoCall]
      PROVE  RequestsInOrder'
  BY <1>3, OneOrdered, OthersStay
<1>4. ASSUME NEW c \in Clients, client[c].at \in {"secret", "put"}, NEW kept \in BOOLEAN,
             client' = [client EXCEPT ![c].at = "update", ![c].stored = TRUE, ![c].kept = kept]
      PROVE  RequestsInOrder'
  <2>1. client' = [client EXCEPT ![c] = StoredRequest(client[c], kept)]
    BY <1>4, StoresIs
  <2>2. client[c] \in UnderWay /\ client[c] # NoCall
    BY <1>4, CallIs
  <2>3. client[c].config # None /\ client[c].key > 0
    BY <1>4, <2>2 DEF RequestsInOrder, Busy, InOrder
  <2>4. InOrder(StoredRequest(client[c], kept))
    BY <2>2, <2>3, StoredRequestIs DEF InOrder
  <2> QED
    BY <2>1, <2>4, OneOrdered, OthersStay
<1>5. ASSUME NEW c \in Clients, HandleCreate(c) \/ HandleUpdate(c) \/ HandleDelete(c)
      PROVE  RequestsInOrder'
  <2>1. requests > 0 /\ Request \in Nat /\ Request # 0
    BY <1>5, RequestIs DEF HandleCreate, HandleUpdate, HandleDelete, BeginRequest
  <2>2. Request > 0
    BY <2>1
  <2>3. CASE HandleCreate(c)
    <3>1. PICK key \in {0, Request} : BeginRequest(c, "create", key, TRUE)
      BY <2>3 DEF HandleCreate
    <3> DEFINE r == [at |-> "create", number |-> Request, key |-> key, valid |-> TRUE, stored |-> FALSE, kept |-> FALSE,
                     new |-> TRUE, config |-> cconfig, secret |-> None]
    <3>2. client' = [client EXCEPT ![c] = r]
      BY <3>1 DEF BeginRequest
    <3>3. InOrder(r)
      BY DEF InOrder
    <3> HIDE DEF r
    <3> QED
      BY <3>2, <3>3, OneOrdered, OthersStay
  <2>4. CASE HandleUpdate(c)
    <3>1. PICK key \in {0, Request}, valid \in BOOLEAN : BeginRequest(c, IF key > 0 THEN "put" ELSE "update", key, valid)
      BY <2>4 DEF HandleUpdate
    <3>2. cconfig # None
      BY <2>4 DEF HandleUpdate
    <3> DEFINE verb == IF key > 0 THEN "put" ELSE "update"
               r  == [at |-> verb, number |-> Request, key |-> key, valid |-> valid, stored |-> FALSE, kept |-> FALSE,
                      new |-> verb = "create", config |-> cconfig, secret |-> None]
    <3>3. client' = [client EXCEPT ![c] = r]
      BY <3>1 DEF BeginRequest
    <3>4. InOrder(r)
      BY <3>2 DEF InOrder
    <3> HIDE DEF r
    <3> QED
      BY <3>3, <3>4, OneOrdered, OthersStay
  <2>5. CASE HandleDelete(c)
    <3> DEFINE r == [at |-> "delete", number |-> Request, key |-> 0, valid |-> TRUE, stored |-> FALSE, kept |-> FALSE,
                     new |-> FALSE, config |-> cconfig, secret |-> None]
    <3>1. client' = [client EXCEPT ![c] = r]
      BY <2>5 DEF HandleDelete, BeginRequest
    <3>2. InOrder(r)
      BY DEF InOrder
    <3> HIDE DEF r
    <3> QED
      BY <3>1, <3>2, OneOrdered, OthersStay
  <2> QED
    BY <1>5, <2>3, <2>4, <2>5
<1>6. ASSUME NEW c \in Clients, CreateConfig(c)
      PROVE  RequestsInOrder'
  <2> DEFINE key == client[c].key
             made == NewConfig(client[c].number, IF key > 0 THEN "m" ELSE "", "")
             r == [client[c] EXCEPT !.at = "secret", !.config = made]
  <2>1. client[c].at = "create" /\ client[c] \in UnderWay /\ client[c] # NoCall
    BY <1>6, CallIs DEF CreateConfig
  <2>2. CASE Refuse(c)
    BY <1>3, <2>2, GrantedIs
  <2>3. CASE client' = [client EXCEPT ![c] = IF key = 0 THEN NoCall ELSE r]
    <3>1. CASE key = 0
      BY <1>3, <2>3, <3>1
    <3>2. CASE key # 0
      <4>1. InOrder(client[c]) /\ key \in Nat
        BY <2>1 DEF RequestsInOrder, Busy, UnderWay, Numbers
      <4>2. r.at = "secret" /\ r.config = made /\ r.key = key /\ r.stored = client[c].stored /\ r.kept = client[c].kept
        BY <2>1, CreatedRequestIs
      <4>3. made # None
        <5>1. client[c].number \in Numbers \ {0}
          BY <2>1 DEF UnderWay
        <5>2. made \in Configs
          BY <5>1, NewConfigType DEF SecretNames
        <5> HIDE DEF made
        <5> QED
          BY <5>2, NoneIsNone
      <4>4. key > 0
        BY <3>2, <4>1
      <4> HIDE DEF r, made, key
      <4>5. InOrder(r)
        BY <2>1, <4>1, <4>2, <4>3, <4>4 DEF InOrder
      <4> QED
        BY <2>3, <3>2, <4>5, OneOrdered, OthersStay
    <3> QED
      BY <3>1, <3>2
  <2> QED
    BY <1>6, <2>2, <2>3 DEF CreateConfig, ConfigTypeOK
<1>7. ASSUME NEW c \in Clients, CreateSecret(c) \/ PutSecret(c)
      PROVE  RequestsInOrder'
  <2>1. \/ client' = [client EXCEPT ![c] = NoCall]
        \/ \E kept \in BOOLEAN : client' = [client EXCEPT ![c].at = "update", ![c].stored = TRUE, ![c].kept = kept]
    BY <1>7, GrantedIs DEF CreateSecret, PutSecret, Keeps
  <2>2. client[c].at \in {"secret", "put"}
    BY <1>7 DEF CreateSecret, PutSecret
  <2> QED
    BY <1>3, <1>4, <2>1, <2>2
<1>8. ASSUME NEW c \in Clients, GetSecret(c)
      PROVE  RequestsInOrder'
  <2>1. PICK r : /\ client'[c] = r /\ r.at \in {"secret", "put"}
                 /\ r["config"] = client[c]["config"] /\ r["key"] = client[c]["key"]
                 /\ r["stored"] = client[c]["stored"] /\ r["kept"] = client[c]["kept"]
    BY <1>8, GetSecretIs
  <2>2. client[c].at = "put" /\ client[c] # NoCall /\ \A d \in Clients : d # c => client'[d] = client[d]
    BY <1>8, GetSecretIs, CallIs
  <2>3. InOrder(client[c])
    BY <2>2 DEF RequestsInOrder, Busy
  <2>4. InOrder(r)
    BY <2>1, <2>2, <2>3 DEF InOrder
  <2> QED
    BY <2>1, <2>2, <2>4, OneOrdered
<1>9. ASSUME NEW c \in Clients, UpdateConfig(c) \/ DeleteConfig(c)
      PROVE  RequestsInOrder'
  <2>1. client' = [client EXCEPT ![c] = NoCall]
    BY <1>9, GrantedIs DEF UpdateConfig, DeleteConfig
  <2> QED
    BY <1>3, <2>1
<1>10. \/ client' = client
       \/ \E c \in Clients : HandleCreate(c) \/ HandleUpdate(c) \/ HandleDelete(c)
       \/ \E c \in Clients : CreateConfig(c) \/ CreateSecret(c) \/ PutSecret(c) \/ GetSecret(c) \/ UpdateConfig(c) \/ DeleteConfig(c)
  BY DEF ConfigNext, configVars, EditSecret, SeeSecret, findModelsUsingSecret, CollectSecret, SeeConfig,
         ReconcileModelConfig, computeStatusSecretHash, reconcileModelConfigStatus
<1> QED
  BY <1>1, <1>5, <1>6, <1>7, <1>8, <1>9, <1>10
----------------------------------------------------------------------------
(* ModelConfigs: promises. *)

\* An update that will be granted, and has stored its key where it is read.
Granting(c) == Busy(c) /\ client[c].at = "update" /\ client[c].kept /\ config = client[c].config

LEMMA StoredKeysOf ==
    ASSUME NEW c \in Clients,
           \A d \in Clients : d # c => client'[d] = client[d],
           (client[c] # NoCall /\ client[c].stored) =>
               \/ client'[c] # NoCall /\ client'[c].stored /\ client'[c].key = client[c].key
               \/ client[c].key \in loose'
    PROVE  \A k \in StoredKeys : k \in StoredKeys' \cup loose'
<1>1. SUFFICES ASSUME NEW d \in Clients, client[d] # NoCall, client[d].stored
               PROVE  client[d].key \in StoredKeys' \cup loose'
  BY DEF StoredKeys, Busy
<1>2. CASE d # c
  BY <1>1, <1>2 DEF StoredKeys, Busy
<1>3. CASE d = c
  BY <1>1, <1>3 DEF StoredKeys, Busy
<1> QED
  BY <1>2, <1>3

\* Nothing is lost of what was stored, and nothing more is promised.
LEMMA PromiseStays ==
    ASSUME RequestsInOrder', PromiseKept, GrantsHold,
           secrets'["m"] = secrets["m"],
           \A k \in StoredKeys \cup loose : k \in StoredKeys' \cup loose',
           config' # None => config # None /\ config'.uid = config.uid,
           promised' \in {promised, 0},
           \A d \in Clients : Granting(d)' => Granting(d)
    PROVE  PromiseKept' /\ GrantsHold'
<1>1. config' # None => (Safe => Safe')
  BY DEF Safe
<1>2. PromiseKept'
  <2>1. SUFFICES ASSUME config' # None, promised' > 0
                 PROVE  Safe' /\ secrets'["m"].value \in {promised'} \cup loose' \cup StoredKeys'
    BY DEF PromiseKept
  <2>2. CASE promised' = promised
    <3>1. Safe /\ secrets["m"].value \in {promised} \cup loose \cup StoredKeys
      BY <2>1, <2>2 DEF PromiseKept
    <3> QED
      BY <1>1, <2>1, <2>2, <3>1
  <2>3. CASE promised' = 0
    BY <2>1, <2>3
  <2> QED
    BY <2>2, <2>3
<1>3. GrantsHold'
  <2>1. SUFFICES ASSUME NEW d \in Clients, client'[d] # NoCall, client'[d].at = "update", client'[d].kept,
                        config' = client'[d].config
                 PROVE  Safe' /\ secrets'["m"].value \in loose' \cup StoredKeys'
    BY DEF GrantsHold, Busy
  <2>2. Granting(d)
    BY <2>1 DEF Granting, Busy
  <2>3. Safe /\ secrets["m"].value \in loose \cup StoredKeys
    BY <2>2 DEF Granting, GrantsHold
  <2>4. config' # None
    BY <2>1 DEF RequestsInOrder, InOrder, Busy
  <2> QED
    BY <1>1, <2>3, <2>4
<1> QED
  BY <1>2, <1>3

\* A call that ends a request that will not be granted, or had no key.
LEMMA PromiseStaysFor ==
    ASSUME RequestsInOrder', PromiseKept, GrantsHold, UNCHANGED secrets, loose \subseteq loose',
           config' # None => config # None /\ config'.uid = config.uid,
           promised' \in {promised, 0},
           NEW c \in Clients, \A d \in Clients : d # c => client'[d] = client[d],
           (client[c] # NoCall /\ client[c].stored) =>
               \/ client'[c] # NoCall /\ client'[c].stored /\ client'[c].key = client[c].key
               \/ client[c].key \in loose',
           client'[c] # NoCall => ~client'[c].kept,
           \A d \in Clients : (d # c /\ client[d] # NoCall /\ client[d].at = "update" /\ config' = client[d].config) => config' = config
    PROVE  PromiseKept' /\ GrantsHold'
<1>1. \A k \in StoredKeys \cup loose : k \in StoredKeys' \cup loose'
  BY StoredKeysOf
<1>2. \A d \in Clients : Granting(d)' => Granting(d)
  BY DEF Granting, Busy
<1> QED
  BY <1>1, <1>2, PromiseStays

\* A stored key: it is there, and so are the requests that count on it.
LEMMA PromiseStored ==
    ASSUME RequestsInOrder', UNCHANGED <<config, promised, loose>>, PromiseKept, GrantsHold,
           NEW c \in Clients, NEW key,
           client'[c] # NoCall, client'[c].stored, client'[c].key = key, client'[c].at = "update",
           \A d \in Clients : d # c => client'[d] = client[d],
           secrets'["m"] # None, secrets'["m"].value = key,
           Safe => Safe',
           (client'[c].kept /\ config = client'[c].config) => Safe'
    PROVE  PromiseKept' /\ GrantsHold'
<1>1. key \in StoredKeys'
  BY DEF StoredKeys, Busy
<1>2. PromiseKept'
  <2>1. (config # None /\ promised > 0) => Safe
    BY DEF PromiseKept
  <2> QED
    BY <1>1, <2>1 DEF PromiseKept
<1>3. ASSUME NEW d \in Clients, client'[d] # NoCall, client'[d].at = "update", client'[d].kept,
             config' = client'[d].config
      PROVE  Safe'
  <2>1. CASE d = c
    BY <1>3, <2>1
  <2>2. CASE d # c
    BY <1>3, <2>2 DEF GrantsHold, Busy
  <2> QED
    BY <2>1, <2>2
<1>4. GrantsHold'
  BY <1>1, <1>3 DEF GrantsHold, Busy
<1> QED
  BY <1>2, <1>4

LEMMA NewerThanCopies ==
    ASSUME ConfigTypeOK, NEW copy \in Configs \cup {None}, IsCopy(copy), config \in Configs,
           config' \in Configs, config'.uid = config.uid, config'.rv = config.rv + 1
    PROVE  config' # copy
<1>1. config.rv \in Nat
  BY DEF Configs
<1>2. ~(config.rv + 1 <= config.rv)
  BY <1>1
<1> QED
  BY <1>2, NoneIsNone DEF IsCopy

PromiseInv == /\ ConfigTypeOK /\ AllCopies /\ NumbersFresh /\ RequestsInOrder
              /\ PromiseKept /\ GrantsHold

LEMMA CreateConfigKeepsPromise ==
    ASSUME PromiseInv, ConfigTypeOK', RequestsInOrder', NEW c \in Clients, CreateConfig(c)
    PROVE  PromiseKept' /\ GrantsHold'
<1> DEFINE made == NewConfig(client[c].number, IF client[c].key > 0 THEN "m" ELSE "", "")
           r == [client[c] EXCEPT !.at = "secret", !.config = made]
<1>1. client[c].at = "create" /\ client[c] \in UnderWay /\ client[c] # NoCall /\ InOrder(client[c])
  BY CallIs DEF CreateConfig, PromiseInv, RequestsInOrder, Busy
<1>2. CASE /\ config = None /\ config' = made /\ promised' = 0
           /\ client' = [client EXCEPT ![c] = IF client[c].key = 0 THEN NoCall ELSE r]
  <2>1. config'.uid = client[c].number
    BY <1>2 DEF NewConfig
  <2>2. \A d \in Clients : d # c => client'[d] = client[d]
    BY <1>2, OthersStay DEF PromiseInv
  <2>3. client'[c] # NoCall => client'[c].at = "secret"
    <3>1. r.at = "secret"
      BY <1>1 DEF UnderWay
    <3> QED
      BY <1>2, <3>1 DEF PromiseInv, ConfigTypeOK
  <2>4. \A d \in Clients : client[d] # NoCall => client[d].config.uid # client[c].number
    BY <1>1 DEF PromiseInv, NumbersFresh, Busy
  <2>5. ASSUME NEW d \in Clients, Granting(d)'
        PROVE  FALSE
    <3>1. d # c /\ client[d] # NoCall /\ client[d].config = config'
      BY <2>2, <2>3, <2>5 DEF Granting, Busy
    <3> QED
      BY <2>1, <2>4, <3>1
  <2>6. ~(promised' > 0)
    <3>1. promised' = 0
      BY <1>2
    <3> QED
      BY <3>1
  <2> QED
    BY <2>5, <2>6 DEF PromiseKept, GrantsHold, Granting
<1>3. CASE Refuse(c) /\ config' = config
  <2>1. UNCHANGED <<secrets, config, promised>> /\ loose \subseteq loose' /\ client' = [client EXCEPT ![c] = NoCall]
    BY <1>3 DEF CreateConfig, Refuse
  <2>2. client'[c] = NoCall /\ \A d \in Clients : d # c => client'[d] = client[d]
    BY <2>1, OthersStay DEF PromiseInv
  <2>3. ~client[c].stored
    BY <1>1 DEF InOrder
  <2> QED
    BY <2>1, <2>2, <2>3, PromiseStaysFor DEF PromiseInv
<1> QED
  BY <1>1, <1>2, <1>3 DEF CreateConfig

LEMMA CreateSecretKeepsPromise ==
    ASSUME PromiseInv, ConfigTypeOK', RequestsInOrder', NEW c \in Clients, CreateSecret(c)
    PROVE  PromiseKept' /\ GrantsHold'
<1> DEFINE s == Secret(client[c].number, client[c].config.uid, client[c].key)
<1>1. /\ client[c].at = "secret" /\ client[c] \in UnderWay /\ client[c] # NoCall
      /\ client[c].config # None /\ client[c].key > 0 /\ ~client[c].stored
  <2>1. client[c].at = "secret" /\ client[c] \in UnderWay /\ client[c] # NoCall
    BY CallIs DEF CreateSecret, PromiseInv
  <2> QED
    BY <2>1 DEF PromiseInv, RequestsInOrder, Busy, InOrder
<1>2. UNCHANGED config
  BY DEF CreateSecret
<1>3. CASE Grant(c, FALSE) /\ UNCHANGED secrets
  <2>1. promised' \in {promised, 0} /\ loose' = loose /\ client' = [client EXCEPT ![c] = NoCall]
    BY <1>3 DEF Grant
  <2>2. client'[c] = NoCall /\ \A d \in Clients : d # c => client'[d] = client[d]
    BY <2>1, OthersStay DEF PromiseInv
  <2> QED
    BY <1>1, <1>2, <1>3, <2>1, <2>2, PromiseStaysFor DEF PromiseInv
<1>4. CASE Refuse(c) /\ UNCHANGED secrets
  <2>1. promised' = promised /\ loose \subseteq loose' /\ client' = [client EXCEPT ![c] = NoCall]
    BY <1>4 DEF Refuse
  <2>2. client'[c] = NoCall /\ \A d \in Clients : d # c => client'[d] = client[d]
    BY <2>1, OthersStay DEF PromiseInv
  <2> QED
    BY <1>1, <1>2, <1>4, <2>1, <2>2, PromiseStaysFor DEF PromiseInv
<1>5. CASE /\ secrets["m"] = None /\ secrets' = [secrets EXCEPT !["m"] = s]
           /\ IF client[c].new THEN Grant(c, TRUE)
              ELSE /\ client' = [client EXCEPT ![c].at = "update", ![c].stored = TRUE,
                                               ![c].kept = Keeps(c, secrets'["m"])]
                   /\ UNCHANGED <<promised, stale, loose>>
  <2>1. ~Safe
    BY <1>5 DEF Safe
  <2>2. secrets'["m"] = s
    BY <1>5 DEF PromiseInv, ConfigTypeOK, SecretNames
  <2>3. s.owner = client[c].config.uid /\ s.value = client[c].key /\ s.uid = client[c].number
    BY DEF Secret
  <2>4. s # None
    <3>1. client[c].number # 0
      BY <1>1 DEF UnderWay
    <3> QED
      BY <2>3, <3>1, NoneIsNone
  <2> HIDE DEF s
  <2>5. config # None => promised = 0
    <3>1. promised \in Nat
      BY ConfigAssumption DEF PromiseInv, ConfigTypeOK, Numbers
    <3>2. promised > 0 \/ promised = 0
      BY <3>1
    <3> QED
      BY <2>1, <3>2 DEF PromiseInv, PromiseKept
  <2>6. \A d \in Clients : ~Granting(d)
    BY <2>1 DEF PromiseInv, GrantsHold, Granting
  <2>7. CASE client[c].new
    <3>1. client' = [client EXCEPT ![c] = NoCall] /\ loose' = loose
          /\ promised' \in {promised, client[c].key}
          /\ (promised' # promised => client[c].config.uid = config.uid)
      BY <1>5, <2>7 DEF Grant
    <3>2. client'[c] = NoCall /\ \A d \in Clients : d # c => client'[d] = client[d]
      BY <3>1, OthersStay DEF PromiseInv
    <3>3. GrantsHold'
      BY <1>2, <2>6, <3>2 DEF GrantsHold, Granting, Busy
    <3>4. SUFFICES ASSUME config' # None, promised' > 0
                   PROVE  Safe' /\ secrets'["m"].value \in {promised'}
      BY <3>3 DEF PromiseKept
    <3>5. promised' = client[c].key /\ client[c].config.uid = config.uid
      BY <1>2, <2>5, <3>1, <3>4
    <3> QED
      BY <1>2, <2>2, <2>3, <2>4, <3>5 DEF Safe
  <2>8. CASE ~client[c].new
    <3>1. /\ client' = [client EXCEPT ![c].at = "update", ![c].stored = TRUE, ![c].kept = Keeps(c, secrets'["m"])]
          /\ UNCHANGED <<promised, loose>>
      BY <1>5, <2>8
    <3>2. client' = [client EXCEPT ![c] = StoredRequest(client[c], Keeps(c, secrets'["m"]))]
      BY <3>1, StoresIs DEF PromiseInv
    <3>3. client'[c] = StoredRequest(client[c], Keeps(c, secrets'["m"])) /\ \A d \in Clients : d # c => client'[d] = client[d]
      BY <3>2, OthersStay DEF PromiseInv
    <3>4. client'[c].at = "update" /\ client'[c].stored /\ client'[c].key = client[c].key
          /\ client'[c].config = client[c].config /\ client'[c] # NoCall
      <4>1. Keeps(c, secrets'["m"]) \in BOOLEAN /\ NoCall \notin UnderWay
        BY CallIs DEF Keeps, PromiseInv
      <4> QED
        BY <1>1, <3>3, <4>1, StoredRequestIs
    <3>5. config = client[c].config => Safe'
      BY <1>2, <2>2, <2>3, <2>4 DEF Safe
    <3> QED
      BY <1>2, <2>1, <2>2, <2>3, <2>4, <3>1, <3>3, <3>4, <3>5, PromiseStored DEF PromiseInv
  <2> QED
    BY <2>7, <2>8
<1> QED
  BY <1>3, <1>4, <1>5 DEF CreateSecret

LEMMA PutSecretKeepsPromise ==
    ASSUME PromiseInv, ConfigTypeOK', RequestsInOrder', NEW c \in Clients, PutSecret(c)
    PROVE  PromiseKept' /\ GrantsHold'
<1>1. /\ client[c].at = "put" /\ client[c] \in UnderWay /\ client[c] # NoCall
      /\ client[c].config # None /\ ~client[c].stored
  <2>1. client[c].at = "put" /\ client[c] \in UnderWay /\ client[c] # NoCall
    BY CallIs DEF PutSecret, PromiseInv
  <2> QED
    BY <2>1 DEF PromiseInv, RequestsInOrder, Busy, InOrder
<1>2. UNCHANGED config
  BY DEF PutSecret
<1>3. CASE Refuse(c) /\ UNCHANGED secrets
  <2>1. promised' = promised /\ loose \subseteq loose' /\ client' = [client EXCEPT ![c] = NoCall]
    BY <1>3 DEF Refuse
  <2>2. client'[c] = NoCall /\ \A d \in Clients : d # c => client'[d] = client[d]
    BY <2>1, OthersStay DEF PromiseInv
  <2> QED
    BY <1>1, <1>2, <1>3, <2>1, <2>2, PromiseStaysFor DEF PromiseInv
<1>4. CASE /\ secrets["m"] = client[c].secret
           /\ secrets' = [secrets EXCEPT !["m"].value = client[c].key, !["m"].rv = @ + 1]
           /\ client' = [client EXCEPT ![c].at = "update", ![c].stored = TRUE, ![c].kept = Keeps(c, secrets["m"])]
           /\ UNCHANGED <<promised, loose>>
  <2>1. secrets["m"] \in SecretRows
    BY <1>1, <1>4 DEF PutSecret, PromiseInv, UnderWay
  <2>2. secrets'["m"] = [secrets["m"] EXCEPT !.value = client[c].key, !.rv = @ + 1]
    BY <1>4 DEF PromiseInv, ConfigTypeOK, SecretNames
  <2>3. secrets'["m"].owner = secrets["m"].owner /\ secrets'["m"].value = client[c].key
        /\ secrets'["m"].uid = secrets["m"].uid
    BY <2>1, <2>2 DEF SecretRows
  <2>4. secrets'["m"] # None
    <3>1. secrets["m"].uid # 0
      BY <2>1 DEF SecretRows
    <3> QED
      BY <2>3, <3>1, NoneIsNone
  <2>5. client' = [client EXCEPT ![c] = StoredRequest(client[c], Keeps(c, secrets["m"]))]
    BY <1>4, StoresIs DEF PromiseInv
  <2>6. client'[c] = StoredRequest(client[c], Keeps(c, secrets["m"])) /\ \A d \in Clients : d # c => client'[d] = client[d]
    BY <2>5, OthersStay DEF PromiseInv
  <2>7. client'[c].at = "update" /\ client'[c].stored /\ client'[c].key = client[c].key
        /\ client'[c].config = client[c].config /\ client'[c] # NoCall
        /\ (client'[c].kept => Keeps(c, secrets["m"]))
    <3>1. Keeps(c, secrets["m"]) \in BOOLEAN /\ NoCall \notin UnderWay
      BY CallIs DEF Keeps, PromiseInv
    <3> QED
      BY <1>1, <2>6, <3>1, StoredRequestIs
  <2>8. Safe => Safe'
    BY <1>2, <2>3, <2>4 DEF Safe
  <2>9. (client'[c].kept /\ config = client'[c].config) => Safe'
    BY <1>2, <2>3, <2>4, <2>7 DEF Safe, Keeps
  <2> QED
    BY <1>2, <1>4, <2>3, <2>4, <2>6, <2>7, <2>8, <2>9, PromiseStored DEF PromiseInv
<1> QED
  BY <1>3, <1>4 DEF PutSecret

LEMMA UpdateConfigKeepsPromise ==
    ASSUME PromiseInv, ConfigTypeOK', RequestsInOrder', NEW c \in Clients, UpdateConfig(c)
    PROVE  PromiseKept' /\ GrantsHold'
<1>1. /\ client[c].at = "update" /\ client[c] \in UnderWay /\ client[c] # NoCall
      /\ client[c].config # None /\ (client[c].key > 0 <=> client[c].stored) /\ (client[c].kept => client[c].stored)
  <2>1. client[c].at = "update" /\ client[c] \in UnderWay /\ client[c] # NoCall
    BY CallIs DEF UpdateConfig, PromiseInv
  <2> QED
    BY <2>1 DEF PromiseInv, RequestsInOrder, Busy, InOrder
<1>2. UNCHANGED secrets
  BY DEF UpdateConfig
<1>3. CASE Refuse(c) /\ UNCHANGED config
  <2>1. promised' = promised /\ loose \subseteq loose' /\ client' = [client EXCEPT ![c] = NoCall]
        /\ (client[c].stored => client[c].key \in loose')
    BY <1>3 DEF Refuse
  <2>2. client'[c] = NoCall /\ \A d \in Clients : d # c => client'[d] = client[d]
    BY <2>1, OthersStay DEF PromiseInv
  <2> QED
    BY <1>1, <1>2, <1>3, <2>1, <2>2, PromiseStaysFor DEF PromiseInv
<1>4. CASE /\ config = client[c].config
           /\ config' = [config EXCEPT !.gen = @ + 1, !.rv = @ + 1, !.tls = ""]
           /\ Grant(c, client[c].kept)
  <2>1. config \in Configs
    BY <1>1, <1>4 DEF PromiseInv, ConfigTypeOK
  <2>2. config' \in Configs /\ config'.uid = config.uid /\ config'.rv = config.rv + 1
    BY <1>4, <2>1, Respecified DEF Configs
  <2>3. client' = [client EXCEPT ![c] = NoCall] /\ loose' = loose
    BY <1>4 DEF Grant
  <2>4. client'[c] = NoCall /\ \A d \in Clients : d # c => client'[d] = client[d]
    BY <2>3, OthersStay DEF PromiseInv
  <2>5. ASSUME NEW d \in Clients, Granting(d)'
        PROVE  FALSE
    <3>1. client[d] # NoCall /\ client[d].config = config'
      BY <2>4, <2>5 DEF Granting, Busy
    <3>2. client[d].config \in Configs \cup {None} /\ IsCopy(client[d].config)
      BY <3>1, CallIs DEF PromiseInv, AllCopies, Busy, UnderWay
    <3> QED
      BY <2>1, <2>2, <3>1, <3>2, NewerThanCopies DEF PromiseInv
  <2>6. GrantsHold'
    BY <2>5 DEF GrantsHold, Granting
  <2>7. Safe => Safe'
    BY <1>2, <2>2 DEF Safe
  <2>8. config # None
    BY <1>1, <1>4
  <2>9. CASE client[c].key = 0
    <3>1. ~client[c].stored
      BY <1>1, <2>9
    <3>2. \A k \in StoredKeys : k \in StoredKeys' \cup loose'
      BY <2>4, <3>1, StoredKeysOf
    <3>3. promised' = promised
      BY <1>4, <2>9 DEF Grant
    <3> QED
      BY <1>2, <2>3, <2>6, <2>7, <2>8, <3>2, <3>3 DEF PromiseInv, PromiseKept
  <2>10. CASE client[c].key # 0 /\ client[c].kept
    <3>1. promised' = client[c].key
      BY <1>4, <2>10 DEF Grant
    <3>2. Safe /\ secrets["m"].value \in loose \cup StoredKeys
      BY <1>1, <1>4, <2>10 DEF PromiseInv, GrantsHold, Busy
    <3>3. \A k \in StoredKeys : k \in StoredKeys' \cup {client[c].key}
      BY <2>4 DEF StoredKeys, Busy
    <3> QED
      BY <1>2, <2>3, <2>6, <2>7, <3>1, <3>2, <3>3 DEF PromiseKept
  <2>11. CASE client[c].key # 0 /\ ~client[c].kept
    <3>1. promised' = 0
      BY <1>4, <2>11 DEF Grant
    <3>2. ~(promised' > 0)
      BY <3>1
    <3> QED
      BY <2>6, <3>2 DEF PromiseKept
  <2> QED
    BY <2>9, <2>10, <2>11
<1> QED
  BY <1>3, <1>4 DEF UpdateConfig

LEMMA PromiseStep ==
    ASSUME PromiseInv, ConfigTypeOK', RequestsInOrder', [ConfigNext]_configVars
    PROVE  PromiseKept' /\ GrantsHold'
<1>1. CASE UNCHANGED <<config, secrets, client, promised, loose>>
  <2>1. \A k \in StoredKeys \cup loose : k \in StoredKeys' \cup loose'
    BY <1>1 DEF StoredKeys, Busy
  <2>2. \A d \in Clients : Granting(d)' => Granting(d)
    BY <1>1 DEF Granting, Busy
  <2> QED
    BY <1>1, <2>1, <2>2, PromiseStays DEF PromiseInv
<1>2. ASSUME NEW c \in Clients, HandleCreate(c) \/ HandleUpdate(c) \/ HandleDelete(c)
      PROVE  PromiseKept' /\ GrantsHold'
  <2>1. PICK verb \in {"create", "put", "update", "delete"}, key \in {0, Request}, valid \in BOOLEAN :
            BeginRequest(c, verb, key, valid)
    BY <1>2 DEF HandleCreate, HandleUpdate, HandleDelete
  <2> DEFINE r == [at |-> verb, number |-> Request, key |-> key, valid |-> valid, stored |-> FALSE, kept |-> FALSE,
                   new |-> verb = "create", config |-> cconfig, secret |-> None]
  <2>2. client' = [client EXCEPT ![c] = r] /\ client[c].at = "none" /\ UNCHANGED <<config, secrets, promised, loose>>
    BY <2>1 DEF BeginRequest
  <2>3. ~r.kept
    OBVIOUS
  <2> HIDE DEF r
  <2>4. client'[c] = r /\ client[c] = NoCall /\ \A d \in Clients : d # c => client'[d] = client[d]
    BY <2>2, OthersStay, CallIs DEF PromiseInv
  <2> QED
    BY <2>2, <2>3, <2>4, PromiseStaysFor DEF PromiseInv
<1>3. ASSUME NEW c \in Clients, GetSecret(c)
      PROVE  PromiseKept' /\ GrantsHold'
  <2>1. PICK r : client'[c] = r /\ r.at \in {"secret", "put"}
                 /\ r["stored"] = client[c]["stored"] /\ r["kept"] = client[c]["kept"]
    BY <1>3, GetSecretIs DEF PromiseInv
  <2>2. client[c].at = "put" /\ client[c] # NoCall /\ \A d \in Clients : d # c => client'[d] = client[d]
    BY <1>3, GetSecretIs, CallIs DEF PromiseInv
  <2>3. InOrder(client[c])
    BY <2>2 DEF PromiseInv, RequestsInOrder, Busy
  <2>4. ~client[c].stored /\ ~client'[c].kept
    BY <2>1, <2>2, <2>3 DEF InOrder
  <2> QED
    BY <1>3, <2>2, <2>4, PromiseStaysFor DEF GetSecret, PromiseInv
<1>4. ASSUME NEW c \in Clients, DeleteConfig(c)
      PROVE  PromiseKept' /\ GrantsHold'
  <2>1. client[c].at = "delete" /\ client[c] # NoCall
    BY <1>4, CallIs DEF DeleteConfig, PromiseInv
  <2>2. client' = [client EXCEPT ![c] = NoCall] /\ config' \in {config, None} /\ promised' = promised
        /\ loose \subseteq loose' /\ UNCHANGED secrets
    BY <1>4 DEF DeleteConfig, Refuse
  <2>3. client'[c] = NoCall /\ \A d \in Clients : d # c => client'[d] = client[d]
    BY <2>2, OthersStay DEF PromiseInv
  <2>4. ~client[c].stored
    BY <2>1 DEF PromiseInv, RequestsInOrder, Busy, InOrder
  <2>5. \A d \in Clients : (client[d] # NoCall /\ client[d].at = "update") => client[d].config # None
    BY DEF PromiseInv, RequestsInOrder, Busy, InOrder
  <2> QED
    BY <2>2, <2>3, <2>4, <2>5, PromiseStaysFor DEF PromiseInv
<1>5. ASSUME NEW n \in SecretNames, EditSecret(n)
      PROVE  PromiseKept' /\ GrantsHold'
  <2>1. UNCHANGED <<config, client, promised>> /\ StoredKeys' = StoredKeys
    BY <1>5 DEF EditSecret, StoredKeys, Busy
  <2>2. CASE n # "m"
    <3>1. secrets'["m"] = secrets["m"] /\ loose' = loose
      BY <1>5, <2>2 DEF EditSecret, PromiseInv, ConfigTypeOK, SecretNames
    <3>2. \A d \in Clients : Granting(d)' => Granting(d)
      BY <2>1 DEF Granting, Busy
    <3> QED
      BY <2>1, <3>1, <3>2, PromiseStays DEF PromiseInv
  <2>3. CASE n = "m"
    <3>1. Request \in loose'
      BY <1>5, <2>3 DEF EditSecret
    <3>2. CASE secrets["m"] # None /\ secrets'["m"] = [secrets["m"] EXCEPT !.value = Request, !.rv = @ + 1]
      <4>1. secrets["m"] \in SecretRows
        BY <3>2 DEF PromiseInv, ConfigTypeOK, SecretNames
      <4>2. secrets'["m"].value = Request /\ secrets'["m"].owner = secrets["m"].owner /\ secrets'["m"].uid = secrets["m"].uid
        BY <3>2, <4>1 DEF SecretRows
      <4>3. secrets["m"].uid # 0
        BY <4>1 DEF SecretRows
      <4>4. secrets'["m"] # None
        BY <4>2, <4>3, NoneIsNone
      <4>5. Safe => Safe'
        BY <2>1, <4>2, <4>4 DEF Safe
      <4> QED
        BY <2>1, <3>1, <4>2, <4>5 DEF PromiseInv, PromiseKept, GrantsHold, Busy
    <3>3. CASE secrets'["m"] = Secret(Request, 0, Request)
      <4>1. secrets'["m"].value = Request /\ secrets'["m"].owner = 0 /\ secrets'["m"].uid = Request
        BY <3>3 DEF Secret
      <4>2. Request # 0
        BY <1>5, RequestIs DEF EditSecret, PromiseInv
      <4>3. secrets'["m"] # None
        BY <4>1, <4>2, NoneIsNone
      <4>4. Safe'
        BY <4>1, <4>3 DEF Safe
      <4> QED
        BY <2>1, <3>1, <4>1, <4>4 DEF PromiseInv, PromiseKept, GrantsHold, Busy
    <3>4. \/ secrets["m"] # None /\ secrets'["m"] = [secrets["m"] EXCEPT !.value = Request, !.rv = @ + 1]
          \/ secrets'["m"] = Secret(Request, 0, Request)
      BY <1>5, <2>3 DEF EditSecret, PromiseInv, ConfigTypeOK, SecretNames
    <3> QED
      BY <3>2, <3>3, <3>4
  <2> QED
    BY <2>2, <2>3
<1>6. ASSUME CollectSecret PROVE PromiseKept' /\ GrantsHold'
  <2>1. ~Safe
    BY <1>6 DEF CollectSecret, Safe
  <2> QED
    BY <1>6, <2>1 DEF CollectSecret, PromiseInv, PromiseKept, GrantsHold, Busy
<1>7. ASSUME reconcileModelConfigStatus PROVE PromiseKept' /\ GrantsHold'
  <2>1. UNCHANGED <<secrets, client, promised, loose>> /\ hashing # NoCall /\ hashing \in HashPasses
    BY <1>7, PassIs DEF reconcileModelConfigStatus, PromiseInv
  <2>2. \/ config' = config
        \/ config = hashing.config /\ \E status : config' = [config EXCEPT !.status = status, !.rv = @ + 1]
    BY <1>7 DEF reconcileModelConfigStatus
  <2>3. CASE config' = config
    BY <1>1, <2>1, <2>3
  <2>4. CASE config = hashing.config /\ \E status : config' = [config EXCEPT !.status = status, !.rv = @ + 1]
    <3>1. config \in Configs
      BY <2>1, <2>4 DEF HashPasses
    <3>2. config'.uid = config.uid /\ config'.rv = config.rv + 1
      BY <2>4, <3>1 DEF Configs
    <3>3. config.uid # 0 /\ config # None
      BY <3>1, NoneIsNone DEF Configs
    <3>4. config' \in Configs
      BY <3>2, <3>3, NoneIsNone DEF ConfigTypeOK
    <3>5. ASSUME NEW d \in Clients, Granting(d)' PROVE FALSE
      <4>1. client[d] # NoCall /\ client[d].config = config'
        BY <2>1, <3>5 DEF Granting, Busy
      <4>2. client[d].config \in Configs \cup {None} /\ IsCopy(client[d].config)
        BY <4>1, CallIs DEF PromiseInv, AllCopies, Busy, UnderWay
      <4> QED
        BY <3>1, <3>2, <3>4, <4>1, <4>2, NewerThanCopies DEF PromiseInv
    <3>6. \A k \in StoredKeys \cup loose : k \in StoredKeys' \cup loose'
      BY <2>1 DEF StoredKeys, Busy
    <3> QED
      BY <2>1, <3>2, <3>3, <3>5, <3>6, PromiseStays DEF PromiseInv
  <2> QED
    BY <2>2, <2>3, <2>4
<1>8. \/ UNCHANGED <<config, secrets, client, promised, loose>> \/ reconcileModelConfigStatus \/ CollectSecret
      \/ \E c \in Clients : HandleCreate(c) \/ HandleUpdate(c) \/ HandleDelete(c) \/ GetSecret(c) \/ DeleteConfig(c)
      \/ \E c \in Clients : CreateConfig(c) \/ CreateSecret(c) \/ PutSecret(c) \/ UpdateConfig(c)
      \/ \E n \in SecretNames : EditSecret(n)
  BY DEF ConfigNext, configVars, SeeSecret, findModelsUsingSecret, SeeConfig, ReconcileModelConfig, computeStatusSecretHash
<1> QED
  BY <1>1, <1>2, <1>3, <1>4, <1>5, <1>6, <1>7, <1>8, CreateConfigKeepsPromise, CreateSecretKeepsPromise,
     PutSecretKeepsPromise, UpdateConfigKeepsPromise
----------------------------------------------------------------------------
(* ModelConfigs: hashes. *)

LEMMA Seen ==
    ASSUME ConfigTypeOK, SpecSeen, IsCopy(cconfig)
    PROVE  RefsOf(cconfig) = RefsOf(config)
BY DEF SpecSeen, IsCopy, RefsOf

\* The config was replaced, respecified or deleted: the cache is behind.
LEMMA Behind ==
    ASSUME ConfigTypeOK, IsCopy(cconfig), cconfig' = cconfig,
           \/ config' = None
           \/ config'.uid # cconfig.uid
           \/ config \in Configs /\ config'.uid = config.uid /\ config'.gen = config.gen + 1
    PROVE  PassTells' /\ StatusTells'
<1>1. config' = None \/ ~SpecSeen'
  <2>1. SUFFICES ASSUME config \in Configs, config'.uid = config.uid, config'.gen = config.gen + 1,
                        cconfig # None, cconfig.uid = config.uid, cconfig.gen = config.gen + 1
                 PROVE  FALSE
    BY DEF SpecSeen
  <2>2. cconfig.gen <= config.gen
    BY <2>1 DEF IsCopy
  <2>3. config.gen \in Nat
    BY <2>1 DEF Configs
  <2> QED
    BY <2>1, <2>2, <2>3
<1> QED
  BY <1>1 DEF PassTells, StatusTells, Unhashable

LEMMA HashStep ==
    ASSUME ConfigTypeOK, ConfigTypeOK', AllCopies, NumbersFresh, PassTells, StatusTells, [ConfigNext]_configVars
    PROVE  PassTells' /\ StatusTells'
<1>1. CASE UNCHANGED <<sort, config, cconfig, csecrets, secretNews, configDue, hashing, stale>>
  BY <1>1 DEF PassTells, StatusTells, Unhashable, SpecSeen, Tells
<1>2. ASSUME NEW c \in Clients, CreateConfig(c)
      PROVE  PassTells' /\ StatusTells'
  <2>1. CASE UNCHANGED <<config, stale>>
    BY <1>1, <1>2, <2>1 DEF CreateConfig
  <2>2. CASE config' = NewConfig(client[c].number, IF client[c].key > 0 THEN "m" ELSE "", "")
    <3>1. config'.uid = client[c].number
      BY <2>2 DEF NewConfig
    <3>2. client[c].number # cconfig.uid /\ cconfig' = cconfig
      BY <1>2, CallIs DEF CreateConfig, NumbersFresh, Busy
    <3> QED
      BY <3>1, <3>2, Behind DEF AllCopies
  <2> QED
    BY <1>2, <2>1, <2>2 DEF CreateConfig, Refuse
<1>3. ASSUME NEW c \in Clients, UpdateConfig(c)
      PROVE  PassTells' /\ StatusTells'
  <2>1. CASE UNCHANGED <<config, stale>>
    BY <1>1, <1>3, <2>1 DEF UpdateConfig
  <2>2. CASE config' = [config EXCEPT !.gen = @ + 1, !.rv = @ + 1, !.tls = ""] /\ stale' = stale
    <3>1. CASE config = None
      <4>1. config' = None
        BY <2>2, <3>1 DEF None
      <4> QED
        BY <1>3, <4>1, Behind DEF UpdateConfig, AllCopies
    <3>2. CASE config \in Configs
      <4>1. config'.uid = config.uid /\ config'.gen = config.gen + 1
        BY <2>2, <3>2 DEF Configs
      <4> QED
        BY <1>3, <3>2, <4>1, Behind DEF UpdateConfig, AllCopies
    <3> QED
      BY <3>1, <3>2 DEF ConfigTypeOK
  <2> QED
    BY <1>3, <2>1, <2>2 DEF UpdateConfig, Refuse, Grant
<1>4. ASSUME NEW c \in Clients, DeleteConfig(c)
      PROVE  PassTells' /\ StatusTells'
  <2>1. CASE UNCHANGED <<config, stale>>
    BY <1>1, <1>4, <2>1 DEF DeleteConfig
  <2>2. CASE config' = None
    BY <1>4, <2>2, Behind DEF DeleteConfig, AllCopies
  <2> QED
    BY <1>4, <2>1, <2>2 DEF DeleteConfig, Refuse
<1>5. ASSUME SeeConfig PROVE PassTells' /\ StatusTells'
  <2>1. SUFFICES ASSUME ~Unhashable' PROVE PassTells' /\ StatusTells'
    BY DEF PassTells, StatusTells
  <2>2. ~configDue' /\ config' = config /\ sort' = sort /\ config # None /\ sort = "ModelConfig"
    BY <1>5, <2>1 DEF SeeConfig, Unhashable
  <2>3. ~configDue /\ cconfig # None /\ cconfig' # None /\ cconfig.gen = cconfig'.gen
    BY <1>5, <2>2 DEF SeeConfig
  <2>4. cconfig' = config /\ cconfig.uid = config.uid
    BY <1>5, <2>2, <2>3 DEF SeeConfig
  <2>5. ~Unhashable
    BY <2>2, <2>3, <2>4 DEF Unhashable, SpecSeen
  <2> QED
    BY <1>5, <2>2, <2>5 DEF SeeConfig, PassTells, StatusTells, Tells
<1>6. ASSUME NEW n \in SecretNames, SeeSecret(n)
      PROVE  PassTells' /\ StatusTells'
  <2>1. UNCHANGED <<sort, config, cconfig, configDue, hashing, stale>>
    BY <1>6 DEF SeeSecret
  <2>2. Unhashable' = Unhashable
    BY <2>1 DEF Unhashable, SpecSeen
  <2>3. ASSUME NEW hash, NEW m \in SecretNames, Tells(hash, m)
        PROVE  m \in secretNews' \/ \A v \in Numbers : (<<m, v>> \in hash <=> csecrets'[m] # None /\ v = csecrets'[m].value)
    BY <1>6, <2>3 DEF SeeSecret, Tells, ConfigTypeOK
  <2>4. config # None => RefsOf(config) \subseteq SecretNames
    BY DEF ConfigTypeOK, Configs, RefsOf
  <2>5. PassTells'
    BY <2>1, <2>2, <2>3, <2>4 DEF PassTells, Tells, Unhashable
  <2>6. StatusTells'
    BY <2>1, <2>2, <2>3, <2>4 DEF StatusTells, Tells, Unhashable
  <2> QED
    BY <2>5, <2>6
<1>7. ASSUME NEW n \in SecretNames, findModelsUsingSecret(n)
      PROVE  PassTells' /\ StatusTells'
  <2>1. UNCHANGED <<sort, config, cconfig, csecrets, hashing, stale>> /\ secretNews' = secretNews \ {n}
    BY <1>7 DEF findModelsUsingSecret
  <2>2. SUFFICES ASSUME ~Unhashable' PROVE PassTells' /\ StatusTells'
    BY DEF PassTells, StatusTells
  <2>3. ~configDue' /\ SpecSeen
    BY <2>1, <2>2 DEF Unhashable, SpecSeen
  <2>4. ~configDue /\ cconfig # None /\ ~modelReferencesSecret(cconfig, n)
    BY <1>7, <2>3 DEF findModelsUsingSecret, SpecSeen
  <2>5. ~Unhashable
    BY <2>1, <2>2, <2>4 DEF Unhashable, SpecSeen
  <2>6. n \notin RefsOf(config)
    <3>1. n = cconfig.ref => n = ""
      BY <2>4 DEF modelReferencesSecret
    <3>2. n = cconfig.tls => n = ""
      BY <2>4 DEF modelReferencesSecret
    <3>3. n = cconfig.ref \/ n = cconfig.tls => n = ""
      BY <3>1, <3>2
    <3>4. n \notin RefsOf(cconfig)
      BY <3>3 DEF RefsOf
    <3> QED
      BY <2>3, <3>4, Seen DEF AllCopies
  <2>7. ASSUME NEW hash, NEW m \in RefsOf(config), Tells(hash, m)
        PROVE  m \in secretNews' \/ \A v \in Numbers : (<<m, v>> \in hash <=> csecrets'[m] # None /\ v = csecrets'[m].value)
    BY <2>1, <2>6, <2>7 DEF Tells
  <2>8. PassTells'
    BY <2>1, <2>5, <2>7 DEF PassTells, Tells
  <2>9. StatusTells'
    BY <2>1, <2>5, <2>7 DEF StatusTells, Tells
  <2> QED
    BY <2>8, <2>9
<1>8. ASSUME ReconcileModelConfig PROVE PassTells' /\ StatusTells'
  <2>1. UNCHANGED <<sort, config, cconfig, csecrets, secretNews, stale>>
    BY <1>8 DEF ReconcileModelConfig
  <2>2. SUFFICES ASSUME ~Unhashable' PROVE PassTells' /\ StatusTells'
    BY DEF PassTells, StatusTells
  <2>3. SpecSeen
    BY <2>1, <2>2 DEF Unhashable, SpecSeen
  <2>4. hashing' = [at |-> "read", config |-> cconfig, todo |-> RefsOf(cconfig), hash |-> {}]
    BY <1>8, <2>3 DEF ReconcileModelConfig, SpecSeen
  <2>5. hashing'.config = cconfig /\ hashing'.todo = RefsOf(config) /\ hashing'.hash = {} /\ hashing' # NoCall
    BY <2>3, <2>4, Seen DEF AllCopies, NoCall
  <2> QED
    BY <2>1, <2>3, <2>5 DEF PassTells, StatusTells, SpecSeen
<1>9. ASSUME computeStatusSecretHash PROVE PassTells' /\ StatusTells'
  <2>1. UNCHANGED <<sort, config, cconfig, csecrets, secretNews, configDue, stale>> /\ hashing # NoCall
        /\ hashing \in HashPasses
    BY <1>9, PassIs DEF computeStatusSecretHash
  <2>2. PICK n \in hashing.todo :
            hashing' = [hashing EXCEPT !.todo = @ \ {n},
                          !.hash = IF csecrets[n] = None THEN @ ELSE @ \cup {<<n, csecrets[n].value>>}]
    BY <1>9 DEF computeStatusSecretHash
  <2> DEFINE more == IF csecrets[n] = None THEN hashing.hash ELSE hashing.hash \cup {<<n, csecrets[n].value>>}
  <2>21. hashing' = [hashing EXCEPT !.todo = hashing.todo \ {n}, !.hash = more]
    BY <2>1, <2>2 DEF HashPasses
  <2>22. \A m, v : <<m, v>> \in more <=>
             \/ <<m, v>> \in hashing.hash
             \/ m = n /\ csecrets[n] # None /\ v = csecrets[n].value
    OBVIOUS
  <2> HIDE DEF more
  <2>3. hashing'.config = hashing.config /\ hashing'.todo = hashing.todo \ {n} /\ hashing'.hash = more
        /\ hashing'.at = "read"
    BY <2>1, <2>21 DEF HashPasses
  <2>4. hashing' # NoCall
    <3>1. NoCall.at = "none"
      BY DEF NoCall
    <3> QED
      BY <2>3, <3>1
  <2>5. StatusTells'
    BY <2>4 DEF StatusTells
  <2>6. SUFFICES ASSUME ~Unhashable' PROVE PassTells'
    BY <2>5 DEF PassTells
  <2>7. ~Unhashable
    BY <2>1, <2>6 DEF Unhashable, SpecSeen
  <2>8. /\ hashing.config.uid = config.uid /\ hashing.config.gen = config.gen
        /\ hashing.todo \subseteq RefsOf(config)
        /\ \A m \in RefsOf(config) \ hashing.todo : Tells(hashing.hash, m)
        /\ \A m \in SecretNames, v \in Numbers : <<m, v>> \in hashing.hash => m \in RefsOf(config) \ hashing.todo
    BY <2>1, <2>7 DEF PassTells
  <2>9. n \in SecretNames /\ n \in RefsOf(config)
    BY <2>1, <2>2, <2>8 DEF HashPasses
  <2>10. \A m, v : <<m, v>> \in hashing'.hash <=>
             \/ <<m, v>> \in hashing.hash
             \/ m = n /\ csecrets[n] # None /\ v = csecrets[n].value
    BY <2>3, <2>22
  <2>11. \A v \in Numbers : <<n, v>> \notin hashing.hash
    BY <2>2, <2>8, <2>9
  <2>12. ASSUME NEW m \in RefsOf(config) \ hashing'.todo
         PROVE  m \in secretNews \/ \A v \in Numbers : (<<m, v>> \in hashing'.hash <=> csecrets[m] # None /\ v = csecrets[m].value)
    <3>1. CASE m = n
      BY <2>10, <2>11, <3>1
    <3>2. CASE m # n
      BY <2>3, <2>8, <2>10, <3>2 DEF Tells
    <3> QED
      BY <3>1, <3>2
  <2>13. \A m \in SecretNames, v \in Numbers : <<m, v>> \in hashing'.hash => m \in RefsOf(config) \ hashing'.todo
    <3>1. SUFFICES ASSUME NEW m \in SecretNames, NEW v \in Numbers, <<m, v>> \in hashing'.hash
                   PROVE  m \in RefsOf(config) /\ m \notin hashing.todo \ {n}
      BY <2>3
    <3>2. <<m, v>> \in hashing.hash \/ m = n
      BY <2>10, <3>1
    <3>3. CASE <<m, v>> \in hashing.hash
      BY <2>8, <3>3
    <3>4. CASE m = n
      BY <2>9, <3>4
    <3> QED
      BY <3>2, <3>3, <3>4
  <2>14. hashing'.todo \subseteq RefsOf(config)
    BY <2>3, <2>8
  <2> QED
    BY <2>1, <2>3, <2>8, <2>12, <2>13, <2>14 DEF PassTells, Tells
<1>10. ASSUME reconcileModelConfigStatus PROVE PassTells' /\ StatusTells'
  <2> DEFINE old == hashing.config
             ok == \A n \in RefsOf(old) : \E v \in Numbers : <<n, v>> \in hashing.hash
             status == [hash |-> hashing.hash, observed |-> old.gen, accepted |-> ok]
  <2>1. UNCHANGED <<sort, cconfig, csecrets, secretNews>> /\ hashing # NoCall /\ hashing' = NoCall
        /\ hashing.todo = {} /\ hashing \in HashPasses
    BY <1>10, PassIs DEF reconcileModelConfigStatus
  <2>2. PassTells'
    BY <2>1 DEF PassTells
  <2>3. status.hash = hashing.hash /\ status.observed = old.gen /\ status.accepted = ok
    OBVIOUS
  <2>4. \/ status = old.status /\ stale' = (stale \/ (config # None /\ config.status # status))
           /\ UNCHANGED <<config, configDue>>
        \/ config = old /\ config' = [config EXCEPT !.status = status, !.rv = @ + 1] /\ UNCHANGED <<stale, configDue>>
        \/ configDue' = TRUE
    BY <1>10 DEF reconcileModelConfigStatus
  <2> HIDE DEF status
  <2>5. SUFFICES ASSUME ~Unhashable', ~stale'
                 PROVE  /\ config'.status.observed = config'.gen
                        /\ config'.status.accepted <=> \A n \in RefsOf(config') : \E v \in Numbers : <<n, v>> \in config'.status.hash
                        /\ \A n \in RefsOf(config') : Tells(config.status.hash, n)'
                        /\ \A n \in SecretNames, v \in Numbers : <<n, v>> \in config'.status.hash => n \in RefsOf(config')
    BY <2>2 DEF StatusTells, RefsOf
  <2>6. ~configDue' /\ config' # None
    BY <2>5 DEF Unhashable
  <2>7. ~configDue /\ config # None /\ config'.status = status /\ config'.gen = config.gen /\ config'.uid = config.uid
        /\ config'.ref = config.ref /\ config'.tls = config.tls
    <3>1. CASE status = old.status /\ stale' = (stale \/ (config # None /\ config.status # status))
               /\ UNCHANGED <<config, configDue>>
      BY <2>5, <2>6, <3>1
    <3>2. CASE config = old /\ config' = [config EXCEPT !.status = status, !.rv = @ + 1] /\ UNCHANGED <<stale, configDue>>
      <4>1. config \in Configs
        BY <2>1, <3>2 DEF HashPasses
      <4> QED
        BY <2>6, <3>2, <4>1, NoneIsNone DEF Configs
    <3> QED
      BY <2>4, <2>6, <3>1, <3>2
  <2>8. ~Unhashable
    BY <2>1, <2>5, <2>7 DEF Unhashable, SpecSeen
  <2>9. /\ old.uid = config.uid /\ old.gen = config.gen
        /\ \A n \in RefsOf(config) : Tells(hashing.hash, n)
        /\ \A n \in SecretNames, v \in Numbers : <<n, v>> \in hashing.hash => n \in RefsOf(config)
    BY <2>1, <2>8 DEF PassTells
  <2>10. RefsOf(config') = RefsOf(config) /\ RefsOf(old) = RefsOf(config)
    <3>1. old # None
      BY <2>1, NoneIsNone DEF HashPasses
    <3>2. old.ref = config.ref /\ old.tls = config.tls
      BY <2>1, <2>9, <3>1 DEF AllCopies, IsCopy
    <3> QED
      BY <2>7, <3>2 DEF RefsOf
  <2> HIDE DEF old
  <2> QED
    BY <2>1, <2>3, <2>7, <2>9, <2>10 DEF Tells
<1>11. \/ UNCHANGED <<sort, config, cconfig, csecrets, secretNews, configDue, hashing, stale>>
       \/ SeeConfig \/ ReconcileModelConfig \/ computeStatusSecretHash \/ reconcileModelConfigStatus
       \/ \E c \in Clients : CreateConfig(c) \/ UpdateConfig(c) \/ DeleteConfig(c)
       \/ \E n \in SecretNames : SeeSecret(n) \/ findModelsUsingSecret(n)
  <2> DEFINE Quiet == UNCHANGED <<sort, config, cconfig, csecrets, secretNews, configDue, hashing, stale>>
  <2>1. UNCHANGED configVars => Quiet
    BY DEF configVars
  <2>2. \A c \in Clients : HandleCreate(c) \/ HandleUpdate(c) \/ HandleDelete(c) => Quiet
    BY DEF HandleCreate, HandleUpdate, HandleDelete, BeginRequest
  <2>3. ASSUME NEW c \in Clients, CreateSecret(c) \/ GetSecret(c) \/ PutSecret(c) PROVE Quiet
    <3>1. stale' = stale
      BY <2>3 DEF CreateSecret, GetSecret, PutSecret, Grant, Refuse
    <3> QED
      BY <2>3, <3>1 DEF CreateSecret, GetSecret, PutSecret
  <2>4. \A n \in SecretNames : EditSecret(n) => Quiet
    BY DEF EditSecret
  <2>5. CollectSecret => Quiet
    BY DEF CollectSecret
  <2> HIDE DEF Quiet
  <2>6. \/ Quiet \/ SeeConfig \/ ReconcileModelConfig \/ computeStatusSecretHash \/ reconcileModelConfigStatus
        \/ \E c \in Clients : CreateConfig(c) \/ UpdateConfig(c) \/ DeleteConfig(c)
        \/ \E n \in SecretNames : SeeSecret(n) \/ findModelsUsingSecret(n)
    BY <2>1, <2>2, <2>3, <2>4, <2>5 DEF ConfigNext
  <2> QED
    BY <2>6 DEF Quiet
<1> QED
  BY <1>1, <1>2, <1>3, <1>4, <1>5, <1>6, <1>7, <1>8, <1>9, <1>10, <1>11

LEMMA ConfigStep ==
    ASSUME ConfigInv, [ConfigNext]_configVars
    PROVE  ConfigInv'
<1>1. ConfigTypeOK'
  BY ConfigTypeStep DEF ConfigInv
<1>2. AllCopies' /\ NumbersFresh'
  BY <1>1, CopiesStep DEF ConfigInv
<1>3. RequestsInOrder'
  BY <1>1, OrderStep DEF ConfigInv
<1>4. PromiseKept' /\ GrantsHold'
  BY <1>1, <1>3, PromiseStep DEF ConfigInv, PromiseInv
<1>5. PassTells' /\ StatusTells'
  BY <1>1, HashStep DEF ConfigInv
<1> QED
  BY <1>1, <1>2, <1>3, <1>4, <1>5 DEF ConfigInv

LEMMA AtBound ==
    ASSUME NEW n \in Nat, NEW m, m = n
    PROVE  m \in 0..n
OBVIOUS

LEMMA ZeroIsNotPositive ==
    ASSUME NEW n, n = 0
    PROVE  ~(n > 0)
OBVIOUS

LEMMA ConfigInitInv ==
    ASSUME ConfigInit
    PROVE  ConfigInv
<1>0. requests = MaxRequests /\ promised = 0
  BY DEF ConfigInit
<1>1. 0 \in Numbers /\ 1 \in Numbers \ {0} /\ 1 \in Numbers /\ 0 < Request /\ 1 < Request
  <2>1. 0 \in Numbers /\ 1 \in Numbers /\ 1 # 0
    BY ConfigAssumption DEF Numbers
  <2>2. Request = 2
    BY <1>0, ConfigAssumption DEF Request
  <2>3. 0 < Request /\ 1 < Request
    BY <2>2
  <2> QED
    BY <2>1, <2>3
<1>2. PICK tls, ref, owner \in {"", "m", "ca"} :
        /\ config \in {None, NewConfig(1, ref, tls)}
        /\ <<config.uid, ref, tls, owner>> \in {<<0, "", "", "">>, <<1, "m", "", "m">>}
             \cup {o \in {<<1, "m", "ca", "">>, <<1, "ca", "ca", "">>} : sort = "ModelConfig"}
        /\ secrets = [n \in SecretNames |->
                        IF config # None /\ n \in {ref, tls} THEN Secret(1, IF owner = n THEN 1 ELSE 0, 1) ELSE None]
  BY DEF ConfigInit
<1>3. NewConfig(1, ref, tls) \in Configs
  BY <1>1, NewConfigType DEF SecretNames
<1>4. config \in Configs \cup {None}
  BY <1>2, <1>3
<1>5. secrets \in [SecretNames -> SecretRows \cup {None}]
  <2>1. \A n \in SecretNames : Secret(1, IF owner = n THEN 1 ELSE 0, 1) \in SecretRows
    BY <1>1, SecretType
  <2> QED
    BY <1>2, <2>1
<1>6. ConfigTypeOK
  <2>1. requests \in 0..MaxRequests
    BY <1>0, ConfigAssumption, AtBound
  <2>2. client \in [Clients -> UnderWay \cup {NoCall}]
    BY DEF ConfigInit
  <2> QED
    BY <1>1, <1>4, <1>5, <2>1, <2>2 DEF ConfigInit, ConfigTypeOK
<1>7. \A c \in Clients : ~Busy(c)
  BY DEF ConfigInit, Busy
<1>8. AllCopies
  <2>1. config # None => config.rv \in Nat /\ config.gen \in Nat
    BY <1>4 DEF Configs
  <2>2. config # None => config.rv <= config.rv /\ config.gen <= config.gen
    BY <2>1, SameOrder
  <2> QED
    BY <1>7, <2>2 DEF ConfigInit, AllCopies, IsCopy
<1>9. NumbersFresh
  <2>1. config.uid \in {0, 1} /\ cconfig = config /\ hashing = NoCall
    BY <1>2, NoneIsNone DEF NewConfig, ConfigInit
  <2>2. config.uid < Request
    <3>1. CASE config.uid = 0
      BY <1>1, <3>1
    <3>2. CASE config.uid = 1
      BY <1>1, <3>2
    <3> QED
      BY <2>1, <3>1, <3>2
  <2> QED
    BY <1>7, <2>1, <2>2 DEF NumbersFresh
<1>10. RequestsInOrder /\ GrantsHold
  BY <1>7 DEF RequestsInOrder, GrantsHold
<1>11. PromiseKept
  <2>1. ~(promised > 0)
    BY <1>0, ZeroIsNotPositive
  <2> QED
    BY <2>1 DEF PromiseKept
<1>12. config = None \/ configDue
  BY DEF ConfigInit
<1> QED
  BY <1>6, <1>8, <1>9, <1>10, <1>11, <1>12 DEF ConfigInv, PassTells, StatusTells, Unhashable

\* Whatever is requested, edited, lost or seen late, the config, its Secrets, the
\* caches and the requests under way are what the handlers and the controller take
\* them for (handlers/modelconfig.go:262-593, reconciler.go:216-337).
THEOREM ConfigTypeCorrect ==
    ConfigSpec => []ConfigTypeOK
<1>1. ConfigInv => ConfigTypeOK
  BY DEF ConfigInv
<1> QED
  BY <1>1, ConfigInitInv, ConfigStep, PTL DEF ConfigSpec

\* Whatever handlers, kubectl and the garbage collector do at the same time: when no
\* request is under way, a key that was promised is in the config's Secret, unless a
\* refused request or kubectl has stored a later one (modelconfig.go:442-455 and
\* 518-530, utils.go:55-77).
THEOREM PromiseIsKept ==
    ConfigSpec => []PromisedKeyIsStored
<1>1. ConfigInv => PromisedKeyIsStored
  <2>1. SUFFICES ASSUME ConfigInv, config # None, promised > 0, \A c \in Clients : client[c] = NoCall
                 PROVE  secrets["m"] # None /\ secrets["m"].value \in {promised} \cup loose
    BY DEF PromisedKeyIsStored
  <2>2. StoredKeys = {}
    BY <2>1 DEF StoredKeys, Busy
  <2> QED
    BY <2>1, <2>2 DEF ConfigInv, PromiseKept, Safe
<1> QED
  BY <1>1, ConfigInitInv, ConfigStep, PTL DEF ConfigSpec

LEMMA HashAtRest ==
    ASSUME ConfigInv, ConfigAtRest, ~stale
    PROVE  HashIsCurrent
<1> DEFINE there == {n \in RefsOf(config) : secrets[n] # None}
           hash  == {<<n, secrets[n].value>> : n \in there}
           st    == config.status
<1>1. config \in Configs /\ csecrets = secrets /\ secretNews = {} /\ hashing = NoCall
  BY DEF ConfigInv, ConfigTypeOK, ConfigAtRest
<1>2. ~Unhashable
  BY DEF ConfigAtRest, Unhashable, SpecSeen
<1>3. st \in Statuses
  BY <1>1 DEF Configs
<1>4. st.hash \subseteq SecretNames \X Numbers /\ st.accepted \in BOOLEAN
  BY <1>3 DEF Statuses, Hashes
<1>5. /\ st.observed = config.gen
      /\ st.accepted <=> \A n \in RefsOf(config) : \E v \in Numbers : <<n, v>> \in st.hash
      /\ \A n \in RefsOf(config) : Tells(st.hash, n)
      /\ \A n \in SecretNames, v \in Numbers : <<n, v>> \in st.hash => n \in RefsOf(config)
  BY <1>1, <1>2 DEF ConfigInv, StatusTells
<1>6. RefsOf(config) \subseteq SecretNames
  BY <1>1 DEF Configs, RefsOf
<1>7. \A n \in there : secrets[n].value \in Numbers
  BY <1>6 DEF ConfigInv, ConfigTypeOK, SecretRows
<1>8. \A n \in RefsOf(config), v \in Numbers : <<n, v>> \in st.hash <=> secrets[n] # None /\ v = secrets[n].value
  BY <1>1, <1>5 DEF Tells
<1> HIDE DEF st
<1>9. st.hash = hash
  <2>1. ASSUME NEW p \in st.hash PROVE p \in hash
    <3>1. PICK n \in SecretNames, v \in Numbers : p = <<n, v>>
      BY <1>4
    <3>2. n \in RefsOf(config)
      BY <1>5, <3>1
    <3>3. secrets[n] # None /\ v = secrets[n].value
      BY <1>8, <3>1, <3>2
    <3> QED
      BY <3>1, <3>2, <3>3
  <2>2. \A n \in there : <<n, secrets[n].value>> \in st.hash
    BY <1>7, <1>8
  <2> QED
    BY <2>1, <2>2
<1>10. st.accepted = (there = RefsOf(config))
  <2>1. ASSUME NEW n \in RefsOf(config)
        PROVE  (\E v \in Numbers : <<n, v>> \in st.hash) <=> n \in there
    BY <1>7, <1>8
  <2> QED
    BY <1>4, <1>5, <2>1
<1> HIDE DEF hash, there
<1>11. st = [hash |-> hash, accepted |-> (there = RefsOf(config)), observed |-> config.gen]
  BY <1>3, <1>5, <1>9, <1>10 DEF Statuses
<1> QED
  BY <1>11 DEF HashIsCurrent, st, hash, there

\* Whatever Secrets, configs, handlers and caches do between two reads of a pass:
\* when nothing is left to be seen or done, the status tells the Secrets the spec
\* names, unless a pass compared its status with a late cache's
\* (reconciler.go:216-337, modelconfig_controller.go:61-132).
THEOREM HashIsRight ==
    ConfigSpec => []HashTellsSecrets
<1>1. ConfigInv => HashTellsSecrets
  BY HashAtRest DEF HashTellsSecrets
<1> QED
  BY <1>1, ConfigInitInv, ConfigStep, PTL DEF ConfigSpec

----------------------------------------------------------------------------
(* The mux (A2AHandlers). *)

AgentState == [gen : Nat, spec : CardSpecs \cup {"none"}]
ToldChange     == [name : A2AAgents, old : AgentState, new : AgentState]

A2ATypes ==
    /\ a2aAgent \in [A2AAgents -> AgentState] /\ seenAgent \in [A2AAgents -> AgentState]
    /\ told \in Seq(ToldChange) /\ unset \in SUBSET A2AAgents
    /\ DOMAIN handlers = A2AAgents

\* How an Agent in this state is served.
Card(x) == IF x = Gone THEN NoHandler ELSE x.spec

Between(i, j) == {k \in DOMAIN told : i < k /\ k < j}
ToldAfter(i)      == {k \in DOMAIN told : i < k}
Named(ks, a)  == \E k \in ks : told[k].name = a

\* The changes of an Agent that are still to be told lead, each from where the one
\* before it ended, from how the Agent is served to what the informer has seen.
LastIsSeen ==
    \A i \in DOMAIN told : ~Named(ToldAfter(i), told[i].name) => told[i].new = seenAgent[told[i].name]
EachFollows ==
    \A i, j \in DOMAIN told :
        (i < j /\ told[i].name = told[j].name /\ ~Named(Between(i, j), told[i].name))
            => told[j].old = told[i].new
FirstIsServed ==
    \A a \in A2AAgents \ unset :
        /\ ~Named(DOMAIN told, a) => handlers[a] = Card(seenAgent[a])
        /\ \A i \in DOMAIN told :
              (told[i].name = a /\ ~Named(Between(0, i), a)) => handlers[a] = Card(told[i].old)

A2AInv == A2ATypes /\ LastIsSeen /\ EachFollows /\ FirstIsServed

----------------------------------------------------------------------------
LEMMA GoneIsAgentState == Gone \in AgentState
  BY DEF Gone, AgentState

LEMMA ChangeNames ==
    ASSUME NEW s \in Seq(ToldChange), NEW i \in DOMAIN s
    PROVE  s[i] \in ToldChange /\ s[i].name \in A2AAgents
  <1>1. s[i] \in ToldChange
    OBVIOUS
  <1> QED
    BY <1>1 DEF ToldChange

LEMMA InitA2AInv == A2AInit => A2AInv
  <1> SUFFICES ASSUME A2AInit PROVE A2AInv
    OBVIOUS
  <1>1. told = <<>> /\ DOMAIN told = {}
    BY DEF A2AInit
  <1>2. A2ATypes
    BY GoneIsAgentState DEF A2AInit, A2ATypes
  <1> QED
    BY <1>1, <1>2 DEF A2AInit, A2AInv, LastIsSeen, EachFollows, FirstIsServed, Card

LEMMA RestartKeepsInv == A2AInv /\ RestartReplica => A2AInv'
  <1> SUFFICES ASSUME A2AInv, RestartReplica PROVE A2AInv'
    OBVIOUS
  <1>1. told' = <<>> /\ DOMAIN told' = {}
    BY DEF RestartReplica
  <1>2. A2ATypes'
    BY GoneIsAgentState DEF RestartReplica, A2AInv, A2ATypes
  <1> QED
    BY <1>1, <1>2 DEF RestartReplica, A2AInv, LastIsSeen, EachFollows, FirstIsServed, Card

LEMMA EditKeepsInv ==
    ASSUME A2AInv, NEW a \in A2AAgents, EditA2AAgent(a)
    PROVE  A2AInv'
  <1>1. a2aAgent' \in [A2AAgents -> AgentState]
    <2> PICK s \in CardSpecs \cup {"none"} :
            a2aAgent' = [a2aAgent EXCEPT ![a] = IF s = "none" THEN Gone ELSE [gen |-> @.gen + 1, spec |-> s]]
      BY DEF EditA2AAgent
    <2> QED
      BY GoneIsAgentState DEF A2AInv, A2ATypes, AgentState
  <1> QED
    BY <1>1 DEF EditA2AAgent, A2AInv, A2ATypes, LastIsSeen, EachFollows, FirstIsServed,
                Named, ToldAfter, Between

LEMMA TellKeepsInv ==
    ASSUME A2AInv, NEW a \in A2AAgents, Tell(a)
    PROVE  A2AInv'
  <1> DEFINE e == [name |-> a, old |-> seenAgent[a], new |-> a2aAgent[a]]
             n == Len(told) + 1
  <1>1. /\ told' = Append(told, e) /\ seenAgent' = [seenAgent EXCEPT ![a] = a2aAgent[a]]
        /\ UNCHANGED <<handlers, unset, a2aAgent>> /\ e \in ToldChange
    BY DEF Tell, A2AInv, A2ATypes, ToldChange
  <1>2. /\ Len(told) \in Nat /\ DOMAIN told = 1..Len(told) /\ DOMAIN told' = 1..n
        /\ told'[n] = e /\ \A i \in DOMAIN told : told'[i] = told[i]
    BY <1>1 DEF A2AInv, A2ATypes
  <1>3. A2ATypes'
    BY <1>1 DEF A2AInv, A2ATypes
  <1> HIDE DEF e, n
  <1>4. e.name = a /\ e.old = seenAgent[a] /\ e.new = seenAgent'[a]
    BY <1>1 DEF e, A2AInv, A2ATypes
  <1>n. n = Len(told) + 1 /\ n \in DOMAIN told' /\ \A i \in DOMAIN told : i < n /\ i \in DOMAIN told'
    BY <1>2 DEF n
  <1>m. \A i \in DOMAIN told' : i = n \/ i \in DOMAIN told
    BY <1>2 DEF n
  <1>5. LastIsSeen'
    <2> SUFFICES ASSUME NEW i \in DOMAIN told', ~Named(ToldAfter(i), told[i].name)'
                 PROVE  told'[i].new = seenAgent'[told'[i].name]
      BY DEF LastIsSeen
    <2>1. CASE i = n
      BY <2>1, <1>2, <1>4
    <2>2. CASE i \in DOMAIN told
      <3>1. told[i].name # a
        BY <2>2, <1>2, <1>4, <1>n DEF Named, ToldAfter
      <3>2. ~Named(ToldAfter(i), told[i].name)
        BY <2>2, <1>2, <1>n DEF Named, ToldAfter
      <3>3. told[i].name \in A2AAgents
        BY <2>2, ChangeNames DEF A2AInv, A2ATypes
      <3> QED
        BY <2>2, <3>1, <3>2, <3>3, <1>1, <1>2 DEF A2AInv, A2ATypes, LastIsSeen
    <2> QED
      BY <2>1, <2>2, <1>m
  <1>6. EachFollows'
    <2> SUFFICES ASSUME NEW i \in DOMAIN told', NEW j \in DOMAIN told', i < j,
                        told'[i].name = told'[j].name, ~Named(Between(i, j), told[i].name)'
                 PROVE  told'[j].old = told'[i].new
      BY DEF EachFollows
    <2>1. i \in DOMAIN told
      BY <1>2, <1>m DEF n
    <2>2. CASE j = n
      <3>1. ~Named(ToldAfter(i), told[i].name)
        BY <2>1, <2>2, <1>2, <1>n DEF Named, Between, ToldAfter
      <3> QED
        BY <2>1, <2>2, <3>1, <1>2, <1>4 DEF A2AInv, LastIsSeen
    <2>3. CASE j \in DOMAIN told
      <3>1. ~Named(Between(i, j), told[i].name)
        BY <2>1, <2>3, <1>2, <1>n DEF Named, Between
      <3> QED
        BY <2>1, <2>3, <3>1, <1>2 DEF A2AInv, EachFollows
    <2> QED
      BY <2>2, <2>3, <1>m
  <1>7. FirstIsServed'
    <2> SUFFICES ASSUME NEW b \in A2AAgents \ unset
                 PROVE  /\ ~Named(DOMAIN told, b)' => handlers[b] = Card(seenAgent'[b])
                        /\ \A i \in DOMAIN told' :
                              (told'[i].name = b /\ ~Named(Between(0, i), b)')
                                 => handlers[b] = Card(told'[i].old)
      BY <1>1 DEF FirstIsServed, Card
    <2>1. ASSUME ~Named(DOMAIN told, b)' PROVE handlers[b] = Card(seenAgent'[b])
      <3>1. b # a /\ ~Named(DOMAIN told, b)
        BY <2>1, <1>2, <1>4, <1>n DEF Named
      <3> QED
        BY <3>1, <1>1 DEF A2AInv, A2ATypes, FirstIsServed
    <2>2. ASSUME NEW i \in DOMAIN told', told'[i].name = b, ~Named(Between(0, i), b)'
          PROVE  handlers[b] = Card(told'[i].old)
      <3>1. CASE i = n
        <4>1. ~Named(DOMAIN told, b)
          BY <2>2, <3>1, <1>2, <1>n DEF Named, Between
        <4> QED
          BY <2>2, <3>1, <4>1, <1>2, <1>4 DEF A2AInv, FirstIsServed
      <3>2. CASE i \in DOMAIN told
        <4>1. ~Named(Between(0, i), b)
          BY <2>2, <3>2, <1>2, <1>n DEF Named, Between
        <4> QED
          BY <2>2, <3>2, <4>1, <1>2 DEF A2AInv, FirstIsServed
      <3> QED
        BY <3>1, <3>2, <1>m
    <2> QED
      BY <2>1, <2>2
  <1> QED
    BY <1>3, <1>5, <1>6, <1>7 DEF A2AInv

\* What handling a change leaves of its Agent: served as the change says, or unset.
LEMMA HandledIsServed ==
    ASSUME A2AInv, HandleAgentEvent
    PROVE  LET c == Head(told) IN
           /\ c.name \notin unset' => handlers'[c.name] = Card(c.new)
           /\ \A b \in A2AAgents : b # c.name => handlers'[b] = handlers[b] /\ (b \in unset' <=> b \in unset)
           /\ DOMAIN handlers' = A2AAgents /\ unset' \in SUBSET A2AAgents
           /\ told # <<>> /\ told' = Tail(told) /\ UNCHANGED <<a2aAgent, seenAgent>>
  <1> DEFINE c == Head(told)
  <1>1. told # <<>> /\ c = told[1] /\ c \in ToldChange /\ 1 \in DOMAIN told
    BY DEF HandleAgentEvent, A2AInv, A2ATypes
  <1>2. /\ c.name \in A2AAgents /\ c.old \in AgentState /\ c.new \in AgentState
    BY <1>1 DEF ToldChange
  <1>3. c.name \notin unset => handlers[c.name] = Card(c.old)
    BY <1>1, <1>2 DEF A2AInv, A2ATypes, FirstIsServed, Named, Between
  <1>4. CASE c.new # Gone /\ (c.old = Gone \/ Changed(c.old, c.new))
    BY <1>1, <1>2, <1>4 DEF HandleAgentEvent, upsertAgentHandler, SetAgentHandler, Card, A2AInv, A2ATypes
  <1>5. CASE c.new # Gone /\ ~(c.old = Gone \/ Changed(c.old, c.new))
    <2>1. c.old = c.new
      BY <1>2, <1>5 DEF Changed, AgentState
    <2> QED
      BY <1>1, <1>2, <1>3, <1>5, <2>1 DEF HandleAgentEvent, A2AInv, A2ATypes
  <1>6. CASE c.new = Gone
    BY <1>1, <1>2, <1>6 DEF HandleAgentEvent, RemoveAgentHandler, Card, A2AInv, A2ATypes
  <1> QED
    BY <1>4, <1>5, <1>6

LEMMA HandleKeepsInv == A2AInv /\ HandleAgentEvent => A2AInv'
  <1> SUFFICES ASSUME A2AInv, HandleAgentEvent PROVE A2AInv'
    OBVIOUS
  <1> DEFINE c == Head(told)
  <1>1. /\ c.name \notin unset' => handlers'[c.name] = Card(c.new)
        /\ \A b \in A2AAgents : b # c.name => handlers'[b] = handlers[b] /\ (b \in unset' <=> b \in unset)
        /\ DOMAIN handlers' = A2AAgents /\ unset' \in SUBSET A2AAgents
        /\ told # <<>> /\ told' = Tail(told) /\ UNCHANGED <<a2aAgent, seenAgent>>
    BY HandledIsServed
  <1>2. /\ Len(told) \in Nat \ {0} /\ DOMAIN told = 1..Len(told) /\ c = told[1]
        /\ DOMAIN told' = 1..(Len(told) - 1) /\ \A i \in DOMAIN told' : told'[i] = told[i + 1]
        /\ told' \in Seq(ToldChange) /\ c \in ToldChange
    BY <1>1 DEF A2AInv, A2ATypes
  <1>3. A2ATypes'
    BY <1>1, <1>2 DEF A2AInv, A2ATypes
  <1> HIDE DEF c
  <1>s. \A i \in DOMAIN told' : i + 1 \in DOMAIN told /\ 1 < i + 1 /\ i \in Nat \ {0}
    BY <1>2
  <1>t. \A k \in DOMAIN told : k = 1 \/ (k - 1 \in DOMAIN told' /\ told'[k - 1] = told[k])
    BY <1>2
  <1>4. \A i \in DOMAIN told' : Named(ToldAfter(i), told[i].name)' <=> Named(ToldAfter(i + 1), told[i + 1].name)
    <2> SUFFICES ASSUME NEW i \in DOMAIN told'
                 PROVE  Named(ToldAfter(i), told[i].name)' <=> Named(ToldAfter(i + 1), told[i + 1].name)
      OBVIOUS
    <2>1. ASSUME NEW k \in DOMAIN told', i < k, told'[k].name = told'[i].name
          PROVE  k + 1 \in DOMAIN told /\ i + 1 < k + 1 /\ told[k + 1].name = told[i + 1].name
      BY <1>2, <1>s, <2>1
    <2>2. ASSUME NEW k \in DOMAIN told, i + 1 < k, told[k].name = told[i + 1].name
          PROVE  k - 1 \in DOMAIN told' /\ i < k - 1 /\ told'[k - 1].name = told'[i].name
      <3>1. i \in Nat \ {0} /\ k \in Nat /\ told'[i] = told[i + 1]
        BY <1>2
      <3>2. k # 1 /\ i < k - 1
        BY <2>2, <3>1
      <3> QED
        BY <2>2, <3>1, <3>2, <1>t
    <2> QED
      BY <2>1, <2>2 DEF Named, ToldAfter
  <1>5. \A i \in {0} \cup DOMAIN told', j \in DOMAIN told' : \A a \in A2AAgents :
            Named(Between(i, j), a)' <=> Named(Between(i + 1, j + 1), a)
    <2> SUFFICES ASSUME NEW i \in {0} \cup DOMAIN told', NEW j \in DOMAIN told', NEW a \in A2AAgents
                 PROVE  Named(Between(i, j), a)' <=> Named(Between(i + 1, j + 1), a)
      OBVIOUS
    <2>1. ASSUME NEW k \in DOMAIN told', i < k, k < j, told'[k].name = a
          PROVE  k + 1 \in DOMAIN told /\ i + 1 < k + 1 /\ k + 1 < j + 1 /\ told[k + 1].name = a
      BY <1>2, <1>s, <2>1
    <2>2. ASSUME NEW k \in DOMAIN told, i + 1 < k, k < j + 1, told[k].name = a
          PROVE  k - 1 \in DOMAIN told' /\ i < k - 1 /\ k - 1 < j /\ told'[k - 1].name = a
      <3>1. i \in Nat /\ j \in Nat /\ k \in Nat
        BY <1>2
      <3>2. k # 1 /\ i < k - 1 /\ k - 1 < j
        BY <2>2, <3>1
      <3> QED
        BY <2>2, <3>2, <1>t
    <2> QED
      BY <2>1, <2>2 DEF Named, Between
  <1>6. LastIsSeen'
    BY <1>1, <1>2, <1>4, <1>s DEF A2AInv, LastIsSeen
  <1>7. \A i \in DOMAIN told' : told'[i].name \in A2AAgents
    BY <1>2, ChangeNames
  <1>8. EachFollows'
    <2> SUFFICES ASSUME NEW i \in DOMAIN told', NEW j \in DOMAIN told', i < j,
                        told'[i].name = told'[j].name, ~Named(Between(i, j), told[i].name)'
                 PROVE  told'[j].old = told'[i].new
      BY DEF EachFollows
    <2>1. ~Named(Between(i + 1, j + 1), told[i + 1].name)
      BY <1>2, <1>5, <1>7
    <2>2. i + 1 < j + 1 /\ i + 1 \in DOMAIN told /\ j + 1 \in DOMAIN told
      BY <1>2
    <2> QED
      BY <2>1, <2>2, <1>2 DEF A2AInv, EachFollows
  <1>9. FirstIsServed'
    <2> SUFFICES ASSUME NEW b \in A2AAgents, b \notin unset'
                 PROVE  /\ ~Named(DOMAIN told, b)' => handlers'[b] = Card(seenAgent[b])
                        /\ \A i \in DOMAIN told' :
                              (told'[i].name = b /\ ~Named(Between(0, i), b)')
                                 => handlers'[b] = Card(told'[i].old)
      BY <1>1 DEF FirstIsServed, Card
    <2>1. CASE b = c.name
      <3>0. handlers'[b] = Card(c.new)
        BY <2>1, <1>1 DEF c
      <3>1. ASSUME ~Named(DOMAIN told, b)' PROVE handlers'[b] = Card(seenAgent[b])
        <4>1. ~Named(ToldAfter(1), told[1].name)
          BY <3>1, <2>1, <1>2, <1>t DEF Named, ToldAfter
        <4> QED
          BY <3>0, <4>1, <2>1, <1>2 DEF A2AInv, LastIsSeen
      <3>2. ASSUME NEW i \in DOMAIN told', told'[i].name = b, ~Named(Between(0, i), b)'
            PROVE  handlers'[b] = Card(told'[i].old)
        <4>1. ~Named(Between(1, i + 1), told[1].name)
          <5>1. ~Named(Between(0 + 1, i + 1), b)
            BY <3>2, <1>5
          <5>2. b = told[1].name
            BY <2>1, <1>2
          <5>3. 0 + 1 = 1
            OBVIOUS
          <5> QED
            BY <5>1, <5>2, <5>3
        <4>2. told[i + 1].old = told[1].new
          BY <3>2, <4>1, <2>1, <1>2, <1>s DEF A2AInv, EachFollows
        <4> QED
          BY <3>0, <4>2, <1>2
      <3> QED
        BY <3>1, <3>2
    <2>2. CASE b # c.name
      <3>0. handlers'[b] = handlers[b] /\ b \notin unset
        BY <2>2, <1>1 DEF c
      <3>1. ASSUME ~Named(DOMAIN told, b)' PROVE handlers'[b] = Card(seenAgent[b])
        <4>1. ~Named(DOMAIN told, b)
          BY <3>1, <2>2, <1>2, <1>t DEF Named
        <4> QED
          BY <3>0, <4>1 DEF A2AInv, FirstIsServed
      <3>2. ASSUME NEW i \in DOMAIN told', told'[i].name = b, ~Named(Between(0, i), b)'
            PROVE  handlers'[b] = Card(told'[i].old)
        <4>1. ~Named(Between(0 + 1, i + 1), b)
          BY <3>2, <1>5
        <4>2. ~Named(Between(0, i + 1), b)
          BY <4>1, <2>2, <1>2 DEF Named, Between
        <4> QED
          BY <3>0, <3>2, <4>2, <1>2, <1>s DEF A2AInv, FirstIsServed
      <3> QED
        BY <3>1, <3>2
    <2> QED
      BY <2>1, <2>2
  <1> QED
    BY <1>3, <1>6, <1>8, <1>9 DEF A2AInv

LEMMA NextA2AInv == A2AInv /\ [A2ANext]_a2aVars => A2AInv'
  <1> SUFFICES ASSUME A2AInv, [A2ANext]_a2aVars PROVE A2AInv'
    OBVIOUS
  <1>1. CASE UNCHANGED a2aVars
    BY <1>1 DEF a2aVars, A2AInv, A2ATypes, LastIsSeen, EachFollows, FirstIsServed, Named, ToldAfter, Between
  <1>2. CASE A2ANext
    BY <1>2, EditKeepsInv, TellKeepsInv, HandleKeepsInv, RestartKeepsInv DEF A2ANext
  <1> QED
    BY <1>1, <1>2

\* Once every change was seen and handled, each Agent is served under its present
\* card, and nothing else is, unless its last upsert failed
\* (go/internal/a2a/a2a_registrar.go:67-152).
THEOREM MuxIsRight == A2ASpec => []MuxServesAgents
  <1>1. A2AInit => A2AInv
    BY InitA2AInv
  <1>2. A2AInv /\ [A2ANext]_a2aVars => A2AInv'
    BY NextA2AInv
  <1>3. A2AInv => MuxServesAgents
    <2>1. told = <<>> => ~\E k \in DOMAIN told : TRUE
      OBVIOUS
    <2> QED
      BY <2>1 DEF A2AInv, FirstIsServed, Named, MuxServesAgents, ServeHTTP, Card
  <1> QED
    BY <1>1, <1>2, <1>3, PTL DEF A2ASpec

----------------------------------------------------------------------------
(* The mux: types. *)

\* An Agent there is has a card; the informer tells of changes only.
KnownAgents == [gen : Nat, spec : CardSpecs] \cup {Gone}
KnownChanges == {c \in [name : A2AAgents, old : KnownAgents, new : KnownAgents] : c.old # c.new}

MuxTypes ==
    /\ a2aAgent \in [A2AAgents -> KnownAgents] /\ seenAgent \in [A2AAgents -> KnownAgents]
    /\ told \in Seq(KnownChanges)
    /\ handlers \in [A2AAgents -> CardSpecs \cup {NoHandler}] /\ unset \in SUBSET A2AAgents
    /\ agentEdits \in 0..MaxAgentEdits /\ handlerFaults \in 0..MaxHandlerFaults /\ restarts \in 0..MaxRestarts

LEMMA InitMuxTypes == A2AInit => MuxTypes
  BY A2AAssumption DEF A2AInit, MuxTypes, KnownAgents

LEMMA NextMuxTypes == MuxTypes /\ [A2ANext]_a2aVars => MuxTypes'
  <1> SUFFICES ASSUME MuxTypes, [A2ANext]_a2aVars PROVE MuxTypes'
    OBVIOUS
  <1> USE A2AAssumption
  <1>1. CASE UNCHANGED a2aVars
    BY <1>1 DEF a2aVars, MuxTypes
  <1>2. ASSUME NEW a \in A2AAgents, EditA2AAgent(a) PROVE MuxTypes'
    <2> PICK s \in CardSpecs \cup {"none"} :
            a2aAgent' = [a2aAgent EXCEPT ![a] = IF s = "none" THEN Gone ELSE [gen |-> @.gen + 1, spec |-> s]]
      BY <1>2 DEF EditA2AAgent
    <2>1. a2aAgent[a].gen \in Nat
      BY DEF MuxTypes, KnownAgents, Gone
    <2>2. (IF s = "none" THEN Gone ELSE [gen |-> a2aAgent[a].gen + 1, spec |-> s]) \in KnownAgents
      BY <2>1 DEF KnownAgents
    <2>3. a2aAgent' \in [A2AAgents -> KnownAgents]
      BY <2>2 DEF MuxTypes
    <2> QED
      BY <1>2, <2>3 DEF EditA2AAgent, MuxTypes
  <1>3. ASSUME NEW a \in A2AAgents, Tell(a) PROVE MuxTypes'
    <2>1. [name |-> a, old |-> seenAgent[a], new |-> a2aAgent[a]] \in KnownChanges
      BY <1>3 DEF Tell, MuxTypes, KnownChanges
    <2> QED
      BY <1>3, <2>1 DEF Tell, MuxTypes
  <1>4. CASE HandleAgentEvent
    <2>1. Head(told) \in KnownChanges /\ told' \in Seq(KnownChanges)
      BY <1>4 DEF HandleAgentEvent, MuxTypes
    <2>2. Head(told).name \in A2AAgents /\ (Head(told).new # Gone => Head(told).new.spec \in CardSpecs)
      BY <2>1 DEF KnownChanges, KnownAgents
    <2>3. CASE Head(told).new # Gone /\ upsertAgentHandler(Head(told).name, Head(told).new)
      BY <1>4, <2>1, <2>2, <2>3 DEF HandleAgentEvent, upsertAgentHandler, SetAgentHandler, MuxTypes
    <2>4. CASE RemoveAgentHandler(Head(told).name) /\ unset' = unset \ {Head(told).name} /\ UNCHANGED handlerFaults
      BY <1>4, <2>1, <2>2, <2>4 DEF HandleAgentEvent, RemoveAgentHandler, MuxTypes
    <2>5. CASE UNCHANGED <<handlers, unset, handlerFaults>>
      BY <1>4, <2>1, <2>5 DEF HandleAgentEvent, MuxTypes
    <2> QED
      BY <1>4, <2>3, <2>4, <2>5 DEF HandleAgentEvent
  <1>5. CASE RestartReplica
    BY <1>5 DEF RestartReplica, MuxTypes, KnownAgents
  <1> QED
    BY <1>1, <1>2, <1>3, <1>4, <1>5 DEF A2ANext

\* The mux holds cards of Agents, and the changes still to be told are changes of
\* Agents (go/internal/a2a/a2a_registrar.go:67-152, a2a_handler_mux.go:46-107).
THEOREM MuxTypeCorrect == A2ASpec => []A2ATypeOK
  <1>1. MuxTypes => A2ATypeOK
    <2> SUFFICES ASSUME MuxTypes PROVE A2ATypeOK
      OBVIOUS
    <2>1. \A x \in KnownAgents : x.spec \in CardSpecs \cup {"none"}
      BY DEF KnownAgents, Gone
    <2>2. \A i \in DOMAIN told : told[i] \in KnownChanges
      BY DEF MuxTypes
    <2>3. \A i \in DOMAIN told : told[i].name \in A2AAgents /\ told[i].old # told[i].new
      BY <2>2 DEF KnownChanges
    <2> QED
      BY <2>1, <2>3 DEF MuxTypes, A2ATypeOK
  <1> QED
    BY <1>1, InitMuxTypes, NextMuxTypes, PTL DEF A2ASpec

----------------------------------------------------------------------------
(* Initialize and Reset (DbManager). *)

ManagerJobs == [do : {"migrate"}, what : {"initialize"}, left : SUBSET DbModels]
        \cup [do : {"drop"}, what : {"reset", "recreate"}, left : SUBSET DbModels]

\* Who does something holds the lock, so that one caller at most does, and the
\* tables it has come to are as it leaves them.
LockHeld == \A c \in Callers : task[c] # Nothing => initLock = c

DoneSoFar == \A c \in Callers : task[c] # Nothing =>
    IF task[c].do = "migrate" THEN DbModels \ task[c].left \subseteq tables
    ELSE tables \subseteq task[c].left

ManagerInv ==
    /\ tables \in SUBSET DbModels /\ initLock \in Callers \cup {"free"}
    /\ task \in [Callers -> ManagerJobs \cup {Nothing}]
    /\ LockHeld /\ DoneSoFar

----------------------------------------------------------------------------
LEMMA InitManagerInv == ManagerInit => ManagerInv
  BY DEF ManagerInit, ManagerInv, LockHeld, DoneSoFar

\* What a caller is doing tells it from one that does nothing.
LEMMA JobNotNothing == \A j \in ManagerJobs : j # Nothing /\ j.left \subseteq DbModels
  BY DEF ManagerJobs, Nothing

LEMMA BusyHolds ==
    ASSUME ManagerInv, NEW c \in Callers, task[c].do \in {"migrate", "drop"}
    PROVE  task[c] \in ManagerJobs /\ initLock = c /\ \A d \in Callers \ {c} : task[d] = Nothing
  <1>1. task[c] # Nothing /\ task[c] \in ManagerJobs
    BY DEF ManagerInv, Nothing
  <1> QED
    BY <1>1 DEF ManagerInv, LockHeld

\* A call that returns leaves nobody at work.
LEMMA ReturnKeepsInv ==
    ASSUME ManagerInv, NEW c \in Callers, task[c].do \in {"migrate", "drop"},
           NEW what, NEW ok, Returns(c, what, ok), tables' = tables
    PROVE  ManagerInv'
  <1>1. \A d \in Callers : task'[d] = Nothing
    BY BusyHolds DEF Returns, ManagerInv
  <1>2. task' \in [Callers -> ManagerJobs \cup {Nothing}]
    BY DEF Returns, ManagerInv
  <1> QED
    BY <1>1, <1>2 DEF Returns, ManagerInv, LockHeld, DoneSoFar

\* One more table is migrated or dropped.
LEMMA TableKeepsInv ==
    ASSUME ManagerInv, NEW c \in Callers, task[c].do \in {"migrate", "drop"},
           NEW t \in task[c].left, UNCHANGED initLock,
           task' = [task EXCEPT ![c].left = @ \ {t}],
           tables' = IF task[c].do = "migrate" THEN tables \cup {t} ELSE tables \ {t}
    PROVE  ManagerInv'
  <1>1. task[c] \in ManagerJobs /\ initLock = c /\ \A d \in Callers \ {c} : task[d] = Nothing
    BY BusyHolds
  <1>2. /\ task'[c].do = task[c].do /\ task'[c].left = task[c].left \ {t} /\ task'[c] \in ManagerJobs
        /\ \A d \in Callers \ {c} : task'[d] = Nothing
    BY <1>1 DEF ManagerInv, ManagerJobs
  <1>3. task' \in [Callers -> ManagerJobs \cup {Nothing}]
    BY <1>2 DEF ManagerInv
  <1>4. t \in DbModels /\ tables' \in SUBSET DbModels
    BY <1>1, JobNotNothing DEF ManagerInv
  <1>5. LockHeld'
    BY <1>1, <1>2 DEF LockHeld
  <1>6. DoneSoFar'
    <2>1. IF task[c].do = "migrate" THEN DbModels \ task[c].left \subseteq tables
          ELSE tables \subseteq task[c].left
      BY <1>1, JobNotNothing DEF ManagerInv, DoneSoFar
    <2>2. IF task'[c].do = "migrate" THEN DbModels \ task'[c].left \subseteq tables'
          ELSE tables' \subseteq task'[c].left
      BY <2>1, <1>2, <1>4
    <2> QED
      BY <2>2, <1>2 DEF DoneSoFar
  <1> QED
    BY <1>3, <1>4, <1>5, <1>6 DEF ManagerInv

LEMMA CalledKeepsInv ==
    ASSUME ManagerInv, NEW c \in Callers,
           \/ Called(c, "migrate", "initialize")
           \/ Called(c, "drop", "reset") \/ Called(c, "drop", "recreate")
    PROVE  ManagerInv'
  <1>1. CASE initLock = "free"
    <2>1. \A d \in Callers : task[d] = Nothing
      BY <1>1, ManagerAssumption DEF ManagerInv, LockHeld
    <2>2. /\ initLock' = c /\ tables' = tables /\ task'[c] \in ManagerJobs /\ task'[c].left = DbModels
          /\ task' \in [Callers -> ManagerJobs \cup {Nothing}]
          /\ \A d \in Callers \ {c} : task'[d] = Nothing
      BY <1>1, <2>1 DEF Called, ManagerInv, ManagerJobs
    <2> QED
      BY <2>2 DEF ManagerInv, LockHeld, DoneSoFar
  <1>2. CASE initLock # "free"
    BY <1>2 DEF Called, ManagerInv, LockHeld, DoneSoFar
  <1> QED
    BY <1>1, <1>2

LEMMA NextManagerInv == ManagerInv /\ [ManagerNext]_managerVars => ManagerInv'
  <1> SUFFICES ASSUME ManagerInv, [ManagerNext]_managerVars PROVE ManagerInv'
    OBVIOUS
  <1>1. CASE UNCHANGED managerVars
    BY <1>1 DEF managerVars, ManagerInv, LockHeld, DoneSoFar
  <1>2. CASE ManagerNext
    <2> PICK c \in Callers : \/ Initialize(c) \/ Reset(c) \/ MigrateOne(c) \/ Migrated(c)
                             \/ DropOne(c) \/ Dropped(c)
      BY <1>2 DEF ManagerNext
    <2>1. CASE Initialize(c) \/ Reset(c)
      BY <2>1, CalledKeepsInv DEF Initialize, Reset
    <2>2. CASE MigrateOne(c)
      <3>1. task[c].do = "migrate"
        BY <2>2 DEF MigrateOne
      <3>2. CASE tables' = tables
        <4>1. CASE Returns(c, task[c].what, FALSE)
          BY <3>1, <3>2, <4>1, ReturnKeepsInv
        <4>2. CASE \E t \in task[c].left : /\ tables' = tables \cup {t}
                                           /\ task' = [task EXCEPT ![c].left = @ \ {t}]
                                           /\ UNCHANGED initLock
          BY <3>1, <4>2, TableKeepsInv
        <4> QED
          BY <2>2, <4>1, <4>2 DEF MigrateOne
      <3>3. CASE tables' # tables
        <4> PICK t \in task[c].left : /\ tables' = tables \cup {t}
                                      /\ task' = [task EXCEPT ![c].left = @ \ {t}]
                                      /\ UNCHANGED initLock
          BY <2>2, <3>3 DEF MigrateOne
        <4> QED
          BY <3>1, TableKeepsInv
      <3> QED
        BY <3>2, <3>3
    <2>3. CASE Migrated(c)
      BY <2>3, ReturnKeepsInv DEF Migrated
    <2>4. CASE DropOne(c)
      <3>1. task[c].do = "drop"
        BY <2>4 DEF DropOne
      <3>2. CASE Returns(c, task[c].what, FALSE) /\ UNCHANGED tables
        BY <3>1, <3>2, ReturnKeepsInv
      <3>3. CASE \E t \in task[c].left : /\ tables' = tables \ {t}
                                         /\ task' = [task EXCEPT ![c].left = @ \ {t}]
                                         /\ UNCHANGED initLock
        BY <3>1, <3>3, TableKeepsInv
      <3> QED
        BY <2>4, <3>2, <3>3 DEF DropOne
    <2>5. CASE Dropped(c)
      BY <2>5, ReturnKeepsInv DEF Dropped
    <2> QED
      BY <2>1, <2>2, <2>3, <2>4, <2>5
  <1> QED
    BY <1>1, <1>2

----------------------------------------------------------------------------
\* A step at which a call ends with success.
LEMMA SuccessStep ==
    ASSUME ManagerInv, [ManagerNext]_managerVars, NEW c \in Callers,
           task[c] # Nothing, task'[c] = Nothing, replied'.ok
    PROVE  tables' = IF replied'.what = "reset" THEN {} ELSE DbModels
  <1>1. task[c] \in ManagerJobs /\ initLock = c /\ \A d \in Callers \ {c} : task[d] = Nothing
    BY DEF ManagerInv, LockHeld
  <1>2. initLock # "free" /\ ~UNCHANGED managerVars
    BY <1>1, ManagerAssumption DEF managerVars
  <1> PICK d \in Callers : \/ Initialize(d) \/ Reset(d) \/ MigrateOne(d) \/ Migrated(d)
                           \/ DropOne(d) \/ Dropped(d)
    BY <1>2 DEF ManagerNext
  <1>3. ~Initialize(d) /\ ~Reset(d)
    BY <1>2 DEF Initialize, Reset, Called
  <1>4. d = c
    <2>1. task[d].do \in {"migrate", "drop"}
      BY <1>3 DEF MigrateOne, Migrated, DropOne, Dropped
    <2>2. Nothing.do = "nothing"
      BY DEF Nothing
    <2> QED
      BY <1>1, <2>1, <2>2
  <1>5. \A t \in task[c].left : task' # [task EXCEPT ![c].left = @ \ {t}]
    BY <1>1, JobNotNothing DEF ManagerInv, ManagerJobs, Nothing
  <1>6. ~MigrateOne(c) /\ ~DropOne(c)
    BY <1>5 DEF MigrateOne, DropOne, Returns, Reply
  <1>7. CASE Migrated(c)
    <2>1. replied'.what = "initialize" /\ task[c].left = {} /\ tables' = tables
      BY <1>7, <1>1 DEF Migrated, Returns, Reply, ManagerJobs
    <2> QED
      BY <2>1, <1>7, <1>1, JobNotNothing DEF Migrated, ManagerInv, DoneSoFar
  <1>8. CASE Dropped(c)
    <2>1. replied'.what = "reset" /\ task[c].left = {} /\ tables' = tables
      BY <1>8, <1>1 DEF Dropped, Returns, Reply
    <2> QED
      BY <2>1, <1>8, <1>1, JobNotNothing DEF Dropped, ManagerInv, DoneSoFar
  <1> QED
    BY <1>3, <1>4, <1>6, <1>7, <1>8

\* Whoever calls Initialize and Reset, and whatever fails between two tables: a call
\* that reports success has left all tables or none, as it was asked to
\* (go/internal/database/manager.go:87-148).
THEOREM SuccessIsWhole == ManagerSpec => SuccessTellsTables
  <1>1. ManagerInit => ManagerInv
    BY InitManagerInv
  <1>2. ManagerInv /\ [ManagerNext]_managerVars => ManagerInv'
    BY NextManagerInv
  <1>3. ManagerInv /\ [ManagerNext]_managerVars =>
            [\A c \in Callers : (task[c] # Nothing /\ task'[c] = Nothing /\ replied'.ok)
                => tables' = IF replied'.what = "reset" THEN {} ELSE DbModels]_managerVars
    BY SuccessStep
  <1> QED
    BY <1>1, <1>2, <1>3, PTL DEF ManagerSpec, SuccessTellsTables

ManagerBounds == managerCalls \in 0..MaxManagerCalls /\ managerFaults \in 0..MaxManagerFaults

\* The tables, the lock and what each caller is doing are what the manager takes them
\* for (go/internal/database/manager.go:73-148).
THEOREM ManagerTypeCorrect == ManagerSpec => []ManagerTypeOK
  <1>1. ManagerInit => ManagerInv /\ ManagerBounds
    BY InitManagerInv, ManagerAssumption DEF ManagerInit, ManagerBounds
  <1>2. ManagerInv /\ ManagerBounds /\ [ManagerNext]_managerVars => ManagerInv' /\ ManagerBounds'
    <2> SUFFICES ASSUME ManagerBounds, [ManagerNext]_managerVars PROVE ManagerBounds'
      BY NextManagerInv
    <2>1. CASE UNCHANGED managerVars
      BY <2>1 DEF managerVars, ManagerBounds
    <2>2. ASSUME NEW c \in Callers, Initialize(c) \/ Reset(c)
          PROVE  managerCalls > 0 /\ managerCalls' = managerCalls - 1 /\ managerFaults' = managerFaults
      BY <2>2 DEF Initialize, Reset, Called
    <2>3. ASSUME NEW c \in Callers, MigrateOne(c) \/ Migrated(c) \/ DropOne(c) \/ Dropped(c)
          PROVE  /\ managerCalls' = managerCalls
                 /\ \/ managerFaults' = managerFaults
                    \/ managerFaults > 0 /\ managerFaults' = managerFaults - 1
      BY <2>3 DEF MigrateOne, Migrated, DropOne, Dropped
    <2> QED
      BY <2>1, <2>2, <2>3, ManagerAssumption DEF ManagerNext, ManagerBounds
  <1>3. ManagerInv /\ ManagerBounds => ManagerTypeOK
    BY DEF ManagerInv, ManagerBounds, ManagerTypeOK, ManagerJobs, Nothing, Doing
  <1> QED
    BY <1>1, <1>2, <1>3, PTL DEF ManagerSpec

----------------------------------------------------------------------------
(* The parts side by side (MCControlPlane). *)

\* Each behaviour of the control plane is a behaviour of each of its parts.
LEMMA ControlIsParts ==
    ControlSpec => Spec /\ ConfigSpec /\ WatchSpec /\ A2ASpec /\ ManagerSpec /\ ApiSpec
  <1> DEFINE all == <<part, vars, configVars, watchVars, a2aVars, managerVars, apiVars>>
  <1>1. ControlInit => Init /\ ConfigInit /\ WatchInit /\ A2AInit /\ ManagerInit /\ ApiInit
    BY DEF ControlInit
  <1>2. [ControlNext]_all => [Next]_vars
    BY DEF ControlNext
  <1>3. [ControlNext]_all => [ConfigNext]_configVars
    BY DEF ControlNext
  <1>4. [ControlNext]_all => [WatchNext]_watchVars
    BY DEF ControlNext
  <1>5. [ControlNext]_all => [A2ANext]_a2aVars
    BY DEF ControlNext
  <1>6. [ControlNext]_all => [ManagerNext]_managerVars
    BY DEF ControlNext
  <1>7. [ControlNext]_all => [ApiNext]_apiVars
    BY DEF ControlNext
  <1> QED
    BY <1>1, <1>2, <1>3, <1>4, <1>5, <1>6, <1>7, PTL
       DEF ControlSpec, Spec, ConfigSpec, WatchSpec, A2ASpec, ManagerSpec, ApiSpec

\* In the control plane as a whole every variable keeps its type: the objects, the
\* caches and the work of the Agent controller, those of the other controllers and
\* handlers, the mux and the manager.
THEOREM ControlTypeCorrect == ControlSpec => []ControlTypeOK
  <1>1. TypeOK /\ ConfigTypeOK /\ WatchTypeOK /\ A2ATypeOK /\ ManagerTypeOK /\ AgentApiTypeOK
           => ControlTypeOK
    BY DEF ControlTypeOK
  <1> QED
    BY <1>1, ControlIsParts, TypeCorrect, ConfigTypeCorrect, WatchTypeCorrect, MuxTypeCorrect,
       ManagerTypeCorrect, ApiTypeCorrect, PTL

\* And what is proved of each part is true of the whole: of the status of a
\* ModelConfig, of the keys that were promised, of the Agents that are rendered and
\* served, of the cycles that are refused and of the tables a caller was told of.
THEOREM ControlPlaneSafe ==
    ControlSpec => /\ [](/\ AcceptedMeansStored /\ NoOrphanRow /\ QuiescentAcceptedConverged
                         /\ HashTellsSecrets /\ PromisedKeyIsStored /\ RenderedIsCurrent
                         /\ MuxServesAgents /\ PostsCloseNoCycle)
                   /\ SuccessTellsTables
  BY ControlIsParts, AcceptedStored, OrphanRowsRemoved, AcceptedConverges, HashIsRight, PromiseIsKept,
     CurrentRendered, MuxIsRight, PostsCannotCloseCycle, SuccessIsWhole, PTL

============================================================================
