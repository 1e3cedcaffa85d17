--------------------------- MODULE AgentGraphProofs ---------------------------
(* For every finite set of Agents, every graph they span and every limit below *)
(* 255: the recursion of validateAgent stays within its limit, the Agents      *)
(* accepted at rest do not call each other in a circle, and the verdict of a   *)
(* pass that nobody disturbs is that of the graph.                             *)
EXTENDS AgentGraph, SequenceTheorems, FiniteSetTheorems, TLAPS

\* The stack of calls is never deeper than the count of calls, and the count
\* stays at the limit or below it while the walk goes on.
StackCounted ==
    /\ pc = "idle" => state = NoState
    /\ pc \in {"validate", "translate"} => root \in Agents /\ stack # <<>>
    /\ pc = "validate" => Len(stack) <= state.depth + 1 /\ state.depth <= MAX_DEPTH
    /\ pc = "translate" => Len(stack) = 1
    /\ pc \in {"accepted", "rejected"} => root \in Agents

IInv == TypeOK /\ StackCounted

\* Tools of a list are Agents, and so is what a list begins with.
LEMMA ListTyped ==
    ASSUME NEW a \in Agents, TypeOK, spec[a] # Absent
    PROVE  spec[a] \in Seq(Agents)
BY GraphAssumption DEF TypeOK

\* A call with a list of tools is a frame.
LEMMA CallTyped ==
    ASSUME NEW a \in Agents, NEW tools \in Seq(Agents)
    PROVE  Call(a, tools) \in Frame /\ <<Call(a, tools)>> \in Seq(Frame)
                                    /\ Len(<<Call(a, tools)>>) = 1
BY DEF Call, Frame

\* The caller on top of the stack is a frame.
LEMMA CallerTyped ==
    ASSUME stack \in Seq(Frame), stack # <<>>
    PROVE  /\ Caller \in Frame
           /\ Caller.agent \in Agents
           /\ Caller.rest \in Seq(Agents)
           /\ Len(stack) \in DOMAIN stack
<1>1. Len(stack) \in 1..Len(stack) /\ DOMAIN stack = 1..Len(stack)
  OBVIOUS
<1>2. Caller \in Frame
  BY <1>1 DEF Caller
<1> QED
  BY <1>1, <1>2 DEF Frame

LEMMA InitInv == Init => IInv
<1> SUFFICES ASSUME Init PROVE IInv
  OBVIOUS
<1>1. TypeOK
  BY GraphAssumption DEF Init, TypeOK, NoState, Frame
<1>2. StackCounted
  BY DEF Init, StackCounted
<1> QED
  BY <1>1, <1>2 DEF IInv

LEMMA NextInv == IInv /\ [Next]_vars => IInv'
<1> SUFFICES ASSUME IInv, [Next]_vars PROVE IInv'
  OBVIOUS
<1> USE DEF IInv
<1>1. ASSUME Users PROVE IInv'
  <2>1. PICK a \in Agents, tools \in ToolLists \cup {Absent} : Change(a, tools) /\ acc' \in {acc, [acc EXCEPT ![a] = "none"]}
    BY <1>1 DEF Users, Create, Edit, Delete
  <2>2. /\ spec' \in [Agents -> ToolLists \cup {Absent}]
        /\ acc' \in [Agents -> {"none", "true", "false"}]
        /\ queue' \subseteq Agents /\ touched' \subseteq Agents
        /\ changes' \in 0..MaxChanges
    BY <2>1, GraphAssumption DEF TypeOK, Change, AgentEvent
  <2>3. UNCHANGED <<pc, root, mine, stack, state, crashes>>
    BY <2>1 DEF Change, walk
  <2>4. TypeOK'
    BY <2>2, <2>3 DEF TypeOK
  <2>5. StackCounted'
    BY <2>3 DEF StackCounted
  <2> QED
    BY <2>4, <2>5
<1>2. ASSUME Restart PROVE IInv'
  BY <1>2, GraphAssumption DEF Restart, Rest, NoState, TypeOK, StackCounted, Frame
<1>3. ASSUME NEW a \in Agents, Begin(a) PROVE IInv'
  <2>1. CASE spec[a] = Absent
    BY <1>3, <2>1 DEF Begin, pass, bounds, TypeOK, StackCounted
  <2>2. CASE spec[a] # Absent
    <3>1. /\ pc' = "validate" /\ root' = a /\ mine' = spec[a] /\ touched' = {}
          /\ stack' = <<Call(a, spec[a])>> /\ state' = state
          /\ queue' \subseteq Agents /\ UNCHANGED <<spec, acc, changes, crashes>>
      BY <1>3, <2>2 DEF Begin, bounds, TypeOK
    <3>2. stack' \in Seq(Frame) /\ Len(stack') = 1 /\ stack' # <<>>
      BY <3>1, <2>2, ListTyped, CallTyped
    <3>3. state.depth = 0
      BY <1>3 DEF Begin, StackCounted, NoState
    <3>4. TypeOK'
      BY <3>1, <3>2, <2>2, ListTyped, GraphAssumption DEF TypeOK
    <3>5. StackCounted'
      BY <3>1, <3>2, <3>3, GraphAssumption DEF StackCounted
    <3> QED
      BY <3>4, <3>5
  <2> QED
    BY <2>1, <2>2
<1>4. ASSUME Visit PROVE IInv'
  <2> DEFINE t == Head(Caller.rest)
             below == [stack EXCEPT ![Len(stack)].rest = Tail(@)]
  <2>1. /\ stack \in Seq(Frame) /\ stack # <<>> /\ root \in Agents
        /\ Len(stack) <= state.depth + 1 /\ state.depth <= MAX_DEPTH
        /\ state.depth \in Nat /\ state.visitedAgents \subseteq Agents
        /\ pc = "validate" /\ Caller.rest # <<>>
    BY <1>4 DEF Visit, TypeOK, StackCounted
  <2>2. Caller \in Frame /\ Caller.agent \in Agents /\ Caller.rest \in Seq(Agents)
    BY <2>1, CallerTyped
  <2>3. t \in Agents /\ Tail(Caller.rest) \in Seq(Agents)
    BY <2>1, <2>2
  <2>4. UNCHANGED <<spec, acc, queue, root, mine, touched, changes, crashes>>
    BY <1>4 DEF Visit, pass, bounds
  <2>5. CASE pc' = "rejected" /\ stack' = stack /\ (state' = state \/ state' = With(Caller.agent))
    <3>1. state' \in [depth : 0..MAX_DEPTH + 1, visitedAgents : SUBSET Agents]
      BY <2>1, <2>2, <2>5, GraphAssumption DEF With, TypeOK
    <3>2. TypeOK'
      BY <2>4, <2>5, <3>1 DEF TypeOK
    <3>3. StackCounted'
      BY <2>1, <2>4, <2>5 DEF StackCounted
    <3> QED
      BY <3>2, <3>3
  <2>6. CASE /\ spec[t] # Absent
             /\ state' = With(Caller.agent) /\ ~Refuses(t, state')
             /\ stack' = Append(below, Call(t, spec[t])) /\ pc' = pc
    <3>1. state'.depth = state.depth + 1 /\ state'.depth <= MAX_DEPTH
      <4> DEFINE d == state.depth
                 d1 == state'.depth
      <4>1. d1 = d + 1
        BY <2>6 DEF With
      <4>2. ~(d1 > MAX_DEPTH)
        BY <2>6 DEF Refuses
      <4>3. d \in Nat /\ MAX_DEPTH \in Nat
        BY <2>1, GraphAssumption
      <4> HIDE DEF d, d1
      <4>4. d1 = d + 1 /\ d1 <= MAX_DEPTH
        BY <4>1, <4>2, <4>3
      <4> QED
        BY <4>4 DEF d, d1
    <3>2. state' \in [depth : 0..MAX_DEPTH + 1, visitedAgents : SUBSET Agents]
      <4>1. state.depth + 1 \in 0..MAX_DEPTH + 1
        BY <2>1, GraphAssumption
      <4>2. state.visitedAgents \cup {Caller.agent} \in SUBSET Agents
        BY <2>1, <2>2
      <4>3. state' = [depth |-> state.depth + 1,
                      visitedAgents |-> state.visitedAgents \cup {Caller.agent}]
        BY <2>6 DEF With
      <4> QED
        BY <4>1, <4>2, <4>3
    <3>3. below \in Seq(Frame) /\ Len(below) = Len(stack)
      <4>1. [stack[Len(stack)] EXCEPT !.rest = Tail(@)] \in Frame
        BY <2>2, <2>3 DEF Caller, Frame
      <4> QED
        BY <2>1, <4>1
    <3>4. Call(t, spec[t]) \in Frame
      BY <2>3, <2>6, ListTyped, CallTyped
    <3> HIDE DEF t, below
    <3>5. stack' \in Seq(Frame) /\ Len(stack') = Len(stack) + 1 /\ stack' # <<>>
      BY <2>6, <3>3, <3>4, AppendProperties
    <3>6. Len(stack') <= state'.depth + 1 /\ Len(stack') <= MAX_DEPTH + 1
      BY <2>1, <3>1, <3>5, GraphAssumption
    <3>7. TypeOK'
      BY <2>1, <2>4, <2>6, <3>2, <3>5, <3>6 DEF TypeOK
    <3>8. StackCounted'
      BY <2>1, <2>4, <2>6, <3>1, <3>5, <3>6 DEF StackCounted
    <3> QED
      BY <3>7, <3>8
  <2> QED
    BY <1>4, <2>5, <2>6 DEF Visit, Reject
<1>5. ASSUME Return PROVE IInv'
  <2>1. /\ stack \in Seq(Frame) /\ stack # <<>> /\ root \in Agents
        /\ Len(stack) <= state.depth + 1 /\ state.depth <= MAX_DEPTH
        /\ state.depth \in Nat /\ pc = "validate" /\ mine \in Seq(Agents)
    BY <1>5 DEF Return, TypeOK, StackCounted
  <2>2. UNCHANGED <<spec, acc, queue, root, mine, touched, state, changes, crashes>>
    BY <1>5 DEF Return, pass, bounds
  <2>3. CASE Len(stack) > 1
    <3>1. stack' = SubSeq(stack, 1, Len(stack) - 1) /\ pc' = pc
      BY <1>5, <2>3 DEF Return
    <3>2. stack' \in Seq(Frame) /\ Len(stack') = Len(stack) - 1 /\ stack' # <<>>
      <4> DEFINE n == Len(stack) - 1
      <4>1. n \in Nat /\ n >= 1 /\ \A i \in 1..n : stack[i] \in Frame
        BY <2>1, <2>3
      <4> HIDE DEF n
      <4>2. SubSeq(stack, 1, n) \in Seq(Frame) /\ Len(SubSeq(stack, 1, n)) = n
        BY <4>1, SubSeqProperties
      <4>3. stack' = SubSeq(stack, 1, n) /\ n = Len(stack) - 1
        BY <3>1 DEF n
      <4>4. stack' \in Seq(Frame) /\ Len(stack') = n
        BY <4>2, <4>3
      <4>5. stack' # <<>>
        BY <4>1, <4>4
      <4> QED
        BY <4>3, <4>4, <4>5
    <3>3. TypeOK'
      BY <2>1, <2>2, <3>1, <3>2, GraphAssumption DEF TypeOK
    <3>4. StackCounted'
      BY <2>1, <2>2, <3>1, <3>2 DEF StackCounted
    <3> QED
      BY <3>3, <3>4
  <2>4. CASE ~(Len(stack) > 1)
    <3>1. stack' = <<Call(root, mine)>> /\ pc' = "translate"
      BY <1>5, <2>4 DEF Return
    <3>2. stack' \in Seq(Frame) /\ Len(stack') = 1 /\ stack' # <<>>
      BY <2>1, <3>1, CallTyped
    <3>3. TypeOK'
      BY <2>2, <3>1, <3>2, GraphAssumption DEF TypeOK
    <3>4. StackCounted'
      BY <2>1, <2>2, <3>1, <3>2 DEF StackCounted
    <3> QED
      BY <3>3, <3>4
  <2> QED
    BY <2>3, <2>4
<1>6. ASSUME Translate PROVE IInv'
  <2>1. /\ stack \in Seq(Frame) /\ stack # <<>> /\ root \in Agents
        /\ Len(stack) = 1 /\ pc = "translate"
    BY <1>6 DEF Translate, TypeOK, StackCounted
  <2>2. UNCHANGED <<spec, acc, queue, root, mine, touched, state, changes, crashes>>
    BY <1>6 DEF Translate, pass, bounds
  <2>3. CASE pc' \in {"accepted", "rejected"} /\ stack' = stack
    <3>1. TypeOK'
      BY <2>2, <2>3 DEF TypeOK
    <3>2. StackCounted'
      BY <2>1, <2>2, <2>3 DEF StackCounted
    <3> QED
      BY <3>1, <3>2
  <2>4. CASE /\ Caller.rest # <<>> /\ pc' = pc
             /\ stack' = <<Call(root, Tail(Caller.rest))>>
    <3>1. Tail(Caller.rest) \in Seq(Agents)
      BY <2>1, <2>4, CallerTyped
    <3>2. stack' \in Seq(Frame) /\ Len(stack') = 1 /\ stack' # <<>>
      BY <2>1, <2>4, <3>1, CallTyped
    <3>3. TypeOK'
      BY <2>2, <2>4, <3>2, GraphAssumption DEF TypeOK
    <3>4. StackCounted'
      BY <2>1, <2>2, <2>4, <3>2 DEF StackCounted
    <3> QED
      BY <3>3, <3>4
  <2> QED
    BY <1>6, <2>3, <2>4 DEF Translate, Reject
<1>7. ASSUME UpdateStatus PROVE IInv'
  <2>1. /\ pc' = "idle" /\ root' = Absent /\ mine' = <<>> /\ touched' = {}
        /\ stack' = <<>> /\ state' = NoState
        /\ UNCHANGED <<spec, changes, crashes>>
    BY <1>7 DEF UpdateStatus, Rest, bounds
  <2>2. acc' \in [Agents -> {"none", "true", "false"}] /\ queue' \subseteq Agents
    BY <1>7 DEF UpdateStatus, TypeOK, StackCounted
  <2>5. 0 \in 0..MAX_DEPTH + 1 /\ 0 <= MAX_DEPTH + 1
    BY GraphAssumption
  <2>6. stack' \in Seq(Frame) /\ Len(stack') <= MAX_DEPTH + 1
    BY <2>1, <2>5
  <2>7. state' \in [depth : 0..MAX_DEPTH + 1, visitedAgents : SUBSET Agents]
    BY <2>1, <2>5 DEF NoState
  <2>3. TypeOK'
    BY <2>1, <2>2, <2>6, <2>7 DEF TypeOK
  <2>4. StackCounted'
    BY <2>1 DEF StackCounted
  <2> QED
    BY <2>3, <2>4
<1>8. CASE UNCHANGED vars
  BY <1>8 DEF vars, pass, walk, bounds, TypeOK, StackCounted
<1> QED
  BY <1>1, <1>2, <1>3, <1>4, <1>5, <1>6, <1>7, <1>8 DEF Next, Worker

\* Every variable keeps its type; the walk of validateAgent never holds more
\* calls than the limit allows, nor does its uint8 count more than one beyond
\* it, however Agents change while it is under way.
THEOREM TypeCorrect == Spec => []TypeOK
<1>1. IInv => TypeOK
  BY DEF IInv
<1> QED
  BY <1>1, InitInv, NextInv, PTL DEF Spec

----------------------------------------------------------------------------
(* Accepted Agents form no circle. *)

\* The Agents whose verdict stands: they have not changed since.
Settled == {a \in Agents : acc[a] = "true" /\ a \notin queue /\ a # root}

OnStack == {stack[i].agent : i \in DOMAIN stack}

\* y is still to be looked at in a call for x.
Pending(x, y) ==
    \E i \in DOMAIN stack :
        /\ stack[i].agent = x
        /\ \E k \in DOMAIN stack[i].rest : stack[i].rest[k] = y

\* A call for y was made, or y calls nothing; or it has changed since.
Seen(y) == y \in touched \/ spec[y] = <<>> \/ y \in state.visitedAgents

\* What is known of the queue and of the pass.
PassInv ==
    /\ \A a \in Agents : acc[a] = "true" => spec[a] # Absent
    /\ touched \subseteq queue
    /\ pc = "idle" => root = Absent /\ touched = {}
    /\ pc # "idle" => root \in touched \/ spec[root] # Absent

\* What is known of the walk.  An Agent that changed under way is left out: it
\* is queued.  A call that has made no call yet has all its tools before it.
WalkInv ==
    pc = "validate" =>
        /\ stack[1].agent = root
        /\ Len(stack) > 1 => root \in state.visitedAgents
        /\ \A i \in DOMAIN stack :
              stack[i].agent \notin state.visitedAgents \cup touched =>
                  stack[i].rest = spec[stack[i].agent]
        /\ \A x \in (OnStack \cup state.visitedAgents) \ touched : \A y \in Targets(x) :
              Pending(x, y) \/ (y # root /\ (y \in OnStack \/ Seen(y)))

\* What a complete walk has established.
WalkedInv ==
    pc \in {"translate", "accepted"} =>
        \A x \in ({root} \cup state.visitedAgents) \ touched : \A y \in Targets(x) :
            y # root /\ Seen(y)

GraphInv == IInv /\ PassInv /\ WalkInv /\ WalkedInv /\ Acyclic(Settled)

\* An edit or a new pass only takes Agents out of those that are settled.
LEMMA SettledShrinks ==
    ASSUME Acyclic(Settled), Settled' \subseteq Settled,
           \A a \in Settled' : spec'[a] = spec[a]
    PROVE  Acyclic(Settled)'
<1> SUFFICES ASSUME NEW T \in (SUBSET Settled') \ {{}}
             PROVE  \E a \in T : Targets(a)' \cap T = {}
  BY DEF Acyclic
<1>1. PICK a \in T : Targets(a) \cap T = {}
  BY DEF Acyclic
<1>2. Targets(a)' = Targets(a)
  BY <1>1 DEF Targets
<1> QED
  BY <1>1, <1>2

\* An Agent that is accepted joins them without closing a circle: what the walk
\* has seen is closed under calls and does not call root.
LEMMA SettledGrows ==
    ASSUME GraphInv, UpdateStatus, pc = "accepted", root \notin touched
    PROVE  Acyclic(Settled)'
<1> DEFINE V == {a \in Settled : spec[a] = <<>> \/ a \in state.visitedAgents}
<1>1. /\ UNCHANGED <<spec, queue>> /\ root' = Absent /\ root \in Agents
      /\ acc' = [acc EXCEPT ![root] = "true"] /\ acc \in [Agents -> {"none", "true", "false"}]
  BY DEF UpdateStatus, Rest, GraphInv, IInv, TypeOK, StackCounted
<1>2. Settled' \subseteq Settled \cup {root}
  BY <1>1 DEF Settled
<1>3. \A a \in Settled : a \notin touched
  BY DEF Settled, GraphInv, PassInv
<1>4. ASSUME NEW a \in V, NEW b \in Targets(a)
      PROVE  b # root /\ (b \in Settled => b \in V)
  <2>1. spec[a] # <<>>
    BY <1>4 DEF Targets
  <2>2. a \in state.visitedAgents \ touched
    BY <1>3, <2>1
  <2> QED
    BY <1>3, <2>2 DEF GraphInv, WalkedInv, Seen
<1>5. ASSUME NEW b \in Targets(root)
      PROVE  b # root /\ (b \in Settled => b \in V)
  BY <1>3, <1>5 DEF GraphInv, WalkedInv, Seen
<1>6. \A a : Targets(a)' = Targets(a)
  BY <1>1 DEF Targets
<1> SUFFICES ASSUME NEW T \in (SUBSET Settled') \ {{}}
             PROVE  \E a \in T : Targets(a) \cap T = {}
  BY <1>6 DEF Acyclic
<1> HIDE DEF V
<1>7. CASE T \cap V # {}
  <2>1. T \cap V \in (SUBSET Settled) \ {{}}
    BY <1>7 DEF V
  <2>2. PICK a \in T \cap V : Targets(a) \cap (T \cap V) = {}
    BY <2>1 DEF GraphInv, Acyclic
  <2>3. Targets(a) \cap T = {}
    BY <1>2, <1>4, <2>2
  <2> QED
    BY <2>2, <2>3
<1>8. CASE T \cap V = {} /\ root \in T
  BY <1>2, <1>5, <1>8
<1>9. CASE root \notin T
  <2>1. T \in (SUBSET Settled) \ {{}}
    BY <1>2, <1>9
  <2> QED
    BY <2>1 DEF GraphInv, Acyclic
<1> QED
  BY <1>7, <1>8, <1>9

LEMMA InitGraphInv == Init => GraphInv
<1> SUFFICES ASSUME Init PROVE GraphInv
  OBVIOUS
<1>1. IInv
  BY InitInv
<1>2. PassInv /\ WalkInv /\ WalkedInv
  BY DEF Init, PassInv, WalkInv, WalkedInv
<1>3. Settled = {}
  BY DEF Init, Settled
<1>4. Acyclic(Settled)
  BY <1>3 DEF Acyclic
<1> QED
  BY <1>1, <1>2, <1>4 DEF GraphInv

LEMMA UsersGraphInv ==
    ASSUME GraphInv, Users
    PROVE  (PassInv /\ WalkInv /\ WalkedInv /\ Acyclic(Settled))'
<1>1. PICK a \in Agents, tools \in ToolLists \cup {Absent} :
          /\ Change(a, tools)
          /\ acc' \in {acc, [acc EXCEPT ![a] = "none"]}
          /\ tools = Absent => acc' = [acc EXCEPT ![a] = "none"]
  BY GraphAssumption DEF Users, Create, Edit, Delete
<1>2. /\ spec' = [spec EXCEPT ![a] = tools] /\ queue' = queue \cup {a}
      /\ touched' = IF pc = "idle" THEN {} ELSE touched \cup {a}
      /\ UNCHANGED <<pc, root, stack, state>>
  BY <1>1 DEF Change, AgentEvent, walk
<1>3. /\ spec \in [Agents -> ToolLists \cup {Absent}]
      /\ acc \in [Agents -> {"none", "true", "false"}]
      /\ queue \subseteq Agents /\ touched \subseteq Agents /\ state.visitedAgents \subseteq Agents
  BY DEF GraphInv, IInv, TypeOK
<1>4. \A b \in Agents : b # a => spec'[b] = spec[b] /\ acc'[b] = acc[b]
  BY <1>1, <1>2, <1>3
<1>5. PassInv'
  <2>1. \A b \in Agents : acc'[b] = "true" => spec'[b] # Absent
    BY <1>1, <1>2, <1>3, <1>4, GraphAssumption DEF GraphInv, PassInv
  <2>2. pc # "idle" => root \in touched' \/ spec'[root] # Absent
    BY <1>2, <1>3 DEF GraphInv, PassInv
  <2> QED
    BY <1>2, <2>1, <2>2 DEF GraphInv, PassInv
<1>6. \A b : b # a => spec'[b] = spec[b]
  BY <1>2, <1>3
<1>7. WalkInv'
  <2> SUFFICES ASSUME pc = "validate" PROVE WalkInv'
    BY <1>2 DEF WalkInv
  <2>1. touched' = touched \cup {a}
    BY <1>2
  <2>2. \A i \in DOMAIN stack :
            stack[i].agent \notin state.visitedAgents \cup touched' =>
                stack[i].rest = spec'[stack[i].agent]
    BY <1>6, <2>1 DEF GraphInv, WalkInv
  <2>3. \A x, y : Pending(x, y)' <=> Pending(x, y)
    BY <1>2 DEF Pending
  <2>4. \A y : Seen(y) => Seen(y)'
    BY <1>2, <1>6, <2>1 DEF Seen
  <2>5. \A x : x \notin touched' => Targets(x)' = Targets(x) /\ x \notin touched
    BY <1>6, <2>1 DEF Targets
  <2>6. OnStack' = OnStack
    BY <1>2 DEF OnStack
  <2>7. ASSUME NEW x \in (OnStack' \cup state'.visitedAgents) \ touched', NEW y \in Targets(x)'
        PROVE  Pending(x, y)' \/ (y # root' /\ (y \in OnStack' \/ Seen(y)'))
    <3>1. x \in (OnStack \cup state.visitedAgents) \ touched /\ y \in Targets(x)
      BY <1>2, <2>5, <2>6, <2>7
    <3>2. Pending(x, y) \/ (y # root /\ (y \in OnStack \/ Seen(y)))
      BY <3>1 DEF GraphInv, WalkInv
    <3> QED
      BY <1>2, <2>3, <2>4, <2>6, <3>2
  <2> QED
    BY <1>2, <2>2, <2>7 DEF GraphInv, WalkInv
<1>8. WalkedInv'
  <2> SUFFICES ASSUME pc \in {"translate", "accepted"},
                      NEW x \in ({root} \cup state.visitedAgents) \ touched', NEW y \in Targets(x)'
               PROVE  y # root /\ Seen(y)'
    BY <1>2 DEF WalkedInv
  <2>1. touched' = touched \cup {a}
    BY <1>2
  <2>2. x \in ({root} \cup state.visitedAgents) \ touched /\ y \in Targets(x)
    BY <1>6, <2>1 DEF Targets
  <2>3. y # root /\ Seen(y)
    BY <2>2 DEF GraphInv, WalkedInv
  <2> QED
    BY <1>2, <1>6, <2>1, <2>3 DEF Seen
<1>9. Settled' \subseteq Settled /\ \A b \in Settled' : spec'[b] = spec[b]
  BY <1>2, <1>4 DEF Settled
<1>10. Acyclic(Settled)'
  BY <1>9, SettledShrinks DEF GraphInv
<1> QED
  BY <1>5, <1>7, <1>8, <1>10

LEMMA RestartGraphInv ==
    ASSUME GraphInv, Restart
    PROVE  (PassInv /\ WalkInv /\ WalkedInv /\ Acyclic(Settled))'
<1>1. /\ pc' = "idle" /\ root' = Absent /\ touched' = {}
      /\ queue' = {a \in Agents : spec[a] # Absent} /\ UNCHANGED <<spec, acc>>
  BY DEF Restart, Rest
<1>2. PassInv' /\ WalkInv' /\ WalkedInv'
  BY <1>1 DEF GraphInv, PassInv, WalkInv, WalkedInv
<1>3. Settled' = {}
  BY <1>1 DEF Settled, GraphInv, PassInv
<1> QED
  BY <1>2, <1>3 DEF Acyclic

LEMMA BeginGraphInv ==
    ASSUME GraphInv, NEW a \in Agents, Begin(a)
    PROVE  (PassInv /\ WalkInv /\ WalkedInv /\ Acyclic(Settled))'
<1>1. /\ pc = "idle" /\ root = Absent /\ touched = {} /\ a \in queue
      /\ queue' = queue \ {a} /\ UNCHANGED <<spec, acc, state>>
      /\ state.visitedAgents = {}
  BY DEF Begin, GraphInv, PassInv, IInv, StackCounted, NoState
<1>2. CASE spec[a] = Absent
  <2>1. UNCHANGED <<pc, root, touched, stack>>
    BY <1>2 DEF Begin, pass
  <2>2. PassInv' /\ WalkInv' /\ WalkedInv'
    BY <1>1, <2>1 DEF GraphInv, PassInv, WalkInv, WalkedInv
  <2>3. Settled' \subseteq Settled
    BY <1>1, <1>2, <2>1, GraphAssumption DEF Settled, GraphInv, PassInv
  <2> QED
    BY <1>1, <2>2, <2>3, SettledShrinks DEF GraphInv
<1>3. CASE spec[a] # Absent
  <2>1. /\ pc' = "validate" /\ root' = a /\ touched' = {}
        /\ stack' = <<Call(a, spec[a])>>
    BY <1>3 DEF Begin
  <2>2. /\ Len(stack') = 1 /\ DOMAIN stack' = {1}
        /\ stack'[1].agent = a /\ stack'[1].rest = spec[a]
    BY <2>1 DEF Call
  <2>3. PassInv' /\ WalkedInv'
    BY <1>1, <1>3, <2>1 DEF GraphInv, PassInv, WalkedInv
  <2>4. OnStack' = {a}
    BY <2>2 DEF OnStack
  <2>5. \A y \in Targets(a)' : Pending(a, y)'
    BY <1>1, <2>2 DEF Targets, Pending
  <2>6. WalkInv'
    BY <1>1, <2>1, <2>2, <2>4, <2>5 DEF WalkInv
  <2>7. Settled' \subseteq Settled
    BY <1>1, <2>1, GraphAssumption DEF Settled
  <2> QED
    BY <1>1, <2>3, <2>6, <2>7, SettledShrinks DEF GraphInv
<1> QED
  BY <1>2, <1>3

\* The steps of the walk leave settled Agents and the queue alone.
LEMMA WalkKeepsSettled ==
    ASSUME GraphInv, UNCHANGED <<spec, acc, queue, root, touched>>,
           pc # "idle", pc' # "idle"
    PROVE  PassInv' /\ Acyclic(Settled)'
<1>1. Settled' \subseteq Settled
  BY DEF Settled
<1> QED
  BY <1>1, SettledShrinks DEF GraphInv, PassInv

\* A call pushed on the stack, with the tool it is made for taken off the
\* caller's list, leaves the other frames as they are.
LEMMA PushFrame ==
    ASSUME NEW s \in Seq(Frame), s # <<>>, NEW f \in Frame, NEW n, n = Len(s),
           s[n].rest # <<>>,
           NEW s2, s2 = Append([s EXCEPT ![Len(s)].rest = Tail(@)], f)
    PROVE  /\ n \in Nat /\ n >= 1 /\ DOMAIN s = 1..n /\ DOMAIN s2 = 1..(n + 1)
           /\ \A i \in 1..n : s2[i].agent = s[i].agent
           /\ \A i \in 1..n : i # n => s2[i] = s[i]
           /\ s2[n].rest = Tail(s[n].rest)
           /\ s2[n + 1] = f
           /\ s2 \in Seq(Frame) /\ Len(s2) = n + 1
<1> DEFINE g == [s[n] EXCEPT !.rest = Tail(@)]
           b == [s EXCEPT ![n] = g]
<1>1. n \in Nat /\ n >= 1 /\ DOMAIN s = 1..n /\ \A i \in 1..n : s[i] \in Frame
  OBVIOUS
<1>2. s[n] \in Frame /\ s[n].rest \in Seq(Agents)
  BY <1>1 DEF Frame
<1>3. g \in Frame /\ g.agent = s[n].agent /\ g.rest = Tail(s[n].rest)
  <2>1. Tail(s[n].rest) \in Seq(Agents)
    BY <1>2
  <2>2. g \in Frame
    BY <1>2, <2>1 DEF Frame
  <2>3. g.agent = s[n].agent
    BY <1>2 DEF Frame
  <2>4. g.rest = Tail(s[n].rest)
    BY <1>2 DEF Frame
  <2> QED
    BY <2>2, <2>3, <2>4
<1>4. s2 = Append(b, f)
  OBVIOUS
<1> HIDE DEF g
<1>5. b \in Seq(Frame) /\ Len(b) = n /\ b[n] = g /\ \A i \in 1..n : i # n => b[i] = s[i]
  BY <1>1, <1>3
<1> HIDE DEF b
<1>6. /\ s2 \in Seq(Frame) /\ Len(s2) = n + 1 /\ s2[n + 1] = f
      /\ \A i \in 1..n : s2[i] = b[i]
  <2>1. /\ Append(b, f) \in Seq(Frame) /\ Len(Append(b, f)) = Len(b) + 1
        /\ Append(b, f)[Len(b) + 1] = f
        /\ \A i \in 1..Len(b) : Append(b, f)[i] = b[i]
    BY <1>5, AppendProperties
  <2> QED
    BY <1>4, <1>5, <2>1
<1>7. DOMAIN s2 = 1..(n + 1)
  BY <1>1, <1>6
<1>8. n \in 1..n
  BY <1>1
<1>9. ASSUME NEW i \in 1..n PROVE s2[i].agent = s[i].agent
  BY <1>3, <1>5, <1>6
<1> QED
  BY <1>1, <1>3, <1>5, <1>6, <1>7, <1>8, <1>9

LEMMA VisitGraphInv ==
    ASSUME GraphInv, Visit
    PROVE  (PassInv /\ WalkInv /\ WalkedInv /\ Acyclic(Settled))'
<1> DEFINE c == Caller.agent
           t == Head(Caller.rest)
           n == Len(stack)
<1>1. /\ UNCHANGED <<spec, acc, queue, root, touched>>
      /\ pc = "validate" /\ pc' \in {"validate", "rejected"}
      /\ stack \in Seq(Frame) /\ stack # <<>> /\ Caller.rest # <<>>
  BY DEF Visit, Reject, pass, GraphInv, IInv, TypeOK, StackCounted
<1>2. PassInv' /\ Acyclic(Settled)'
  BY <1>1, WalkKeepsSettled
<1>3. WalkedInv'
  BY <1>1 DEF WalkedInv
<1>4. CASE pc' = "rejected"
  BY <1>2, <1>3, <1>4 DEF WalkInv
<1>5. CASE pc' # "rejected"
  <2>1. /\ t # c /\ spec[t] # Absent /\ state' = With(c) /\ ~Refuses(t, state')
        /\ stack' = Append([stack EXCEPT ![Len(stack)].rest = Tail(@)], Call(t, spec[t]))
    BY <1>5 DEF Visit, Reject
  <2>2. Caller \in Frame /\ c \in Agents /\ Caller.rest \in Seq(Agents) /\ n \in DOMAIN stack
    BY <1>1, CallerTyped
  <2>3. Call(t, spec[t]) \in Frame
    BY <1>1, <2>1, <2>2, ListTyped, CallTyped DEF GraphInv, IInv
  <2>4. Call(t, spec[t]).agent = t /\ Call(t, spec[t]).rest = spec[t]
    BY DEF Call
  <2>5. Caller = stack[n]
    BY DEF Caller
  <2>6. stack' = Append([stack EXCEPT ![Len(stack)].rest = Tail(@)], Call(t, spec[t]))
    BY <2>1
  <2> HIDE DEF n, t
  <2>7. /\ n \in Nat /\ n >= 1 /\ DOMAIN stack = 1..n /\ DOMAIN stack' = 1..(n + 1)
        /\ \A i \in 1..n : stack'[i].agent = stack[i].agent
        /\ \A i \in 1..n : i # n => stack'[i] = stack[i]
        /\ stack'[n].rest = Tail(Caller.rest)
        /\ stack'[n + 1] = Call(t, spec[t])
    BY <1>1, <2>3, <2>5, <2>6, PushFrame DEF n
  <2>8. /\ n \in 1..n /\ n \in 1..(n + 1) /\ n + 1 \in 1..(n + 1) /\ 1 \in 1..n
        /\ \A i \in 1..n : i \in 1..(n + 1)
        /\ \A i \in 1..(n + 1) : i \in 1..n \/ i = n + 1
        /\ stack'[n + 1].agent = t /\ stack'[n + 1].rest = spec[t]
        /\ stack'[n].agent = c
    BY <2>4, <2>5, <2>7
  <2>9. state'.visitedAgents = state.visitedAgents \cup {c} /\ t \notin state'.visitedAgents
    BY <2>1 DEF With, Refuses
  <2>10. stack'[1].agent = root' /\ root' \in state'.visitedAgents
    <3>1. stack[1].agent = root /\ (n > 1 => root \in state.visitedAgents)
      BY <1>1 DEF GraphInv, WalkInv, n
    <3>2. n = 1 => c = root
      BY <2>5, <3>1
    <3>3. n # 1 => n > 1
      BY <2>7
    <3> QED
      BY <1>1, <2>7, <2>8, <2>9, <3>1, <3>2, <3>3
  <2>11. OnStack' = OnStack \cup {t}
    BY <2>7, <2>8 DEF OnStack
  <2>12. ASSUME NEW x, NEW y, Pending(x, y), ~(x = c /\ y = t)
         PROVE  Pending(x, y)'
    <3>0. PICK i \in 1..n : /\ stack[i].agent = x
                            /\ \E k \in DOMAIN stack[i].rest : stack[i].rest[k] = y
      BY <2>7, <2>12 DEF Pending
    <3>1. PICK k \in DOMAIN stack[i].rest : stack[i].agent = x /\ stack[i].rest[k] = y
      BY <3>0
    <3>2. CASE i # n
      BY <2>7, <2>8, <3>1, <3>2 DEF Pending
    <3>3. CASE i = n
      <4>1. Caller.rest[k] = y /\ x = c /\ k \in 1..Len(Caller.rest)
        BY <2>2, <2>5, <3>1, <3>3
      <4>2. k # 1
        BY <2>12, <4>1, <2>2 DEF t
      <4>3. /\ k - 1 \in DOMAIN Tail(Caller.rest)
            /\ Tail(Caller.rest)[k - 1] = y
        BY <1>1, <2>2, <4>1, <4>2
      <4>4. \E j \in DOMAIN stack'[n].rest : stack'[n].rest[j] = y
        BY <2>7, <4>3
      <4> QED
        BY <2>7, <2>8, <4>1, <4>4 DEF Pending
    <3> QED
      BY <3>2, <3>3
  <2>13. ASSUME NEW x \in (OnStack' \cup state'.visitedAgents) \ touched', NEW y \in Targets(x)'
         PROVE  Pending(x, y)' \/ (y # root' /\ (y \in OnStack' \/ Seen(y)'))
    <3>1. Targets(x)' = Targets(x)
      BY <1>1 DEF Targets
    <3>2. CASE x = t
      <4>1. PICK k \in DOMAIN spec[t] : spec[t][k] = y
        BY <2>13, <3>1, <3>2 DEF Targets
      <4> QED
        BY <2>7, <2>8, <3>2, <4>1 DEF Pending
    <3>3. CASE x = c /\ y = t
      BY <2>9, <2>10, <2>11, <3>3
    <3>4. CASE x # t /\ ~(x = c /\ y = t)
      <4>1. c \in OnStack
        BY <2>5, <2>7, <2>8 DEF OnStack
      <4>2. x \in (OnStack \cup state.visitedAgents) \ touched
        BY <1>1, <2>9, <2>11, <2>13, <3>4, <4>1
      <4>3. Pending(x, y) \/ (y # root /\ (y \in OnStack \/ Seen(y)))
        BY <1>1, <2>13, <3>1, <4>2 DEF GraphInv, WalkInv
      <4>4. Seen(y) => Seen(y)'
        BY <1>1, <2>9 DEF Seen
      <4> QED
        BY <1>1, <2>11, <2>12, <3>4, <4>3, <4>4
    <3> QED
      BY <3>2, <3>3, <3>4
  <2>14. ASSUME NEW i \in DOMAIN stack', stack'[i].agent \notin state'.visitedAgents \cup touched'
         PROVE  stack'[i].rest = spec'[stack'[i].agent]
    <3>1. CASE i = n + 1
      BY <1>1, <2>8, <3>1
    <3>2. CASE i \in 1..n
      <4>1. i # n
        BY <2>8, <2>9, <2>14, <3>2
      <4>2. stack'[i] = stack[i] /\ stack[i].agent \notin state.visitedAgents \cup touched
        BY <1>1, <2>7, <2>9, <2>14, <3>2, <4>1
      <4> QED
        BY <1>1, <2>7, <3>2, <4>2 DEF GraphInv, WalkInv
    <3> QED
      BY <2>7, <2>8, <2>14, <3>1, <3>2
  <2>15. WalkInv'
    BY <2>10, <2>13, <2>14 DEF WalkInv
  <2> QED
    BY <1>2, <1>3, <2>15
<1> QED
  BY <1>4, <1>5

\* A call that returns is taken off, and the other frames stay.
LEMMA PopFrame ==
    ASSUME NEW s \in Seq(Frame), NEW n, n = Len(s), n > 1,
           NEW s2, s2 = SubSeq(s, 1, Len(s) - 1)
    PROVE  /\ n \in Nat /\ DOMAIN s = 1..n /\ DOMAIN s2 = 1..(n - 1)
           /\ \A i \in 1..(n - 1) : s2[i] = s[i]
           /\ s2 \in Seq(Frame) /\ Len(s2) = n - 1
<1> DEFINE m == n - 1
<1>1. n \in Nat /\ DOMAIN s = 1..n /\ m \in Nat /\ m >= 1 /\ \A i \in 1..m : s[i] \in Frame
  OBVIOUS
<1>2. s2 = SubSeq(s, 1, m)
  OBVIOUS
<1> HIDE DEF m
<1>3. /\ s2 \in Seq(Frame) /\ Len(s2) = m
      /\ \A i \in 1..m : s2[i] = s[i]
  BY <1>1, <1>2, SubSeqProperties
<1>4. DOMAIN s2 = 1..m
  BY <1>3
<1> QED
  BY <1>1, <1>3, <1>4 DEF m

LEMMA ReturnGraphInv ==
    ASSUME GraphInv, Return
    PROVE  (PassInv /\ WalkInv /\ WalkedInv /\ Acyclic(Settled))'
<1> DEFINE n == Len(stack)
<1>1. /\ UNCHANGED <<spec, acc, queue, root, touched, state>>
      /\ pc = "validate" /\ pc' \in {"validate", "translate"}
      /\ stack \in Seq(Frame) /\ stack # <<>> /\ Caller.rest = <<>>
  BY DEF Return, pass, GraphInv, IInv, TypeOK, StackCounted
<1>2. PassInv' /\ Acyclic(Settled)'
  BY <1>1, WalkKeepsSettled
<1>3. Caller = stack[n] /\ n \in Nat /\ n >= 1 /\ DOMAIN stack = 1..n
  BY <1>1 DEF Caller
<1>4. /\ stack[1].agent = root
      /\ n > 1 => root \in state.visitedAgents
      /\ \A i \in DOMAIN stack :
            stack[i].agent \notin state.visitedAgents \cup touched =>
                stack[i].rest = spec[stack[i].agent]
      /\ \A x \in (OnStack \cup state.visitedAgents) \ touched : \A y \in Targets(x) :
            Pending(x, y) \/ (y # root /\ (y \in OnStack \/ Seen(y)))
  BY <1>1 DEF GraphInv, WalkInv
<1>5. /\ \A x : Targets(x)' = Targets(x)
      /\ \A y : Seen(y)' <=> Seen(y)
  BY <1>1 DEF Targets, Seen
<1>6. Seen(stack[n].agent)
  BY <1>1, <1>3, <1>4 DEF Seen
<1>7. CASE n > 1
  <2>1. stack' = SubSeq(stack, 1, Len(stack) - 1) /\ pc' = "validate"
    BY <1>1, <1>7 DEF Return
  <2> HIDE DEF n
  <2>2. DOMAIN stack' = 1..(n - 1) /\ \A i \in 1..(n - 1) : stack'[i] = stack[i]
    BY <1>1, <1>7, <2>1, PopFrame DEF n
  <2>3. /\ \A i \in 1..(n - 1) : i \in 1..n
        /\ \A i \in 1..n : i \in 1..(n - 1) \/ i = n
        /\ 1 \in 1..(n - 1)
    BY <1>3, <1>7
  <2>4. OnStack' \subseteq OnStack /\ \A y \in OnStack : y \in OnStack' \/ y = stack[n].agent
    BY <1>3, <2>2, <2>3 DEF OnStack
  <2>5. ASSUME NEW x, NEW y, Pending(x, y) PROVE Pending(x, y)'
    <3>1. PICK i \in 1..n : /\ stack[i].agent = x
                            /\ \E k \in DOMAIN stack[i].rest : stack[i].rest[k] = y
      BY <1>3, <2>5 DEF Pending
    <3>2. i # n
      BY <1>1, <1>3, <3>1
    <3> QED
      BY <2>2, <2>3, <3>1, <3>2 DEF Pending
  <2>6. WalkedInv'
    BY <2>1 DEF WalkedInv
  <2>7. ASSUME NEW x \in (OnStack' \cup state'.visitedAgents) \ touched', NEW y \in Targets(x)'
        PROVE  Pending(x, y)' \/ (y # root' /\ (y \in OnStack' \/ Seen(y)'))
    <3>1. x \in (OnStack \cup state.visitedAgents) \ touched /\ y \in Targets(x)
      BY <1>1, <1>5, <2>4, <2>7
    <3>2. Pending(x, y) \/ (y # root /\ (y \in OnStack \/ Seen(y)))
      BY <1>4, <3>1
    <3> QED
      BY <1>1, <1>5, <1>6, <2>4, <2>5, <3>2
  <2>8. /\ stack'[1].agent = root' /\ root' \in state'.visitedAgents
        /\ \A i \in DOMAIN stack' :
              stack'[i].agent \notin state'.visitedAgents \cup touched' =>
                  stack'[i].rest = spec'[stack'[i].agent]
    BY <1>1, <1>3, <1>4, <1>7, <2>2, <2>3
  <2>9. WalkInv'
    BY <2>7, <2>8 DEF WalkInv
  <2> QED
    BY <1>2, <2>6, <2>9
<1>8. CASE ~(n > 1)
  <2>1. n = 1 /\ pc' = "translate"
    BY <1>3, <1>8 DEF Return
  <2>2. OnStack = {root}
    BY <1>3, <1>4, <2>1 DEF OnStack
  <2>3. \A x, y : ~Pending(x, y)
    BY <1>1, <1>3, <2>1 DEF Pending
  <2>4. WalkedInv'
    BY <1>1, <1>4, <1>5, <2>2, <2>3 DEF WalkedInv
  <2>5. WalkInv'
    BY <2>1 DEF WalkInv
  <2> QED
    BY <1>2, <2>4, <2>5
<1> QED
  BY <1>7, <1>8

LEMMA TranslateGraphInv ==
    ASSUME GraphInv, Translate
    PROVE  (PassInv /\ WalkInv /\ WalkedInv /\ Acyclic(Settled))'
<1>1. /\ UNCHANGED <<spec, acc, queue, root, touched, state>>
      /\ pc = "translate" /\ pc' \in {"translate", "accepted", "rejected"}
  BY DEF Translate, Reject, pass
<1>2. PassInv' /\ Acyclic(Settled)'
  BY <1>1, WalkKeepsSettled
<1>3. WalkInv'
  BY <1>1 DEF WalkInv
<1>4. WalkedInv'
  BY <1>1 DEF GraphInv, WalkedInv, Targets, Seen
<1> QED
  BY <1>2, <1>3, <1>4

LEMMA UpdateStatusGraphInv ==
    ASSUME GraphInv, UpdateStatus
    PROVE  (PassInv /\ WalkInv /\ WalkedInv /\ Acyclic(Settled))'
<1>1. /\ pc' = "idle" /\ root' = Absent /\ touched' = {} /\ spec' = spec
      /\ pc \in {"accepted", "rejected"} /\ root \in Agents
      /\ acc \in [Agents -> {"none", "true", "false"}]
  BY DEF UpdateStatus, Rest, GraphInv, IInv, TypeOK, StackCounted
<1>2. WalkInv' /\ WalkedInv'
  BY <1>1 DEF WalkInv, WalkedInv
<1>3. CASE root \in touched
  <2>1. queue' = queue \cup {root} /\ acc' = acc
    BY <1>3 DEF UpdateStatus
  <2>2. PassInv'
    BY <1>1, <2>1 DEF GraphInv, PassInv
  <2>3. Settled' \subseteq Settled
    BY <1>1, <2>1 DEF Settled
  <2> QED
    BY <1>1, <1>2, <2>2, <2>3, SettledShrinks DEF GraphInv
<1>4. CASE root \notin touched
  <2>1. queue' = queue /\ acc' = [acc EXCEPT ![root] = IF pc = "accepted" THEN "true" ELSE "false"]
    BY <1>4 DEF UpdateStatus
  <2>2. spec[root] # Absent
    BY <1>1, <1>4 DEF GraphInv, PassInv
  <2>3. PassInv'
    BY <1>1, <2>1, <2>2 DEF GraphInv, PassInv
  <2>4. CASE pc = "accepted"
    BY <1>2, <1>4, <2>3, <2>4, SettledGrows
  <2>5. CASE pc = "rejected"
    <3>1. Settled' \subseteq Settled
      BY <1>1, <2>1, <2>5 DEF Settled
    <3> QED
      BY <1>1, <1>2, <2>3, <3>1, SettledShrinks DEF GraphInv
  <2> QED
    BY <1>1, <2>4, <2>5
<1> QED
  BY <1>3, <1>4

LEMMA NextGraphInv == GraphInv /\ [Next]_vars => GraphInv'
<1> SUFFICES ASSUME GraphInv, [Next]_vars PROVE GraphInv'
  OBVIOUS
<1>1. IInv'
  BY NextInv DEF GraphInv
<1>2. CASE UNCHANGED vars
  <2>1. PassInv' /\ Settled' = Settled /\ spec' = spec
    BY <1>2 DEF GraphInv, PassInv, Settled, vars, pass
  <2>4. Acyclic(Settled)'
    BY <2>1, SettledShrinks DEF GraphInv
  <2>2. WalkInv'
    BY <1>2 DEF GraphInv, WalkInv, Pending, OnStack, Seen, Targets, vars, pass, walk
  <2>3. WalkedInv'
    BY <1>2 DEF GraphInv, WalkedInv, Seen, Targets, vars, pass, walk
  <2> QED
    BY <1>1, <2>1, <2>2, <2>3, <2>4 DEF GraphInv
<1>3. CASE Next
  <2>1. CASE Users
    BY <1>1, <2>1, UsersGraphInv DEF GraphInv
  <2>2. CASE Restart
    BY <1>1, <2>2, RestartGraphInv DEF GraphInv
  <2>3. ASSUME NEW a \in Agents, Begin(a) PROVE GraphInv'
    BY <1>1, <2>3, BeginGraphInv DEF GraphInv
  <2>4. CASE Visit
    BY <1>1, <2>4, VisitGraphInv DEF GraphInv
  <2>5. CASE Return
    BY <1>1, <2>5, ReturnGraphInv DEF GraphInv
  <2>6. CASE Translate
    BY <1>1, <2>6, TranslateGraphInv DEF GraphInv
  <2>7. CASE UpdateStatus
    BY <1>1, <2>7, UpdateStatusGraphInv DEF GraphInv
  <2> QED
    BY <1>3, <2>1, <2>2, <2>3, <2>4, <2>5, <2>6, <2>7 DEF Next, Worker
<1> QED
  BY <1>2, <1>3

\* At rest the accepted Agents do not call each other in a circle: each walk
\* saw everything its Agent may call as it was then, an Agent that changed
\* since is queued, and so the last one to be accepted can close no circle.
THEOREM AcceptedNoCircle == Spec => []AcceptedAcyclic
<1>1. GraphInv => AcceptedAcyclic
  <2> SUFFICES ASSUME GraphInv, queue = {}, pc = "idle"
               PROVE  Acyclic({a \in Agents : acc[a] = "true"})
    BY DEF AcceptedAcyclic
  <2>1. {a \in Agents : acc[a] = "true"} = Settled
    BY GraphAssumption DEF GraphInv, PassInv, Settled
  <2> QED
    BY <2>1 DEF GraphInv
<1> QED
  BY <1>1, InitGraphInv, NextGraphInv, PTL DEF Spec

----------------------------------------------------------------------------
(* The verdict is exact. *)

\* The Agent a mention names.
To(m) == spec[m[1]][m[2]]

\* The mentions the walk has looked at: of a call on the stack those that are no
\* longer before it, of a call that has returned all.
Looked ==
    {m \in Mentions(state.visitedAgents) :
        \A k \in DOMAIN stack :
            stack[k].agent = m[1] => m[2] + Len(stack[k].rest) <= Len(spec[m[1]])}

\* The Agents a call was made for, those without tools left out that have returned.
Called == state.visitedAgents \cup OnStack

\* What the mentions D that were looked at tell of the calls C: each is for an
\* Agent that root may end up calling, none names a missing Agent or root, and
\* an Agent with tools is named once.
Tells(D, C) ==
    /\ C \subseteq Reachable(root)
    /\ \A b \in C : spec[b] # Absent /\ (b # root => \E m \in D : To(m) = b)
    /\ \A m \in D : spec[To(m)] # Absent /\ (spec[To(m)] # <<>> => To(m) \in C \ {root})
    /\ \A m, o \in D : (To(m) = To(o) /\ spec[To(m)] # <<>>) => m = o

\* A call has the last tools of its Agent before it, and all of them as long as
\* it has made no call itself; those below it on the stack have.
FrameExact(k) ==
    LET a == stack[k].agent   r == stack[k].rest IN
    /\ Len(r) <= Len(spec[a])
    /\ \A i \in DOMAIN r : r[i] = spec[a][Len(spec[a]) - Len(r) + i]
    /\ k < Len(stack) => a \in state.visitedAgents
    /\ a \notin state.visitedAgents => r = spec[a]

WalkExact ==
    pc = "validate" /\ touched = {} =>
        /\ stack[1].agent = root
        /\ \A k, l \in DOMAIN stack : stack[k].agent = stack[l].agent => k = l
        /\ \A b \in state.visitedAgents : spec[b] # <<>>
        /\ \A k \in DOMAIN stack : FrameExact(k)
        /\ Tells(Looked, Called)
        /\ IsFiniteSet(Looked) /\ state.depth = Cardinality(Looked)

SecondLook ==
    pc = "translate" /\ touched = {} =>
        \A i \in DOMAIN stack[1].rest : stack[1].rest[i] \in Targets(root)

VerdictInv ==
    touched = {} =>
        /\ pc # "idle" => mine = spec[root]
        /\ pc \in {"translate", "accepted"} => Acceptable(root)
        /\ pc = "rejected" => ~Acceptable(root)

ExactInv == IInv /\ WalkExact /\ SecondLook /\ VerdictInv

\* Reachable holds its root and is closed under calls; it is within every such set.
LEMMA ReachableRoot ==
    ASSUME NEW a \in Agents
    PROVE  a \in Reachable(a)
BY DEF Reachable

LEMMA ReachableClosed ==
    ASSUME NEW a, NEW b \in Reachable(a), spec[b] # Absent, NEW c \in Targets(b), c \in Agents
    PROVE  c \in Reachable(a)
BY DEF Reachable

LEMMA ReachableLeast ==
    ASSUME NEW a, NEW S \in SUBSET Agents, a \in S,
           \A b \in S : spec[b] # Absent => Targets(b) \subseteq S
    PROVE  Reachable(a) \subseteq S
BY DEF Reachable

LEMMA ReachableAgents == \A a : Reachable(a) \subseteq Agents
BY DEF Reachable

\* Mentions of Agents that are there are pairs of an Agent and a place in its list.
LEMMA MentionIs ==
    ASSUME NEW S, NEW m
    PROVE  m \in Mentions(S) <=> \E b \in S : \E i \in DOMAIN spec[b] : m = <<b, i>>
BY DEF Mentions

LEMMA MentionTyped ==
    ASSUME TypeOK, NEW S \in SUBSET Agents, NEW m \in Mentions(S), \A b \in S : spec[b] # Absent
    PROVE  /\ m[1] \in S /\ m[2] \in DOMAIN spec[m[1]] /\ m = <<m[1], m[2]>>
           /\ To(m) \in Targets(m[1]) /\ To(m) \in Agents /\ spec[m[1]] # <<>>
<1>0. PICK b \in S : \E i \in DOMAIN spec[b] : m = <<b, i>>
  BY MentionIs
<1>1. PICK i \in DOMAIN spec[b] : m = <<b, i>>
  BY <1>0
<1>2. spec[b] \in Seq(Agents)
  BY ListTyped
<1>3. spec[b][i] \in Agents /\ spec[b] # <<>>
  BY <1>2
<1> QED
  BY <1>1, <1>3 DEF To, Targets

LEMMA MentionsFinite ==
    ASSUME TypeOK, NEW S \in SUBSET Agents, \A b \in S : spec[b] # Absent
    PROVE  IsFiniteSet(Mentions(S))
<1> DEFINE of == [b \in S |-> {<<b, i>> : i \in DOMAIN spec[b]}]
           all == {of[b] : b \in S}
<1>1. IsFiniteSet(S)
  BY GraphAssumption, FS_Subset
<1>2. of \in Surjection(S, all)
  BY DEF Surjection
<1>3. IsFiniteSet(all)
  BY <1>1, <1>2, FS_Surjection
<1>4. ASSUME NEW b \in S PROVE IsFiniteSet(of[b])
  <2> DEFINE s == spec[b]
             f == [i \in 1..Len(s) |-> <<b, i>>]
  <2>1. s \in Seq(Agents)
    BY ListTyped
  <2>2. DOMAIN s = 1..Len(s) /\ Len(s) \in Nat
    BY <2>1
  <2>3. IsFiniteSet(1..Len(s))
    BY <2>2, FS_Interval
  <2>4. f \in Surjection(1..Len(s), of[b])
    BY <2>2 DEF Surjection
  <2> QED
    BY <2>3, <2>4, FS_Surjection
<1>5. IsFiniteSet(UNION all)
  BY <1>3, <1>4, FS_UNION
<1>6. Mentions(S) = UNION all
  BY DEF Mentions
<1> QED
  BY <1>5, <1>6

\* In a graph that is Acceptable no mention names the root, and an Agent with tools is
\* named once.
LEMMA AcceptableTells ==
    ASSUME TypeOK, NEW a \in Agents, Acceptable(a),
           NEW m \in Mentions(Reachable(a)), spec[To(m)] # <<>>
    PROVE  To(m) # a /\ \A o \in Mentions(Reachable(a)) : To(o) = To(m) => o = m
<1> DEFINE R == Reachable(a)
           N == {o \in Mentions(R) : spec[o[1]][o[2]] = To(m)}
<1>1. \A b \in R : spec[b] # Absent
  BY DEF Acceptable
<1>2. R \subseteq Agents
  BY ReachableAgents
<1>3. m[1] \in R /\ To(m) \in Targets(m[1]) /\ To(m) \in Agents
  BY <1>1, <1>2, MentionTyped
<1>4. To(m) \in R
  BY <1>1, <1>3, ReachableClosed
<1>5. Cardinality(N) <= IF To(m) = a THEN 0 ELSE 1
  BY <1>4 DEF Acceptable
<1>6. IsFiniteSet(Mentions(R))
  BY <1>1, <1>2, MentionsFinite
<1>7. IsFiniteSet(N) /\ Cardinality(N) \in Nat
  BY <1>6, FS_Subset, FS_CardinalityType
<1>8. m \in N
  BY DEF To
<1>9. To(m) # a
  <2> SUFFICES ASSUME To(m) = a PROVE FALSE
    OBVIOUS
  <2>1. Cardinality(N) = 0
    BY <1>5, <1>7
  <2> QED
    BY <1>7, <1>8, <2>1, FS_EmptySet
<1>10. ASSUME NEW o \in Mentions(R), To(o) = To(m), o # m PROVE FALSE
  <2>1. o \in N
    BY <1>10 DEF To
  <2>2. {m, o} \in SUBSET N
    BY <1>8, <2>1
  <2>3. IsFiniteSet({m}) /\ Cardinality({m}) = 1
    BY FS_Singleton
  <2>4. {m} \cup {o} = {m, o} /\ o \notin {m}
    BY <1>10
  <2>5. Cardinality({m, o}) = 2
    <3>1. Cardinality({m} \cup {o}) = Cardinality({m}) + 1
      BY <2>3, <2>4, FS_AddElement
    <3> QED
      BY <2>3, <2>4, <3>1
  <2>6. Cardinality({m, o}) <= Cardinality(N)
    BY <1>7, <2>2, FS_Subset
  <2>7. Cardinality(N) <= 1
    BY <1>5, <1>9
  <2> QED
    BY <1>7, <2>5, <2>6, <2>7
<1> QED
  BY <1>9, <1>10

\* And the other way round.
LEMMA TellsAcceptable ==
    ASSUME TypeOK, NEW a \in Agents, \A b \in Reachable(a) : spec[b] # Absent,
           Cardinality(Mentions(Reachable(a))) <= MAX_DEPTH,
           \A m \in Mentions(Reachable(a)) : spec[To(m)] # <<>> => To(m) # a,
           \A m, o \in Mentions(Reachable(a)) : (To(m) = To(o) /\ spec[To(m)] # <<>>) => m = o
    PROVE  Acceptable(a)
<1> DEFINE R == Reachable(a)
<1>1. ASSUME NEW b \in R, spec[b] # <<>>
      PROVE  Cardinality({m \in Mentions(R) : spec[m[1]][m[2]] = b}) <= IF b = a THEN 0 ELSE 1
  <2> DEFINE N == {m \in Mentions(R) : spec[m[1]][m[2]] = b}
  <2>1. \A m \in N : To(m) = b
    BY DEF To
  <2>2. CASE b = a
    <3>1. N = {}
      BY <1>1, <2>1, <2>2
    <3> QED
      BY <2>2, <3>1, FS_EmptySet
  <2>3. CASE b # a /\ N = {}
    <3>1. Cardinality(N) = 0
      BY <2>3, FS_EmptySet
    <3> HIDE DEF N
    <3>2. Cardinality(N) <= IF b = a THEN 0 ELSE 1
      BY <2>3, <3>1
    <3> QED
      BY <3>2 DEF N
  <2>4. CASE b # a /\ N # {}
    <3>1. PICK m : m \in N
      BY <2>4
    <3>2. N = {m}
      BY <1>1, <2>1, <3>1
    <3>3. Cardinality(N) = 1
      BY <3>2, FS_Singleton
    <3> HIDE DEF N
    <3>4. Cardinality(N) <= IF b = a THEN 0 ELSE 1
      BY <2>4, <3>3
    <3> QED
      BY <3>4 DEF N
  <2> QED
    BY <2>2, <2>3, <2>4
<1> QED
  BY <1>1 DEF Acceptable

\* The graph of a pass that nobody disturbs is one graph.
LEMMA GraphStays ==
    ASSUME UNCHANGED <<spec, root>>
    PROVE  /\ Reachable(root)' = Reachable(root)
           /\ Acceptable(root)' <=> Acceptable(root)
           /\ \A S : Mentions(S)' = Mentions(S)
           /\ \A m : To(m)' = To(m)
           /\ \A a : Targets(a)' = Targets(a)
<1>1. \A a : Targets(a)' = Targets(a)
  BY DEF Targets
<1>2. Reachable(root)' = Reachable(root)
  BY <1>1 DEF Reachable
<1>3. \A S : Mentions(S)' = Mentions(S)
  BY DEF Mentions
<1>4. \A m : To(m)' = To(m)
  BY DEF To
<1>5. Acceptable(root)' <=> Acceptable(root)
  BY <1>2, <1>3 DEF Acceptable
<1> QED
  BY <1>1, <1>2, <1>3, <1>4, <1>5

\* The mentions looked at are mentions within what root reaches.
LEMMA LookedReachable ==
    ASSUME ExactInv, pc = "validate", touched = {}
    PROVE  /\ Looked \subseteq Mentions(Reachable(root))
           /\ Looked \subseteq Mentions(state.visitedAgents)
           /\ \A b \in Called : spec[b] # Absent
           /\ state.visitedAgents \subseteq Agents
<1>1. /\ Called \subseteq Reachable(root) /\ \A b \in Called : spec[b] # Absent
  BY DEF ExactInv, WalkExact, Tells
<1>2. state.visitedAgents \subseteq Reachable(root) /\ state.visitedAgents \subseteq Agents
  BY <1>1, ReachableAgents DEF Called
<1> QED
  BY <1>1, <1>2 DEF Looked, Mentions

LEMMA NextPlace ==
    ASSUME NEW x \in Nat, NEW y \in Nat \ {0}, y <= x, NEW j, j = x - y + 1
    PROVE  j \in Nat /\ j \in 1..x /\ x # 0 /\ j + y = x + 1 /\ ~(j + y <= x)
OBVIOUS

LEMMA PlaceAfter ==
    ASSUME NEW x \in Nat, NEW y \in Nat, NEW i \in 1..x, NEW j, j = x - y + 1
    PROVE  (i + (y - 1) <= x) <=> (i + y <= x \/ i = j)
OBVIOUS

LEMMA PlaceOfTail ==
    ASSUME NEW x \in Nat, NEW y \in Nat, NEW z, z = y - 1, NEW i \in Nat
    PROVE  x - y + (i + 1) = x - z + i
OBVIOUS

\* The next mention a walk looks at: it was not looked at before.
LEMMA NextMention ==
    ASSUME ExactInv, pc = "validate", touched = {}, Caller.rest # <<>>,
           NEW j, j = Len(spec[Caller.agent]) - Len(Caller.rest) + 1
    PROVE  /\ Caller.agent \in Called /\ Caller.agent \in Reachable(root)
           /\ spec[Caller.agent] # Absent /\ spec[Caller.agent] # <<>>
           /\ spec[Caller.agent] \in Seq(Agents)
           /\ Len(Caller.rest) \in Nat \ {0} /\ Len(Caller.rest) <= Len(spec[Caller.agent])
           /\ j \in Nat /\ j \in DOMAIN spec[Caller.agent]
           /\ To(<<Caller.agent, j>>) = Head(Caller.rest)
           /\ <<Caller.agent, j>> \in Mentions(Reachable(root)) \ Looked
           /\ Head(Caller.rest) \in Agents /\ Head(Caller.rest) \in Reachable(root)
<1> DEFINE c == Caller.agent
           r == Caller.rest
           n == Len(stack)
<1>1. stack \in Seq(Frame) /\ stack # <<>> /\ TypeOK
  BY DEF ExactInv, IInv, TypeOK, StackCounted
<1>2. c \in Agents /\ r \in Seq(Agents) /\ n \in DOMAIN stack /\ Caller = stack[n]
  BY <1>1, CallerTyped DEF Caller
<1>3. FrameExact(n) /\ Tells(Looked, Called)
  BY <1>2 DEF ExactInv, WalkExact
<1>4. c \in OnStack
  BY <1>2 DEF OnStack
<1>5. c \in Called /\ c \in Reachable(root) /\ spec[c] # Absent
  BY <1>3, <1>4 DEF Tells, Called
<1>6. spec[c] \in Seq(Agents)
  BY <1>1, <1>2, <1>5, ListTyped
<1>7. Len(r) <= Len(spec[c]) /\ \A i \in DOMAIN r : r[i] = spec[c][Len(spec[c]) - Len(r) + i]
  BY <1>2, <1>3 DEF FrameExact
<1>8. Len(r) \in Nat \ {0} /\ Len(spec[c]) \in Nat /\ 1 \in DOMAIN r /\ DOMAIN spec[c] = 1..Len(spec[c])
  BY <1>2, <1>6
<1>9. /\ j \in Nat /\ j \in 1..Len(spec[c]) /\ Len(spec[c]) # 0
      /\ ~(j + Len(r) <= Len(spec[c]))
  BY <1>7, <1>8, NextPlace
<1>10. j \in DOMAIN spec[c] /\ spec[c] # <<>>
  <2>1. spec[c] # <<>>
    BY <1>9
  <2> QED
    BY <1>8, <1>9, <2>1
<1>11. r[1] = spec[c][j] /\ Head(r) = r[1]
  <2>1. r[1] = spec[c][Len(spec[c]) - Len(r) + 1]
    BY <1>7, <1>8
  <2>2. r[1] = spec[c][j]
    BY <2>1
  <2>3. Head(r) = r[1]
    BY <1>2
  <2> QED
    BY <2>2, <2>3
<1>12. To(<<c, j>>) = Head(r)
  BY <1>11 DEF To
<1>13. <<c, j>> \in Mentions(Reachable(root))
  BY <1>5, <1>10, MentionIs
<1>14. <<c, j>> \notin Looked
  <2> SUFFICES ASSUME <<c, j>> \in Looked PROVE FALSE
    OBVIOUS
  <2>1. j + Len(r) <= Len(spec[c])
    BY <1>2 DEF Looked
  <2> QED
    BY <1>9, <2>1
<1>15. Head(r) \in Agents /\ Head(r) \in Targets(c)
  <2>1. Head(r) \in Targets(c)
    BY <1>10, <1>11 DEF Targets
  <2> QED
    BY <1>2, <1>8, <1>11, <2>1
<1>16. Head(r) \in Reachable(root)
  BY <1>5, <1>15, ReachableClosed
<1> HIDE DEF c, r
<1>17. <<c, j>> \in Mentions(Reachable(root)) \ Looked
  BY <1>13, <1>14
<1> QED
  BY <1>5, <1>6, <1>7, <1>8, <1>9, <1>10, <1>12, <1>15, <1>16, <1>17 DEF c, r

\* validateAgent rejects no Agent whose graph is Acceptable.
LEMMA RejectExact ==
    ASSUME ExactInv, Visit, pc' = "rejected", touched = {}
    PROVE  ~Acceptable(root)
<1> SUFFICES ASSUME Acceptable(root) PROVE FALSE
  OBVIOUS
<1> DEFINE c == Caller.agent
           t == Head(Caller.rest)
           j == Len(spec[c]) - Len(Caller.rest) + 1
           m == <<c, j>>
           M == Mentions(Reachable(root))
<1>1. /\ pc = "validate" /\ Caller.rest # <<>> /\ root \in Agents /\ TypeOK
      /\ t = c \/ spec[t] = Absent \/ (state' = With(c) /\ Refuses(t, state'))
  BY DEF Visit, ExactInv, IInv, StackCounted
<1> HIDE DEF j
<1>2. /\ c \in Called /\ spec[c] # <<>> /\ To(m) = t /\ m \in M \ Looked
      /\ t \in Agents /\ t \in Reachable(root)
  BY <1>1, NextMention DEF j
<1> HIDE DEF c, t, m
<1>3. spec[t] # Absent /\ \A b \in Reachable(root) : spec[b] # Absent
  BY <1>2 DEF Acceptable
<1>4. /\ IsFiniteSet(Looked) /\ state.depth = Cardinality(Looked) /\ Tells(Looked, Called)
      /\ \A b \in state.visitedAgents : spec[b] # <<>>
  BY <1>1 DEF ExactInv, WalkExact
<1>5. Looked \subseteq M
  BY <1>1, LookedReachable
<1>6. ~(t \in Called /\ spec[t] # <<>>)
  <2> SUFFICES ASSUME t \in Called, spec[t] # <<>> PROVE FALSE
    OBVIOUS
  <2>1. t # root /\ \A o \in M : To(o) = t => o = m
    BY <1>1, <1>2, AcceptableTells
  <2>2. PICK o \in Looked : To(o) = t
    BY <1>4, <2>1 DEF Tells
  <2> QED
    BY <1>2, <1>5, <2>1, <2>2
<1>7. t # c /\ t \notin state.visitedAgents
  BY <1>2, <1>4, <1>6 DEF Called
<1>8. state' = With(c) /\ Refuses(t, state')
  BY <1>1, <1>3, <1>7
<1>9. state'.visitedAgents = state.visitedAgents \cup {c} /\ state'.depth = state.depth + 1
  BY <1>8 DEF With
<1>10. state.depth + 1 > MAX_DEPTH
  BY <1>7, <1>8, <1>9 DEF Refuses
<1>11. IsFiniteSet(Looked \cup {m}) /\ Cardinality(Looked \cup {m}) = Cardinality(Looked) + 1
  BY <1>2, <1>4, FS_AddElement
<1>12. IsFiniteSet(M)
  BY <1>1, <1>3, ReachableAgents, MentionsFinite
<1>13. Cardinality(Looked \cup {m}) <= Cardinality(M) /\ Cardinality(M) \in Nat
  BY <1>2, <1>5, <1>12, FS_Subset, FS_CardinalityType
<1>14. Cardinality(M) <= MAX_DEPTH
  BY DEF Acceptable
<1> QED
  BY <1>4, <1>10, <1>11, <1>13, <1>14, GraphAssumption, FS_CardinalityType

\* A call that is made looks at one mention more, and is the only one of its Agent.
LEMMA PushExact ==
    ASSUME ExactInv, Visit, pc' # "rejected", touched = {}
    PROVE  WalkExact'
<1> DEFINE c == Caller.agent
           r == Caller.rest
           t == Head(Caller.rest)
           n == Len(stack)
           j == Len(spec[c]) - Len(r) + 1
           m == <<c, j>>
           V == state.visitedAgents
<1>1. /\ UNCHANGED <<spec, root, touched>> /\ pc = "validate" /\ TypeOK
      /\ stack \in Seq(Frame) /\ stack # <<>> /\ r # <<>>
      /\ t # c /\ spec[t] # Absent /\ state' = With(c) /\ ~Refuses(t, state')
      /\ stack' = Append([stack EXCEPT ![Len(stack)].rest = Tail(@)], Call(t, spec[t]))
  BY DEF Visit, Reject, pass, ExactInv, IInv, TypeOK, StackCounted
<1>2. /\ c \in Called /\ c \in Reachable(root) /\ spec[c] # Absent /\ spec[c] # <<>>
      /\ spec[c] \in Seq(Agents) /\ Len(r) \in Nat \ {0} /\ Len(r) <= Len(spec[c])
      /\ j \in Nat /\ j \in DOMAIN spec[c] /\ To(m) = t
      /\ m \in Mentions(Reachable(root)) \ Looked
      /\ t \in Agents /\ t \in Reachable(root)
  <2> HIDE DEF j
  <2> QED
    BY <1>1, NextMention DEF j
<1>3. /\ stack[1].agent = root
      /\ \A k, l \in DOMAIN stack : stack[k].agent = stack[l].agent => k = l
      /\ \A b \in V : spec[b] # <<>>
      /\ \A k \in DOMAIN stack : FrameExact(k)
      /\ Tells(Looked, Called) /\ IsFiniteSet(Looked) /\ state.depth = Cardinality(Looked)
  BY <1>1 DEF ExactInv, WalkExact
<1>4. Caller \in Frame /\ c \in Agents /\ r \in Seq(Agents) /\ n \in DOMAIN stack /\ Caller = stack[n]
  BY <1>1, CallerTyped DEF Caller
<1>5. Call(t, spec[t]) \in Frame /\ Call(t, spec[t]).agent = t /\ Call(t, spec[t]).rest = spec[t]
  BY <1>1, <1>2, ListTyped, CallTyped DEF Call
<1> HIDE DEF c, t, n, j
<1>6. /\ n \in Nat /\ n >= 1 /\ DOMAIN stack = 1..n /\ DOMAIN stack' = 1..(n + 1)
      /\ \A i \in 1..n : stack'[i].agent = stack[i].agent
      /\ \A i \in 1..n : i # n => stack'[i] = stack[i]
      /\ stack'[n].rest = Tail(r)
      /\ stack'[n + 1] = Call(t, spec[t])
  BY <1>1, <1>4, <1>5, PushFrame DEF n
<1>7. /\ n \in 1..n /\ n \in 1..(n + 1) /\ n + 1 \in 1..(n + 1) /\ 1 \in 1..n
      /\ \A i \in 1..n : i \in 1..(n + 1) /\ i # n + 1 /\ (i # n => i < n)
      /\ \A i \in 1..(n + 1) : i \in 1..n \/ i = n + 1
      /\ stack'[n + 1].agent = t /\ stack'[n + 1].rest = spec[t]
      /\ stack'[n].agent = c
  BY <1>4, <1>5, <1>6 DEF c
<1>8. /\ state'.visitedAgents = V \cup {c} /\ t \notin V \cup {c} /\ state'.depth = state.depth + 1
  BY <1>1 DEF With, Refuses
<1>9. Len(stack) = n /\ Len(stack') = n + 1
  <2>1. Len(stack') = n + 1
    BY <1>1, <1>4, <1>5, PushFrame DEF n
  <2> QED
    BY <2>1 DEF n
<1>10. /\ c \in Agents /\ \A k \in 1..n : stack[k].agent = c => k = n
       /\ \A k \in 1..n : stack[k].agent \in V \cup {c} /\ stack[k].agent # t
       /\ \A k \in 1..n : k # n => stack[k].agent # c
  <2>1. stack[n].agent = c
    BY <1>4 DEF c
  <2>2. \A k \in 1..n : stack[k].agent = c => k = n
    BY <1>3, <1>6, <1>7, <2>1
  <2>3. ASSUME NEW k \in 1..n PROVE stack[k].agent \in V \cup {c}
    <3>1. CASE k = n
      BY <2>1, <3>1
    <3>2. CASE k < n
      BY <1>3, <1>6, <1>9, <3>2 DEF FrameExact
    <3> QED
      BY <1>7, <3>1, <3>2
  <2> QED
    BY <1>4, <1>8, <2>2, <2>3 DEF c
<1>11. root \in V \cup {c} /\ t # root
  BY <1>3, <1>7, <1>8, <1>10
<1>12. stack'[1].agent = root'
  BY <1>1, <1>3, <1>6, <1>7
<1>13. ASSUME NEW k \in DOMAIN stack', NEW l \in DOMAIN stack', stack'[k].agent = stack'[l].agent
       PROVE  k = l
  BY <1>3, <1>6, <1>7, <1>10, <1>13
<1>14. \A b \in state'.visitedAgents : spec'[b] # <<>>
  BY <1>1, <1>2, <1>3, <1>8
<1>15. ASSUME NEW k \in DOMAIN stack' PROVE FrameExact(k)'
  <2>1. CASE k \in 1..n /\ k # n
    <3>1. stack'[k] = stack[k] /\ FrameExact(k) /\ k < n
      BY <1>3, <1>6, <1>7, <2>1
    <3> QED
      BY <1>1, <1>8, <1>9, <3>1 DEF FrameExact
  <2>2. CASE k = n
    <3>1. FrameExact(n) /\ stack[n].rest = r /\ stack[n].agent = c
      BY <1>3, <1>4 DEF c
    <3>2. /\ Tail(r) \in Seq(Agents) /\ Len(Tail(r)) = Len(r) - 1
          /\ \A i \in DOMAIN Tail(r) : /\ i \in Nat /\ i + 1 \in DOMAIN r
                                       /\ Tail(r)[i] = r[i + 1]
      BY <1>1, <1>4
    <3>3. ASSUME NEW i \in DOMAIN Tail(r)
          PROVE  Tail(r)[i] = spec[c][Len(spec[c]) - Len(Tail(r)) + i]
      <4>0. Len(spec[c]) \in Nat
        BY <1>2
      <4>1. Tail(r)[i] = spec[c][Len(spec[c]) - Len(r) + (i + 1)]
        BY <3>1, <3>2 DEF FrameExact
      <4>2. Len(spec[c]) - Len(r) + (i + 1) = Len(spec[c]) - Len(Tail(r)) + i
        <5>1. i \in Nat /\ Len(r) \in Nat /\ Len(Tail(r)) = Len(r) - 1
          BY <1>2, <3>2, <3>3
        <5> DEFINE x == Len(spec[c])
                   y == Len(r)
                   z == Len(Tail(r))
        <5>2. x \in Nat /\ y \in Nat /\ z = y - 1 /\ i \in Nat
          BY <4>0, <5>1
        <5> HIDE DEF x, y, z
        <5>3. x - y + (i + 1) = x - z + i
          BY <5>2, PlaceOfTail
        <5> QED
          BY <5>3 DEF x, y, z
      <4> QED
        BY <4>1, <4>2
    <3>4. Len(Tail(r)) <= Len(spec[c])
      BY <1>2, <3>2
    <3>5. stack'[n].rest = Tail(r) /\ stack'[n].agent = c /\ c \in state'.visitedAgents
      BY <1>6, <1>7, <1>8
    <3> HIDE DEF r
    <3> QED
      BY <1>1, <2>2, <3>3, <3>4, <3>5 DEF FrameExact
  <2>3. CASE k = n + 1
    <3>1. spec[t] \in Seq(Agents)
      BY <1>1, <1>2, ListTyped
    <3>2. \A i \in DOMAIN spec[t] : Len(spec[t]) - Len(spec[t]) + i = i
      BY <3>1
    <3>3. Len(spec[t]) <= Len(spec[t]) /\ ~(k < n + 1)
      BY <1>6, <2>3, <3>1
    <3> QED
      BY <1>1, <1>7, <1>9, <2>3, <3>2, <3>3 DEF FrameExact
  <2> QED
    BY <1>6, <1>7, <1>15, <2>1, <2>2, <2>3
<1>16. Looked' = Looked \cup {m}
  <2>1. Looked' = {x \in Mentions(V \cup {c}) :
                     \A k \in 1..(n + 1) :
                        stack'[k].agent = x[1] => x[2] + Len(stack'[k].rest) <= Len(spec[x[1]])}
    <3>1. Mentions(state.visitedAgents)' = Mentions(V \cup {c})
      BY <1>1, <1>8 DEF Mentions
    <3> HIDE DEF V
    <3> QED
      BY <1>1, <1>6, <3>1 DEF Looked
  <2>2. Looked = {x \in Mentions(V) :
                     \A k \in 1..n :
                        stack[k].agent = x[1] => x[2] + Len(stack[k].rest) <= Len(spec[x[1]])}
    BY <1>6 DEF Looked
  <2>3. Len(Tail(r)) = Len(r) - 1
    BY <1>1, <1>4
  <2>4. ASSUME NEW b \in V \cup {c}, NEW i \in DOMAIN spec[b]
        PROVE  <<b, i>> \in Looked' <=> <<b, i>> \in Looked \cup {m}
    <3>1. <<b, i>> \in Mentions(V \cup {c}) /\ (<<b, i>> \in Mentions(V) <=> b \in V)
      BY <2>4 DEF Mentions
    <3>2. CASE b # c
      <4>1. <<b, i>> # m
        BY <3>2
      <4>2. <<b, i>> \in Looked' <=>
              \A k \in 1..(n + 1) : stack'[k].agent = b => i + Len(stack'[k].rest) <= Len(spec[b])
        BY <2>1, <3>1
      <4>3. <<b, i>> \in Looked <=>
              \A k \in 1..n : stack[k].agent = b => i + Len(stack[k].rest) <= Len(spec[b])
        BY <2>2, <3>1, <3>2, <2>4
      <4>4. b # t
        BY <1>8, <2>4
      <4>5. \A k \in 1..(n + 1) : stack'[k].agent = b => k \in 1..n /\ stack'[k] = stack[k]
        BY <1>6, <1>7, <1>10, <3>2, <4>4
      <4>6. \A k \in 1..n : stack[k].agent = b => k \in 1..(n + 1) /\ stack'[k] = stack[k]
        BY <1>6, <1>7, <1>10, <3>2
      <4> QED
        BY <4>1, <4>2, <4>3, <4>5, <4>6
    <3>3. CASE b = c
      <4>1. <<b, i>> \in Looked' <=> i + (Len(r) - 1) <= Len(spec[c])
        <5>1. <<b, i>> \in Looked' <=>
              \A k \in 1..(n + 1) : stack'[k].agent = c => i + Len(stack'[k].rest) <= Len(spec[c])
          BY <2>1, <3>1, <3>3
        <5>2. \A k \in 1..(n + 1) : stack'[k].agent = c <=> k = n
          BY <1>1, <1>6, <1>7, <1>10
        <5> QED
          BY <1>6, <1>7, <2>3, <5>1, <5>2
      <4>2. <<b, i>> \in Looked <=> c \in V /\ i + Len(r) <= Len(spec[c])
        <5>1. <<b, i>> \in Looked <=>
              c \in V /\ \A k \in 1..n : stack[k].agent = c => i + Len(stack[k].rest) <= Len(spec[c])
          BY <2>2, <3>1, <3>3
        <5>2. \A k \in 1..n : stack[k].agent = c <=> k = n
          BY <1>4, <1>10 DEF c
        <5>3. stack[n].rest = r
          BY <1>4
        <5> QED
          BY <1>7, <5>1, <5>2, <5>3
      <4>3. <<b, i>> = m <=> i = j
        BY <3>3
      <4>4. i \in 1..Len(spec[c]) /\ Len(spec[c]) \in Nat
        BY <1>2, <2>4, <3>3
      <4>5. c \notin V => Len(r) = Len(spec[c])
        BY <1>3, <1>4 DEF FrameExact, c
      <4>6. j = Len(spec[c]) - Len(r) + 1
        BY DEF j
      <4>7. (i + (Len(r) - 1) <= Len(spec[c])) <=> (i + Len(r) <= Len(spec[c]) \/ i = j)
        BY <1>2, <4>4, <4>6, PlaceAfter
      <4>8. Len(r) = Len(spec[c]) => ~(i + Len(r) <= Len(spec[c]))
        BY <4>4
      <4> QED
        BY <4>1, <4>2, <4>3, <4>5, <4>7, <4>8
    <3> QED
      BY <3>2, <3>3
  <2>5. m \in Mentions(V \cup {c})
    BY <1>2, MentionIs
  <2>6. \A x \in Looked' \cup Looked \cup {m} : x \in Mentions(V \cup {c})
    BY <2>1, <2>2, <2>5 DEF Mentions
  <2>7. \A x \in Mentions(V \cup {c}) : \E b \in V \cup {c} : \E i \in DOMAIN spec[b] : x = <<b, i>>
    BY MentionIs
  <2> HIDE DEF m, V
  <2>8. ASSUME NEW x PROVE x \in Looked' <=> x \in Looked \cup {m}
    <3>1. CASE x \notin Mentions(V \cup {c})
      BY <2>6, <3>1
    <3>2. CASE x \in Mentions(V \cup {c})
      BY <2>4, <2>7, <3>2
    <3> QED
      BY <3>1, <3>2
  <2> QED
    BY <2>8
<1>17. Called' = Called \cup {t}
  <2>1. OnStack' = OnStack \cup {t}
    BY <1>6, <1>7 DEF OnStack
  <2>2. c \in OnStack
    BY <1>4 DEF OnStack, c
  <2> QED
    BY <1>8, <2>1, <2>2 DEF Called
<1>18. t \notin Called
  BY <1>6, <1>8, <1>10 DEF Called, OnStack
<1> HIDE DEF V, m
<1>19. Tells(Looked \cup {m}, Called \cup {t})
  <2>1. Called \cup {t} \subseteq Reachable(root)
    BY <1>2, <1>3 DEF Tells
  <2>2. \A b \in Called \cup {t} : spec[b] # Absent /\ (b # root => \E x \in Looked \cup {m} : To(x) = b)
    BY <1>1, <1>2, <1>3 DEF Tells
  <2>3. \A x \in Looked \cup {m} :
            spec[To(x)] # Absent /\ (spec[To(x)] # <<>> => To(x) \in (Called \cup {t}) \ {root})
    BY <1>1, <1>2, <1>3, <1>11 DEF Tells
  <2>4. ASSUME NEW x \in Looked \cup {m}, NEW o \in Looked \cup {m}, To(x) = To(o), spec[To(x)] # <<>>
        PROVE  x = o
    <3>1. \A y \in Looked : spec[To(y)] # <<>> => To(y) \in Called
      BY <1>3 DEF Tells
    <3>2. To(m) = t
      BY <1>2
    <3> QED
      BY <1>3, <1>18, <2>4, <3>1, <3>2 DEF Tells
  <2> QED
    BY <2>1, <2>2, <2>3, <2>4 DEF Tells
<1>20. Tells(Looked, Called)'
  BY <1>1, <1>16, <1>17, <1>19, GraphStays DEF Tells
<1>21. IsFiniteSet(Looked') /\ state'.depth = Cardinality(Looked')
  <2>1. IsFiniteSet(Looked \cup {m}) /\ Cardinality(Looked \cup {m}) = Cardinality(Looked) + 1
    BY <1>2, <1>3, FS_AddElement
  <2> QED
    BY <1>3, <1>8, <1>16, <2>1
<1> QED
  BY <1>12, <1>13, <1>14, <1>15, <1>20, <1>21 DEF WalkExact

\* A call that returns had its mentions looked at.
LEMMA PopExact ==
    ASSUME ExactInv, Return, Len(stack) > 1, touched = {}
    PROVE  WalkExact'
<1> DEFINE n == Len(stack)
           V == state.visitedAgents
           a == stack[n].agent
<1>1. /\ UNCHANGED <<spec, root, touched, state>> /\ pc = "validate" /\ TypeOK
      /\ stack \in Seq(Frame) /\ stack # <<>> /\ stack[n].rest = <<>>
      /\ stack' = SubSeq(stack, 1, Len(stack) - 1)
  BY DEF Return, pass, ExactInv, IInv, TypeOK, StackCounted, Caller
<1>2. /\ stack[1].agent = root
      /\ \A k, l \in DOMAIN stack : stack[k].agent = stack[l].agent => k = l
      /\ \A b \in V : spec[b] # <<>>
      /\ \A k \in DOMAIN stack : FrameExact(k)
      /\ Tells(Looked, Called) /\ IsFiniteSet(Looked) /\ state.depth = Cardinality(Looked)
  BY <1>1 DEF ExactInv, WalkExact
<1>3. n > 1 /\ n = Len(stack)
  OBVIOUS
<1> HIDE DEF n
<1>4. /\ n \in Nat /\ DOMAIN stack = 1..n /\ DOMAIN stack' = 1..(n - 1)
      /\ \A i \in 1..(n - 1) : stack'[i] = stack[i]
      /\ stack' \in Seq(Frame) /\ Len(stack') = n - 1
  BY <1>1, <1>3, PopFrame
<1>5. /\ n \in 1..n /\ 1 \in 1..(n - 1) /\ 1 \in 1..n
      /\ \A i \in 1..(n - 1) : i \in 1..n /\ i < n
      /\ \A i \in 1..n : i = n \/ i \in 1..(n - 1)
  BY <1>3, <1>4
<1>6. a \in V \/ spec[a] = <<>>
  BY <1>1, <1>2, <1>4, <1>5 DEF FrameExact
<1>7. Looked' = Looked
  <2>1. Looked' = {x \in Mentions(V) :
                     \A k \in 1..(n - 1) :
                        stack[k].agent = x[1] => x[2] + Len(stack[k].rest) <= Len(spec[x[1]])}
    <3>1. Mentions(state.visitedAgents)' = Mentions(V)
      BY <1>1 DEF Mentions
    <3> QED
      BY <1>1, <1>4, <3>1 DEF Looked
  <2>2. Looked = {x \in Mentions(V) :
                     \A k \in 1..n :
                        stack[k].agent = x[1] => x[2] + Len(stack[k].rest) <= Len(spec[x[1]])}
    BY <1>4 DEF Looked
  <2>3. ASSUME NEW x \in Mentions(V)
        PROVE  x[2] + Len(stack[n].rest) <= Len(spec[x[1]])
    <3>1. V \subseteq Agents /\ \A b \in V : spec[b] # Absent
      BY <1>1, LookedReachable DEF Called
    <3>2. x[1] \in V /\ x[2] \in DOMAIN spec[x[1]]
      BY <1>1, <2>3, <3>1, MentionTyped
    <3>3. spec[x[1]] \in Seq(Agents)
      BY <1>1, <3>1, <3>2, ListTyped
    <3>4. x[2] \in 1..Len(spec[x[1]]) /\ Len(spec[x[1]]) \in Nat
      BY <3>2, <3>3
    <3>5. Len(stack[n].rest) = 0
      BY <1>1
    <3> QED
      BY <3>4, <3>5
  <2> HIDE DEF V
  <2> QED
    BY <1>5, <2>1, <2>2, <2>3
<1>8. /\ Called' \subseteq Called
      /\ \A b \in Called : b \in Called' \/ spec[b] = <<>>
  <2>1. OnStack' \subseteq OnStack
    BY <1>4, <1>5 DEF OnStack
  <2>2. ASSUME NEW b \in OnStack PROVE b \in OnStack' \/ b = a
    <3>1. PICK k \in 1..n : b = stack[k].agent
      BY <1>4, <2>2 DEF OnStack
    <3>2. CASE k = n
      BY <3>1, <3>2
    <3>3. CASE k \in 1..(n - 1)
      BY <1>4, <3>1, <3>3 DEF OnStack
    <3> QED
      BY <1>5, <3>2, <3>3
  <2> QED
    BY <1>1, <1>6, <2>1, <2>2 DEF Called
<1>9. Tells(Looked, Called)'
  <2>1. /\ Reachable(root)' = Reachable(root) /\ \A m : To(m)' = To(m)
    BY <1>1, GraphStays
  <2> QED
    BY <1>1, <1>2, <1>7, <1>8, <2>1 DEF Tells
<1>10. ASSUME NEW k \in DOMAIN stack' PROVE FrameExact(k)'
  <2>1. stack'[k] = stack[k] /\ FrameExact(k) /\ k < n
    BY <1>2, <1>4, <1>5, <1>10
  <2> QED
    BY <1>1, <1>3, <2>1 DEF FrameExact
<1>11. stack'[1].agent = root'
  BY <1>1, <1>2, <1>4, <1>5
<1>12. \A k, l \in DOMAIN stack' : stack'[k].agent = stack'[l].agent => k = l
  BY <1>2, <1>4, <1>5
<1> QED
  BY <1>1, <1>2, <1>7, <1>9, <1>10, <1>11, <1>12 DEF WalkExact

\* When the call for root returns, the mentions looked at are all that root reaches.
LEMMA WalkedAcceptable ==
    ASSUME ExactInv, Return, ~(Len(stack) > 1), touched = {}
    PROVE  Acceptable(root)
<1> DEFINE V == state.visitedAgents
           R == Reachable(root)
           S == {root} \cup V \cup {To(m) : m \in Looked}
<1>1. /\ pc = "validate" /\ TypeOK /\ root \in Agents
      /\ stack \in Seq(Frame) /\ stack # <<>> /\ stack[Len(stack)].rest = <<>>
      /\ Len(stack) <= state.depth + 1 /\ state.depth <= MAX_DEPTH
  BY DEF Return, ExactInv, IInv, StackCounted, TypeOK, Caller
<1>2. Len(stack) = 1 /\ DOMAIN stack = {1} /\ stack[1].rest = <<>>
  <2>1. Len(stack) \in Nat /\ Len(stack) # 0 /\ DOMAIN stack = 1..Len(stack)
    BY <1>1
  <2>2. Len(stack) = 1
    BY <2>1
  <2> QED
    BY <1>1, <2>1, <2>2
<1>3. /\ stack[1].agent = root /\ FrameExact(1) /\ Tells(Looked, Called)
      /\ IsFiniteSet(Looked) /\ state.depth = Cardinality(Looked)
  BY <1>1, <1>2 DEF ExactInv, WalkExact
<1>4. root \in V \/ spec[root] = <<>>
  BY <1>2, <1>3 DEF FrameExact
<1>5. OnStack = {root} /\ Called = V \cup {root}
  BY <1>2, <1>3 DEF OnStack, Called
<1>6. V \subseteq Agents /\ (\A b \in V \cup {root} : spec[b] # Absent) /\ Looked \subseteq Mentions(R)
  BY <1>1, <1>5, LookedReachable
<1>7. Looked = Mentions(V)
  <2>1. ASSUME NEW x \in Mentions(V), stack[1].agent = x[1]
        PROVE  x[2] + Len(stack[1].rest) <= Len(spec[x[1]])
    <3>1. x[1] \in V /\ x[2] \in DOMAIN spec[x[1]]
      BY <1>1, <1>6, <2>1, MentionTyped
    <3>2. spec[x[1]] \in Seq(Agents)
      BY <1>1, <1>6, <3>1, ListTyped
    <3>3. x[2] \in 1..Len(spec[x[1]]) /\ Len(spec[x[1]]) \in Nat
      BY <3>1, <3>2
    <3>4. Len(stack[1].rest) = 0
      BY <1>2
    <3> QED
      BY <3>3, <3>4
  <2> QED
    BY <1>2, <2>1 DEF Looked
<1>8. \A m \in Looked : /\ To(m) \in Agents /\ spec[To(m)] # Absent
                        /\ spec[To(m)] # <<>> => To(m) \in V \ {root}
  <2>1. \A m \in Looked : To(m) \in Agents
    BY <1>1, <1>6, <1>7, MentionTyped
  <2> QED
    BY <1>3, <1>5, <2>1 DEF Tells
<1>9. \A b \in S : b \in Agents /\ spec[b] # Absent /\ (spec[b] # <<>> => b \in V)
  BY <1>1, <1>4, <1>6, <1>8
<1>10. ASSUME NEW b \in S PROVE Targets(b) \subseteq S
  <2> SUFFICES ASSUME NEW i \in DOMAIN spec[b] PROVE spec[b][i] \in S
    BY DEF Targets
  <2>1. b \in V
    BY <1>9
  <2>2. <<b, i>> \in Looked
    BY <1>7, <2>1, MentionIs
  <2>3. To(<<b, i>>) = spec[b][i]
    BY DEF To
  <2> QED
    BY <2>2, <2>3
<1>11. R \subseteq S
  BY <1>1, <1>9, <1>10, ReachableLeast
<1>12. \A b \in R : spec[b] # Absent /\ (spec[b] # <<>> => b \in V)
  BY <1>9, <1>11
<1>13. Mentions(R) = Looked
  <2>1. ASSUME NEW x \in Mentions(R) PROVE x \in Looked
    <3>0. PICK b \in R : \E i \in DOMAIN spec[b] : x = <<b, i>>
      BY <2>1, MentionIs
    <3>1. PICK i \in DOMAIN spec[b] : x = <<b, i>>
      BY <3>0
    <3>2. b \in V
      BY <1>12, <3>1
    <3> QED
      BY <1>7, <3>1, <3>2, MentionIs
  <2> QED
    BY <1>6, <2>1
<1> HIDE DEF V, R, S
<1>14. /\ Cardinality(Mentions(R)) <= MAX_DEPTH
       /\ \A m \in Mentions(R) : spec[To(m)] # <<>> => To(m) # root
       /\ \A m, o \in Mentions(R) : (To(m) = To(o) /\ spec[To(m)] # <<>>) => m = o
  BY <1>1, <1>3, <1>8, <1>13 DEF Tells
<1> QED
  BY <1>1, <1>12, <1>14, TellsAcceptable DEF R

LEMMA InitExactInv == Init => ExactInv
<1> SUFFICES ASSUME Init PROVE ExactInv
  OBVIOUS
<1>1. IInv
  BY InitInv
<1>2. WalkExact /\ SecondLook /\ VerdictInv
  BY DEF Init, WalkExact, SecondLook, VerdictInv
<1> QED
  BY <1>1, <1>2 DEF ExactInv

LEMMA BeginExact ==
    ASSUME ExactInv, NEW a \in Agents, Begin(a)
    PROVE  (WalkExact /\ SecondLook /\ VerdictInv)'
<1>1. pc = "idle" /\ state = NoState /\ UNCHANGED <<spec, state>> /\ TypeOK
  BY DEF Begin, ExactInv, IInv, StackCounted
<1>2. CASE spec[a] = Absent
  BY <1>1, <1>2 DEF Begin, WalkExact, SecondLook, VerdictInv
<1>3. CASE spec[a] # Absent
  <2>1. /\ pc' = "validate" /\ root' = a /\ mine' = spec[a] /\ stack' = <<Call(a, spec[a])>>
    BY <1>3 DEF Begin
  <2>2. /\ Len(stack') = 1 /\ DOMAIN stack' = {1}
        /\ stack'[1].agent = a /\ stack'[1].rest = spec[a]
    BY <2>1 DEF Call
  <2>3. state'.visitedAgents = {} /\ state'.depth = 0
    BY <1>1 DEF NoState
  <2>4. SecondLook' /\ VerdictInv'
    BY <1>1, <2>1 DEF SecondLook, VerdictInv
  <2>5. Looked' = {}
    BY <2>3 DEF Looked, Mentions
  <2>6. Called' = {a}
    BY <2>2, <2>3 DEF Called, OnStack
  <2>7. a \in Reachable(root)'
    BY <2>1 DEF Reachable
  <2>8. Tells(Looked, Called)'
    BY <1>1, <1>3, <2>1, <2>5, <2>6, <2>7 DEF Tells
  <2>9. IsFiniteSet(Looked') /\ state'.depth = Cardinality(Looked')
    BY <2>3, <2>5, FS_EmptySet
  <2>10. spec[a] \in Seq(Agents)
    BY <1>1, <1>3, ListTyped
  <2>11. /\ Len(spec[a]) <= Len(spec[a])
         /\ \A i \in DOMAIN spec[a] : Len(spec[a]) - Len(spec[a]) + i = i
    BY <2>10
  <2>12. FrameExact(1)'
    BY <1>1, <2>2, <2>11 DEF FrameExact
  <2>13. \A k, l \in DOMAIN stack' : k = l
    BY <2>2
  <2>14. WalkExact'
    BY <2>1, <2>2, <2>3, <2>8, <2>9, <2>12, <2>13 DEF WalkExact
  <2> QED
    BY <2>4, <2>14
<1> QED
  BY <1>2, <1>3

LEMMA VisitExact ==
    ASSUME ExactInv, Visit
    PROVE  (WalkExact /\ SecondLook /\ VerdictInv)'
<1>1. /\ UNCHANGED <<spec, root, mine, touched>> /\ pc = "validate"
      /\ pc' \in {"validate", "rejected"}
  BY DEF Visit, Reject, pass
<1>2. CASE touched # {}
  BY <1>1, <1>2 DEF WalkExact, SecondLook, VerdictInv
<1>3. CASE touched = {}
  <2>1. SecondLook'
    BY <1>1 DEF SecondLook
  <2>2. mine = spec[root]
    BY <1>1, <1>3 DEF ExactInv, VerdictInv
  <2>3. Acceptable(root)' <=> Acceptable(root)
    BY <1>1, GraphStays
  <2>4. CASE pc' = "rejected"
    BY <1>1, <1>3, <2>1, <2>2, <2>3, <2>4, RejectExact DEF WalkExact, VerdictInv
  <2>5. CASE pc' # "rejected"
    BY <1>1, <1>3, <2>1, <2>2, <2>5, PushExact DEF VerdictInv
  <2> QED
    BY <2>4, <2>5
<1> QED
  BY <1>2, <1>3

LEMMA ReturnExact ==
    ASSUME ExactInv, Return
    PROVE  (WalkExact /\ SecondLook /\ VerdictInv)'
<1>1. /\ UNCHANGED <<spec, root, mine, touched>> /\ pc = "validate"
      /\ pc' \in {"validate", "translate"}
  BY DEF Return, pass
<1>2. CASE touched # {}
  BY <1>1, <1>2 DEF WalkExact, SecondLook, VerdictInv
<1>3. CASE touched = {}
  <2>1. mine = spec[root]
    BY <1>1, <1>3 DEF ExactInv, VerdictInv
  <2>2. CASE Len(stack) > 1
    <3>1. pc' = "validate"
      BY <1>1, <2>2 DEF Return
    <3> QED
      BY <1>1, <1>3, <2>1, <2>2, <3>1, PopExact DEF SecondLook, VerdictInv
  <2>3. CASE ~(Len(stack) > 1)
    <3>1. pc' = "translate" /\ stack' = <<Call(root, mine)>>
      BY <2>3 DEF Return
    <3>2. stack'[1].rest = spec[root]
      BY <2>1, <3>1 DEF Call
    <3>3. SecondLook'
      BY <1>1, <3>2 DEF SecondLook, Targets
    <3>4. Acceptable(root)'
      BY <1>1, <1>3, <2>3, GraphStays, WalkedAcceptable
    <3> QED
      BY <1>1, <2>1, <3>1, <3>3, <3>4 DEF WalkExact, VerdictInv
  <2> QED
    BY <2>2, <2>3
<1> QED
  BY <1>2, <1>3

\* What the walk has found, translateInlineAgent finds again.
LEMMA TranslateExact ==
    ASSUME ExactInv, Translate
    PROVE  (WalkExact /\ SecondLook /\ VerdictInv)'
<1>1. /\ UNCHANGED <<spec, root, mine, touched>> /\ pc = "translate"
      /\ pc' \in {"translate", "accepted", "rejected"}
      /\ TypeOK /\ stack \in Seq(Frame) /\ stack # <<>> /\ Len(stack) = 1 /\ root \in Agents
  BY DEF Translate, Reject, pass, ExactInv, IInv, StackCounted, TypeOK
<1>2. WalkExact'
  BY <1>1 DEF WalkExact
<1>3. CASE touched # {}
  BY <1>1, <1>2, <1>3 DEF SecondLook, VerdictInv
<1>4. CASE touched = {}
  <2>1. /\ mine = spec[root] /\ Acceptable(root)
        /\ \A i \in DOMAIN stack[1].rest : stack[1].rest[i] \in Targets(root)
    BY <1>1, <1>4 DEF ExactInv, VerdictInv, SecondLook
  <2>2. Acceptable(root)' /\ Targets(root)' = Targets(root)
    BY <1>1, <2>1, GraphStays
  <2>3. Caller = stack[1] /\ Caller.rest \in Seq(Agents)
    BY <1>1, CallerTyped DEF Caller
  <2>4. ASSUME Caller.rest # <<>> PROVE spec[Head(Caller.rest)] # Absent
    <3>1. Head(Caller.rest) \in Targets(root) /\ Head(Caller.rest) \in Agents
      BY <2>1, <2>3, <2>4
    <3>2. root \in Reachable(root) /\ \A b \in Reachable(root) : spec[b] # Absent
      BY <1>1, <2>1, ReachableRoot DEF Acceptable
    <3>3. Head(Caller.rest) \in Reachable(root)
      BY <3>1, <3>2, ReachableClosed
    <3> QED
      BY <3>2, <3>3
  <2>5. pc' # "rejected"
    BY <1>1, <2>4 DEF Translate, Reject
  <2>6. VerdictInv'
    BY <1>1, <2>1, <2>2, <2>5 DEF VerdictInv
  <2>7. SecondLook'
    <3>1. CASE pc' = "translate"
      <4>1. Caller.rest # <<>> /\ stack' = <<Call(root, Tail(Caller.rest))>>
        BY <1>1, <3>1 DEF Translate, Reject
      <4>2. stack'[1].rest = Tail(Caller.rest)
        BY <4>1 DEF Call
      <4>3. \A i \in DOMAIN Tail(Caller.rest) : Tail(Caller.rest)[i] \in Targets(root)
        <5>1. \A i \in DOMAIN Tail(Caller.rest) :
                  i + 1 \in DOMAIN Caller.rest /\ Tail(Caller.rest)[i] = Caller.rest[i + 1]
          BY <2>3, <4>1
        <5> QED
          BY <2>1, <2>3, <5>1
      <4> QED
        BY <2>2, <4>2, <4>3 DEF SecondLook
    <3> QED
      BY <3>1 DEF SecondLook
  <2> QED
    BY <1>2, <2>6, <2>7
<1> QED
  BY <1>3, <1>4

LEMMA NextExactInv == ExactInv /\ [Next]_vars => ExactInv'
<1> SUFFICES ASSUME ExactInv, [Next]_vars PROVE ExactInv'
  OBVIOUS
<1>1. IInv'
  BY NextInv DEF ExactInv
<1>2. CASE UNCHANGED vars
  <2>1. UNCHANGED <<spec, root, mine, touched, pc, stack, state>>
    BY <1>2 DEF vars, pass, walk
  <2>2. SecondLook'
    BY <2>1 DEF ExactInv, SecondLook, Targets
  <2>3. VerdictInv'
    BY <2>1, GraphStays DEF ExactInv, VerdictInv
  <2>4. Looked' = Looked /\ Called' = Called
    BY <2>1 DEF Looked, Called, OnStack, Mentions
  <2>5. \A k : FrameExact(k)' <=> FrameExact(k)
    BY <2>1 DEF FrameExact
  <2>6. Tells(Looked, Called)' <=> Tells(Looked, Called)
    BY <2>1, <2>4, GraphStays DEF Tells
  <2>7. WalkExact'
    BY <2>1, <2>4, <2>5, <2>6 DEF ExactInv, WalkExact
  <2> QED
    BY <1>1, <2>2, <2>3, <2>7 DEF ExactInv
<1>3. CASE Next
  <2>1. CASE Users
    <3>1. touched' # {} \/ (pc = "idle" /\ pc' = "idle")
      BY <2>1 DEF Users, Create, Edit, Delete, Change
    <3>2. (WalkExact /\ SecondLook /\ VerdictInv)'
      BY <3>1 DEF WalkExact, SecondLook, VerdictInv
    <3> QED
      BY <1>1, <3>2 DEF ExactInv
  <2>2. CASE Restart \/ UpdateStatus
    <3>1. pc' = "idle"
      BY <2>2 DEF Restart, UpdateStatus, Rest
    <3>2. (WalkExact /\ SecondLook /\ VerdictInv)'
      BY <3>1 DEF WalkExact, SecondLook, VerdictInv
    <3> QED
      BY <1>1, <3>2 DEF ExactInv
  <2>3. ASSUME NEW a \in Agents, Begin(a) PROVE ExactInv'
    BY <1>1, <2>3, BeginExact DEF ExactInv
  <2>4. CASE Visit
    BY <1>1, <2>4, VisitExact DEF ExactInv
  <2>5. CASE Return
    BY <1>1, <2>5, ReturnExact DEF ExactInv
  <2>6. CASE Translate
    BY <1>1, <2>6, TranslateExact DEF ExactInv
  <2> QED
    BY <1>3, <2>1, <2>2, <2>3, <2>4, <2>5, <2>6 DEF Next, Worker
<1> QED
  BY <1>2, <1>3

\* A pass during which no Agent changes accepts its Agent exactly when the graph
\* is complete, within the limit, and without an Agent with tools that is named
\* twice: with one state shared by all calls of validateAgent, for every graph.
THEOREM VerdictIsExact == Spec => []VerdictExact
<1>1. ExactInv => VerdictExact
  BY DEF ExactInv, VerdictInv, VerdictExact
<1> QED
  BY <1>1, InitExactInv, NextExactInv, PTL DEF Spec
===============================================================================
