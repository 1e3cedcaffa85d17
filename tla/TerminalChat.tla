---------------------------- MODULE TerminalChat ----------------------------
(***************************************************************************)
(* The kagent CLI's workspace (go/cli/internal/tui/workspace.go, chat.go,  *)
(* dialogs/).  Update handles one message at a time; what it starts (a     *)
(* fetch, a read of the answer's stream) runs beside it and ends in a      *)
(* message of its own, and messages arrive in any order.                   *)
(*                                                                         *)
(* Left out: layout, the status line, which parts of an event are shown,   *)
(* and the focus, which Tab moves at any time.  Outside: the API, and the  *)
(* stream of an answer.                                                    *)
(***************************************************************************)
EXTENDS Naturals, Sequences, FiniteSets, Bags

CONSTANTS
    ChatAgents, ChatSessions, OwnerAtStart,   \* OwnerAtStart[s]: an agent, or Unset: not created yet
    Unset,
    AnswerLen,                                \* events of an answer
    MaxKeys, MaxSubmits, MaxUnderWay, MaxChatFaults   \* bounds

Line(s, n, i) == [session |-> s, stream |-> n, at |-> i]
Lines == [session : ChatSessions \cup {Unset}, stream : 0..MaxSubmits, at : 0..AnswerLen]
Chats == [session : ChatSessions, stream : 0..MaxSubmits, streaming : BOOLEAN, lines : Seq(Lines)]

ASSUME ChatAssumption ==
    /\ Unset \notin ChatAgents \cup ChatSessions /\ Unset \notin Chats
    /\ OwnerAtStart \in [ChatSessions -> ChatAgents \cup {Unset}]
    /\ {AnswerLen, MaxKeys, MaxSubmits, MaxUnderWay, MaxChatFaults} \subseteq Nat

VARIABLES
    chosen,       \* m.agent
    current,      \* m.current
    sessionList,       \* m.sessions
    naming,       \* m.naming: the input for a new session is open
    dialog,       \* the agent chooser is open
    chat,         \* m.chat: [session, stream, streaming, lines], stream 0 for no channel; or Unset
    running,      \* commands that have not ended, a bag
    inbox,        \* messages Update has still to handle, a bag
    ownerOf,      \* the server: the agent of each session
    read,         \* how many events of each answer were taken off its channel
    mixed,        \* history: something of an earlier chat was under way when this one began
    dropped,      \* history: an event of this chat met an open dialog
    reloaded,     \* history: the sessions were listed since the agent was chosen
    foreign,      \* history: something of the former agent's was under way when the agent was
                  \*  chosen, or a session was picked from its list
    keysLeft, submits, chatFaults   \* what is used of the bounds

chatVars == <<chosen, current, sessionList, naming, dialog, chat, running, inbox, ownerOf, read,
              mixed, dropped, reloaded, foreign, keysLeft, submits, chatFaults>>

With(bag, m)    == bag (+) SetToBag({m})
Without(bag, m) == bag (-) SetToBag({m})
UnderWay(kinds) == \E m \in BagToSet(running) \cup BagToSet(inbox) : m[1] \in kinds
ChatFault == chatFaults > 0 /\ chatFaults' = chatFaults - 1

TuiTypeOK ==
    /\ chosen \in ChatAgents \cup {Unset} /\ current \in ChatSessions \cup {Unset} /\ sessionList \subseteq ChatSessions
    /\ chat \in Chats \cup {Unset} /\ ownerOf \in [ChatSessions -> ChatAgents \cup {Unset}]
    /\ IsABag(running) /\ IsABag(inbox) /\ read \in [1..MaxSubmits -> 0..AnswerLen]
    /\ naming \in BOOLEAN /\ dialog \in BOOLEAN /\ mixed \in BOOLEAN /\ dropped \in BOOLEAN
    /\ reloaded \in BOOLEAN /\ foreign \in BOOLEAN
    /\ keysLeft \in 0..MaxKeys /\ submits \in 0..MaxSubmits /\ chatFaults \in 0..MaxChatFaults

TuiInit ==
    /\ chosen = Unset /\ current = Unset /\ sessionList = {} /\ naming = FALSE /\ dialog = FALSE /\ chat = Unset
    /\ running = EmptyBag /\ inbox = EmptyBag /\ ownerOf = OwnerAtStart /\ read = [n \in 1..MaxSubmits |-> 0]
    /\ mixed = FALSE /\ dropped = FALSE /\ reloaded = TRUE /\ foreign = FALSE
    /\ keysLeft = MaxKeys /\ submits = 0 /\ chatFaults = MaxChatFaults

----------------------------------------------------------------------------
(* Commands: they run beside Update, and end in a message. *)

Ended(cmd, msg) == running' = Without(running, cmd) /\ inbox' = With(inbox, msg)

AllSessions(a) == {s \in ChatSessions : ownerOf[s] # Unset}   \* a mutant: no filter
SessionsOf(a)  == {s \in ChatSessions : ownerOf[s] = a}

\* The sessions are those of the agent chosen when the answer arrives; an error
\* reads like none.
LoadSessions ==
    LET cmd == <<"load">>
    IN /\ BagIn(cmd, running)
       /\ \/ Ended(cmd, <<"sessions", SessionsOf(chosen)>>) /\ UNCHANGED chatFaults
          \/ ChatFault /\ Ended(cmd, <<"sessions", {}>>)
       /\ UNCHANGED <<chosen, current, sessionList, naming, dialog, chat, ownerOf, read, mixed, dropped, reloaded, foreign, keysLeft, submits>>

CreateSession(a) ==
    LET cmd == <<"create", a>>
    IN /\ BagIn(cmd, running)
       /\ \/ \E s \in ChatSessions :
                /\ ownerOf[s] = Unset /\ ownerOf' = [ownerOf EXCEPT ![s] = a]
                /\ Ended(cmd, <<"created", s>>) /\ UNCHANGED chatFaults
          \/ ChatFault /\ Ended(cmd, <<"created", Unset>>) /\ UNCHANGED ownerOf
       /\ UNCHANGED <<chosen, current, sessionList, naming, dialog, chat, read, mixed, dropped, reloaded, foreign, keysLeft, submits>>

FetchHistory(s) ==
    /\ BagIn(<<"fetch", s>>, running) /\ Ended(<<"fetch", s>>, <<"history", s>>)
    /\ UNCHANGED <<chosen, current, sessionList, naming, dialog, chat, ownerOf, read, mixed, dropped, reloaded, foreign, keysLeft, submits, chatFaults>>

\* Each wait takes one event; the channel may be closed before the answer is complete.
ReadStream(n) ==
    LET cmd == <<"wait", n>>
    IN /\ BagIn(cmd, running)
       /\ \/ /\ read[n] < AnswerLen /\ read' = [read EXCEPT ![n] = @ + 1]
             /\ Ended(cmd, <<"event", n, read[n] + 1>>) /\ UNCHANGED chatFaults
          \/ /\ read[n] = AnswerLen /\ UNCHANGED <<read, chatFaults>> /\ Ended(cmd, <<"done", n>>)
          \/ /\ read[n] < AnswerLen /\ ChatFault /\ read' = [read EXCEPT ![n] = AnswerLen]
             /\ Ended(cmd, <<"done", n>>)
    /\ UNCHANGED <<chosen, current, sessionList, naming, dialog, chat, ownerOf, mixed, dropped, reloaded, foreign, keysLeft, submits>>

----------------------------------------------------------------------------
(* Update, for each message. *)

Taken(m) == BagIn(m, inbox) /\ inbox' = Without(inbox, m)

\* While a dialog is open every message but the one that closes it ends there.
Captured(m) ==
    /\ dialog /\ m[1] # "close" /\ Taken(m)
    /\ dropped' = (dropped \/ m[1] \in {"event", "done"})
    /\ UNCHANGED <<chosen, current, sessionList, naming, dialog, chat, running, ownerOf, read, mixed, reloaded, foreign, keysLeft, submits, chatFaults>>

\* dialogs.Manager.Handle
OpenDialog ==
    /\ ~dialog /\ Taken(<<"open">>) /\ dialog' = TRUE
    /\ UNCHANGED <<chosen, current, sessionList, naming, chat, running, ownerOf, read, mixed, dropped, reloaded, foreign, keysLeft, submits, chatFaults>>
CloseDialog ==
    /\ Taken(<<"close">>) /\ dialog' = FALSE
    /\ UNCHANGED <<chosen, current, sessionList, naming, chat, running, ownerOf, read, mixed, dropped, reloaded, foreign, keysLeft, submits, chatFaults>>

AgentChosen(a) ==
    /\ ~dialog /\ Taken(<<"chosen", a>>)
    /\ chosen' = a /\ current' = Unset /\ chat' = Unset /\ running' = With(running, <<"load">>)
    /\ foreign' = UnderWay({"sessions", "selected", "create", "created"}) /\ reloaded' = FALSE
    /\ UNCHANGED <<sessionList, naming, dialog, ownerOf, read, mixed, dropped, keysLeft, submits, chatFaults>>

SessionsLoaded(S) ==
    /\ ~dialog /\ BagIn(<<"sessions", S>>, inbox) /\ sessionList' = S /\ reloaded' = TRUE
    /\ \/ \E s \in S : inbox' = With(Without(inbox, <<"sessions", S>>), <<"selected", s>>) /\ UNCHANGED naming
       \/ S = {} /\ inbox' = Without(inbox, <<"sessions", S>>) /\ naming' = TRUE
    /\ UNCHANGED <<chosen, current, dialog, chat, running, ownerOf, read, mixed, dropped, foreign, keysLeft, submits, chatFaults>>

\* A new chat model takes the place of the old one; waits on the old channel go on.
startChat(s, commands) ==
    /\ current' = s
    /\ chat' = [session |-> s, stream |-> 0, streaming |-> FALSE, lines |-> <<>>]
    /\ mixed' = UnderWay({"wait", "event", "done", "fetch", "history"}) /\ dropped' = FALSE
    /\ running' = running (+) SetToBag(commands)

SessionSelected(s) ==
    /\ ~dialog /\ Taken(<<"selected", s>>) /\ startChat(s, {<<"fetch", s>>})
    /\ UNCHANGED <<chosen, sessionList, naming, dialog, ownerOf, read, reloaded, foreign, keysLeft, submits, chatFaults>>

SessionCreated(s) ==
    /\ ~dialog /\ Taken(<<"created", s>>) /\ naming' = FALSE
    /\ \/ s # Unset /\ sessionList' = sessionList \cup {s} /\ startChat(s, {})
       \/ s = Unset /\ UNCHANGED <<sessionList, current, chat, mixed, dropped, running>>
    /\ UNCHANGED <<chosen, dialog, ownerOf, read, reloaded, foreign, keysLeft, submits, chatFaults>>

ShowLine(line) == chat' = [chat EXCEPT !.lines = Append(@, line)]

HistoryLoaded(s) ==
    /\ ~dialog /\ Taken(<<"history", s>>)
    /\ IF chat = Unset THEN UNCHANGED chat ELSE ShowLine(Line(s, 0, 0))
    /\ UNCHANGED <<chosen, current, sessionList, naming, dialog, running, ownerOf, read, mixed, dropped, reloaded, foreign, keysLeft, submits, chatFaults>>

waitOnce(n) == UNCHANGED running   \* a mutant: the next event is not waited for
waitNext(n) == running' = IF n = 0 THEN running ELSE With(running, <<"wait", n>>)

\* An event is shown in the chat that is open, and the next of its channel waited for.
EventShown(n, i) ==
    /\ ~dialog /\ Taken(<<"event", n, i>>)
    /\ IF chat = Unset THEN UNCHANGED <<chat, running>>
       ELSE ShowLine(Line(Unset, n, i)) /\ waitNext(chat.stream)
    /\ UNCHANGED <<chosen, current, sessionList, naming, dialog, ownerOf, read, mixed, dropped, reloaded, foreign, keysLeft, submits, chatFaults>>

StreamDone(n) ==
    /\ ~dialog /\ Taken(<<"done", n>>)
    /\ IF chat = Unset THEN UNCHANGED chat ELSE chat' = [chat EXCEPT !.streaming = FALSE]
    /\ UNCHANGED <<chosen, current, sessionList, naming, dialog, running, ownerOf, read, mixed, dropped, reloaded, foreign, keysLeft, submits, chatFaults>>

----------------------------------------------------------------------------
(* Keys. *)

\* A key while fewer than MaxUnderWay commands and messages are under way (a bound).
KeyPress == keysLeft > 0 /\ keysLeft' = keysLeft - 1 /\ BagCardinality(running (+) inbox) < MaxUnderWay
Unmoved == UNCHANGED <<chosen, current, sessionList, dialog, ownerOf, read, mixed, dropped, reloaded>>
Otherwise == Unmoved /\ UNCHANGED foreign

PressAgents ==
    /\ ~dialog /\ KeyPress /\ inbox' = With(inbox, <<"open">>)
    /\ UNCHANGED <<naming, chat, running, submits, chatFaults>> /\ Otherwise

\* OK sends the choice and the close as one Batch: either may come first.
PressChoose ==
    /\ dialog /\ KeyPress
    /\ \/ \E a \in ChatAgents : inbox' = With(With(inbox, <<"chosen", a>>), <<"close">>)
       \/ inbox' = With(inbox, <<"close">>)
    /\ UNCHANGED <<naming, chat, running, submits, chatFaults>> /\ Otherwise

PressSessions ==
    /\ ~dialog /\ chosen # Unset /\ ~naming /\ KeyPress /\ naming' = TRUE
    /\ UNCHANGED <<chat, running, inbox, submits, chatFaults>> /\ Otherwise

\* A name starts a creation and leaves the input open until it answered.
PressName ==
    /\ ~dialog /\ naming /\ KeyPress
    /\ \/ running' = With(running, <<"create", chosen>>) /\ UNCHANGED naming
       \/ naming' = FALSE /\ UNCHANGED running
    /\ UNCHANGED <<chat, inbox, submits, chatFaults>> /\ Otherwise

PressSelect ==
    /\ ~dialog /\ ~naming /\ KeyPress
    /\ \E s \in sessionList : inbox' = With(inbox, <<"selected", s>>)
    /\ foreign' = (foreign \/ ~reloaded)
    /\ UNCHANGED <<naming, chat, running, submits, chatFaults>> /\ Unmoved

TakesAny(c)   == TRUE   \* a mutant: a second message while the first is answered
TakesInput(c) == ~c.streaming

\* submit: one message at a time; when the send fails, the old channel stays.
PressSubmit ==
    /\ ~dialog /\ ~naming /\ KeyPress /\ submits < MaxSubmits
    /\ chat # Unset /\ TakesInput(chat)
    /\ submits' = submits + 1
    /\ \/ /\ chat' = [chat EXCEPT !.stream = submits', !.streaming = TRUE, !.lines = Append(@, Line(chat.session, submits', 0))]
          /\ running' = With(running, <<"wait", submits'>>) /\ UNCHANGED chatFaults
       \/ ChatFault /\ ShowLine(Line(chat.session, submits', 0)) /\ UNCHANGED running
    /\ UNCHANGED <<naming, inbox>> /\ Otherwise

TuiNext ==
    \/ LoadSessions \/ \E a \in ChatAgents : CreateSession(a)
    \/ \E s \in ChatSessions : FetchHistory(s) \/ \E n \in 1..MaxSubmits : ReadStream(n)
    \/ \E m \in BagToSet(inbox) : Captured(m)
    \/ OpenDialog \/ CloseDialog \/ \E a \in ChatAgents : AgentChosen(a)
    \/ \E S \in SUBSET ChatSessions : SessionsLoaded(S)
    \/ \E s \in ChatSessions : SessionSelected(s) \/ HistoryLoaded(s)
    \/ \E s \in ChatSessions \cup {Unset} : SessionCreated(s)
    \/ \E n \in 1..MaxSubmits : StreamDone(n) \/ \E i \in 1..AnswerLen : EventShown(n, i)
    \/ PressAgents \/ PressChoose \/ PressSessions \/ PressName \/ PressSelect \/ PressSubmit

TuiSpec == TuiInit /\ [][TuiNext]_chatVars

----------------------------------------------------------------------------
\* Where nothing of an earlier chat was under way when this one began, and no event
\* met a dialog, it shows this session alone: its history, and each message followed
\* by the events of its answer in their order.
OneConversation ==
    (chat # Unset /\ ~mixed /\ ~dropped) =>
        \A i \in DOMAIN chat.lines :
            LET l == chat.lines[i]
                before == {j \in 1..i - 1 : chat.lines[j].stream = l.stream}
            IN /\ l.at = 0 => l.session = chat.session
               /\ l.stream # 0 => l.at = Cardinality(before)

\* A chat that waits for its answer is read: a wait is running on its channel or one
\* of its messages is about to be handled, unless an event met an open dialog.
AnswersRead ==
    (chat # Unset /\ ~dropped) => (chat.streaming => BagIn(<<"wait", chat.stream>>, running) \/ UnderWay({"event", "done"}))

\* The session that is open belongs to the agent that is chosen, unless sessions of
\* the former agent were still on their way or its list still shown.
SessionOfAgent == (current # Unset /\ ~foreign) => ownerOf[current] = chosen
=============================================================================
