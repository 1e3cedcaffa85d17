-------------------------- MODULE EnginesSumProofs --------------------------
(***************************************************************************)
(* The engines, their stores and the commands side by side (MCEngines):    *)
(* each behaviour of the whole is one of each part, so that what is proved *)
(* of the parts is true of the whole.                                      *)
(***************************************************************************)
EXTENDS MCEngines, EngineProofs, DatabaseProofs, ClientProofs

All == <<part, others, cliVars>>

----------------------------------------------------------------------------
(* Engines. *)

LEMMA TaskIsPart == EnginesSpec => Spec
  <1>1. EnginesInit => Init
    BY DEF EnginesInit
  <1>2. [EnginesNext]_All => [Next]_vars
    BY DEF EnginesNext, All, others
  <1> QED
    BY <1>1, <1>2, PTL DEF EnginesSpec, Spec, All

LEMMA AdkIsPart == EnginesSpec => AdkSpec
  <1>1. EnginesInit => AdkInit
    BY DEF EnginesInit
  <1>2. [EnginesNext]_All => [AdkNext]_adkVars
    BY DEF EnginesNext, All, others
  <1> QED
    BY <1>1, <1>2, PTL DEF EnginesSpec, AdkSpec, All

LEMMA SessionIsPart == EnginesSpec => SessionSpec
  <1>1. EnginesInit => SessionInit
    BY DEF EnginesInit
  <1>2. [EnginesNext]_All => [SessionNext]_sessionVars
    BY DEF EnginesNext, All, others
  <1> QED
    BY <1>1, <1>2, PTL DEF EnginesSpec, SessionSpec, All

LEMMA CrewIsPart == EnginesSpec => CrewSpec
  <1>1. EnginesInit => CrewInit
    BY DEF EnginesInit
  <1>2. [EnginesNext]_All => [CrewNext]_crewVars
    BY DEF EnginesNext, All, others
  <1> QED
    BY <1>1, <1>2, PTL DEF EnginesSpec, CrewSpec, All

----------------------------------------------------------------------------
(* Stores. *)

LEMMA CheckpointsArePart == EnginesSpec => LgSpec
  <1>1. EnginesInit => LgInit
    BY DEF EnginesInit
  <1>2. [EnginesNext]_All => [LgNext]_lgVars
    BY DEF EnginesNext, All, others
  <1> QED
    BY <1>1, <1>2, PTL DEF EnginesSpec, LgSpec, All

LEMMA DatabaseIsPart == EnginesSpec => DbSpec
  <1>1. EnginesInit => DbInit
    BY DEF EnginesInit
  <1>2. [EnginesNext]_All => [DbNext]_dbVars
    BY DEF EnginesNext, All, others
  <1> QED
    BY <1>1, <1>2, PTL DEF EnginesSpec, DbSpec, All

----------------------------------------------------------------------------
(* Commands. *)

LEMMA DeployIsPart == EnginesSpec => DeploySpec
  <1>1. EnginesInit => DeployInit
    BY DEF EnginesInit
  <1>2. [EnginesNext]_All => [DeployNext]_deployVars
    BY DEF EnginesNext, All, others
  <1> QED
    BY <1>1, <1>2, PTL DEF EnginesSpec, DeploySpec, All

LEMMA TuiIsPart == EnginesSpec => TuiSpec
  <1>1. EnginesInit => TuiInit
    BY DEF EnginesInit
  <1>2. [EnginesNext]_All => [TuiNext]_chatVars
    BY DEF EnginesNext, All, others
  <1> QED
    BY <1>1, <1>2, PTL DEF EnginesSpec, TuiSpec, All

LEMMA WizardIsPart == EnginesSpec => WizardSpec
  <1>1. EnginesInit => WizardInit
    BY DEF EnginesInit
  <1>2. [EnginesNext]_All => [WizardNext]_wizardVars
    BY DEF EnginesNext, All, cliVars
  <1> QED
    BY <1>1, <1>2, PTL DEF EnginesSpec, WizardSpec, All

LEMMA McpIsPart == EnginesSpec => McpSpec
  <1>1. EnginesInit => McpInit
    BY DEF EnginesInit
  <1>2. [EnginesNext]_All => [McpNext]_addVars
    BY DEF EnginesNext, All, cliVars
  <1> QED
    BY <1>1, <1>2, PTL DEF EnginesSpec, McpSpec, All

----------------------------------------------------------------------------
\* In the whole every variable keeps its type: tasks, events and queues of the
\* engines, sessions, memories and flows, the objects a manifest is deployed as, the
\* workspace of the terminal, the form and the files of an MCP server.
THEOREM EnginesTypeCorrect == EnginesSpec => []EnginesTypeOK
  <1>1. TypeOK /\ AdkTypeOK /\ SessionTypeOK /\ CrewTypeOK
           /\ DeployTypeOK /\ TuiTypeOK /\ WizardTypeOK /\ McpTypeOK => EnginesTypeOK
    BY DEF EnginesTypeOK
  <1> QED
    BY <1>1, TaskIsPart, AdkIsPart, SessionIsPart, CrewIsPart, DeployIsPart, TuiIsPart, WizardIsPart,
       McpIsPart, TaskTypeCorrect, AdkTypeCorrect, SessionTypeCorrect, CrewTypeCorrect,
       DeployTypeCorrect, TuiTypeCorrect, WizardTypeCorrect, McpTypeCorrect, PTL

\* What an engine stores is what its run came to: a task tells its graph, or its run;
\* a session's memory tells the session; a Crew app finds what was saved last, and keeps
\* its sessions apart.  The task of the ADK engine lives the life of a
\* task, that of the LangGraph engine the dialog of one, and the database answers as
\* its fake does.
THEOREM EnginesSafe ==
    EnginesSpec => /\ [](/\ StoredTellsGraph /\ FinalTellsRun /\ MemoryTellsSession
                         /\ SessionsApart /\ MemoryFindsLast)
                   /\ LifeOfTask /\ LifeOfDialog /\ RefinesFake
  BY TaskIsPart, AdkIsPart, SessionIsPart, CrewIsPart, DatabaseIsPart, StoredIsRight, FinalIsRight,
     MemoryIsTheSession, OneRequestApart, MemoryHoldsLast, TaskLifeImplemented, TaskDialogImplemented,
     DatabaseImplementsFake, PTL

\* Every superstep of a stored checkpoint applies what its task wrote, if it has one
\* task (EngineProofs).
THEOREM EnginesApplySteps ==
    ASSUME NEW t, LgTasks = {t}
    PROVE  EnginesSpec => []StepsApplied
  BY CheckpointsArePart, StepsAreApplied, PTL

\* And what a command reports or shows is so: what is deployed is deployed whole, a
\* chat shows one conversation with the answers it was sent and the sessions of its
\* agent, and what a form came to is valid, shown and, once added, stays.
THEOREM CommandsSafe ==
    EnginesSpec => [](/\ DeployedIsWhole /\ OneConversation /\ AnswersRead /\ SessionOfAgent
                      /\ ResultIsValid /\ ResultTellsPages /\ OneCursor /\ AddedIsWhole)
  BY DeployIsPart, TuiIsPart, WizardIsPart, McpIsPart, DeployIsWhole, ChatIsOne, AnswersAreRead,
     OpenIsOwn, ResultValidates, ResultIsShown, CursorIsOne, AddedStays, PTL
=============================================================================
