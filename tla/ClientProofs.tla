---------------------------- MODULE ClientProofs ----------------------------
(***************************************************************************)
(* Theorems about four clients: the form that describes an MCP server      *)
(* (ServerWizard), for every bound; the command that adds one to a project *)
(* (McpAdd), for any people, servers and bounds; the workspace             *)
(* (TerminalChat), for any agents, sessions, lengths and bounds; and the   *)
(* command that deploys a project (AgentDeploy), for any people, manifests *)
(* and bounds.                                                             *)
(***************************************************************************)
EXTENDS ServerWizard, McpAdd, TerminalChat, AgentDeploy, SequenceTheorems, FiniteSetTheorems, TLAPS

----------------------------------------------------------------------------
(* The form for an MCP server. *)

EnterSteps ==
    \/ \E type \in {"remote", "command"} : EnterPickType(type)
    \/ EnterRemoteURL \/ EnterRemoteHeaders
    \/ \E method \in {"image", "build", "command"} : EnterCommandMethod(method)
    \/ \E mode \in {"custom"} \cup Packages : EnterCommandMode(mode)
    \/ EnterCommandDetails \/ EnterArgsEnv \/ EnterName

LEMMA TextsType ==
    /\ "" \in Texts /\ "word" \in Texts /\ "http" \in Texts /\ Packages \subseteq Texts
    /\ \A old \in Texts, new \in {"word", "http"} : Appended(old, new) \in Texts
BY DEF Texts, Packages, Appended

LEMMA EmptiedType ==
    ASSUME text \in [Inputs -> Texts], NEW inputs
    PROVE  Emptied(inputs) \in [Inputs -> Texts]
BY TextsType DEF Emptied

LEMMA WizardTypeInit == WizardInit => WizardTypeOK
<1> SUFFICES ASSUME WizardInit
             PROVE  WizardTypeOK
  OBVIOUS
<1>1. StepTypeOK
  BY DEF WizardInit, StepTypeOK, Pages
<1>2. FormTypeOK
  BY TextsType DEF WizardInit, FormTypeOK
<1>3. CountTypeOK
  <2>1. \A max \in Nat : 0 \in 0..max
    OBVIOUS
  <2> QED
    BY <2>1, WizardAssumption DEF WizardInit, CountTypeOK
<1>4. result \in McpServers
  BY TextsType DEF WizardInit, NoServer, McpServers
<1> QED
  BY <1>1, <1>2, <1>3, <1>4 DEF WizardInit, WizardTypeOK

LEMMA CountStep ==
    ASSUME CountTypeOK, [WizardNext]_wizardVars
    PROVE  CountTypeOK'
<1>1. UNCHANGED counters => CountTypeOK'
  BY DEF counters, CountTypeOK
<1>2. EnterSteps \/ Quit \/ Erase \/ UNCHANGED wizardVars => UNCHANGED counters
  BY DEF EnterSteps, EnterPickType, EnterRemoteURL, EnterRemoteHeaders, EnterCommandMethod, EnterCommandMode,
         EnterCommandDetails, EnterArgsEnv, EnterName, Enter, Quit, Erase, wizardVars
<1>3. Esc => CountTypeOK'
  BY WizardAssumption DEF Esc, CountTypeOK
<1>4. \A reverse : Tab(reverse) => CountTypeOK'
  BY WizardAssumption DEF Tab, CountTypeOK
<1>5. \A new : Type(new) => CountTypeOK'
  BY WizardAssumption DEF Type, CountTypeOK
<1> QED
  BY <1>1, <1>2, <1>3, <1>4, <1>5 DEF WizardNext, EnterSteps

LEMMA StepStep ==
    ASSUME StepTypeOK, [WizardNext]_wizardVars
    PROVE  StepTypeOK'
<1>1. UNCHANGED <<step, choices, ended>> => StepTypeOK'
  BY DEF choices, StepTypeOK
<1>2. Erase \/ UNCHANGED wizardVars => StepTypeOK'
  BY <1>1 DEF Erase, wizardVars
<1>3. \A type \in {"remote", "command"} : EnterPickType(type) => StepTypeOK'
  BY DEF EnterPickType, GoTo, Choose, Open, Pass, StepTypeOK, Pages
<1>4. EnterRemoteURL \/ EnterRemoteHeaders => StepTypeOK'
  BY DEF EnterRemoteURL, EnterRemoteHeaders, GoTo, Choose, Open, Pass, Refuse, choices, StepTypeOK, Pages
<1>5. \A method \in {"image", "build", "command"} : EnterCommandMethod(method) => StepTypeOK'
  BY DEF EnterCommandMethod, GoTo, Choose, Open, Pass, StepTypeOK, Pages
<1>6. \A mode \in {"custom"} \cup Packages : EnterCommandMode(mode) => StepTypeOK'
  BY DEF EnterCommandMode, GoTo, Choose, Open, Pass, StepTypeOK, Pages
<1>7. EnterCommandDetails \/ EnterArgsEnv => StepTypeOK'
  BY DEF EnterCommandDetails, EnterArgsEnv, GoTo, Choose, Open, Pass, Refuse, choices, StepTypeOK, Pages
<1>8. EnterName => StepTypeOK'
  BY DEF EnterName, Refuse, choices, StepTypeOK
<1>9. Esc => StepTypeOK'
  <2>1. PrevStep \in Pages
    BY DEF PrevStep, Pages
  <2> QED
    BY <2>1 DEF Esc, choices, StepTypeOK
<1>10. Quit => StepTypeOK'
  BY DEF Quit, choices, StepTypeOK
<1>11. \A reverse : Tab(reverse) => StepTypeOK'
  BY DEF Tab, form, choices, StepTypeOK
<1>12. \A new : Type(new) => StepTypeOK'
  BY DEF Type, StepTypeOK
<1> QED
  BY <1>2, <1>3, <1>4, <1>5, <1>6, <1>7, <1>8, <1>9, <1>10, <1>11, <1>12 DEF WizardNext

LEMMA FormStep ==
    ASSUME FormTypeOK, [WizardNext]_wizardVars
    PROVE  FormTypeOK'
<1>1. UNCHANGED form => FormTypeOK'
  BY DEF form, FormTypeOK
<1>e. \A inputs : Emptied(inputs) \in [Inputs -> Texts]
  BY EmptiedType DEF FormTypeOK
<1>o. ASSUME NEW page \in Pages, NEW first \in Inputs, NEW texts \in [Inputs -> Texts], Open(page, first, texts),
             leftover' \subseteq Inputs
      PROVE  FormTypeOK'
  BY <1>o DEF Open, FormTypeOK
<1>2. ASSUME NEW page \in Pages, NEW first \in Inputs, NEW inputs, GoTo(page, first, inputs)
      PROVE  FormTypeOK'
  <2>1. leftover' \subseteq Inputs
    BY <1>2 DEF GoTo, FormTypeOK
  <2> QED
    BY <1>2, <1>e, <1>o, <2>1 DEF GoTo
<1>c. ASSUME NEW page \in Pages, NEW first \in Inputs, NEW texts \in [Inputs -> Texts], NEW inputs,
             Choose(page, first, texts, inputs)
      PROVE  FormTypeOK'
  <2>1. leftover' \subseteq Inputs
    BY <1>c DEF Choose, Outlives
  <2> QED
    BY <1>c, <1>o, <2>1 DEF Choose
<1>p. \A page : Pass(page) => FormTypeOK'
  BY DEF Pass, Outlives, FormTypeOK
<1>3. \A type \in {"remote", "command"} : EnterPickType(type) => FormTypeOK'
  BY <1>c, <1>p, <1>e DEF EnterPickType, Pages, Inputs
<1>4. EnterRemoteURL => FormTypeOK'
  BY <1>1, <1>2, <1>e DEF EnterRemoteURL, Refuse, Pages, Inputs
<1>5. EnterRemoteHeaders => FormTypeOK'
  <2>1. ASSUME text' = Emptied({"key", "value"}), focused' = focused \cup {"key"}, astray' = TRUE,
               leftover' = leftover \ {"key", "value"}, UNCHANGED entered
        PROVE  FormTypeOK'
    BY <1>e, <2>1 DEF FormTypeOK, Inputs
  <2> QED
    BY <1>1, <1>2, <1>e, <2>1 DEF EnterRemoteHeaders, Refuse, Pages, Inputs
<1>6. \A method \in {"image", "build", "command"} : EnterCommandMethod(method) => FormTypeOK'
  BY <1>c, <1>p, <1>e DEF EnterCommandMethod, Pages, Inputs
<1>7. ASSUME NEW mode \in {"custom"} \cup Packages, EnterCommandMode(mode)
      PROVE  FormTypeOK'
  <2>1. mode \in Packages => Preset(mode) \in [Inputs -> Texts]
    BY <1>e, TextsType DEF Preset
  <2> QED
    BY <1>c, <1>7, <1>e, <2>1 DEF EnterCommandMode, Pages, Inputs
<1>8. EnterCommandDetails \/ EnterArgsEnv => FormTypeOK'
  BY <1>1, <1>2, <1>e DEF EnterCommandDetails, EnterArgsEnv, Refuse, Pages, Inputs
<1>9. EnterName \/ Esc \/ Quit \/ UNCHANGED wizardVars => FormTypeOK'
  BY <1>1 DEF EnterName, Refuse, Esc, Quit, wizardVars
<1>10. ASSUME NEW reverse, Tab(reverse)
       PROVE  FormTypeOK'
  <2>1. /\ Toggled("key", "value", reverse) \subseteq Inputs /\ Toggled("args", "env", reverse) \subseteq Inputs
        /\ (focused \ Details) \cup {NextDetail} \subseteq Inputs
    BY DEF Toggled, NextDetail, Inputs, FormTypeOK
  <2>2. UNCHANGED form \/ (focused' \subseteq Inputs /\ UNCHANGED <<text, entered, leftover>> /\ astray' \in BOOLEAN)
    BY <1>10, <2>1 DEF Tab, form, FormTypeOK
  <2> QED
    BY <1>1, <2>2 DEF FormTypeOK
<1>11. ASSUME NEW new \in {"word", "http"}, Type(new)
       PROVE  FormTypeOK'
  <2>1. text' \in [Inputs -> Texts]
    BY <1>11, TextsType DEF Type, FormTypeOK
  <2> QED
    BY <1>11, <2>1 DEF Type, FormTypeOK
<1>12. Erase => FormTypeOK'
  BY TextsType DEF Erase, FormTypeOK
<1> QED
  BY <1>3, <1>4, <1>5, <1>6, <1>7, <1>8, <1>9, <1>10, <1>11, <1>12 DEF WizardNext

LEMMA WizardTypeStep == WizardTypeOK /\ [WizardNext]_wizardVars => WizardTypeOK'
<1> SUFFICES ASSUME WizardTypeOK, [WizardNext]_wizardVars
             PROVE  result' \in McpServers /\ headers' \in BOOLEAN /\ errMsg' \in BOOLEAN
  BY CountStep, StepStep, FormStep DEF WizardTypeOK
<1>1. EnterName \/ EnterRemoteURL \/ EnterRemoteHeaders => result' \in McpServers
  <2>1. BuildFinalResult \in McpServers
    <3>1. /\ text["name"] \in Texts /\ text["command"] \in Texts /\ text["image"] \in Texts
          /\ text["args"] \in Texts /\ text["pkg"] \in Texts /\ text["env"] \in Texts
          /\ buildPath \in {"", "file"} /\ "" \in Texts
      BY TextsType DEF WizardTypeOK, StepTypeOK, FormTypeOK, Inputs
    <3>2. /\ (IF text["args"] = "" THEN {} ELSE {text["args"]}) \in SUBSET Texts
          /\ (IF chosenMethod = "command" /\ commandMode \in Packages THEN {text["pkg"]} ELSE {}) \in SUBSET Texts
      BY <3>1
    <3>3. ASSUME NEW r \in McpServers, NEW n \in Texts, NEW c \in Texts, NEW i \in Texts, NEW b \in {"", "file"},
                 NEW a \in SUBSET Texts, NEW e \in Texts
          PROVE  /\ [r EXCEPT !.Type = "remote", !.Name = n] \in McpServers
                 /\ [r EXCEPT !.Type = "command", !.Name = n, !.Command = c, !.Image = i, !.Build = b,
                              !.Args = a, !.Env = e] \in McpServers
      BY <3>3 DEF McpServers
    <3>4. result \in McpServers
      BY DEF WizardTypeOK
    <3>5. CASE chosenType = "remote"
      BY <3>1, <3>3, <3>4, <3>5 DEF BuildFinalResult
    <3>6. CASE chosenType # "remote"
      <4> DEFINE image == IF chosenMethod = "image" THEN text["image"] ELSE ""
                 build == IF chosenMethod = "build" THEN buildPath ELSE ""
                 given == (IF text["args"] = "" THEN {} ELSE {text["args"]}) \cup
                          (IF chosenMethod = "command" /\ commandMode \in Packages THEN {text["pkg"]} ELSE {})
      <4>1. image \in Texts /\ build \in {"", "file"} /\ given \in SUBSET Texts
        BY <3>1, <3>2
      <4>2. BuildFinalResult = [result EXCEPT !.Type = "command", !.Name = text["name"], !.Command = text["command"],
                                             !.Image = image, !.Build = build, !.Args = given, !.Env = text["env"]]
        BY <3>6 DEF BuildFinalResult
      <4> HIDE DEF image, build, given
      <4> QED
        BY <3>1, <3>3, <3>4, <4>1, <4>2
    <3> QED
      BY <3>5, <3>6
  <2>2. [result EXCEPT !.Headers = TRUE] \in McpServers
    BY DEF McpServers, WizardTypeOK
  <2>3. text["url"] \in Texts => [result EXCEPT !.Type = "remote", !.URL = text["url"]] \in McpServers
    BY DEF McpServers, WizardTypeOK
  <2>4. text["url"] \in Texts
    BY DEF WizardTypeOK, FormTypeOK, Inputs
  <2> QED
    BY <2>1, <2>2, <2>3, <2>4 DEF EnterName, EnterRemoteURL, EnterRemoteHeaders, WizardTypeOK
<1>2. EnterName \/ EnterRemoteURL \/ EnterRemoteHeaders \/ result' = result
  BY DEF WizardNext, wizardVars, EnterPickType, EnterCommandMethod, EnterCommandMode,
         EnterCommandDetails, EnterArgsEnv, Esc, Quit, Tab, Type, Erase
<1>3. headers' \in BOOLEAN
  BY DEF WizardTypeOK, WizardNext, wizardVars, EnterPickType, EnterRemoteURL, EnterRemoteHeaders, EnterCommandMethod,
         EnterCommandMode, EnterCommandDetails, EnterArgsEnv, EnterName, Esc, Quit, Tab, Type, Erase
<1>4. errMsg' \in BOOLEAN
  BY DEF WizardTypeOK, WizardNext, wizardVars, EnterPickType, EnterRemoteURL, EnterRemoteHeaders, EnterCommandMethod,
         EnterCommandMode, EnterCommandDetails, EnterArgsEnv, EnterName, Refuse, Esc, Quit, Tab, Type, Erase
<1> QED
  BY <1>1, <1>2, <1>3, <1>4 DEF WizardTypeOK

\* Every page of the form finds each variable as it takes it to be, in whatever order
\* pages are entered, left and gone back through (mcp_server_wizard.go).
THEOREM WizardTypeCorrect == WizardSpec => []WizardTypeOK
BY WizardTypeInit, WizardTypeStep, PTL DEF WizardSpec

\* The form has come to describe a command, and how to run it.
Described == step \in {"commandDetails", "argsEnv"} \/ (step = "name" /\ chosenType = "command")

\* A page is only come to on the way of the type and the method that were chosen.
OnTheWay ==
    /\ step \in {"remoteURL", "remoteHeaders"} => chosenType = "remote"
    /\ step \in {"commandMethod", "commandMode", "commandDetails", "argsEnv"} => chosenType = "command"
    /\ step = "name" => chosenType # ""
    /\ step = "commandMode" => chosenMethod = "command"
    /\ Described => chosenMethod # "" /\ (chosenMethod = "command" => commandMode # "")
    /\ buildPath = ""

\* What the pages behind were left with still holds.
PagesBehind ==
    /\ step = "remoteHeaders" \/ (step = "name" /\ chosenType = "remote") =>
          text["url"] = "http" /\ result.URL = "http"
    /\ step = "name" /\ chosenType = "remote" => result.Headers
    /\ step = "argsEnv" \/ (step = "name" /\ chosenType = "command") => DetailsComplete

\* What the result holds before the last page.
ResultSoFar ==
    /\ ended = "no" => result.Name = "" /\ RunsNothing(result)
    /\ result.URL # "" <=> "remoteHeaders" \in entered
    /\ result.Headers => result.URL # ""

\* The inputs of the details that have focus belong to what is described.
DetailsShown == CASE chosenMethod = "image"   -> {"image", "command"}
                  [] chosenMethod = "command" /\ commandMode \in Packages -> {"pkg"}
                  [] OTHER                    -> {"command"}
Cursor(inputs) == \E i \in inputs : focused \cap inputs = {i}

\* The pages behind were come to with Enter; two of them have one input, which keeps focus.
Opened ==
    /\ "remoteURL" \in entered => "url" \in focused
    /\ "name" \in entered => "name" \in focused
    /\ step = "remoteURL" => "remoteURL" \in entered
    /\ step = "remoteHeaders" \/ (step = "name" /\ chosenType = "remote") => {"remoteURL", "remoteHeaders"} \subseteq entered
    /\ step = "argsEnv" \/ (step = "name" /\ chosenType = "command") => "argsEnv" \in entered
    /\ step = "name" => "name" \in entered

\* Of the inputs of a page one has focus once it was come to, and none before.
PairCursor(page, inputs) == IF page \in entered THEN Cursor(inputs) ELSE focused \cap inputs = {}

DetailsCursor ==
    /\ "commandDetails" \notin entered => focused \cap Details = {}
    /\ Described /\ chosenMethod # "build" =>
          /\ \E i \in DetailsShown : focused \cap Details = {i}
          /\ chosenMethod = "command" /\ commandMode \in Packages => text["command"] = commandMode

CursorStands == astray \/ /\ PairCursor("remoteHeaders", {"key", "value"})
                          /\ PairCursor("argsEnv", {"args", "env"})
                          /\ DetailsCursor

\* What the pages of the way hold was typed since the last choice.
WayIsFresh ==
    /\ step \in {"remoteURL", "remoteHeaders"} \/ (step = "name" /\ chosenType = "remote") => "url" \notin leftover
    /\ Described /\ chosenMethod # "build" => DetailsShown \cap leftover = {}
    /\ step = "argsEnv" \/ (step = "name" /\ chosenType = "command") => {"args", "env"} \cap leftover = {}
    /\ step = "name" => "name" \notin leftover

WizardInv == /\ OnTheWay /\ PagesBehind /\ ResultSoFar /\ Opened /\ CursorStands /\ WayIsFresh
             /\ ResultIsValid /\ ResultTellsPages

LEMMA WayStep ==
    ASSUME StepTypeOK, OnTheWay, [WizardNext]_wizardVars
    PROVE  OnTheWay'
<1>1. UNCHANGED <<step, choices>> => OnTheWay'
  BY DEF choices, OnTheWay, Described
<1>2. Erase \/ UNCHANGED wizardVars \/ EnterName \/ Quit \/ (\E reverse \in BOOLEAN : Tab(reverse)) => OnTheWay'
  BY <1>1 DEF Erase, EnterName, Refuse, Quit, Tab, wizardVars
<1>3. ASSUME NEW type \in {"remote", "command"}, EnterPickType(type)
      PROVE  OnTheWay'
  BY <1>3 DEF EnterPickType, GoTo, Choose, Open, Pass, OnTheWay, Described
<1>4. EnterRemoteURL \/ EnterRemoteHeaders => OnTheWay'
  BY <1>1 DEF EnterRemoteURL, EnterRemoteHeaders, Enter, GoTo, Choose, Open, Pass, Refuse, choices, OnTheWay, Described
<1>5. ASSUME NEW method \in {"image", "build", "command"}, EnterCommandMethod(method)
      PROVE  OnTheWay'
  BY <1>5 DEF EnterCommandMethod, Enter, GoTo, Choose, Open, Pass, OnTheWay, Described
<1>6. ASSUME NEW mode \in {"custom"} \cup Packages, EnterCommandMode(mode)
      PROVE  OnTheWay'
  BY <1>6 DEF EnterCommandMode, Enter, GoTo, Choose, Open, Pass, OnTheWay, Described, Packages
<1>7. EnterCommandDetails \/ EnterArgsEnv => OnTheWay'
  BY <1>1 DEF EnterCommandDetails, EnterArgsEnv, Enter, GoTo, Choose, Open, Pass, Refuse, choices, OnTheWay, Described
<1>8. Esc => OnTheWay'
  BY DEF Esc, PrevStep, choices, OnTheWay, Described, StepTypeOK, Pages
<1>9. \A new : Type(new) => OnTheWay'
  BY DEF Type, DidSelectFile, SelectKeys, OnTheWay, Described
<1> QED
  BY <1>2, <1>3, <1>4, <1>5, <1>6, <1>7, <1>8, <1>9 DEF WizardNext

\* What typing and erasing change.
LEMMA TypingChanges ==
    ASSUME FormTypeOK, (\E new : Type(new)) \/ Erase
    PROVE  /\ \A i \in Inputs \ (focused \cap Receives) : text'[i] = text[i]
           /\ UNCHANGED <<step, chosenType, chosenMethod, commandMode, focused, entered, astray, result, ended>>
           /\ ended = "no"
           /\ buildPath = "" => buildPath' = ""
BY DEF Type, Erase, choices, DidSelectFile, SelectKeys, FormTypeOK

LEMMA BehindStep ==
    ASSUME WizardTypeOK, OnTheWay, PagesBehind, [WizardNext]_wizardVars
    PROVE  PagesBehind'
<1> USE DEF PagesBehind
<1>1. UNCHANGED <<step, choices, text>> /\ result'.URL = result.URL /\ result'.Headers = result.Headers => PagesBehind'
  BY DEF choices, DetailsComplete
<1>2. UNCHANGED wizardVars \/ Quit \/ (\E reverse \in BOOLEAN : Tab(reverse)) => PagesBehind'
  BY <1>1 DEF Quit, Tab, form, wizardVars
<1>3. ASSUME NEW type \in {"remote", "command"}, EnterPickType(type)
      PROVE  PagesBehind'
  BY <1>3 DEF EnterPickType, GoTo, Choose, Open, Pass
<1>4. EnterRemoteURL => PagesBehind'
  BY <1>1 DEF EnterRemoteURL, Enter, GoTo, Choose, Open, Pass, Refuse, form, Emptied, Inputs, McpServers, WizardTypeOK
<1>5. EnterRemoteHeaders => PagesBehind'
  BY <1>1 DEF EnterRemoteHeaders, Enter, GoTo, Choose, Open, Pass, Refuse, form, choices, Emptied, Inputs, McpServers, WizardTypeOK, OnTheWay
<1>6. ASSUME NEW method \in {"image", "build", "command"}, EnterCommandMethod(method)
      PROVE  PagesBehind'
  BY <1>6 DEF EnterCommandMethod, Enter, GoTo, Choose, Open, Pass
<1>7. ASSUME NEW mode \in {"custom"} \cup Packages, EnterCommandMode(mode)
      PROVE  PagesBehind'
  BY <1>7 DEF EnterCommandMode, Enter, GoTo, Choose, Open, Pass
<1>8. EnterCommandDetails => PagesBehind'
  BY <1>1 DEF EnterCommandDetails, Enter, GoTo, Choose, Open, Pass, Refuse, form, choices, Emptied, Inputs, DetailsComplete, OnTheWay
<1>9. EnterArgsEnv => PagesBehind'
  BY DEF EnterArgsEnv, Enter, GoTo, Choose, Open, Pass, choices, Emptied, Inputs, DetailsComplete, OnTheWay
<1>10. EnterName => PagesBehind'
  <2>1. BuildFinalResult.URL = result.URL /\ BuildFinalResult.Headers = result.Headers
    BY DEF BuildFinalResult, McpServers, WizardTypeOK
  <2> QED
    BY <1>1, <2>1 DEF EnterName, Refuse, form
<1>11. ASSUME Esc
       PROVE  PagesBehind'
  <2>1. UNCHANGED <<chosenType, chosenMethod, commandMode, buildPath, text, result>> /\ step' = PrevStep
    BY <1>11 DEF Esc, choices, form
  <2>2. PrevStep = "remoteHeaders" => step = "name" /\ chosenType = "remote"
    BY DEF PrevStep
  <2>3. PrevStep = "argsEnv" => step = "name" /\ chosenType = "command"
    BY DEF PrevStep, WizardTypeOK, StepTypeOK, OnTheWay
  <2>4. PrevStep # "name"
    BY DEF PrevStep
  <2>5. DetailsComplete' <=> DetailsComplete
    BY <2>1 DEF DetailsComplete
  <2> QED
    BY <2>1, <2>2, <2>3, <2>4, <2>5
<1>12. (\E new : Type(new)) \/ Erase => PagesBehind'
  BY TypingChanges DEF WizardTypeOK, Receives, DetailsComplete, OnTheWay, Inputs, Details
<1> QED
  BY <1>2, <1>3, <1>4, <1>5, <1>6, <1>7, <1>8, <1>9, <1>10, <1>11, <1>12 DEF WizardNext

\* The pages of the headers and of the arguments are come to with Enter only.
LEMMA SoFarStep ==
    ASSUME WizardTypeOK, OnTheWay, PagesBehind, ResultSoFar, [WizardNext]_wizardVars
    PROVE  ResultSoFar'
<1>2. result \in McpServers /\ result' \in McpServers
  BY WizardTypeStep DEF WizardTypeOK
<1>3. ASSUME result' = result, ended = "no",
             "remoteHeaders" \in entered' <=> "remoteHeaders" \in entered
      PROVE  ResultSoFar'
  BY <1>3 DEF ResultSoFar
<1>4. ASSUME UNCHANGED wizardVars
      PROVE  ResultSoFar'
  BY <1>4 DEF wizardVars, form, ResultSoFar
<1>5. \A type \in {"remote", "command"} : EnterPickType(type) => ResultSoFar'
  BY <1>3 DEF EnterPickType, Enter, GoTo, Choose, Open, Pass, form
<1>6. ASSUME EnterRemoteURL
      PROVE  ResultSoFar'
  <2>1. CASE Refuse /\ UNCHANGED result
    BY <1>3, <1>6, <2>1 DEF EnterRemoteURL, Enter, Refuse, form
  <2>2. CASE /\ text["url"] = "http"
             /\ result' = [result EXCEPT !.Type = "remote", !.URL = text["url"]]
             /\ GoTo("remoteHeaders", "key", {"key", "value"})
    <3>1. result'.URL = "http" /\ "remoteHeaders" \in entered'
      BY <1>2, <2>2 DEF GoTo, Choose, Open, Pass, McpServers
    <3>2. /\ result'.Name = result.Name /\ result'.Image = result.Image /\ result'.Build = result.Build
          /\ result'.Command = result.Command /\ result'.Args = result.Args /\ result'.Env = result.Env
      BY <1>2, <2>2 DEF McpServers
    <3>3. ended = "no"
      BY <1>6 DEF EnterRemoteURL, Enter
    <3> QED
      BY <3>1, <3>2, <3>3 DEF ResultSoFar, RunsNothing
  <2> QED
    BY <1>6, <2>1, <2>2 DEF EnterRemoteURL
<1>7. ASSUME EnterRemoteHeaders
      PROVE  ResultSoFar'
  <2>1. CASE result' = result
    BY <1>3, <1>7, <2>1 DEF EnterRemoteHeaders, Enter, GoTo, Choose, Open, Pass, Refuse, form
  <2>2. CASE result' = [result EXCEPT !.Headers = TRUE] /\ GoTo("name", "name", {"name"})
    <3>1. result.URL = "http" /\ ended = "no"
      BY <1>7 DEF EnterRemoteHeaders, Enter, PagesBehind
    <3>2. /\ result'.Name = result.Name /\ result'.Image = result.Image /\ result'.Build = result.Build
          /\ result'.Command = result.Command /\ result'.Args = result.Args /\ result'.Env = result.Env
          /\ result'.URL = result.URL
      BY <1>2, <2>2 DEF McpServers
    <3>3. "remoteHeaders" \in entered' <=> "remoteHeaders" \in entered
      BY <2>2 DEF GoTo, Choose, Open, Pass
    <3> QED
      BY <3>1, <3>2, <3>3 DEF ResultSoFar, RunsNothing
  <2> QED
    BY <1>7, <2>1, <2>2 DEF EnterRemoteHeaders
<1>8. \A method \in {"image", "build", "command"} : EnterCommandMethod(method) => ResultSoFar'
  BY <1>3 DEF EnterCommandMethod, Enter, GoTo, Choose, Open, Pass, form
<1>9. \A mode \in {"custom"} \cup Packages : EnterCommandMode(mode) => ResultSoFar'
  BY <1>3 DEF EnterCommandMode, Enter, GoTo, Choose, Open, Pass
<1>10. EnterCommandDetails \/ EnterArgsEnv => ResultSoFar'
  BY <1>3 DEF EnterCommandDetails, EnterArgsEnv, Enter, GoTo, Choose, Open, Pass, Refuse, form
<1>11. ASSUME EnterName
       PROVE  ResultSoFar'
  <2>1. CASE Refuse /\ UNCHANGED <<result, ended>>
    BY <1>3, <1>11, <2>1 DEF EnterName, Enter, Refuse, form
  <2>2. CASE result' = BuildFinalResult /\ ended' = "ok" /\ UNCHANGED <<step, form>>
    <3>1. result'.URL = result.URL /\ result'.Headers = result.Headers
      BY <1>2, <2>2 DEF BuildFinalResult, McpServers
    <3> QED
      BY <2>2, <3>1 DEF ResultSoFar, form
  <2> QED
    BY <1>11, <2>1, <2>2 DEF EnterName
<1>12. Esc \/ Quit \/ Erase => ResultSoFar'
  BY <1>3 DEF Esc, Quit, Erase, form
<1>13. \A reverse \in BOOLEAN : Tab(reverse) => ResultSoFar'
  BY <1>3 DEF Tab, form
<1>14. \A new : Type(new) => ResultSoFar'
  BY <1>3 DEF Type
<1> QED
  BY <1>4, <1>5, <1>6, <1>7, <1>8, <1>9, <1>10, <1>11, <1>12, <1>13, <1>14 DEF WizardNext

\* How a step changes what has focus.
Opens(page, first) == /\ focused' = focused \cup {first} /\ entered' = entered \cup {page}
                      /\ astray' = (astray \/ page \in entered)

FocusStep ==
    \/ UNCHANGED <<focused, entered, astray>>
    \/ Opens("remoteURL", "url") \/ Opens("remoteHeaders", "key") \/ Opens("argsEnv", "args") \/ Opens("name", "name")
    \/ \E i \in Details : Opens("commandDetails", i)
    \/ astray' /\ focused \subseteq focused' /\ entered' = entered
    \/ /\ step = "remoteHeaders" /\ UNCHANGED <<entered, astray>>
       /\ \E reverse \in BOOLEAN : focused' = Toggled("key", "value", reverse)
    \/ /\ step = "argsEnv" /\ UNCHANGED <<entered, astray>>
       /\ \E reverse \in BOOLEAN : focused' = Toggled("args", "env", reverse)
    \/ /\ step = "commandDetails" /\ chosenMethod # "build" /\ entered' = entered /\ astray' = (astray \/ ShowsPackage)
       /\ focused' = (focused \ Details) \cup {NextDetail}

LEMMA FocusChanges == FormTypeOK /\ [WizardNext]_wizardVars => FocusStep
<1> SUFFICES ASSUME FormTypeOK, [WizardNext]_wizardVars
             PROVE  FocusStep
  OBVIOUS
<1>1. Esc \/ Quit \/ Erase \/ UNCHANGED wizardVars \/ EnterName => FocusStep
  BY DEF Esc, Quit, Erase, wizardVars, EnterName, Refuse, form, FocusStep
<1>2. \A new : Type(new) => FocusStep
  BY DEF Type, FocusStep
<1>3. \A type \in {"remote", "command"} : EnterPickType(type) => FocusStep
  BY DEF EnterPickType, GoTo, Choose, Open, Pass, form, Opens, FocusStep
<1>4. EnterRemoteURL => FocusStep
  BY DEF EnterRemoteURL, GoTo, Choose, Open, Pass, Refuse, form, Opens, FocusStep
<1>5. EnterRemoteHeaders => FocusStep
  BY DEF EnterRemoteHeaders, GoTo, Choose, Open, Pass, Refuse, form, Opens, FocusStep
<1>6. \A method \in {"image", "build", "command"} : EnterCommandMethod(method) => FocusStep
  BY DEF EnterCommandMethod, GoTo, Choose, Open, Pass, form, Opens, FocusStep, Details
<1>7. \A mode \in {"custom"} \cup Packages : EnterCommandMode(mode) => FocusStep
  BY DEF EnterCommandMode, GoTo, Choose, Open, Pass, Opens, FocusStep, Details
<1>8. EnterCommandDetails \/ EnterArgsEnv => FocusStep
  BY DEF EnterCommandDetails, EnterArgsEnv, GoTo, Choose, Open, Pass, Refuse, form, Opens, FocusStep
<1>9. ASSUME NEW reverse \in BOOLEAN, Tab(reverse)
      PROVE  FocusStep
  <2>1. CASE UNCHANGED form
    BY <2>1 DEF form, FocusStep
  <2>2. CASE /\ step \in {"remoteHeaders", "argsEnv", "commandDetails"} /\ Receives # {}
             /\ focused' = CASE step = "remoteHeaders" -> Toggled("key", "value", reverse)
                             [] step = "argsEnv"       -> Toggled("args", "env", reverse)
                             [] OTHER                  -> (focused \ Details) \cup {NextDetail}
             /\ astray' = (astray \/ ShowsPackage) /\ UNCHANGED <<text, entered, leftover, ended>>
    <3>1. step # "commandDetails" => ~ShowsPackage
      BY DEF ShowsPackage
    <3>2. step = "commandDetails" => chosenMethod # "build"
      BY <2>2 DEF Receives
    <3>3. CASE step = "remoteHeaders"
      <4>1. focused' = Toggled("key", "value", reverse) /\ UNCHANGED <<entered, astray>>
        BY <2>2, <3>1, <3>3 DEF FormTypeOK
      <4> QED
        BY <3>3, <4>1 DEF FocusStep
    <3>4. CASE step = "argsEnv"
      <4>1. focused' = Toggled("args", "env", reverse) /\ UNCHANGED <<entered, astray>>
        BY <2>2, <3>1, <3>4 DEF FormTypeOK
      <4> QED
        BY <3>4, <4>1 DEF FocusStep
    <3>5. CASE step = "commandDetails"
      BY <2>2, <3>2, <3>5 DEF FocusStep
    <3> QED
      BY <2>2, <3>3, <3>4, <3>5
  <2> QED
    BY <1>9, <2>1, <2>2 DEF Tab
<1> QED
  BY <1>1, <1>2, <1>3, <1>4, <1>5, <1>6, <1>7, <1>8, <1>9 DEF WizardNext

LEMMA PairStep ==
    ASSUME Opened, FocusStep, ~astray'
    PROVE  /\ PairCursor("remoteHeaders", {"key", "value"}) => PairCursor("remoteHeaders", {"key", "value"})'
           /\ PairCursor("argsEnv", {"args", "env"}) => PairCursor("argsEnv", {"args", "env"})'
<1>1. ASSUME NEW reverse \in BOOLEAN, step = "remoteHeaders", focused' = Toggled("key", "value", reverse), UNCHANGED entered
      PROVE  /\ focused' \cap {"key", "value"} = {"key"} \/ focused' \cap {"key", "value"} = {"value"}
             /\ focused' \cap {"args", "env"} = focused \cap {"args", "env"}
             /\ "remoteHeaders" \in entered'
  BY <1>1 DEF Toggled, Opened
<1>2. ASSUME NEW reverse \in BOOLEAN, step = "argsEnv", focused' = Toggled("args", "env", reverse), UNCHANGED entered
      PROVE  /\ focused' \cap {"args", "env"} = {"args"} \/ focused' \cap {"args", "env"} = {"env"}
             /\ focused' \cap {"key", "value"} = focused \cap {"key", "value"}
             /\ "argsEnv" \in entered'
  BY <1>2 DEF Toggled, Opened
<1> QED
  BY <1>1, <1>2 DEF FocusStep, Opens, PairCursor, Cursor, Details, NextDetail


LEMMA OpenedStep ==
    ASSUME WizardTypeOK, OnTheWay, Opened, [WizardNext]_wizardVars
    PROVE  Opened'
<1>f. FocusStep
  BY FocusChanges DEF WizardTypeOK
<1>1. ("remoteURL" \in entered => "url" \in focused)' /\ ("name" \in entered => "name" \in focused)'
  BY <1>f DEF FocusStep, Opens, Toggled, Details, NextDetail, Opened
<1>2. entered \subseteq entered'
  BY <1>f DEF FocusStep, Opens
<1> DEFINE Behind == /\ step = "remoteURL" => "remoteURL" \in entered
                     /\ step = "remoteHeaders" \/ (step = "name" /\ chosenType = "remote") =>
                           {"remoteURL", "remoteHeaders"} \subseteq entered
                     /\ step = "argsEnv" \/ (step = "name" /\ chosenType = "command") => "argsEnv" \in entered
                     /\ step = "name" => "name" \in entered
<1>3. UNCHANGED <<step, chosenType>> => Behind'
  BY <1>2 DEF Opened
<1>4. Quit \/ Erase \/ UNCHANGED wizardVars \/ EnterName \/ (\E reverse \in BOOLEAN : Tab(reverse)) \/ (\E new : Type(new)) => Behind'
  BY <1>3 DEF Quit, Erase, wizardVars, EnterName, Refuse, Tab, Type, choices
<1>5. ASSUME NEW type \in {"remote", "command"}, EnterPickType(type)
      PROVE  Behind'
  BY <1>5 DEF EnterPickType, GoTo, Choose, Open, Pass
<1>6. EnterRemoteURL \/ EnterRemoteHeaders => Behind'
  BY <1>3 DEF EnterRemoteURL, EnterRemoteHeaders, Enter, GoTo, Choose, Open, Pass, Refuse, choices, Opened, OnTheWay
<1>7. ASSUME NEW method \in {"image", "build", "command"}, EnterCommandMethod(method)
      PROVE  Behind'
  BY <1>7 DEF EnterCommandMethod, GoTo, Choose, Open, Pass
<1>8. ASSUME NEW mode \in {"custom"} \cup Packages, EnterCommandMode(mode)
      PROVE  Behind'
  BY <1>8 DEF EnterCommandMode, GoTo, Choose, Open, Pass
<1>9. EnterCommandDetails \/ EnterArgsEnv => Behind'
  BY <1>3 DEF EnterCommandDetails, EnterArgsEnv, Enter, GoTo, Choose, Open, Pass, Refuse, choices, Opened, OnTheWay
<1>10. ASSUME Esc
       PROVE  Behind'
  <2>1. UNCHANGED <<chosenType, entered>> /\ step' = PrevStep
    BY <1>10 DEF Esc, choices, form
  <2>2. PrevStep = "remoteHeaders" => step = "name" /\ chosenType = "remote"
    BY DEF PrevStep
  <2>3. PrevStep = "argsEnv" => step = "name" /\ chosenType = "command"
    BY DEF PrevStep, WizardTypeOK, StepTypeOK, OnTheWay
  <2>4. PrevStep # "name" /\ (PrevStep = "remoteURL" => step = "remoteHeaders")
    BY DEF PrevStep
  <2> QED
    BY <2>1, <2>2, <2>3, <2>4 DEF Opened
<1>11. Behind'
  BY <1>4, <1>5, <1>6, <1>7, <1>8, <1>9, <1>10 DEF WizardNext
<1> QED
  BY <1>1, <1>11 DEF Opened


LEMMA DetailsStep ==
    ASSUME WizardTypeOK, OnTheWay, DetailsCursor, ~astray', [WizardNext]_wizardVars
    PROVE  DetailsCursor'
<1>f. FocusStep
  BY FocusChanges DEF WizardTypeOK
<1>1. "commandDetails" \notin entered' => focused' \cap Details = {}
  <2>1. step = "commandDetails" /\ chosenMethod # "build" => "commandDetails" \in entered
    BY DEF DetailsCursor, Described
  <2> QED
    BY <1>f, <2>1 DEF FocusStep, Opens, Toggled, Details, DetailsCursor
<1> DEFINE ResultShows == Described /\ chosenMethod # "build" =>
                      /\ \E i \in DetailsShown : focused \cap Details = {i}
                      /\ chosenMethod = "command" /\ commandMode \in Packages => text["command"] = commandMode
<1>2. ASSUME Described' => Described, UNCHANGED <<chosenMethod, commandMode>>, text'["command"] = text["command"],
             focused' \cap Details = focused \cap Details
      PROVE  ResultShows'
  BY <1>2 DEF DetailsCursor, DetailsShown
<1>3. ASSUME ~Described'
      PROVE  ResultShows'
  BY <1>3
<1>4. UNCHANGED wizardVars \/ Quit => ResultShows'
  BY <1>2 DEF Quit, wizardVars, choices, form, Described
<1>5. ASSUME NEW type \in {"remote", "command"}, EnterPickType(type)
      PROVE  ResultShows'
  BY <1>3, <1>5 DEF EnterPickType, GoTo, Choose, Open, Pass, Described
<1>6. ASSUME EnterRemoteURL \/ EnterRemoteHeaders
      PROVE  ResultShows'
  <2>1. ~Described'
    BY <1>6 DEF EnterRemoteURL, EnterRemoteHeaders, Enter, GoTo, Choose, Open, Pass, Refuse, form, choices, Described, OnTheWay
  <2> QED
    BY <1>3, <2>1
<1>7. ASSUME NEW method \in {"image", "build", "command"}, EnterCommandMethod(method)
      PROVE  ResultShows'
  <2>1. CASE method = "image"
    <3>1. "commandDetails" \notin entered /\ focused' = focused \cup {"image"} /\ chosenMethod' = "image"
      BY <1>7, <2>1 DEF EnterCommandMethod, GoTo, Choose, Open, Pass
    <3> QED
      BY <3>1 DEF DetailsCursor, DetailsShown, Details
  <2>2. CASE method = "build"
    BY <1>7, <2>2 DEF EnterCommandMethod
  <2>3. CASE method = "command"
    BY <1>7, <2>3 DEF EnterCommandMethod, Pass, Described
  <2> QED
    BY <2>1, <2>2, <2>3
<1>8. ASSUME NEW mode \in {"custom"} \cup Packages, EnterCommandMode(mode)
      PROVE  ResultShows'
  <2>1. /\ "commandDetails" \notin entered /\ commandMode' = mode /\ chosenMethod' = "command"
        /\ focused' = focused \cup {IF mode \in Packages THEN "pkg" ELSE "command"}
        /\ mode \in Packages => text'["command"] = mode
    BY <1>8 DEF EnterCommandMode, Enter, GoTo, Choose, Open, Pass, Preset, Emptied, Inputs, OnTheWay
  <2> QED
    BY <2>1 DEF DetailsCursor, DetailsShown, Details
<1>9. ASSUME EnterCommandDetails \/ EnterArgsEnv
      PROVE  ResultShows'
  <2>1. Described /\ UNCHANGED <<chosenMethod, commandMode>>
    BY <1>9 DEF EnterCommandDetails, EnterArgsEnv, Enter, Described, choices
  <2>2. text'["command"] = text["command"] /\ focused' \cap Details = focused \cap Details
    BY <1>9 DEF EnterCommandDetails, EnterArgsEnv, GoTo, Choose, Open, Pass, Refuse, form, Emptied, Inputs, Details
  <2> QED
    BY <1>2, <2>1, <2>2
<1>10. EnterName => ResultShows'
  BY <1>2 DEF EnterName, Refuse, form, choices, Described
<1>11. ASSUME Esc
       PROVE  ResultShows'
  <2>1. UNCHANGED <<chosenType, chosenMethod, commandMode, text, focused>> /\ step' = PrevStep
    BY <1>11 DEF Esc, choices, form
  <2>2. PrevStep = "commandDetails" => step = "argsEnv"
    BY DEF PrevStep
  <2>3. PrevStep = "argsEnv" => step = "name" /\ chosenType = "command"
    BY DEF PrevStep, WizardTypeOK, StepTypeOK, OnTheWay
  <2>4. PrevStep # "name"
    BY DEF PrevStep
  <2> QED
    BY <1>2, <2>1, <2>2, <2>3, <2>4 DEF Described
<1>12. ASSUME NEW reverse \in BOOLEAN, Tab(reverse)
       PROVE  ResultShows'
  <2>1. UNCHANGED <<step, chosenType, chosenMethod, commandMode>> /\ text' = text
    BY <1>12 DEF Tab, choices, form
  <2>2. CASE UNCHANGED form
    BY <1>2, <2>1, <2>2 DEF form, Described
  <2>3. CASE step \in {"remoteHeaders", "argsEnv"} /\ ~UNCHANGED form
    <3>1. focused' \cap Details = focused \cap Details
      BY <1>12, <2>3 DEF Tab, Toggled, Details
    <3> QED
      BY <1>2, <2>1, <3>1 DEF Described
  <2>4. CASE step = "commandDetails" /\ ~UNCHANGED form
    <3>1. focused' = (focused \ Details) \cup {NextDetail} /\ ~ShowsPackage
      BY <1>12, <2>4 DEF Tab
    <3>2. ASSUME chosenMethod # "build"
          PROVE  focused' \cap Details = {NextDetail} /\ NextDetail \in DetailsShown
      BY <2>4, <3>1 DEF NextDetail, DetailsShown, Details, ShowsPackage
    <3> QED
      BY <2>1, <2>4, <3>1, <3>2 DEF DetailsShown, ShowsPackage
  <2> QED
    BY <1>12, <2>2, <2>3, <2>4 DEF Tab
<1>13. ASSUME (\E new : Type(new)) \/ Erase
       PROVE  ResultShows'
  <2>1. /\ UNCHANGED <<step, chosenType, chosenMethod, commandMode, focused>>
        /\ \A i \in Inputs \ (focused \cap Receives) : text'[i] = text[i]
    BY <1>13, TypingChanges DEF WizardTypeOK
  <2>2. CASE Described /\ chosenMethod = "command" /\ commandMode \in Packages
    <3>1. \E i \in {"pkg"} : focused \cap Details = {i}
      BY <2>2 DEF DetailsCursor, DetailsShown
    <3>2. "command" \notin focused \cap Receives
      BY <2>2, <3>1 DEF Receives, Details, Described
    <3>3. text'["command"] = text["command"]
      BY <2>1, <3>2 DEF Inputs
    <3> QED
      BY <1>2, <2>1, <3>3 DEF Described
  <2>3. CASE ~(Described /\ chosenMethod = "command" /\ commandMode \in Packages)
    BY <2>1, <2>3 DEF DetailsCursor, Described, DetailsShown
  <2> QED
    BY <2>2, <2>3
<1>14. ResultShows'
  BY <1>4, <1>5, <1>6, <1>7, <1>8, <1>9, <1>10, <1>11, <1>12, <1>13 DEF WizardNext
<1> QED
  BY <1>1, <1>14 DEF DetailsCursor

LEMMA FreshStep ==
    ASSUME WizardTypeOK, OnTheWay, WayIsFresh, [WizardNext]_wizardVars
    PROVE  WayIsFresh'
<1>1. ASSUME UNCHANGED <<step, choices>>, leftover' \subseteq leftover
      PROVE  WayIsFresh'
  BY <1>1 DEF WayIsFresh, choices, Described, DetailsShown
<1>2. UNCHANGED wizardVars \/ Quit \/ EnterName => WayIsFresh'
  BY <1>1 DEF Quit, EnterName, Refuse, form, wizardVars
<1>3. (\E reverse \in BOOLEAN : Tab(reverse)) \/ (\E new : Type(new)) \/ Erase => WayIsFresh'
  <2>1. ASSUME NEW reverse \in BOOLEAN, Tab(reverse)
        PROVE  UNCHANGED <<step, choices, leftover>>
    BY <2>1 DEF Tab, form
  <2>2. ASSUME NEW new, Type(new)
        PROVE  UNCHANGED <<step, choices, leftover>>
    BY <2>2 DEF Type, choices, DidSelectFile, SelectKeys
  <2>3. Erase => UNCHANGED <<step, choices>> /\ leftover' \subseteq leftover
    BY DEF Erase
  <2> QED
    BY <1>1, <2>1, <2>2, <2>3
<1>4. ASSUME NEW type \in {"remote", "command"}, EnterPickType(type)
      PROVE  WayIsFresh'
  BY <1>4 DEF EnterPickType, Choose, Open, Pass, Outlives, WayIsFresh, Described
<1>5. EnterRemoteURL \/ EnterRemoteHeaders => WayIsFresh'
  BY <1>1 DEF EnterRemoteURL, EnterRemoteHeaders, Enter, GoTo, Open, Refuse, form, choices, WayIsFresh, Described, OnTheWay
<1>6. ASSUME NEW method \in {"image", "build", "command"}, EnterCommandMethod(method)
      PROVE  WayIsFresh'
  BY <1>6 DEF EnterCommandMethod, Choose, Open, Pass, Outlives, WayIsFresh, Described, DetailsShown
<1>7. ASSUME NEW mode \in {"custom"} \cup Packages, EnterCommandMode(mode)
      PROVE  WayIsFresh'
  <2>1. step' = "commandDetails" /\ chosenMethod' = "command" /\ commandMode' = mode
    BY <1>7 DEF EnterCommandMode, Enter, Choose, Open, OnTheWay
  <2>2. mode \in Packages => "pkg" \notin leftover'
    BY <1>7 DEF EnterCommandMode, Choose, Outlives
  <2>3. mode \notin Packages => "command" \notin leftover'
    BY <1>7 DEF EnterCommandMode, Choose, Outlives
  <2> QED
    BY <2>1, <2>2, <2>3 DEF WayIsFresh, DetailsShown
<1>8. EnterCommandDetails \/ EnterArgsEnv => WayIsFresh'
  BY <1>1 DEF EnterCommandDetails, EnterArgsEnv, Enter, GoTo, Open, Refuse, form, choices, WayIsFresh, Described,
              DetailsShown, OnTheWay
<1>9. ASSUME Esc
      PROVE  WayIsFresh'
  <2>1. UNCHANGED <<chosenType, chosenMethod, commandMode, leftover>> /\ step' = PrevStep
    BY <1>9 DEF Esc, choices, form
  <2>2. PrevStep = "remoteURL" => step = "remoteHeaders"
    BY DEF PrevStep
  <2>3. PrevStep = "remoteHeaders" => step = "name" /\ chosenType = "remote"
    BY DEF PrevStep
  <2>4. PrevStep = "argsEnv" => step = "name" /\ chosenType = "command"
    BY DEF PrevStep, WizardTypeOK, StepTypeOK, OnTheWay
  <2>5. PrevStep # "name" /\ (PrevStep = "commandDetails" => step = "argsEnv")
    BY DEF PrevStep
  <2> QED
    BY <2>1, <2>2, <2>3, <2>4, <2>5 DEF WayIsFresh, Described, DetailsShown
<1> QED
  BY <1>2, <1>3, <1>4, <1>5, <1>6, <1>7, <1>8, <1>9 DEF WizardNext

\* What is given out was on the pages when they were left.
LEMMA EndedStep ==
    ASSUME WizardTypeOK, OnTheWay, PagesBehind, ResultSoFar, CursorStands, WayIsFresh, ResultIsValid, ResultTellsPages,
           [WizardNext]_wizardVars
    PROVE  ResultIsValid' /\ ResultTellsPages'
<1>1. CASE ended' # "ok"
  BY <1>1 DEF ResultIsValid, ResultTellsPages
<1>2. CASE ended = "ok"
  <2>1. UNCHANGED wizardVars
    BY <1>2 DEF WizardNext, EnterPickType, EnterRemoteURL, EnterRemoteHeaders, EnterCommandMethod, EnterCommandMode,
         EnterCommandDetails, EnterArgsEnv, EnterName, Enter, Esc, Quit, Tab, Type, Erase
  <2>2. UNCHANGED <<ended, result, chosenType, chosenMethod, commandMode, text, entered, astray, leftover>>
    BY <2>1 DEF wizardVars, choices, form
  <2>3. ResultIsValid'
    BY <2>2 DEF ResultIsValid
  <2>4. UNCHANGED Wanted /\ \A i : Tells(result, i)' <=> Tells(result, i)
    BY <2>2 DEF Wanted, Tells
  <2>5. ResultTellsPages'
    BY <2>2, <2>4 DEF ResultTellsPages, RunsNothing
  <2> QED
    BY <2>3, <2>5
<1>3. CASE ended' = "ok" /\ ended # "ok"
  <2>1. /\ step = "name" /\ ended = "no" /\ text["name"] # "" /\ result' = BuildFinalResult
        /\ UNCHANGED <<step, form, choices>>
    BY <1>3 DEF WizardNext, wizardVars, EnterPickType, EnterRemoteURL, EnterRemoteHeaders, EnterCommandMethod,
         EnterCommandMode, EnterCommandDetails, EnterArgsEnv, EnterName, Enter, Esc, Quit, Tab, Type, Erase
  <2>2. result \in McpServers
    BY DEF WizardTypeOK
  <2>3. CASE chosenType = "remote"
    <3>1. /\ result'.Type = "remote" /\ result'.Name = text["name"] /\ result'.URL = result.URL
          /\ result'.Headers = result.Headers /\ result'.Image = result.Image /\ result'.Build = result.Build
          /\ result'.Command = result.Command /\ result'.Args = result.Args /\ result'.Env = result.Env
      BY <2>1, <2>2, <2>3 DEF BuildFinalResult, McpServers
    <3>2. text["url"] = "http" /\ result.URL = "http" /\ result.Headers /\ RunsNothing(result)
      BY <2>1, <2>3 DEF PagesBehind, ResultSoFar
    <3>3. ResultIsValid'
      BY <2>1, <2>3, <3>1, <3>2 DEF ResultIsValid, choices, form
    <3>4. Wanted = {"url", "name"} /\ UNCHANGED <<chosenType, chosenMethod, commandMode, text, leftover>>
      BY <2>1, <2>3 DEF Wanted, choices, form
    <3>5. Wanted' \cap leftover' = {}
      BY <2>1, <2>3, <3>4 DEF WayIsFresh, Wanted
    <3>6. \A i \in Wanted' : Tells(result, i)'
      BY <2>3, <3>1, <3>2, <3>4 DEF Wanted, Tells
    <3>7. ResultTellsPages'
      BY <2>3, <3>1, <3>2, <3>4, <3>5, <3>6 DEF ResultTellsPages, RunsNothing
    <3> QED
      BY <3>3, <3>7
  <2>4. CASE chosenType # "remote"
    <3>1. chosenType = "command" /\ Described /\ chosenMethod # "" /\ buildPath = ""
      BY <2>1, <2>4 DEF WizardTypeOK, StepTypeOK, OnTheWay, Described
    <3>2. /\ result'.Type = "command" /\ result'.Name = text["name"] /\ result'.URL = result.URL
          /\ result'.Headers = result.Headers /\ result'.Command = text["command"]
          /\ chosenMethod = "image" => result'.Image = text["image"]
      BY <2>1, <2>2, <2>4 DEF BuildFinalResult, McpServers
    <3>3. DetailsComplete
      BY <2>1, <3>1 DEF PagesBehind
    <3>4. ResultIsValid'
      BY <2>1, <3>1, <3>2, <3>3 DEF ResultIsValid, DetailsComplete, choices, form
    <3>5. (chosenMethod = "command" /\ commandMode \in Packages /\ ~astray) => text["command"] = commandMode
      BY <3>1 DEF CursorStands, DetailsCursor
    <3>6. (result.URL # "" => "remoteHeaders" \in entered) /\ (result.Headers => result.URL # "")
      BY DEF ResultSoFar
    <3>7. /\ UNCHANGED <<chosenType, chosenMethod, commandMode, text, leftover, entered, astray>>
          /\ chosenMethod # "build" /\ Wanted = DetailsShown \cup {"args", "env", "name"} /\ Wanted' = Wanted
      BY <2>1, <3>1, <3>3 DEF Wanted, DetailsShown, DetailsComplete, choices, form, WizardTypeOK, StepTypeOK
    <3>8. Wanted' \cap leftover' = {}
      BY <2>1, <3>1, <3>7 DEF WayIsFresh
    <3>9. /\ result'.Env = text["env"] /\ result'.Image = IF chosenMethod = "image" THEN text["image"] ELSE ""
          /\ result'.Args = (IF text["args"] = "" THEN {} ELSE {text["args"]}) \cup
                            (IF chosenMethod = "command" /\ commandMode \in Packages THEN {text["pkg"]} ELSE {})
      BY <2>1, <2>2, <2>4 DEF BuildFinalResult, McpServers
    <3>10. \A i \in Wanted' : Tells(result, i)'
      BY <3>2, <3>7, <3>9 DEF Tells, DetailsShown
    <3>11. result'.Args \subseteq {text[i] : i \in Wanted \cap {"pkg", "args"}}
      BY <3>7, <3>9 DEF DetailsShown
    <3>12. /\ result'.Image # "" => "image" \in Wanted
           /\ "command" \notin Wanted => result'.Command = commandMode \/ astray
      BY <3>2, <3>5, <3>7, <3>9 DEF DetailsShown
    <3>13. ResultTellsPages'
      BY <2>1, <3>1, <3>2, <3>6, <3>7, <3>8, <3>10, <3>11, <3>12 DEF ResultTellsPages
    <3> QED
      BY <3>4, <3>13
  <2> QED
    BY <2>3, <2>4
<1> QED
  BY <1>1, <1>2, <1>3

LEMMA WizardInvInit == WizardInit => WizardInv
<1> SUFFICES ASSUME WizardInit
             PROVE  WizardInv
  OBVIOUS
<1>1. ended = "no" /\ step = "pickType" /\ entered = {} /\ focused = {} /\ result = NoServer /\ buildPath = ""
  BY DEF WizardInit
<1>2. OnTheWay /\ PagesBehind /\ Opened
  BY <1>1 DEF OnTheWay, Described, PagesBehind, Opened
<1>3. ResultSoFar /\ ResultIsValid /\ ResultTellsPages
  BY <1>1 DEF ResultSoFar, NoServer, RunsNothing, ResultIsValid, ResultTellsPages
<1>4. CursorStands /\ WayIsFresh
  BY <1>1 DEF CursorStands, PairCursor, DetailsCursor, Described, WayIsFresh
<1> QED
  BY <1>2, <1>3, <1>4 DEF WizardInv

LEMMA WizardInvStep == WizardTypeOK /\ WizardInv /\ [WizardNext]_wizardVars => WizardInv'
<1> SUFFICES ASSUME WizardTypeOK, WizardInv, [WizardNext]_wizardVars
             PROVE  WizardInv'
  OBVIOUS
<1>1. OnTheWay' /\ PagesBehind' /\ ResultSoFar' /\ Opened' /\ WayIsFresh'
  BY WayStep, BehindStep, SoFarStep, OpenedStep, FreshStep DEF WizardInv, WizardTypeOK
<1>2. astray => astray'
  BY FocusChanges DEF FocusStep, Opens, WizardTypeOK
<1>3. CursorStands'
  BY <1>2, FocusChanges, PairStep, DetailsStep DEF CursorStands, WizardInv, WizardTypeOK
<1>4. ResultIsValid' /\ ResultTellsPages'
  BY EndedStep DEF WizardInv
<1> QED
  BY <1>1, <1>3, <1>4 DEF WizardInv

LEMMA CursorIsShown == WizardTypeOK /\ WizardInv => OneCursor
<1> SUFFICES ASSUME WizardTypeOK, WizardInv, ~astray, Receives # {}
             PROVE  \E i \in Displays : focused \cap Receives = {i}
  BY DEF OneCursor
<1>1. CASE step \in {"remoteURL", "name"}
  BY <1>1 DEF WizardInv, Opened, Receives, Displays
<1>2. CASE step = "remoteHeaders"
  BY <1>2 DEF WizardInv, Opened, CursorStands, PairCursor, Cursor, Receives, Displays
<1>3. CASE step = "argsEnv"
  BY <1>3 DEF WizardInv, Opened, CursorStands, PairCursor, Cursor, Receives, Displays
<1>4. CASE step = "commandDetails"
  <2>1. chosenMethod # "build" /\ Receives = Details
    BY <1>4 DEF Receives
  <2>2. DetailsShown = Displays
    BY <1>4, <2>1 DEF DetailsShown, Displays, ShowsPackage, WizardInv, OnTheWay, Described, WizardTypeOK, StepTypeOK
  <2> QED
    BY <1>4, <2>1, <2>2 DEF WizardInv, CursorStands, DetailsCursor, Described
<1> QED
  BY <1>1, <1>2, <1>3, <1>4 DEF Receives

\* The two properties of what the form gives out, with what makes them inductive.
THEOREM FormHolds == WizardSpec => [](WizardTypeOK /\ WizardInv)
BY WizardTypeInit, WizardTypeStep, WizardInvInit, WizardInvStep, PTL DEF WizardSpec

\* What the form gives out passed the checks of the pages it was made on, however
\* often the user went back (enterRemoteURL, validateCommandDetails).
THEOREM ResultValidates == WizardSpec => []ResultIsValid
<1>1. WizardInv => ResultIsValid
  BY DEF WizardInv
<1> QED
  BY FormHolds, <1>1, PTL

\* What the form gives out is what was typed on the pages of the way taken in the
\* end, each field from its input, and nothing typed before the last choice, for any
\* number of keys (buildFinalResult and the enter functions).
THEOREM ResultIsShown == WizardSpec => []ResultTellsPages
<1>1. WizardInv => ResultTellsPages
  BY DEF WizardInv
<1> QED
  BY FormHolds, <1>1, PTL

\* What is typed goes to one input, and one that is shown, until the focus goes astray.
THEOREM CursorIsOne == WizardSpec => []OneCursor
BY FormHolds, CursorIsShown, PTL

----------------------------------------------------------------------------
(* kagent add-mcp. *)

LEMMA IdleIsNoJob == \A j \in Jobs : j # Idle
BY AddAssumption

LEMMA McpTypeInit == McpInit => McpTypeOK
<1> SUFFICES ASSUME McpInit
             PROVE  McpTypeOK
  OBVIOUS
<1>1. adds \in 0..MaxAdds /\ addFaults \in 0..MaxAddFaults
  BY AddAssumption DEF McpInit
<1>2. configs \in [Names -> Servers \cup {Idle}] /\ adding \in [Adders -> Jobs \cup {Idle}]
  BY DEF McpInit
<1> QED
  BY <1>1, <1>2 DEF McpInit, McpTypeOK

\* A job that goes on is a job.
LEMMA JobGoesOn ==
    ASSUME McpTypeOK, NEW p \in Adders, NEW j \in Jobs, adding' = [adding EXCEPT ![p] = j]
    PROVE  adding' \in [Adders -> Jobs \cup {Idle}]
BY DEF McpTypeOK

LEMMA Asking ==
    ASSUME McpTypeOK, NEW p \in Adders, NEW s \in Servers, Asked(p, s)
    PROVE  /\ [adding[p] EXCEPT !.at = "save", !.res = s] \in Jobs
           /\ adding' = [adding EXCEPT ![p] = [adding[p] EXCEPT !.at = "save", !.res = s]]
<1>1. adding[p] \in Jobs
  BY DEF Asked, At, McpTypeOK
<1> QED
  BY <1>1, AddAssumption DEF Asked, McpTypeOK, Jobs, Steps

LEMMA Saving ==
    ASSUME McpTypeOK, NEW p \in Adders, SaveManifest(p), Unique(p)
    PROVE  /\ [adding[p] EXCEPT !.at = "tools", !.servers = kagentYaml'] \in Jobs
           /\ adding' = [adding EXCEPT ![p] = [adding[p] EXCEPT !.at = "tools", !.servers = kagentYaml']]
           /\ kagentYaml' = adding[p].servers \cup {adding[p].res} /\ kagentYaml' \subseteq Servers
           /\ parses' = TRUE /\ whole' = FALSE
<1>1. adding[p] \in Jobs
  BY DEF SaveManifest, At, McpTypeOK
<1>2. /\ adding' = [adding EXCEPT ![p].at = "tools", ![p].servers = kagentYaml']
      /\ kagentYaml' = adding[p].servers \cup {adding[p].res} /\ parses' = TRUE /\ whole' = FALSE
  BY DEF SaveManifest
<1>3. adding[p].res \in Servers /\ adding[p].servers \subseteq Servers
  BY <1>1, AddAssumption DEF SaveManifest, At, Jobs
<1>4. [adding[p] EXCEPT !.at = "tools", !.servers = kagentYaml'] \in Jobs
  <2>1. ASSUME NEW j \in Jobs, j.at = "save", NEW S \in SUBSET Servers
        PROVE  [j EXCEPT !.at = "tools", !.servers = S] \in Jobs
    BY <2>1 DEF Jobs, Steps
  <2>2. adding[p].at = "save"
    BY DEF SaveManifest, At
  <2> QED
    BY <1>1, <1>2, <1>3, <2>1, <2>2
<1> QED
  BY <1>2, <1>3, <1>4 DEF McpTypeOK

LEMMA ToolsWritten ==
    ASSUME McpTypeOK, NEW p \in Adders, regenerateMcpToolsFile(p)
    PROVE  /\ [adding[p] EXCEPT !.at = "dirs", !.left = Commands(adding[p].servers)] \in Jobs
           /\ adding' = [adding EXCEPT ![p] = [adding[p] EXCEPT !.at = "dirs", !.left = Commands(adding[p].servers)]]
<1>1. adding[p] \in Jobs /\ Commands(adding[p].servers) \subseteq Servers
  BY DEF regenerateMcpToolsFile, At, McpTypeOK, Commands, Jobs
<1>2. adding[p].at = "tools"
  BY DEF regenerateMcpToolsFile, At
<1>3. ASSUME NEW j \in Jobs, j.at = "tools", NEW S \in SUBSET Servers
      PROVE  [j EXCEPT !.at = "dirs", !.left = S] \in Jobs
  BY <1>3 DEF Jobs, Steps
<1>4. [adding[p] EXCEPT !.at = "dirs", !.left = Commands(adding[p].servers)] \in Jobs
  BY <1>1, <1>2, <1>3
<1> QED
  BY <1>4 DEF regenerateMcpToolsFile, McpTypeOK

LEMMA McpTypeStep == McpTypeOK /\ [McpNext]_addVars => McpTypeOK'
<1> SUFFICES ASSUME McpTypeOK, [McpNext]_addVars
             PROVE  McpTypeOK'
  OBVIOUS
<1>j. \A p \in Adders : \A at : At(p, at) => adding[p] \in Jobs
  BY DEF At, McpTypeOK
<1>1. CASE UNCHANGED addVars
  BY <1>1 DEF addVars, McpTypeOK
<1>2. ASSUME NEW p \in Adders, LoadManifest(p)
      PROVE  McpTypeOK'
  <2> DEFINE new == [at |-> "ask", res |-> Idle, servers |-> kagentYaml, left |-> {},
                     alone |-> \A r \in Adders : adding[r] = Idle]
             kept(q) == IF adding[q] = Idle THEN Idle ELSE [adding[q] EXCEPT !.alone = FALSE]
  <2>1. new \in Jobs
    BY DEF McpTypeOK, Jobs, Steps
  <2>2. \A q \in Adders : kept(q) \in Jobs \cup {Idle}
    BY DEF McpTypeOK, Jobs
  <2>3. adding' = [q \in Adders |-> IF q = p THEN new ELSE kept(q)]
    BY <1>2 DEF LoadManifest
  <2> HIDE DEF new, kept
  <2>4. adding' \in [Adders -> Jobs \cup {Idle}]
    BY <2>1, <2>2, <2>3
  <2>5. adds' \in 0..MaxAdds
    BY <1>2, AddAssumption DEF LoadManifest, McpTypeOK
  <2> QED
    BY <1>2, <2>4, <2>5 DEF LoadManifest, files, McpTypeOK
<1>3. ASSUME NEW p \in Adders, NEW s \in Servers, Asked(p, s)
      PROVE  McpTypeOK'
  BY <1>3, Asking, JobGoesOn DEF Asked, files, McpTypeOK
<1>4. ASSUME NEW p \in Adders, Canceled(p)
      PROVE  McpTypeOK'
  BY <1>4 DEF Canceled, files, McpTypeOK
<1>5. ASSUME NEW p \in Adders, SaveManifest(p)
      PROVE  McpTypeOK'
  <2>1. adding[p] \in Jobs
    BY <1>5, <1>j DEF SaveManifest
  <2>2. CASE ~Unique(p)
    BY <1>5, <2>2 DEF SaveManifest, McpTypeOK
  <2>3. CASE Unique(p)
    <3>1. adding' \in [Adders -> Jobs \cup {Idle}] /\ kagentYaml' \subseteq Servers
          /\ parses' \in BOOLEAN /\ whole' \in BOOLEAN
      BY <1>5, <2>3, Saving, JobGoesOn
    <3> QED
      BY <1>5, <3>1 DEF SaveManifest, McpTypeOK
  <2> QED
    BY <2>2, <2>3
<1>6. ASSUME NEW p \in Adders, regenerateMcpToolsFile(p)
      PROVE  McpTypeOK'
  <2>1. adding' \in [Adders -> Jobs \cup {Idle}] /\ adding[p].servers \subseteq Servers
    BY <1>6, <1>j, ToolsWritten, JobGoesOn DEF regenerateMcpToolsFile, Jobs
  <2> QED
    BY <1>6, <2>1 DEF regenerateMcpToolsFile, McpTypeOK
<1>7. ASSUME NEW p \in Adders, NEW s \in Servers, ensureMcpServerDirectory(p, s)
      PROVE  McpTypeOK'
  BY <1>7, <1>j DEF ensureMcpServerDirectory, McpTypeOK, Jobs, Names
<1>8. ASSUME NEW p \in Adders, DirectoriesDone(p)
      PROVE  McpTypeOK'
  <2>1. adding[p] \in Jobs /\ adding[p].at = "dirs"
    BY <1>8, <1>j DEF DirectoriesDone, At
  <2>2. [adding[p] EXCEPT !.at = "compose"] \in Jobs
    BY <2>1 DEF Jobs, Steps
  <2> QED
    BY <1>8, <2>2, JobGoesOn DEF DirectoriesDone, files, McpTypeOK
<1>9. ASSUME NEW p \in Adders, RegenerateDockerCompose(p)
      PROVE  McpTypeOK'
  <2>1. adding[p] \in Jobs
    BY <1>9, <1>j DEF RegenerateDockerCompose
  <2>2. adding[p].servers \subseteq Servers /\ adding[p].res \in Servers /\ adding[p].alone \in BOOLEAN
    BY <1>9, <2>1, AddAssumption DEF RegenerateDockerCompose, At, Jobs
  <2>3. reported' \subseteq Servers
    BY <1>9, <2>2 DEF RegenerateDockerCompose, McpTypeOK
  <2> QED
    BY <1>9, <2>2, <2>3 DEF RegenerateDockerCompose, McpTypeOK
<1>10. ASSUME NEW p \in Adders, AddFault(p)
       PROVE  McpTypeOK'
  <2>1. /\ addFaults' \in 0..MaxAddFaults /\ adds' = adds
        /\ adding' \in [Adders -> Jobs \cup {Idle}]
    BY <1>10, AddAssumption DEF AddFault, McpTypeOK
  <2>2. CASE UNCHANGED <<files, reported, whole>>
    BY <2>1, <2>2 DEF files, McpTypeOK
  <2>3. CASE CutShort(p)
    <3>1. adding[p] \in Jobs
      BY <1>10 DEF AddFault, McpTypeOK
    <3>2. adding[p].servers \subseteq Servers /\ adding[p].left \subseteq Servers
      BY <3>1 DEF Jobs
    <3>3. At(p, "save") => adding[p].res \in Servers
      BY <3>1, AddAssumption DEF At, Jobs
    <3>4. CASE At(p, "save") /\ UNCHANGED <<toolsPy, compose, configs>>
      BY <2>1, <2>3, <3>2, <3>3, <3>4 DEF CutShort, At, McpTypeOK
    <3>5. CASE At(p, "tools") /\ UNCHANGED <<kagentYaml, parses, compose, configs, reported, whole>>
      BY <2>1, <2>3, <3>2, <3>5 DEF CutShort, At, McpTypeOK
    <3>6. CASE At(p, "dirs") /\ UNCHANGED <<kagentYaml, parses, toolsPy, compose, reported, whole>>
      BY <2>1, <2>3, <3>2, <3>6 DEF CutShort, At, McpTypeOK, Names
    <3>7. CASE At(p, "compose") /\ UNCHANGED <<kagentYaml, parses, toolsPy, configs, reported, whole>>
      BY <2>1, <2>3, <3>2, <3>7 DEF CutShort, At, McpTypeOK
    <3> QED
      BY <2>3, <3>4, <3>5, <3>6, <3>7 DEF CutShort
  <2> QED
    BY <1>10, <2>2, <2>3 DEF AddFault
<1> QED
  BY <1>1, <1>2, <1>3, <1>4, <1>5, <1>6, <1>7, <1>8, <1>9, <1>10 DEF McpNext

\* The files of a project and the commands in it are what add_mcp.go takes them for,
\* however many commands run at a time and wherever they stop.
THEOREM McpTypeCorrect == McpSpec => []McpTypeOK
<1>1. McpTypeOK /\ [McpNext]_addVars => McpTypeOK'
  BY McpTypeStep
<1> QED
  BY McpTypeInit, <1>1, PTL DEF McpSpec

Distinct(servers) == \A s, t \in servers : s.name = t.name => s = t

\* How a command stands: it has read what was reported, and one that has the project
\* to itself has in hand what kagent.yaml says, and has written what it says it has.
HasProject(p) ==
    /\ \A q \in Adders \ {p} : adding[q] = Idle
    /\ parses /\ adding[p].servers = kagentYaml
    /\ adding[p].at \in {"dirs", "compose"} => toolsPy = kagentYaml
    /\ adding[p].at \in {"dirs", "compose"} =>
          \A s \in Commands(kagentYaml) \ adding[p].left : configs[s.name] = s
    /\ adding[p].at = "compose" => adding[p].left = {}

CommandStands(p) ==
    adding[p] # Idle =>
        /\ Distinct(adding[p].servers) /\ reported \subseteq adding[p].servers
        /\ adding[p].left \subseteq adding[p].servers
        /\ adding[p].at \in {"tools", "dirs", "compose"} => adding[p].res \in adding[p].servers
        /\ whole => adding[p].at \in {"ask", "save"}
        /\ adding[p].alone => HasProject(p)

McpInv == /\ Distinct(kagentYaml)
          /\ \A p \in Adders : CommandStands(p)
          /\ AddedIsWhole

\* A step of one command leaves the others standing: if one of them has the project to
\* itself, there is no such step.
LEMMA OthersStand ==
    ASSUME McpTypeOK, McpInv, NEW p \in Adders, adding[p] # Idle, NEW q \in Adders \ {p},
           adding'[q] = adding[q], reported' \subseteq reported, whole' = whole \/ whole' = FALSE
    PROVE  CommandStands(q)'
<1>1. CommandStands(q)
  BY DEF McpInv
<1>2. adding[q] # Idle => ~adding[q].alone
  BY <1>1 DEF CommandStands, HasProject
<1> QED
  BY <1>1, <1>2 DEF CommandStands, Distinct

LEMMA SaveStands ==
    ASSUME McpTypeOK, McpInv, NEW p \in Adders, SaveManifest(p)
    PROVE  McpInv'
<1>1. /\ adding[p] # Idle /\ adding[p] \in Jobs /\ adding[p].at = "save"
      /\ UNCHANGED <<toolsPy, compose, configs, reported>>
      /\ CommandStands(p)
  BY DEF SaveManifest, At, McpTypeOK, McpInv
<1>2. CASE ~Unique(p)
  <2>1. adding' = [adding EXCEPT ![p] = Idle] /\ UNCHANGED <<kagentYaml, parses, whole>>
    BY <1>2 DEF SaveManifest
  <2>2. CommandStands(p)' /\ \A q \in Adders \ {p} : adding'[q] = adding[q]
    BY <2>1 DEF CommandStands, McpTypeOK
  <2>3. \A q \in Adders \ {p} : CommandStands(q)'
    BY <1>1, <2>1, <2>2, OthersStand
  <2> QED
    BY <1>1, <2>1, <2>2, <2>3 DEF McpInv, AddedIsWhole, Commands, Distinct
<1>3. CASE Unique(p)
  <2> DEFINE j == [adding[p] EXCEPT !.at = "tools", !.servers = kagentYaml']
  <2>1. /\ j \in Jobs /\ adding' = [adding EXCEPT ![p] = j] /\ whole' = FALSE /\ parses' = TRUE
        /\ kagentYaml' = adding[p].servers \cup {adding[p].res} /\ kagentYaml' \subseteq Servers
    BY <1>3, Saving
  <2>2. /\ j.at = "tools" /\ j.servers = kagentYaml' /\ j.res = adding[p].res
        /\ j.left = adding[p].left /\ j.alone = adding[p].alone
    BY <1>1 DEF Jobs
  <2> HIDE DEF j
  <2>3. adding'[p] = j /\ \A q \in Adders \ {p} : adding'[q] = adding[q]
    BY <2>1 DEF McpTypeOK
  <2>4. Distinct(kagentYaml') /\ reported' \subseteq kagentYaml'
    BY <1>1, <1>3, <2>1 DEF CommandStands, Distinct, Unique
  <2>5. CommandStands(p)'
    BY <1>1, <2>1, <2>2, <2>3, <2>4 DEF CommandStands, HasProject, Distinct
  <2>6. \A q \in Adders \ {p} : CommandStands(q)'
    BY <1>1, <2>1, <2>3, OthersStand
  <2> QED
    BY <2>1, <2>4, <2>5, <2>6 DEF McpInv, AddedIsWhole, Distinct
<1> QED
  BY <1>2, <1>3

LEMMA LoadStands ==
    ASSUME McpTypeOK, McpInv, NEW p \in Adders, LoadManifest(p)
    PROVE  McpInv'
<1> DEFINE new == [at |-> "ask", res |-> Idle, servers |-> kagentYaml, left |-> {},
                   alone |-> \A r \in Adders : adding[r] = Idle]
<1>1. /\ parses /\ adding[p] = Idle /\ UNCHANGED <<files, reported, whole>>
      /\ adding' = [q \in Adders |-> IF q = p THEN new
                     ELSE IF adding[q] = Idle THEN Idle ELSE [adding[q] EXCEPT !.alone = FALSE]]
  BY DEF LoadManifest
<1>2. /\ new.at = "ask" /\ new.servers = kagentYaml /\ new.left = {} /\ new # Idle
      /\ new.alone <=> \A r \in Adders : adding[r] = Idle
  <2>1. new \in Jobs
    BY DEF McpTypeOK, Jobs, Steps
  <2> QED
    BY <2>1, IdleIsNoJob
<1> HIDE DEF new
<1>3. UNCHANGED <<kagentYaml, parses, toolsPy, compose, configs, reported, whole>> /\ adding'[p] = new
      /\ parses
  BY <1>1 DEF files
<1>4. CommandStands(p)'
  <2>1. new.alone => \A q \in Adders \ {p} : adding'[q] = Idle
    BY <1>1, <1>2
  <2> QED
    BY <1>2, <1>3, <2>1 DEF CommandStands, HasProject, McpInv, AddedIsWhole, Distinct
<1>5. ASSUME NEW q \in Adders \ {p}
      PROVE  CommandStands(q)'
  <2>1. CASE adding[q] = Idle
    BY <1>1, <2>1 DEF CommandStands
  <2>2. CASE adding[q] # Idle
    <3> DEFINE old == adding[q]
    <3>1. old \in Jobs /\ adding'[q] = [old EXCEPT !.alone = FALSE] /\ CommandStands(q)
      BY <1>1, <2>2 DEF McpTypeOK, McpInv
    <3>2. /\ adding'[q].at = old.at /\ adding'[q].res = old.res /\ adding'[q].servers = old.servers
          /\ adding'[q].left = old.left /\ ~adding'[q].alone
      BY <3>1 DEF Jobs
    <3> QED
      BY <1>3, <2>2, <3>1, <3>2 DEF CommandStands, Distinct
  <2> QED
    BY <2>1, <2>2
<1> QED
  BY <1>3, <1>4, <1>5 DEF McpInv, AddedIsWhole, Commands, Distinct

\* A command ends without writing.
LEMMA EndStands ==
    ASSUME McpTypeOK, McpInv, NEW p \in Adders, adding[p] # Idle,
           adding' = [adding EXCEPT ![p] = Idle], UNCHANGED <<files, reported, whole>>
    PROVE  McpInv'
<1>1. adding'[p] = Idle /\ \A q \in Adders \ {p} : adding'[q] = adding[q]
  BY DEF McpTypeOK
<1>2. CommandStands(p)'
  BY <1>1 DEF CommandStands
<1>3. \A q \in Adders \ {p} : CommandStands(q)'
  BY <1>1, OthersStand
<1> QED
  BY <1>2, <1>3 DEF files, McpInv, AddedIsWhole, Commands, Distinct

\* A command whose write is cut short had not ended, and so no other had the project
\* to itself; a kagent.yaml cut short holds part of what was to be saved.
LEMMA CutStands ==
    ASSUME McpTypeOK, McpInv, NEW p \in Adders, adding[p] # Idle,
           adding' = [adding EXCEPT ![p] = Idle], CutShort(p)
    PROVE  McpInv'
<1>1. adding'[p] = Idle /\ (\A q \in Adders \ {p} : adding'[q] = adding[q]) /\ CommandStands(p)
  BY DEF McpTypeOK, McpInv
<1>2. CommandStands(p)'
  BY <1>1 DEF CommandStands
<1>3. CASE /\ At(p, "save") /\ Unique(p) /\ reported' = {} /\ whole' = FALSE
           /\ kagentYaml' \in SUBSET (adding[p].servers \cup {adding[p].res})
  <2>1. \A q \in Adders \ {p} : CommandStands(q)'
    BY <1>1, <1>3, OthersStand
  <2>2. Distinct(kagentYaml')
    BY <1>1, <1>3 DEF CommandStands, Distinct, Unique
  <2> QED
    BY <1>2, <1>3, <2>1, <2>2 DEF McpInv, AddedIsWhole, Distinct
<1>4. CASE At(p, "tools") /\ UNCHANGED <<kagentYaml, reported, whole>>
  <2>1. \A q \in Adders \ {p} : CommandStands(q)'
    BY <1>1, <1>4, OthersStand
  <2> QED
    BY <1>1, <1>2, <1>4, <2>1 DEF McpInv, AddedIsWhole, Distinct, CommandStands, At
<1>5. CASE At(p, "dirs") /\ UNCHANGED <<kagentYaml, reported, whole>>
  <2>1. \A q \in Adders \ {p} : CommandStands(q)'
    BY <1>1, <1>5, OthersStand
  <2> QED
    BY <1>1, <1>2, <1>5, <2>1 DEF McpInv, AddedIsWhole, Distinct, CommandStands, At
<1>6. CASE At(p, "compose") /\ UNCHANGED <<kagentYaml, reported, whole>>
  <2>1. \A q \in Adders \ {p} : CommandStands(q)'
    BY <1>1, <1>6, OthersStand
  <2> QED
    BY <1>1, <1>2, <1>6, <2>1 DEF McpInv, AddedIsWhole, Distinct, CommandStands, At
<1> QED
  BY <1>3, <1>4, <1>5, <1>6 DEF CutShort

LEMMA AskedStands ==
    ASSUME McpTypeOK, McpInv, NEW p \in Adders, NEW s \in Servers, Asked(p, s)
    PROVE  McpInv'
<1> DEFINE j == [adding[p] EXCEPT !.at = "save", !.res = s]
<1>1. /\ adding[p] \in Jobs /\ adding[p] # Idle /\ CommandStands(p)
      /\ UNCHANGED <<kagentYaml, parses, toolsPy, compose, configs, reported, whole>>
  BY DEF Asked, At, files, McpTypeOK, McpInv
<1>2. j \in Jobs /\ adding' = [adding EXCEPT ![p] = j]
  BY Asking
<1>3. /\ j.at = "save" /\ j.servers = adding[p].servers
      /\ j.left = adding[p].left /\ j.alone = adding[p].alone
  BY <1>1 DEF Jobs
<1> HIDE DEF j
<1>4. adding'[p] = j /\ \A q \in Adders \ {p} : adding'[q] = adding[q]
  BY <1>2 DEF McpTypeOK
<1>5. CommandStands(p)'
  BY <1>1, <1>3, <1>4 DEF CommandStands, HasProject, Distinct
<1>6. \A q \in Adders \ {p} : CommandStands(q)'
  BY <1>1, <1>4, OthersStand
<1> QED
  BY <1>1, <1>5, <1>6 DEF McpInv, AddedIsWhole, Commands, Distinct

LEMMA ToolsStand ==
    ASSUME McpTypeOK, McpInv, NEW p \in Adders, regenerateMcpToolsFile(p)
    PROVE  McpInv'
<1> DEFINE j == [adding[p] EXCEPT !.at = "dirs", !.left = Commands(adding[p].servers)]
<1>1. /\ adding[p] \in Jobs /\ adding[p] # Idle /\ adding[p].at = "tools" /\ CommandStands(p)
      /\ UNCHANGED <<kagentYaml, parses, compose, configs, reported, whole>> /\ toolsPy' = adding[p].servers
  BY DEF regenerateMcpToolsFile, At, McpTypeOK, McpInv
<1>2. j \in Jobs /\ adding' = [adding EXCEPT ![p] = j]
  BY ToolsWritten
<1>3. /\ j.at = "dirs" /\ j.servers = adding[p].servers /\ j.res = adding[p].res
      /\ j.left = Commands(adding[p].servers) /\ j.alone = adding[p].alone
  BY <1>1 DEF Jobs
<1> HIDE DEF j
<1>4. adding'[p] = j /\ \A q \in Adders \ {p} : adding'[q] = adding[q]
  BY <1>2 DEF McpTypeOK
<1>5. ~whole
  BY <1>1 DEF CommandStands
<1>6. CommandStands(p)'
  BY <1>1, <1>3, <1>4, <1>5 DEF CommandStands, HasProject, Distinct, Commands
<1>7. \A q \in Adders \ {p} : CommandStands(q)'
  BY <1>1, <1>4, OthersStand
<1> QED
  BY <1>1, <1>5, <1>6, <1>7 DEF McpInv, AddedIsWhole, Distinct

LEMMA DirectoryStands ==
    ASSUME McpTypeOK, McpInv, NEW p \in Adders, NEW s \in Servers, ensureMcpServerDirectory(p, s)
    PROVE  McpInv'
<1> DEFINE j == [adding[p] EXCEPT !.left = @ \ {s}]
<1>1. /\ adding[p] \in Jobs /\ adding[p] # Idle /\ adding[p].at = "dirs" /\ CommandStands(p)
      /\ s \in adding[p].left /\ configs' = [configs EXCEPT ![s.name] = s]
      /\ UNCHANGED <<kagentYaml, parses, toolsPy, compose, reported, whole>>
  BY DEF ensureMcpServerDirectory, At, McpTypeOK, McpInv
<1>2. adding' = [adding EXCEPT ![p] = j]
  BY DEF ensureMcpServerDirectory, McpTypeOK
<1>3. /\ j.at = "dirs" /\ j.servers = adding[p].servers /\ j.res = adding[p].res
      /\ j.left = adding[p].left \ {s} /\ j.alone = adding[p].alone
  BY <1>1 DEF Jobs
<1> HIDE DEF j
<1>4. adding'[p] = j /\ \A q \in Adders \ {p} : adding'[q] = adding[q]
  BY <1>2 DEF McpTypeOK
<1>5. ~whole
  BY <1>1 DEF CommandStands
<1>6. ASSUME adding[p].alone, NEW t \in Commands(kagentYaml) \ j.left
      PROVE  configs'[t.name] = t
  <2>1. s \in kagentYaml /\ t \in kagentYaml /\ t \in Servers /\ t.name \in Names
    BY <1>1, <1>6 DEF CommandStands, HasProject, Commands, McpTypeOK, Names
  <2>2. CASE t = s
    BY <1>1, <2>1, <2>2 DEF McpTypeOK
  <2>3. CASE t # s
    <3>1. t.name # s.name
      BY <2>1, <2>3 DEF McpInv, Distinct
    <3>2. configs[t.name] = t
      BY <1>1, <1>3, <1>6, <2>3 DEF CommandStands, HasProject
    <3> QED
      BY <1>1, <2>1, <3>1, <3>2 DEF McpTypeOK
  <2> QED
    BY <2>2, <2>3
<1>7. CommandStands(p)'
  <2>1. adding[p].alone => HasProject(p)'
    BY <1>1, <1>3, <1>4, <1>6 DEF CommandStands, HasProject, Commands
  <2> QED
    BY <1>1, <1>3, <1>4, <1>5, <2>1 DEF CommandStands, Distinct
<1>8. \A q \in Adders \ {p} : CommandStands(q)'
  BY <1>1, <1>4, OthersStand
<1> QED
  BY <1>1, <1>5, <1>7, <1>8 DEF McpInv, AddedIsWhole, Distinct

LEMMA DirectoriesStand ==
    ASSUME McpTypeOK, McpInv, NEW p \in Adders, DirectoriesDone(p)
    PROVE  McpInv'
<1> DEFINE j == [adding[p] EXCEPT !.at = "compose"]
<1>1. /\ adding[p] \in Jobs /\ adding[p] # Idle /\ adding[p].at = "dirs" /\ CommandStands(p)
      /\ adding[p].left = {}
      /\ UNCHANGED <<kagentYaml, parses, toolsPy, compose, configs, reported, whole>>
  BY DEF DirectoriesDone, At, files, McpTypeOK, McpInv
<1>2. adding' = [adding EXCEPT ![p] = j]
  BY DEF DirectoriesDone, McpTypeOK
<1>3. /\ j.at = "compose" /\ j.servers = adding[p].servers /\ j.res = adding[p].res
      /\ j.left = {} /\ j.alone = adding[p].alone
  BY <1>1 DEF Jobs
<1> HIDE DEF j
<1>4. adding'[p] = j /\ \A q \in Adders \ {p} : adding'[q] = adding[q]
  BY <1>2 DEF McpTypeOK
<1>5. ~whole
  BY <1>1 DEF CommandStands
<1>6. CommandStands(p)'
  <2>1. adding[p].alone => HasProject(p)'
    BY <1>1, <1>3, <1>4 DEF CommandStands, HasProject, Commands
  <2> QED
    BY <1>1, <1>3, <1>4, <1>5, <2>1 DEF CommandStands, Distinct
<1>7. \A q \in Adders \ {p} : CommandStands(q)'
  BY <1>1, <1>4, OthersStand
<1> QED
  BY <1>1, <1>5, <1>6, <1>7 DEF McpInv, AddedIsWhole, Distinct

LEMMA ComposeStands ==
    ASSUME McpTypeOK, McpInv, NEW p \in Adders, RegenerateDockerCompose(p)
    PROVE  McpInv'
<1>1. /\ adding[p] # Idle /\ adding[p].at = "compose" /\ CommandStands(p)
      /\ compose' = adding[p].servers /\ UNCHANGED <<kagentYaml, parses, toolsPy, configs>>
      /\ adding' = [adding EXCEPT ![p] = Idle] /\ whole' = adding[p].alone
      /\ reported' = reported \cup (IF adding[p].alone THEN {adding[p].res} ELSE {})
  BY DEF RegenerateDockerCompose, At, McpInv
<1>2. adding'[p] = Idle /\ \A q \in Adders \ {p} : adding'[q] = adding[q]
  BY <1>1 DEF McpTypeOK
<1>3. CommandStands(p)'
  BY <1>2 DEF CommandStands
<1>4. CASE adding[p].alone
  <2>1. HasProject(p) /\ adding[p].res \in kagentYaml
    BY <1>1, <1>4 DEF CommandStands, HasProject
  <2>2. \A q \in Adders \ {p} : CommandStands(q)'
    BY <1>2, <2>1 DEF HasProject, CommandStands
  <2>3. AddedIsWhole'
    BY <1>1, <1>4, <2>1 DEF HasProject, AddedIsWhole, Commands, McpInv
  <2> QED
    BY <1>1, <1>3, <2>2, <2>3 DEF McpInv, Distinct
<1>5. CASE ~adding[p].alone
  <2>1. whole' = FALSE /\ reported' = reported
    BY <1>1, <1>5 DEF McpTypeOK, Jobs
  <2>2. \A q \in Adders \ {p} : CommandStands(q)'
    BY <1>1, <1>2, <2>1, OthersStand
  <2> QED
    BY <1>1, <1>3, <2>1, <2>2 DEF McpInv, AddedIsWhole, Distinct
<1> QED
  BY <1>4, <1>5

\* AddedIsWhole: a server a command reported as added stays until kagent.yaml is cut
\* short by a write that fails (os.WriteFile in Save), and the files agree.
THEOREM AddedStays == McpSpec => []AddedIsWhole
<1>1. McpInit => McpInv
  BY DEF McpInit, McpInv, AddedIsWhole, CommandStands, Distinct, Commands
<1>2. McpTypeOK /\ McpInv /\ [McpNext]_addVars => McpInv'
  <2> SUFFICES ASSUME McpTypeOK, McpInv, [McpNext]_addVars
               PROVE  McpInv'
    OBVIOUS
  <2>1. CASE UNCHANGED addVars
    BY <2>1 DEF addVars, McpInv, AddedIsWhole, CommandStands, HasProject, Distinct, Commands
  <2>2. ASSUME NEW p \in Adders, Canceled(p) \/ AddFault(p)
        PROVE  McpInv'
    BY <2>2, EndStands, CutStands DEF Canceled, AddFault, At
  <2> QED
    BY <2>1, <2>2, LoadStands, AskedStands, SaveStands, ToolsStand, DirectoryStands,
       DirectoriesStand, ComposeStands DEF McpNext
<1>3. McpInv => AddedIsWhole
  BY DEF McpInv
<1> QED
  BY <1>1, <1>2, <1>3, McpTypeCorrect, PTL DEF McpSpec

----------------------------------------------------------------------------
(* The workspace of the terminal UI: bags of messages. *)

LEMMA Adding ==
    ASSUME NEW b, NEW m, IsABag(b)
    PROVE  /\ IsABag(With(b, m)) /\ DOMAIN With(b, m) = DOMAIN b \cup {m}
           /\ m \notin DOMAIN b => With(b, m)[m] = 1
           /\ \A x \in DOMAIN b : x # m => With(b, m)[x] = b[x]
BY DEF With, SetToBag, (+), IsABag

LEMMA Removing ==
    ASSUME NEW b, NEW m, IsABag(b)
    PROVE  /\ IsABag(Without(b, m)) /\ DOMAIN Without(b, m) \subseteq DOMAIN b
           /\ m \in DOMAIN b /\ b[m] = 1 => DOMAIN Without(b, m) = DOMAIN b \ {m}
           /\ \A x \in DOMAIN b : x # m => x \in DOMAIN Without(b, m) /\ Without(b, m)[x] = b[x]
BY DEF Without, SetToBag, (-), IsABag

LEMMA AddingNone ==
    ASSUME NEW b, IsABag(b)
    PROVE  b (+) SetToBag({}) = b
<1> DEFINE none == SetToBag({})
<1>1. b = [e \in DOMAIN b |-> b[e]] /\ \A e \in DOMAIN b : b[e] \in Nat
  BY DEF IsABag
<1>2. DOMAIN none = {}
  BY DEF SetToBag
<1> HIDE DEF none
<1>3. b (+) none = [e \in DOMAIN b |-> b[e]]
  <2>1. b (+) none = [e \in DOMAIN b \cup {} |-> (IF e \in DOMAIN b THEN b[e] ELSE 0) + (IF e \in {} THEN none[e] ELSE 0)]
    BY <1>2 DEF (+)
  <2>2. \A e \in DOMAIN b : (IF e \in DOMAIN b THEN b[e] ELSE 0) + (IF e \in {} THEN none[e] ELSE 0) = b[e]
    BY <1>1
  <2>3. DOMAIN b \cup {} = DOMAIN b
    OBVIOUS
  <2> QED
    BY <2>1, <2>2, <2>3, Zenon
<1> QED
  BY <1>1, <1>3 DEF none

\* What a command leaves when it ends: its message.
LEMMA EndedIs ==
    ASSUME NEW cmd, NEW msg, IsABag(running), IsABag(inbox), Ended(cmd, msg)
    PROVE  /\ IsABag(running') /\ IsABag(inbox')
           /\ DOMAIN running' \subseteq DOMAIN running /\ DOMAIN inbox' = DOMAIN inbox \cup {msg}
           /\ cmd \in DOMAIN running /\ running[cmd] = 1 => DOMAIN running' = DOMAIN running \ {cmd}
           /\ msg \notin DOMAIN inbox => inbox'[msg] = 1
           /\ \A m \in DOMAIN running : m # cmd => m \in DOMAIN running' /\ running'[m] = running[m]
           /\ \A m \in DOMAIN inbox : m # msg => inbox'[m] = inbox[m]
<1>1. running' = Without(running, cmd) /\ inbox' = With(inbox, msg)
  BY DEF Ended
<1>2. /\ IsABag(Without(running, cmd)) /\ DOMAIN Without(running, cmd) \subseteq DOMAIN running
      /\ cmd \in DOMAIN running /\ running[cmd] = 1 => DOMAIN Without(running, cmd) = DOMAIN running \ {cmd}
      /\ \A m \in DOMAIN running : m # cmd =>
            m \in DOMAIN Without(running, cmd) /\ Without(running, cmd)[m] = running[m]
  BY Removing
<1>3. /\ IsABag(With(inbox, msg)) /\ DOMAIN With(inbox, msg) = DOMAIN inbox \cup {msg}
      /\ msg \notin DOMAIN inbox => With(inbox, msg)[msg] = 1
      /\ \A m \in DOMAIN inbox : m # msg => With(inbox, msg)[m] = inbox[m]
  BY Adding
<1> QED
  BY <1>1, <1>2, <1>3, Zenon

LEMMA TakenIs ==
    ASSUME NEW msg, IsABag(inbox), Taken(msg)
    PROVE  /\ IsABag(inbox') /\ msg \in DOMAIN inbox /\ DOMAIN inbox' \subseteq DOMAIN inbox
           /\ inbox[msg] = 1 => DOMAIN inbox' = DOMAIN inbox \ {msg}
           /\ \A m \in DOMAIN inbox : m # msg => m \in DOMAIN inbox' /\ inbox'[m] = inbox[m]
<1>1. msg \in DOMAIN inbox /\ inbox' = Without(inbox, msg)
  BY DEF Taken, BagIn, BagToSet
<1>2. /\ IsABag(Without(inbox, msg)) /\ DOMAIN Without(inbox, msg) \subseteq DOMAIN inbox
      /\ inbox[msg] = 1 => DOMAIN Without(inbox, msg) = DOMAIN inbox \ {msg}
      /\ \A m \in DOMAIN inbox : m # msg =>
            m \in DOMAIN Without(inbox, msg) /\ Without(inbox, msg)[m] = inbox[m]
  BY <1>1, Removing
<1> QED
  BY <1>1, <1>2, Zenon

----------------------------------------------------------------------------
(* The workspace: types. *)

LEMMA ChatIs ==
    ASSUME TuiTypeOK
    PROVE  chat # Unset =>
              /\ chat.session \in ChatSessions /\ chat.stream \in 0..MaxSubmits /\ chat.streaming \in BOOLEAN
              /\ chat.lines \in Seq(Lines)
BY DEF TuiTypeOK, Chats

LEMMA Began ==
    ASSUME NEW s \in ChatSessions
    PROVE  [session |-> s, stream |-> 0, streaming |-> FALSE, lines |-> <<>>] \in Chats
BY ChatAssumption DEF Chats

LEMMA LineIsShown ==
    ASSUME TuiTypeOK, chat # Unset, NEW line \in Lines
    PROVE  /\ [chat EXCEPT !.lines = Append(@, line)] \in Chats
           /\ [chat EXCEPT !.streaming = FALSE] \in Chats
<1>1. chat \in Chats
  BY DEF TuiTypeOK
<1>2. Append(chat.lines, line) \in Seq(Lines)
  BY <1>1 DEF Chats
<1> QED
  BY <1>1, <1>2 DEF Chats

LEMMA LineIs ==
    ASSUME NEW s \in ChatSessions \cup {Unset}, NEW n \in 0..MaxSubmits, NEW i \in 0..AnswerLen
    PROVE  Line(s, n, i) \in Lines /\ Line(s, n, i).session = s /\ Line(s, n, i).stream = n /\ Line(s, n, i).at = i
BY DEF Line, Lines

Bagged == IsABag(running) /\ IsABag(inbox)

LEMMA TuiTypeStep == TuiTypeOK /\ [TuiNext]_chatVars => TuiTypeOK'
<1> SUFFICES ASSUME TuiTypeOK, [TuiNext]_chatVars PROVE TuiTypeOK'
  OBVIOUS
<1> USE ChatAssumption
<1>b. Bagged
  BY DEF TuiTypeOK, Bagged
<1>w. \A b, m : IsABag(b) => IsABag(With(b, m)) /\ IsABag(Without(b, m))
  BY Adding, Removing
<1>1. CASE LoadSessions
  <2>1. Bagged'
    BY <1>1, <1>b, EndedIs DEF LoadSessions, Bagged
  <2> QED
    BY <1>1, <2>1 DEF LoadSessions, TuiTypeOK, Bagged, ChatFault
<1>2. CASE \E a \in ChatAgents : CreateSession(a)
  <2> PICK a \in ChatAgents : CreateSession(a)
    BY <1>2
  <2>1. Bagged'
    BY <1>b, EndedIs DEF CreateSession, Bagged
  <2>2. ownerOf' \in [ChatSessions -> ChatAgents \cup {Unset}]
    BY DEF CreateSession, TuiTypeOK
  <2>3. chatFaults' \in 0..MaxChatFaults
    <3>1. chatFaults' = chatFaults \/ (chatFaults > 0 /\ chatFaults' = chatFaults - 1)
      BY DEF CreateSession, ChatFault
    <3>2. chatFaults \in 0..MaxChatFaults
      BY DEF TuiTypeOK
    <3> QED
      BY <3>1, <3>2
  <2> QED
    BY <2>1, <2>2, <2>3 DEF CreateSession, TuiTypeOK, Bagged
<1>3. CASE \E s \in ChatSessions : FetchHistory(s)
  <2>1. Bagged'
    BY <1>3, <1>b, EndedIs DEF FetchHistory, Bagged
  <2> QED
    BY <1>3, <2>1 DEF FetchHistory, TuiTypeOK, Bagged
<1>4. CASE \E n \in 1..MaxSubmits : ReadStream(n)
  <2> PICK n \in 1..MaxSubmits : ReadStream(n)
    BY <1>4
  <2>1. Bagged'
    BY <1>b, EndedIs DEF ReadStream, Bagged
  <2>2. read' \in [1..MaxSubmits -> 0..AnswerLen]
    BY DEF ReadStream, TuiTypeOK
  <2> QED
    BY <2>1, <2>2 DEF ReadStream, TuiTypeOK, Bagged, ChatFault
<1>5. CASE \E m \in BagToSet(inbox) : Captured(m)
  <2>1. Bagged'
    BY <1>5, <1>b, TakenIs DEF Captured, Bagged
  <2> QED
    BY <1>5, <2>1 DEF Captured, TuiTypeOK, Bagged
<1>6. CASE OpenDialog \/ CloseDialog
  <2>1. Bagged'
    BY <1>6, <1>b, TakenIs DEF OpenDialog, CloseDialog, Bagged
  <2> QED
    BY <1>6, <2>1 DEF OpenDialog, CloseDialog, TuiTypeOK, Bagged
<1>7. CASE \E a \in ChatAgents : AgentChosen(a)
  <2>1. Bagged'
    BY <1>7, <1>b, <1>w DEF AgentChosen, Taken, Bagged
  <2> QED
    BY <1>7, <2>1 DEF AgentChosen, TuiTypeOK, Bagged, UnderWay
<1>8. CASE \E S \in SUBSET ChatSessions : SessionsLoaded(S)
  <2> PICK S \in SUBSET ChatSessions : SessionsLoaded(S)
    BY <1>8
  <2>1. Bagged'
    <3>1. \A s : IsABag(With(Without(inbox, <<"sessions", S>>), <<"selected", s>>))
      BY <1>b, <1>w DEF Bagged
    <3>2. IsABag(Without(inbox, <<"sessions", S>>))
      BY <1>b, <1>w DEF Bagged
    <3> QED
      BY <1>b, <3>1, <3>2 DEF SessionsLoaded, Bagged
  <2> QED
    BY <2>1 DEF SessionsLoaded, TuiTypeOK, Bagged
<1>9. CASE \E s \in ChatSessions : SessionSelected(s)
  <2> PICK s \in ChatSessions : SessionSelected(s)
    BY <1>9
  <2>1. Bagged'
    BY <1>b, <1>w DEF SessionSelected, startChat, Bagged, Taken, With
  <2>2. chat' \in Chats
    BY Began DEF SessionSelected, startChat
  <2> QED
    BY <2>1, <2>2 DEF SessionSelected, startChat, TuiTypeOK, Bagged, UnderWay
<1>10. CASE \E s \in ChatSessions : HistoryLoaded(s)
  <2> PICK s \in ChatSessions : HistoryLoaded(s)
    BY <1>10
  <2>1. Bagged'
    BY <1>b, TakenIs DEF HistoryLoaded, Bagged
  <2>2. chat' \in Chats \cup {Unset}
    <3>1. Line(s, 0, 0) \in Lines
      BY LineIs
    <3> QED
      BY <3>1, LineIsShown DEF HistoryLoaded, ShowLine, TuiTypeOK
  <2> QED
    BY <2>1, <2>2 DEF HistoryLoaded, TuiTypeOK, Bagged
<1>11. CASE \E s \in ChatSessions \cup {Unset} : SessionCreated(s)
  <2> PICK s \in ChatSessions \cup {Unset} : SessionCreated(s)
    BY <1>11
  <2>1. Bagged'
    BY <1>b, TakenIs, AddingNone DEF SessionCreated, startChat, Bagged
  <2>2. chat' \in Chats \cup {Unset}
    BY Began DEF SessionCreated, startChat, TuiTypeOK
  <2> QED
    BY <2>1, <2>2 DEF SessionCreated, startChat, TuiTypeOK, Bagged, UnderWay
<1>12. CASE \E n \in 1..MaxSubmits : StreamDone(n)
  <2> PICK n \in 1..MaxSubmits : StreamDone(n)
    BY <1>12
  <2>1. Bagged'
    BY <1>b, TakenIs DEF StreamDone, Bagged
  <2>2. chat' \in Chats \cup {Unset}
    <3>1. chat \in Chats => [chat EXCEPT !.streaming = FALSE] \in Chats
      BY DEF Chats
    <3> QED
      BY <3>1 DEF StreamDone, TuiTypeOK
  <2> QED
    BY <2>1, <2>2 DEF StreamDone, TuiTypeOK, Bagged
<1>13. CASE \E n \in 1..MaxSubmits : \E i \in 1..AnswerLen : EventShown(n, i)
  <2> PICK n \in 1..MaxSubmits, i \in 1..AnswerLen : EventShown(n, i)
    BY <1>13
  <2>1. Bagged'
    BY <1>b, <1>w DEF EventShown, waitNext, Bagged, Taken
  <2>2. chat' \in Chats \cup {Unset}
    <3>1. Line(Unset, n, i) \in Lines
      BY LineIs
    <3> QED
      BY <3>1, LineIsShown DEF EventShown, ShowLine, TuiTypeOK
  <2> QED
    BY <2>1, <2>2 DEF EventShown, TuiTypeOK, Bagged
<1>14. CASE PressAgents \/ PressChoose \/ PressSessions \/ PressName \/ PressSelect
  <2>1. Bagged'
    <3>1. CASE PressChoose
      BY <1>b, <1>w, <3>1 DEF PressChoose, Bagged
    <3>2. CASE PressAgents \/ PressSessions \/ PressName \/ PressSelect
      BY <1>b, <1>w, <3>2 DEF PressAgents, PressSessions, PressName, PressSelect, Bagged
    <3> QED
      BY <1>14, <3>1, <3>2
  <2>2. keysLeft' \in 0..MaxKeys
    BY <1>14 DEF PressAgents, PressChoose, PressSessions, PressName, PressSelect, KeyPress, TuiTypeOK
  <2> QED
    BY <1>14, <2>1, <2>2 DEF PressAgents, PressChoose, PressSessions, PressName, PressSelect, Unmoved, Otherwise,
                             TuiTypeOK, Bagged
<1>15. CASE PressSubmit
  <2>1. Bagged'
    BY <1>b, <1>15, <1>w DEF PressSubmit, Bagged
  <2>2. submits' \in 0..MaxSubmits /\ chat # Unset /\ chat \in Chats /\ keysLeft' \in 0..MaxKeys
    BY <1>15 DEF PressSubmit, TuiTypeOK, KeyPress
  <2>3. chat' \in Chats
    <3>1. Line(chat.session, submits', 0) \in Lines
      BY <2>2, ChatIs, LineIs
    <3>2. Append(chat.lines, Line(chat.session, submits', 0)) \in Seq(Lines)
      BY <2>2, <3>1 DEF Chats
    <3>3. [chat EXCEPT !.stream = submits', !.streaming = TRUE,
                       !.lines = Append(chat.lines, Line(chat.session, submits', 0))] \in Chats
      BY <2>2, <3>2 DEF Chats
    <3>4. ShowLine(Line(chat.session, submits', 0)) => chat' \in Chats
      BY <2>2, <3>1, LineIsShown DEF ShowLine
    <3> QED
      BY <1>15, <3>3, <3>4 DEF PressSubmit
  <2> QED
    BY <1>15, <2>1, <2>2, <2>3 DEF PressSubmit, Unmoved, Otherwise, TuiTypeOK, Bagged, ChatFault
<1>16. CASE UNCHANGED chatVars
  BY <1>16 DEF chatVars, TuiTypeOK
<1> QED
  BY <1>1, <1>2, <1>3, <1>4, <1>5, <1>6, <1>7, <1>8, <1>9, <1>10, <1>11, <1>12, <1>13, <1>14, <1>15, <1>16 DEF TuiNext

\* Whatever keys are pressed and in whatever order the results of commands arrive,
\* the workspace, its chat and the messages on their way are of agents, sessions and
\* answers there are (go/cli/internal/tui/workspace.go, chat.go).
THEOREM TuiTypeCorrect == TuiSpec => []TuiTypeOK
<1>1. TuiInit => TuiTypeOK
  <2>1. IsABag(EmptyBag)
    BY DEF IsABag, EmptyBag, SetToBag
  <2> QED
    <3>1. TuiInit => read \in [1..MaxSubmits -> 0..AnswerLen] /\ ownerOf \in [ChatSessions -> ChatAgents \cup {Unset}]
      BY ChatAssumption DEF TuiInit
    <3>2. TuiInit => keysLeft \in 0..MaxKeys /\ submits \in 0..MaxSubmits /\ chatFaults \in 0..MaxChatFaults
      BY ChatAssumption DEF TuiInit
    <3> QED
      BY <2>1, <3>1, <3>2 DEF TuiInit, TuiTypeOK
<1> QED
  BY <1>1, TuiTypeStep, PTL DEF TuiSpec

----------------------------------------------------------------------------
(* The workspace: what a step does to the messages of a chat. *)

Waits   == {m \in DOMAIN running : m[1] = "wait"}
AnswersSent == {m \in DOMAIN inbox : m[1] \in {"event", "done"}}

\* Nothing of an answer begins, moves or ends, and no history is asked for or comes.
TalkSame ==
    /\ Waits' = Waits /\ \A m \in Waits : running'[m] = running[m]
    /\ AnswersSent' = AnswersSent /\ \A m \in AnswersSent : inbox'[m] = inbox[m]
    /\ \A m \in DOMAIN running' : m[1] = "fetch" => m \in DOMAIN running
    /\ \A m \in DOMAIN inbox' : m[1] = "history" => m \in DOMAIN inbox

Quiet == TalkSame /\ UNCHANGED <<chat, mixed, dropped, read, submits>>

SameWith(b, c, kinds) == \A m : m[1] \in kinds => /\ m \in DOMAIN b <=> m \in DOMAIN c
                                                  /\ m \in DOMAIN b => c[m] = b[m]

LEMMA SameAdding ==
    ASSUME NEW b, IsABag(b), NEW m, NEW kinds, m[1] \notin kinds
    PROVE  SameWith(b, With(b, m), kinds)
<1>1. \A x : x[1] \in kinds => x # m
  OBVIOUS
<1>2. DOMAIN With(b, m) = DOMAIN b \cup {m} /\ \A x \in DOMAIN b : x # m => With(b, m)[x] = b[x]
  BY Adding
<1> QED
  BY <1>1, <1>2 DEF SameWith

LEMMA SameRemoving ==
    ASSUME NEW b, IsABag(b), NEW m, NEW kinds, m[1] \notin kinds
    PROVE  SameWith(b, Without(b, m), kinds)
<1>1. \A x : x[1] \in kinds => x # m
  OBVIOUS
<1>2. /\ DOMAIN Without(b, m) \subseteq DOMAIN b
      /\ \A x \in DOMAIN b : x # m => x \in DOMAIN Without(b, m) /\ Without(b, m)[x] = b[x]
  BY Removing
<1> QED
  BY <1>1, <1>2 DEF SameWith

LEMMA SameThen ==
    ASSUME NEW b, NEW c, NEW d, NEW kinds, SameWith(b, c, kinds), SameWith(c, d, kinds)
    PROVE  SameWith(b, d, kinds)
BY DEF SameWith

ChatCommands == {"wait", "fetch"}
ChatMessages == {"event", "done", "history"}

LEMMA TalkSameIs ==
    ASSUME SameWith(running, running', ChatCommands), SameWith(inbox, inbox', ChatMessages)
    PROVE  TalkSame
BY DEF SameWith, TalkSame, ChatCommands, ChatMessages, Waits, AnswersSent

\* The steps that only concern agents, the list of sessions, dialogs and names.
LEMMA QuietSteps ==
    ASSUME TuiTypeOK,
           \/ LoadSessions \/ \E a \in ChatAgents : CreateSession(a)
           \/ OpenDialog \/ CloseDialog \/ \E S \in SUBSET ChatSessions : SessionsLoaded(S)
           \/ PressAgents \/ PressChoose \/ PressSessions \/ PressName \/ PressSelect
           \/ SessionCreated(Unset) \/ UNCHANGED chatVars
    PROVE  Quiet
<1>b. IsABag(running) /\ IsABag(inbox)
  BY DEF TuiTypeOK
<1>s. SameWith(running, running, ChatCommands) /\ SameWith(inbox, inbox, ChatMessages)
  BY DEF SameWith
<1>a. \A m : m[1] \notin ChatCommands =>
          SameWith(running, With(running, m), ChatCommands) /\ SameWith(running, Without(running, m), ChatCommands)
  BY <1>b, SameAdding, SameRemoving
<1>i. \A m : m[1] \notin ChatMessages =>
          SameWith(inbox, With(inbox, m), ChatMessages) /\ SameWith(inbox, Without(inbox, m), ChatMessages)
  BY <1>b, SameAdding, SameRemoving
<1>e. \A cmd, msg : Ended(cmd, msg) /\ cmd[1] \notin ChatCommands /\ msg[1] \notin ChatMessages => TalkSame
  BY <1>a, <1>i, TalkSameIs DEF Ended
<1>t. \A msg : Taken(msg) /\ msg[1] \notin ChatMessages /\ running' = running => TalkSame
  BY <1>s, <1>i, TalkSameIs DEF Taken
<1>1. CASE LoadSessions
  BY <1>1, <1>e DEF LoadSessions, Quiet, ChatCommands, ChatMessages
<1>2. CASE \E a \in ChatAgents : CreateSession(a)
  BY <1>2, <1>e DEF CreateSession, Quiet, ChatCommands, ChatMessages
<1>3. CASE OpenDialog
  <2>1. Taken(<<"open">>) /\ running' = running
    BY <1>3 DEF OpenDialog
  <2>2. TalkSame
    BY <1>t, <2>1 DEF ChatMessages
  <2> QED
    BY <1>3, <2>2 DEF OpenDialog, Quiet
<1>4. CASE CloseDialog
  <2>1. Taken(<<"close">>) /\ running' = running
    BY <1>4 DEF CloseDialog
  <2>2. TalkSame
    BY <1>t, <2>1 DEF ChatMessages
  <2> QED
    BY <1>4, <2>2 DEF CloseDialog, Quiet
<1>5. CASE \E S \in SUBSET ChatSessions : SessionsLoaded(S)
  <2> PICK S \in SUBSET ChatSessions : SessionsLoaded(S)
    BY <1>5
  <2> DEFINE left == Without(inbox, <<"sessions", S>>)
  <2>1. IsABag(left) /\ SameWith(inbox, left, ChatMessages)
    BY <1>b, <1>i, Removing DEF ChatMessages
  <2>2. running' = running /\ (inbox' = left \/ \E s \in S : inbox' = With(left, <<"selected", s>>))
    BY DEF SessionsLoaded
  <2> HIDE DEF left
  <2>3. \A s : SameWith(left, With(left, <<"selected", s>>), ChatMessages)
    BY <2>1, SameAdding DEF ChatMessages
  <2>4. SameWith(inbox, inbox', ChatMessages)
    BY <2>1, <2>2, <2>3, SameThen
  <2> QED
    BY <1>s, <2>2, <2>4, TalkSameIs DEF SessionsLoaded, Quiet
<1>6. CASE PressAgents
  <2>1. SameWith(inbox, With(inbox, <<"open">>), ChatMessages)
    BY <1>i DEF ChatMessages
  <2> QED
    BY <1>6, <1>s, <2>1, TalkSameIs DEF PressAgents, Otherwise, Unmoved, Quiet
<1>7. CASE PressChoose
  <2>1. \A a : IsABag(With(inbox, <<"chosen", a>>)) /\ SameWith(inbox, With(inbox, <<"chosen", a>>), ChatMessages)
    BY <1>b, <1>i, Adding DEF ChatMessages
  <2>2. \A a : SameWith(With(inbox, <<"chosen", a>>), With(With(inbox, <<"chosen", a>>), <<"close">>), ChatMessages)
    BY <2>1, SameAdding DEF ChatMessages
  <2>3. \A a : SameWith(inbox, With(With(inbox, <<"chosen", a>>), <<"close">>), ChatMessages)
    BY <2>1, <2>2 DEF SameWith
  <2>4. SameWith(inbox, With(inbox, <<"close">>), ChatMessages)
    BY <1>i DEF ChatMessages
  <2>5. SameWith(inbox, inbox', ChatMessages)
    BY <1>7, <2>3, <2>4 DEF PressChoose
  <2> QED
    BY <1>7, <1>s, <2>5, TalkSameIs DEF PressChoose, Otherwise, Unmoved, Quiet
<1>8. CASE PressSessions
  BY <1>8, <1>s, TalkSameIs DEF PressSessions, Otherwise, Unmoved, Quiet
<1>9. CASE PressName
  <2>1. SameWith(running, With(running, <<"create", chosen>>), ChatCommands)
    BY <1>a DEF ChatCommands
  <2>2. SameWith(running, running', ChatCommands) /\ inbox' = inbox
    BY <1>9, <1>s, <2>1 DEF PressName
  <2> QED
    BY <1>9, <1>s, <2>2, TalkSameIs DEF PressName, Otherwise, Unmoved, Quiet
<1>10. CASE PressSelect
  <2>1. \A s : SameWith(inbox, With(inbox, <<"selected", s>>), ChatMessages)
    BY <1>i DEF ChatMessages
  <2>2. SameWith(inbox, inbox', ChatMessages) /\ running' = running
    BY <1>10, <2>1 DEF PressSelect
  <2> QED
    BY <1>10, <1>s, <2>2, TalkSameIs DEF PressSelect, Unmoved, Quiet
<1>11. CASE SessionCreated(Unset)
  <2>1. Unset \notin ChatSessions
    BY ChatAssumption
  <2>2. Taken(<<"created", Unset>>) /\ UNCHANGED <<current, chat, mixed, dropped, running, read, submits>>
    BY <1>11 DEF SessionCreated
  <2>3. TalkSame
    BY <1>t, <2>2 DEF ChatMessages
  <2> QED
    BY <2>2, <2>3 DEF Quiet
<1>12. CASE UNCHANGED chatVars
  BY <1>12, <1>s, TalkSameIs DEF chatVars, Quiet
<1> QED
  BY <1>1, <1>2, <1>3, <1>4, <1>5, <1>6, <1>7, <1>8, <1>9, <1>10, <1>11, <1>12

----------------------------------------------------------------------------
(* The workspace: a chat's answers are read. *)

Awaited == \/ <<"wait", chat.stream>> \in Waits
           \/ \E m \in AnswersSent : m[2] = chat.stream
StreamsRead == (chat # Unset /\ ~dropped /\ chat.streaming) => Awaited

\* The messages of answers that are taken, and the waits that end.
LEMMA TokenTaken ==
    ASSUME TuiTypeOK, NEW msg, Taken(msg)
    PROVE  /\ msg \in DOMAIN inbox /\ AnswersSent' \subseteq AnswersSent /\ AnswersSent \ {msg} \subseteq AnswersSent'
           /\ inbox[msg] = 1 => AnswersSent' = AnswersSent \ {msg}
           /\ \A m \in AnswersSent \ {msg} : inbox'[m] = inbox[m]
<1>1. IsABag(inbox)
  BY DEF TuiTypeOK
<1> QED
  BY <1>1, TakenIs DEF AnswersSent

LEMMA AnswersReadStep == TuiTypeOK /\ StreamsRead /\ [TuiNext]_chatVars => StreamsRead'
<1> SUFFICES ASSUME TuiTypeOK, StreamsRead, [TuiNext]_chatVars PROVE StreamsRead'
  OBVIOUS
<1>q. ASSUME Quiet PROVE StreamsRead'
  BY <1>q DEF Quiet, TalkSame, StreamsRead, Awaited
<1>b. IsABag(running) /\ IsABag(inbox)
  BY DEF TuiTypeOK
<1>1. CASE \E s \in ChatSessions : FetchHistory(s)
  <2> PICK s \in ChatSessions : FetchHistory(s)
    BY <1>1
  <2>1. Ended(<<"fetch", s>>, <<"history", s>>) /\ UNCHANGED <<chat, dropped>>
    BY DEF FetchHistory
  <2>2. (\A m \in DOMAIN running : m # <<"fetch", s>> => m \in DOMAIN running') /\ DOMAIN inbox \subseteq DOMAIN inbox'
    BY <1>b, <2>1, EndedIs
  <2>3. Waits \subseteq Waits' /\ AnswersSent \subseteq AnswersSent'
    BY <2>2 DEF Waits, AnswersSent
  <2> QED
    BY <2>1, <2>3 DEF StreamsRead, Awaited
<1>2. CASE \E n \in 1..MaxSubmits : ReadStream(n)
  <2> PICK n \in 1..MaxSubmits : ReadStream(n)
    BY <1>2
  <2>1. PICK msg \in {<<"event", n, read[n] + 1>>, <<"done", n>>} : Ended(<<"wait", n>>, msg)
    BY DEF ReadStream
  <2>2. /\ \A m \in Waits : m # <<"wait", n>> => m \in Waits'
        /\ AnswersSent \subseteq AnswersSent' /\ msg \in AnswersSent' /\ msg[2] = n
    <3>1. /\ \A m \in DOMAIN running : m # <<"wait", n>> => m \in DOMAIN running'
          /\ DOMAIN inbox' = DOMAIN inbox \cup {msg}
      BY <1>b, <2>1, EndedIs
    <3>2. msg[1] \in {"event", "done"} /\ msg[2] = n
      BY <2>1
    <3> QED
      BY <3>1, <3>2 DEF Waits, AnswersSent
  <2>3. chat' = chat /\ dropped' = dropped
    BY DEF ReadStream
  <2>4. <<"wait", chat.stream>> = <<"wait", n>> => chat.stream = n
    OBVIOUS
  <2> QED
    BY <2>2, <2>3, <2>4 DEF StreamsRead, Awaited
<1>3. CASE \E m \in BagToSet(inbox) : Captured(m)
  <2> PICK m : Captured(m)
    BY <1>3
  <2>1. Taken(m) /\ UNCHANGED <<chat, running>> /\ dropped' = (dropped \/ m[1] \in {"event", "done"})
    BY DEF Captured
  <2>2. Waits' = Waits /\ (m[1] \notin {"event", "done"} => AnswersSent' = AnswersSent)
    BY <2>1, TokenTaken DEF Waits, AnswersSent
  <2> QED
    BY <2>1, <2>2 DEF StreamsRead, Awaited
<1>4. CASE (\E a \in ChatAgents : AgentChosen(a)) \/ \E s \in ChatSessions : SessionSelected(s)
  <2>1. chat' = Unset \/ chat'.streaming = FALSE
    <3>1. CASE \E a \in ChatAgents : AgentChosen(a)
      BY <3>1 DEF AgentChosen
    <3>2. CASE \E s \in ChatSessions : SessionSelected(s)
      BY <3>2 DEF SessionSelected, startChat
    <3> QED
      BY <1>4, <3>1, <3>2
  <2> QED
    BY <2>1 DEF StreamsRead
<1>5. CASE \E s \in ChatSessions \cup {Unset} : SessionCreated(s)
  <2> PICK s \in ChatSessions \cup {Unset} : SessionCreated(s)
    BY <1>5
  <2>1. CASE s # Unset
    BY <2>1 DEF SessionCreated, startChat, StreamsRead
  <2>2. CASE s = Unset
    BY <1>q, <2>2, QuietSteps
  <2> QED
    BY <2>1, <2>2
<1>6. CASE \E s \in ChatSessions : HistoryLoaded(s)
  <2> PICK s \in ChatSessions : HistoryLoaded(s)
    BY <1>6
  <2>1. Taken(<<"history", s>>) /\ UNCHANGED <<running, dropped>>
    BY DEF HistoryLoaded
  <2>2. Waits' = Waits /\ AnswersSent' = AnswersSent
    BY <2>1, TokenTaken DEF Waits, AnswersSent
  <2>3. chat' = chat \/ (chat # Unset /\ chat'.stream = chat.stream /\ chat'.streaming = chat.streaming)
    BY ChatIs DEF HistoryLoaded, ShowLine, TuiTypeOK, Chats
  <2> QED
    BY <2>1, <2>2, <2>3 DEF StreamsRead, Awaited
<1>7. CASE \E n \in 1..MaxSubmits : StreamDone(n)
  <2> PICK n \in 1..MaxSubmits : StreamDone(n)
    BY <1>7
  <2>1. chat' = Unset \/ chat'.streaming = FALSE
    BY DEF StreamDone, TuiTypeOK, Chats
  <2> QED
    BY <2>1 DEF StreamsRead
<1>8. CASE \E n \in 1..MaxSubmits : \E i \in 1..AnswerLen : EventShown(n, i)
  <2> PICK n \in 1..MaxSubmits, i \in 1..AnswerLen : EventShown(n, i)
    BY <1>8
  <2>1. Taken(<<"event", n, i>>) /\ dropped' = dropped
    BY DEF EventShown
  <2>2. CASE chat = Unset
    BY <2>2 DEF EventShown, StreamsRead
  <2>3. CASE chat # Unset
    <3>1. /\ chat \in Chats
          /\ chat' = [chat EXCEPT !.lines = Append(@, Line(Unset, n, i))]
          /\ running' = IF chat.stream = 0 THEN running ELSE With(running, <<"wait", chat.stream>>)
      BY <2>3 DEF EventShown, ShowLine, waitNext, TuiTypeOK
    <3>2. chat'.stream = chat.stream /\ chat'.streaming = chat.streaming
      BY <3>1 DEF Chats
    <3>3. CASE chat.stream # 0
      <4>1. DOMAIN With(running, <<"wait", chat.stream>>) = DOMAIN running \cup {<<"wait", chat.stream>>}
        BY <1>b, Adding
      <4>2. <<"wait", chat'.stream>> \in Waits'
        BY <3>1, <3>2, <3>3, <4>1 DEF Waits
      <4> QED
        BY <4>2 DEF StreamsRead, Awaited
    <3>4. CASE chat.stream = 0
      <4>1. Waits' = Waits /\ (AnswersSent \ {<<"event", n, i>>} \subseteq AnswersSent')
        BY <2>1, <3>1, <3>4, TokenTaken DEF Waits
      <4>2. <<"event", n, i>>[2] # chat.stream
        BY <3>4
      <4> QED
        BY <2>1, <2>3, <3>2, <4>1, <4>2 DEF StreamsRead, Awaited
    <3> QED
      BY <3>3, <3>4
  <2> QED
    BY <2>2, <2>3
<1>9. CASE PressSubmit
  <2>1. /\ chat # Unset /\ chat \in Chats /\ chat.streaming = FALSE
    BY <1>9 DEF PressSubmit, TakesInput, TuiTypeOK, Chats
  <2>2. CASE ShowLine(Line(chat.session, submits', 0))
    BY <2>1, <2>2 DEF ShowLine, StreamsRead, Chats
  <2>3. CASE /\ chat'.stream = submits' /\ running' = With(running, <<"wait", submits'>>)
    <3>1. DOMAIN With(running, <<"wait", submits'>>) = DOMAIN running \cup {<<"wait", submits'>>}
      BY <1>b, Adding
    <3>2. <<"wait", chat'.stream>> \in Waits'
      BY <2>3, <3>1 DEF Waits
    <3> QED
      BY <3>2 DEF StreamsRead, Awaited
  <2>4. [chat EXCEPT !.stream = submits', !.streaming = TRUE,
                     !.lines = Append(chat.lines, Line(chat.session, submits', 0))].stream = submits'
    BY <2>1 DEF Chats
  <2> QED
    BY <1>9, <2>2, <2>3, <2>4 DEF PressSubmit
<1> QED
  BY <1>1, <1>2, <1>3, <1>4, <1>5, <1>6, <1>7, <1>8, <1>9, <1>q, QuietSteps DEF TuiNext

\* A chat that waits for its answer is read, however many chats were begun and
\* answers are under way, until an event meets an open dialog (chat.go, workspace.go).
THEOREM AnswersAreRead == TuiSpec => []AnswersRead
<1>1. TuiInit => StreamsRead
  BY DEF TuiInit, StreamsRead
<1>2. TuiTypeOK /\ TuiTypeOK' /\ StreamsRead /\ [TuiNext]_chatVars => StreamsRead'
  BY AnswersReadStep
<1>3. StreamsRead => AnswersRead
  BY DEF StreamsRead, Awaited, AnswersRead, UnderWay, BagIn, BagToSet, Waits, AnswersSent
<1> QED
  BY TuiTypeCorrect, <1>1, <1>2, <1>3, PTL DEF TuiSpec

----------------------------------------------------------------------------
(* The workspace: the open session is the chosen agent's. *)

OwnSessions ==
    ~foreign =>
        /\ current # Unset => current \in SessionsOf(chosen)
        /\ reloaded => sessionList \subseteq SessionsOf(chosen)
        /\ \A m \in DOMAIN running : m[1] = "create" => m[2] = chosen
        /\ \A m \in DOMAIN inbox :
              /\ m[1] = "sessions" => m[2] \subseteq SessionsOf(chosen)
              /\ m[1] = "selected" => m[2] \in SessionsOf(chosen)
              /\ m[1] = "created"  => m[2] \in SessionsOf(chosen) \cup {Unset}

\* No new command or message of those that say whose a session is, nor a new owner,
\* agent, list or session.
OwnersKept ==
    /\ \A m \in DOMAIN running' : m[1] = "create" => m \in DOMAIN running
    /\ \A m \in DOMAIN inbox' : m[1] \in {"sessions", "selected", "created"} => m \in DOMAIN inbox
    /\ UNCHANGED <<ownerOf, chosen, foreign>>

LEMMA KeptOwn ==
    ASSUME OwnSessions, OwnersKept, current' = current, UNCHANGED <<sessionList, reloaded>>
    PROVE  OwnSessions'
BY DEF OwnSessions, OwnersKept, SessionsOf

LEMMA OwnSessionsStep == TuiTypeOK /\ OwnSessions /\ [TuiNext]_chatVars => OwnSessions'
<1> SUFFICES ASSUME TuiTypeOK, OwnSessions, [TuiNext]_chatVars PROVE OwnSessions'
  OBVIOUS
<1>b. IsABag(running) /\ IsABag(inbox)
  BY DEF TuiTypeOK
<1>w. \A b, m : IsABag(b) => /\ IsABag(With(b, m)) /\ IsABag(Without(b, m))
                              /\ DOMAIN With(b, m) = DOMAIN b \cup {m}
                              /\ DOMAIN Without(b, m) \subseteq DOMAIN b
  BY Adding, Removing
<1>e. \A cmd, msg : Ended(cmd, msg) => /\ DOMAIN running' \subseteq DOMAIN running
                                       /\ DOMAIN inbox' = DOMAIN inbox \cup {msg}
  BY <1>b, <1>w DEF Ended
<1>t. \A msg : Taken(msg) => msg \in DOMAIN inbox /\ DOMAIN inbox' \subseteq DOMAIN inbox
  BY <1>b, <1>w DEF Taken, BagIn, BagToSet
<1>1. CASE LoadSessions
  <2>1. UNCHANGED <<current, sessionList, reloaded, ownerOf, chosen, foreign>>
    BY <1>1 DEF LoadSessions
  <2>2. PICK S \in {SessionsOf(chosen), {}} : Ended(<<"load">>, <<"sessions", S>>)
    BY <1>1 DEF LoadSessions
  <2>3. DOMAIN running' \subseteq DOMAIN running /\ DOMAIN inbox' = DOMAIN inbox \cup {<<"sessions", S>>}
    BY <1>e, <2>2
  <2> QED
    BY <2>1, <2>3 DEF OwnSessions, SessionsOf
<1>2. CASE \E a \in ChatAgents : CreateSession(a)
  <2> PICK a \in ChatAgents : CreateSession(a)
    BY <1>2
  <2>1. /\ UNCHANGED <<current, sessionList, reloaded, chosen, foreign>> /\ <<"create", a>> \in DOMAIN running
    BY DEF CreateSession, BagIn, BagToSet
  <2>2. CASE Ended(<<"create", a>>, <<"created", Unset>>) /\ UNCHANGED ownerOf
    <3>1. DOMAIN running' \subseteq DOMAIN running /\ DOMAIN inbox' = DOMAIN inbox \cup {<<"created", Unset>>}
      BY <1>e, <2>2
    <3> QED
      BY <2>1, <2>2, <3>1 DEF OwnSessions, SessionsOf
  <2>3. ASSUME NEW s \in ChatSessions, ownerOf[s] = Unset, ownerOf' = [ownerOf EXCEPT ![s] = a],
               Ended(<<"create", a>>, <<"created", s>>)
        PROVE  OwnSessions'
    <3>1. DOMAIN running' \subseteq DOMAIN running /\ DOMAIN inbox' = DOMAIN inbox \cup {<<"created", s>>}
      BY <1>e, <2>3
    <3>2. a # Unset /\ ownerOf'[s] = a /\ \A r \in ChatSessions : r # s => ownerOf'[r] = ownerOf[r]
      BY <2>3, ChatAssumption DEF TuiTypeOK
    <3>3. ~foreign => a = chosen
      BY <2>1 DEF OwnSessions
    <3>4. ~foreign => SessionsOf(chosen) \subseteq SessionsOf(chosen)' /\ s \in SessionsOf(chosen)'
      BY <2>1, <2>3, <3>2, <3>3 DEF SessionsOf
    <3> QED
      BY <2>1, <3>1, <3>4 DEF OwnSessions
  <2> QED
    BY <2>2, <2>3 DEF CreateSession
<1>3. CASE \E s \in ChatSessions : FetchHistory(s)
  <2> PICK s \in ChatSessions : FetchHistory(s)
    BY <1>3
  <2>1. DOMAIN running' \subseteq DOMAIN running /\ DOMAIN inbox' = DOMAIN inbox \cup {<<"history", s>>}
    BY <1>e DEF FetchHistory
  <2> QED
    BY <2>1, KeptOwn DEF FetchHistory, OwnersKept
<1>4. CASE \E n \in 1..MaxSubmits : ReadStream(n)
  <2> PICK n \in 1..MaxSubmits : ReadStream(n)
    BY <1>4
  <2>1. PICK msg \in {<<"event", n, read[n] + 1>>, <<"done", n>>} : Ended(<<"wait", n>>, msg)
    BY DEF ReadStream
  <2>2. DOMAIN running' \subseteq DOMAIN running /\ DOMAIN inbox' = DOMAIN inbox \cup {msg}
    BY <1>e, <2>1
  <2>3. msg[1] \notin {"sessions", "selected", "created"}
    BY <2>1
  <2>4. OwnersKept
    BY <2>2, <2>3 DEF ReadStream, OwnersKept
  <2> QED
    BY <2>4, KeptOwn DEF ReadStream
<1>5. CASE \E m \in BagToSet(inbox) : Captured(m)
  BY <1>5, <1>t, KeptOwn DEF Captured, OwnersKept
<1>6. CASE OpenDialog \/ CloseDialog
  BY <1>6, <1>t, KeptOwn DEF OpenDialog, CloseDialog, OwnersKept
<1>7. CASE \E a \in ChatAgents : AgentChosen(a)
  <2> PICK a \in ChatAgents : AgentChosen(a)
    BY <1>7
  <2>1. /\ DOMAIN inbox' \subseteq DOMAIN inbox /\ DOMAIN running' = DOMAIN running \cup {<<"load">>}
        /\ current' = Unset /\ reloaded' = FALSE /\ foreign' = UnderWay({"sessions", "selected", "create", "created"})
    BY <1>b, <1>t, <1>w DEF AgentChosen
  <2>2. ~foreign' => /\ \A m \in DOMAIN running : m[1] # "create"
                     /\ \A m \in DOMAIN inbox : m[1] \notin {"sessions", "selected", "created"}
    BY <2>1 DEF UnderWay, BagToSet
  <2> QED
    BY <2>1, <2>2 DEF OwnSessions
<1>8. CASE \E S \in SUBSET ChatSessions : SessionsLoaded(S)
  <2> PICK S \in SUBSET ChatSessions : SessionsLoaded(S)
    BY <1>8
  <2>1. /\ <<"sessions", S>> \in DOMAIN inbox /\ sessionList' = S
        /\ UNCHANGED <<chosen, current, running, ownerOf, foreign>>
    BY DEF SessionsLoaded, BagIn, BagToSet
  <2>2. \E new \in SUBSET {<<"selected", s>> : s \in S} : DOMAIN inbox' \subseteq DOMAIN inbox \cup new
    <3>1. IsABag(Without(inbox, <<"sessions", S>>)) /\ DOMAIN Without(inbox, <<"sessions", S>>) \subseteq DOMAIN inbox
      BY <1>b, <1>w
    <3>2. \A s \in S : DOMAIN With(Without(inbox, <<"sessions", S>>), <<"selected", s>>)
                         = DOMAIN Without(inbox, <<"sessions", S>>) \cup {<<"selected", s>>}
      BY <1>w, <3>1
    <3>3. CASE inbox' = Without(inbox, <<"sessions", S>>)
      BY <3>1, <3>3
    <3>4. CASE \E s \in S : inbox' = With(Without(inbox, <<"sessions", S>>), <<"selected", s>>)
      BY <3>1, <3>2, <3>4
    <3> QED
      BY <3>3, <3>4 DEF SessionsLoaded
  <2>3. ~foreign => S \subseteq SessionsOf(chosen)
    BY <2>1 DEF OwnSessions
  <2> QED
    BY <2>1, <2>2, <2>3 DEF OwnSessions, SessionsOf
<1>9. CASE \E s \in ChatSessions : SessionSelected(s)
  <2> PICK s \in ChatSessions : SessionSelected(s)
    BY <1>9
  <2>1. /\ Taken(<<"selected", s>>) /\ current' = s /\ running' = With(running, <<"fetch", s>>)
        /\ UNCHANGED <<chosen, sessionList, ownerOf, reloaded, foreign>>
    BY DEF SessionSelected, startChat, With
  <2>2. /\ <<"selected", s>> \in DOMAIN inbox /\ DOMAIN inbox' \subseteq DOMAIN inbox
        /\ DOMAIN running' = DOMAIN running \cup {<<"fetch", s>>}
    BY <1>b, <1>t, <1>w, <2>1
  <2> QED
    BY <2>1, <2>2 DEF OwnSessions, SessionsOf
<1>10. CASE \E s \in ChatSessions \cup {Unset} : SessionCreated(s)
  <2> PICK s \in ChatSessions \cup {Unset} : SessionCreated(s)
    BY <1>10
  <2>1. /\ <<"created", s>> \in DOMAIN inbox /\ DOMAIN inbox' \subseteq DOMAIN inbox
        /\ UNCHANGED <<chosen, ownerOf, reloaded, foreign>>
    BY <1>t DEF SessionCreated
  <2>2. running' = running
    BY <1>b, AddingNone DEF SessionCreated, startChat
  <2>3. ~foreign => s \in SessionsOf(chosen) \cup {Unset}
    BY <2>1 DEF OwnSessions
  <2>4. CASE s = Unset
    BY <2>1, <2>2, <2>4 DEF SessionCreated, OwnSessions, SessionsOf
  <2>5. CASE s # Unset
    <3>1. current' = s /\ sessionList' = sessionList \cup {s}
      BY <2>5 DEF SessionCreated, startChat
    <3> QED
      BY <2>1, <2>2, <2>3, <2>5, <3>1 DEF OwnSessions, SessionsOf
  <2> QED
    BY <2>4, <2>5
<1>11. CASE \E s \in ChatSessions : HistoryLoaded(s)
  BY <1>11, <1>t, KeptOwn DEF HistoryLoaded, OwnersKept
<1>12. CASE \E n \in 1..MaxSubmits : StreamDone(n)
  BY <1>12, <1>t, KeptOwn DEF StreamDone, OwnersKept
<1>13. CASE \E n \in 1..MaxSubmits : \E i \in 1..AnswerLen : EventShown(n, i)
  <2> PICK n \in 1..MaxSubmits, i \in 1..AnswerLen : EventShown(n, i)
    BY <1>13
  <2>1. DOMAIN inbox' \subseteq DOMAIN inbox
    BY <1>t DEF EventShown
  <2>2. \A m \in DOMAIN running' : m[1] = "create" => m \in DOMAIN running
    <3>1. DOMAIN With(running, <<"wait", chat.stream>>) = DOMAIN running \cup {<<"wait", chat.stream>>}
      BY <1>b, <1>w
    <3>2. running' = running \/ running' = With(running, <<"wait", chat.stream>>)
      BY DEF EventShown, waitNext
    <3> QED
      BY <3>1, <3>2
  <2> QED
    BY <2>1, <2>2, KeptOwn DEF EventShown, OwnersKept
<1>14. CASE PressAgents \/ PressChoose \/ PressSessions
  <2>1. \A m \in DOMAIN inbox' : m[1] \in {"sessions", "selected", "created"} => m \in DOMAIN inbox
    <3>1. DOMAIN With(inbox, <<"open">>) = DOMAIN inbox \cup {<<"open">>}
      BY <1>b, <1>w
    <3>2. DOMAIN With(inbox, <<"close">>) = DOMAIN inbox \cup {<<"close">>}
      BY <1>b, <1>w
    <3>3. \A a : DOMAIN With(With(inbox, <<"chosen", a>>), <<"close">>) = DOMAIN inbox \cup {<<"chosen", a>>, <<"close">>}
      <4> TAKE a
      <4> DEFINE bag == With(inbox, <<"chosen", a>>)
      <4>1. IsABag(bag) /\ DOMAIN bag = DOMAIN inbox \cup {<<"chosen", a>>}
        BY <1>b, <1>w
      <4> HIDE DEF bag
      <4>2. DOMAIN With(bag, <<"close">>) = DOMAIN bag \cup {<<"close">>}
        BY <1>w, <4>1
      <4> QED
        BY <4>1, <4>2 DEF bag
    <3>4. CASE PressAgents \/ PressSessions
      BY <3>1, <3>4 DEF PressAgents, PressSessions
    <3>5. CASE PressChoose
      <4>1. \/ DOMAIN inbox' = DOMAIN inbox \cup {<<"close">>}
            \/ \E a \in ChatAgents : DOMAIN inbox' = DOMAIN inbox \cup {<<"chosen", a>>, <<"close">>}
        BY <3>2, <3>3, <3>5, Zenon DEF PressChoose
      <4>2. ASSUME NEW m \in DOMAIN inbox', m[1] \in {"sessions", "selected", "created"} PROVE m \in DOMAIN inbox
        <5>1. m # <<"close">> /\ \A a : m # <<"chosen", a>>
          BY <4>2
        <5> QED
          BY <4>1, <5>1
      <4> QED
        BY <4>2
    <3> QED
      BY <1>14, <3>4, <3>5
  <2> QED
    BY <1>14, <2>1, KeptOwn DEF PressAgents, PressChoose, PressSessions, Otherwise, Unmoved, OwnersKept
<1>15. CASE PressName
  <2>1. DOMAIN With(running, <<"create", chosen>>) = DOMAIN running \cup {<<"create", chosen>>}
    BY <1>b, <1>w
  <2>2. running' = running \/ DOMAIN running' = DOMAIN running \cup {<<"create", chosen>>}
    BY <1>15, <2>1 DEF PressName
  <2>3. UNCHANGED <<inbox, chosen, current, sessionList, ownerOf, reloaded, foreign>>
    BY <1>15 DEF PressName, Otherwise, Unmoved
  <2> QED
    BY <2>2, <2>3 DEF OwnSessions, SessionsOf
<1>16. CASE PressSelect
  <2>1. PICK s \in sessionList : inbox' = With(inbox, <<"selected", s>>)
    BY <1>16 DEF PressSelect
  <2>2. DOMAIN inbox' = DOMAIN inbox \cup {<<"selected", s>>}
    BY <1>b, <1>w, <2>1
  <2>3. foreign' = (foreign \/ ~reloaded) /\ UNCHANGED <<running, chosen, current, sessionList, ownerOf, reloaded>>
    BY <1>16 DEF PressSelect, Unmoved
  <2>4. ~foreign' => ~foreign /\ s \in SessionsOf(chosen)
    BY <2>1, <2>3 DEF OwnSessions
  <2>5. SessionsOf(chosen)' = SessionsOf(chosen)
    BY <2>3 DEF SessionsOf
  <2> QED
    BY <2>2, <2>3, <2>4, <2>5 DEF OwnSessions
<1>17. CASE PressSubmit
  <2>1. \A m \in DOMAIN running' : m[1] = "create" => m \in DOMAIN running
    <3>1. DOMAIN With(running, <<"wait", submits'>>) = DOMAIN running \cup {<<"wait", submits'>>}
      BY <1>b, <1>w
    <3>2. running' = running \/ running' = With(running, <<"wait", submits'>>)
      BY <1>17 DEF PressSubmit
    <3> QED
      BY <3>1, <3>2
  <2> QED
    BY <1>17, <2>1, KeptOwn DEF PressSubmit, Otherwise, Unmoved, OwnersKept
<1>18. CASE UNCHANGED chatVars
  BY <1>18, KeptOwn DEF chatVars, OwnersKept
<1> QED
  BY <1>1, <1>2, <1>3, <1>4, <1>5, <1>6, <1>7, <1>8, <1>9, <1>10, <1>11, <1>12, <1>13, <1>14, <1>15, <1>16,
     <1>17, <1>18 DEF TuiNext

\* The session that is open belongs to the agent that was chosen last, in whatever
\* order lists, choices and creations arrive, unless something of the former agent's
\* was under way then, or was picked from its list (workspace.go).
THEOREM OpenIsOwn == TuiSpec => []SessionOfAgent
<1>1. TuiInit => OwnSessions
  BY DEF TuiInit, OwnSessions, EmptyBag, SetToBag
<1>2. TuiTypeOK /\ TuiTypeOK' /\ OwnSessions /\ [TuiNext]_chatVars => OwnSessions'
  BY OwnSessionsStep
<1>3. OwnSessions => SessionOfAgent
  BY DEF OwnSessions, SessionOfAgent, SessionsOf
<1> QED
  BY TuiTypeCorrect, <1>1, <1>2, <1>3, PTL DEF TuiSpec

----------------------------------------------------------------------------
(* The workspace: a chat shows one conversation. *)

\* How many lines are of the n-th message and its answer.
Told(lines, n) == Cardinality({j \in DOMAIN lines : lines[j].stream = n})

\* Each line is of the session, or the next of its message's.
LinesRight(lines, session) ==
    \A i \in DOMAIN lines :
        /\ lines[i].at = 0 => lines[i].session = session
        /\ lines[i].stream # 0 => lines[i].at = Cardinality({j \in 1..i - 1 : lines[j].stream = lines[i].stream})

LEMMA LineAdded ==
    ASSUME NEW q \in Seq(Lines), NEW line \in Lines
    PROVE  /\ \A n : Told(q, n) \in Nat
           /\ \A n : Told(Append(q, line), n) = Told(q, n) + (IF line.stream = n THEN 1 ELSE 0)
           /\ \A s : /\ LinesRight(q, s) /\ (line.at = 0 => line.session = s)
                     /\ (line.stream # 0 => line.at = Told(q, line.stream))
                     => LinesRight(Append(q, line), s)
           /\ \A i \in DOMAIN Append(q, line) : Append(q, line)[i] = line \/ \E j \in DOMAIN q : Append(q, line)[i] = q[j]
<1> DEFINE r == Append(q, line)
           of(n) == {j \in DOMAIN q : q[j].stream = n}
<1>1. /\ Len(q) \in Nat /\ DOMAIN q = 1..Len(q) /\ DOMAIN r = 1..Len(q) + 1
      /\ r[Len(q) + 1] = line /\ \A i \in 1..Len(q) : r[i] = q[i]
  OBVIOUS
<1> HIDE DEF r
<1>2. \A n : IsFiniteSet(of(n)) /\ Cardinality(of(n)) \in Nat /\ Len(q) + 1 \notin of(n)
  <2> TAKE n
  <2>1. IsFiniteSet(1..Len(q))
    BY <1>1, FS_Interval
  <2>2. of(n) \subseteq 1..Len(q)
    BY <1>1
  <2> QED
    BY <1>1, <2>1, <2>2, FS_Subset, FS_CardinalityType
<1>3. ASSUME NEW n PROVE Told(r, n) = Told(q, n) + (IF line.stream = n THEN 1 ELSE 0)
  <2>1. {j \in DOMAIN r : r[j].stream = n} = of(n) \cup (IF line.stream = n THEN {Len(q) + 1} ELSE {})
    BY <1>1
  <2>2. Told(q, n) = Cardinality(of(n)) /\ Told(r, n) = Cardinality({j \in DOMAIN r : r[j].stream = n})
    BY DEF Told
  <2>3. IsFiniteSet(of(n)) /\ Cardinality(of(n)) \in Nat /\ Len(q) + 1 \notin of(n)
    BY <1>2
  <2> HIDE DEF of
  <2>4. CASE line.stream = n
    <3>1. Cardinality(of(n) \cup {Len(q) + 1}) = Cardinality(of(n)) + 1
      BY <2>3, FS_AddElement
    <3> QED
      BY <2>1, <2>2, <2>4, <3>1
  <2>5. CASE line.stream # n
    <3>1. {j \in DOMAIN r : r[j].stream = n} = of(n)
      BY <2>1, <2>5
    <3> QED
      BY <2>2, <2>3, <2>5, <3>1
  <2> QED
    BY <2>4, <2>5
<1>4. ASSUME NEW s, LinesRight(q, s), line.at = 0 => line.session = s,
             line.stream # 0 => line.at = Told(q, line.stream), NEW i \in DOMAIN r
      PROVE  /\ r[i].at = 0 => r[i].session = s
             /\ r[i].stream # 0 => r[i].at = Cardinality({j \in 1..i - 1 : r[j].stream = r[i].stream})
  <2>1. CASE i \in 1..Len(q)
    <3>1. r[i] = q[i] /\ i \in DOMAIN q
      BY <1>1, <2>1
    <3>2. \A n : {j \in 1..i - 1 : r[j].stream = n} = {j \in 1..i - 1 : q[j].stream = n}
      BY <1>1, <2>1
    <3> QED
      BY <1>4, <3>1, <3>2 DEF LinesRight
  <2>2. CASE i = Len(q) + 1
    <3>1. r[i] = line
      BY <1>1, <2>2
    <3>2. \A n : {j \in 1..i - 1 : r[j].stream = n} = of(n)
      BY <1>1, <2>2
    <3> QED
      BY <1>4, <3>1, <3>2 DEF Told
  <2>3. i \in 1..Len(q) \/ i = Len(q) + 1
    <3>1. i \in 1..Len(q) + 1
      BY <1>1
    <3> QED
      BY <1>1, <3>1
  <2> QED
    BY <2>1, <2>2, <2>3
<1>5. \A n : Told(q, n) \in Nat
  BY <1>2 DEF Told
<1>6. \A s : /\ LinesRight(q, s) /\ (line.at = 0 => line.session = s)
             /\ (line.stream # 0 => line.at = Told(q, line.stream))
             => LinesRight(r, s)
  BY <1>4 DEF LinesRight
<1>7. \A i \in DOMAIN r : r[i] = line \/ \E j \in DOMAIN q : r[i] = q[j]
  BY <1>1
<1> QED
  BY <1>3, <1>5, <1>6, <1>7 DEF r

\* Messages are numbered as they are sent; nothing of a later one is read or shown.
Numbering ==
    /\ chat # Unset => chat.stream <= submits /\ \A i \in DOMAIN chat.lines : chat.lines[i].stream <= submits
    /\ \A m \in Waits \cup AnswersSent : m[2] \in 1..submits
    /\ \A n \in 1..MaxSubmits : n > submits => read[n] = 0

\* What is under way is of this chat: its history, and of its answer one wait or one
\* message, as many lines behind as are shown.
OwnMessages ==
    /\ \A m \in DOMAIN running : m[1] = "fetch" => m[2] = chat.session
    /\ \A m \in DOMAIN inbox : m[1] = "history" => m[2] = chat.session
    /\ \A m \in Waits :
          /\ m = <<"wait", chat.stream>> /\ running[m] = 1 /\ AnswersSent = {} /\ chat.stream # 0
          /\ Told(chat.lines, chat.stream) = read[chat.stream] + 1
    /\ \A m \in AnswersSent :
          /\ AnswersSent = {m} /\ inbox[m] = 1 /\ Waits = {} /\ m[2] = chat.stream /\ chat.stream # 0
          /\ m[1] = "event" => m[3] = Told(chat.lines, chat.stream) /\ m[3] = read[chat.stream]
    /\ chat.streaming = FALSE => Waits = {} /\ AnswersSent = {}
    /\ LinesRight(chat.lines, chat.session)

Conversing == (chat # Unset /\ ~mixed /\ ~dropped) => OwnMessages
ChatInv == Numbering /\ Conversing

\* A step that moves nothing of a chat.
LEMMA QuietChat == TuiTypeOK /\ ChatInv /\ Quiet => ChatInv'
<1> SUFFICES ASSUME TuiTypeOK, ChatInv, Quiet PROVE ChatInv'
  OBVIOUS
<1>1. Numbering'
  BY DEF Quiet, TalkSame, ChatInv, Numbering
<1>2. ASSUME OwnMessages PROVE OwnMessages'
  <2>1. \A m \in DOMAIN running' : m[1] = "fetch" => m[2] = chat'.session
    BY <1>2 DEF Quiet, TalkSame, OwnMessages
  <2>2. \A m \in DOMAIN inbox' : m[1] = "history" => m[2] = chat'.session
    BY <1>2 DEF Quiet, TalkSame, OwnMessages
  <2> QED
    BY <1>2, <2>1, <2>2 DEF Quiet, TalkSame, OwnMessages
<1> QED
  BY <1>1, <1>2 DEF ChatInv, Conversing, Quiet

\* A chat begins: with nothing of another under way, what is under way is its own.
LEMMA BeginsChat ==
    ASSUME TuiTypeOK, ChatInv, NEW s \in ChatSessions, NEW commands, commands \in {{}, {<<"fetch", s>>}},
           NEW msg, Taken(msg), startChat(s, commands), UNCHANGED <<read, submits>>
    PROVE  ChatInv'
<1>b. IsABag(running) /\ IsABag(inbox) /\ submits \in Nat
  BY ChatAssumption DEF TuiTypeOK
<1>1. /\ chat'.session = s /\ chat'.stream = 0 /\ chat'.lines = <<>>
      /\ mixed' = UnderWay({"wait", "event", "done", "fetch", "history"})
  BY DEF startChat
<1>2. DOMAIN running' \subseteq DOMAIN running \cup {<<"fetch", s>>} /\ DOMAIN inbox' \subseteq DOMAIN inbox
  <2>1. DOMAIN With(running, <<"fetch", s>>) = DOMAIN running \cup {<<"fetch", s>>}
    BY <1>b, Adding
  <2>2. running' = running \/ running' = With(running, <<"fetch", s>>)
    BY <1>b, AddingNone DEF startChat, With
  <2> QED
    BY <1>b, <2>1, <2>2, TakenIs
<1>3. Numbering'
  <2>1. Waits' \subseteq Waits /\ AnswersSent' \subseteq AnswersSent
    BY <1>2 DEF Waits, AnswersSent
  <2> QED
    BY <1>b, <1>1, <2>1 DEF ChatInv, Numbering
<1>4. ~mixed' => OwnMessages'
  <2> SUFFICES ASSUME ~mixed' PROVE OwnMessages'
    OBVIOUS
  <2>1. /\ \A m \in DOMAIN running : m[1] \notin {"wait", "fetch"}
        /\ \A m \in DOMAIN inbox : m[1] \notin {"event", "done", "history"}
    BY <1>1 DEF UnderWay, BagToSet
  <2>2. Waits' = {} /\ AnswersSent' = {}
    BY <1>2, <2>1 DEF Waits, AnswersSent
  <2>3. /\ \A m \in DOMAIN running' : m[1] = "fetch" => m[2] = chat'.session
        /\ \A m \in DOMAIN inbox' : m[1] = "history" => m[2] = chat'.session
    BY <1>1, <1>2, <2>1
  <2>4. LinesRight(chat.lines, chat.session)'
    BY <1>1 DEF LinesRight
  <2> QED
    BY <2>2, <2>3, <2>4 DEF OwnMessages
<1> QED
  BY <1>3, <1>4 DEF ChatInv, Conversing

\* One event is read, or the answer ends.
LEMMA ReadChat ==
    ASSUME TuiTypeOK, ChatInv, NEW n \in 1..MaxSubmits, ReadStream(n)
    PROVE  ChatInv'
<1>b. IsABag(running) /\ IsABag(inbox) /\ submits \in Nat
  BY ChatAssumption DEF TuiTypeOK
<1>1. PICK msg : /\ Ended(<<"wait", n>>, msg) /\ msg[1] \in {"event", "done"} /\ msg[2] = n
                 /\ msg[1] = "event" => msg[3] = read[n] + 1 /\ read'[n] = read[n] + 1
                 /\ \A k \in 1..MaxSubmits : k # n => read'[k] = read[k]
  <2>1. CASE Ended(<<"wait", n>>, <<"event", n, read[n] + 1>>) /\ read' = [read EXCEPT ![n] = @ + 1]
    BY <2>1 DEF TuiTypeOK
  <2>2. CASE Ended(<<"wait", n>>, <<"done", n>>) /\ (read' = read \/ read' = [read EXCEPT ![n] = AnswerLen])
    BY <2>2 DEF TuiTypeOK
  <2> QED
    BY <2>1, <2>2 DEF ReadStream
<1>2. /\ DOMAIN running' \subseteq DOMAIN running /\ DOMAIN inbox' = DOMAIN inbox \cup {msg}
      /\ <<"wait", n>> \in DOMAIN running
      /\ running[<<"wait", n>>] = 1 => DOMAIN running' = DOMAIN running \ {<<"wait", n>>}
      /\ msg \notin DOMAIN inbox => inbox'[msg] = 1
  <2>1. <<"wait", n>> \in DOMAIN running
    BY DEF ReadStream, BagIn, BagToSet
  <2> QED
    BY <1>b, <1>1, <2>1, EndedIs
<1>3. <<"wait", n>> \in Waits /\ Waits' \subseteq Waits /\ AnswersSent' = AnswersSent \cup {msg}
  BY <1>1, <1>2 DEF Waits, AnswersSent
<1>4. UNCHANGED <<chat, mixed, dropped, submits>>
  BY DEF ReadStream
<1>5. Numbering'
  <2>1. n \in 1..submits
    <3>1. <<"wait", n>>[2] \in 1..submits
      BY <1>3 DEF ChatInv, Numbering
    <3> QED
      BY <3>1
  <2>2. \A m \in Waits' \cup AnswersSent' : m[2] \in 1..submits
    <3>1. \A m \in Waits \cup AnswersSent : m[2] \in 1..submits
      BY DEF ChatInv, Numbering
    <3> QED
      BY <1>1, <1>3, <2>1, <3>1
  <2>3. \A k \in 1..MaxSubmits : k > submits => read'[k] = 0
    <3>1. \A k \in 1..MaxSubmits : k > submits => k # n
      BY <1>b, <2>1
    <3> QED
      BY <1>1, <3>1 DEF ChatInv, Numbering
  <2> QED
    BY <1>4, <2>2, <2>3 DEF ChatInv, Numbering
<1>6. ASSUME OwnMessages PROVE OwnMessages'
  <2>1. /\ chat.stream = n /\ running[<<"wait", n>>] = 1 /\ AnswersSent = {} /\ chat.streaming # FALSE
        /\ Waits = {<<"wait", n>>} /\ Told(chat.lines, n) = read[n] + 1
    <3>1. <<"wait", n>> = <<"wait", chat.stream>>
      BY <1>3, <1>6 DEF OwnMessages
    <3>2. chat.stream = n
      BY <3>1
    <3> QED
      BY <1>3, <1>6, <3>2 DEF OwnMessages
  <2>2. Waits' = {} /\ AnswersSent' = {msg} /\ inbox'[msg] = 1
    BY <1>1, <1>2, <1>3, <2>1 DEF Waits, AnswersSent
  <2>3. msg[1] = "event" => msg[3] = Told(chat.lines, n) /\ msg[3] = read'[n]
    BY <1>1, <2>1
  <2>4. /\ \A m \in DOMAIN running' : m[1] = "fetch" => m[2] = chat.session
        /\ \A m \in DOMAIN inbox' : m[1] = "history" => m[2] = chat.session
    BY <1>1, <1>2, <1>6 DEF OwnMessages
  <2>5. LinesRight(chat.lines, chat.session)
    BY <1>6 DEF OwnMessages
  <2>6. chat.stream # 0
    BY <2>1
  <2>7. (\A m \in AnswersSent :
            /\ AnswersSent = {m} /\ inbox[m] = 1 /\ Waits = {} /\ m[2] = chat.stream /\ chat.stream # 0
            /\ m[1] = "event" => m[3] = Told(chat.lines, chat.stream) /\ m[3] = read[chat.stream])'
    BY <1>1, <1>4, <2>1, <2>2, <2>3, <2>6
  <2> QED
    BY <1>4, <2>1, <2>2, <2>4, <2>5, <2>7 DEF OwnMessages
<1> QED
  BY <1>4, <1>5, <1>6 DEF ChatInv, Conversing

\* An event is shown, and the next one waited for.
LEMMA ShowsChat ==
    ASSUME TuiTypeOK, ChatInv, NEW n \in 1..MaxSubmits, NEW i \in 1..AnswerLen, EventShown(n, i)
    PROVE  ChatInv'
<1>b. IsABag(running) /\ IsABag(inbox) /\ submits \in Nat
  BY ChatAssumption DEF TuiTypeOK
<1> DEFINE msg == <<"event", n, i>>
<1>1. Taken(msg) /\ UNCHANGED <<mixed, dropped, read, submits>>
  BY DEF EventShown
<1>2. /\ msg \in AnswersSent /\ AnswersSent' \subseteq AnswersSent /\ (inbox[msg] = 1 => AnswersSent' = AnswersSent \ {msg})
      /\ DOMAIN inbox' \subseteq DOMAIN inbox
  BY <1>b, <1>1, TokenTaken, TakenIs DEF AnswersSent
<1> HIDE DEF msg
<1>3. CASE chat = Unset
  <2>1. chat' = chat /\ running' = running
    BY <1>3 DEF EventShown
  <2>2. Waits' = Waits
    BY <2>1 DEF Waits
  <2>3. \A m \in Waits' \cup AnswersSent' : m[2] \in 1..submits
    BY <1>2, <2>2 DEF ChatInv, Numbering
  <2> QED
    BY <1>1, <1>3, <2>1, <2>3 DEF ChatInv, Numbering, Conversing
<1>4. CASE chat # Unset
  <2> DEFINE line == Line(Unset, n, i)
             wait == <<"wait", chat.stream>>
  <2>1. /\ chat \in Chats /\ chat' = [chat EXCEPT !.lines = Append(@, line)]
        /\ running' = IF chat.stream = 0 THEN running ELSE With(running, wait)
    BY <1>4 DEF EventShown, ShowLine, waitNext, TuiTypeOK
  <2>2. /\ chat'.stream = chat.stream /\ chat'.session = chat.session /\ chat'.streaming = chat.streaming
        /\ chat'.lines = Append(chat.lines, line) /\ chat.lines \in Seq(Lines) /\ chat.stream \in Nat
    BY <2>1, ChatAssumption DEF Chats
  <2>3. line \in Lines /\ line.stream = n /\ line.at = i /\ i \in Nat \ {0}
    BY LineIs, ChatAssumption
  <2>4. /\ DOMAIN running' \subseteq DOMAIN running \cup {wait}
        /\ chat.stream # 0 => wait \in DOMAIN running' /\ (wait \notin DOMAIN running => running'[wait] = 1)
        /\ chat.stream = 0 => running' = running
    <3>1. DOMAIN With(running, wait) = DOMAIN running \cup {wait} /\ (wait \notin DOMAIN running => With(running, wait)[wait] = 1)
      BY <1>b, Adding
    <3> QED
      BY <2>1, <3>1, Zenon
  <2> HIDE DEF line
  <2>5. Waits' \subseteq Waits \cup {wait} /\ (chat.stream = 0 => Waits' = Waits) /\ (chat.stream # 0 => wait \in Waits')
    BY <2>4 DEF Waits
  <2>6. \A k \in DOMAIN chat'.lines : chat'.lines[k] = line \/ \E j \in DOMAIN chat.lines : chat'.lines[k] = chat.lines[j]
    BY <2>2, <2>3, LineAdded
  <2>7. Numbering'
    <3>0. n <= submits
      BY <1>2 DEF ChatInv, Numbering, msg
    <3>1. chat.stream <= submits /\ \A j \in DOMAIN chat.lines : chat.lines[j].stream <= submits
      BY <1>4 DEF ChatInv, Numbering
    <3>2. \A k \in DOMAIN chat'.lines : chat'.lines[k].stream <= submits
      BY <2>3, <2>6, <3>0, <3>1
    <3>3. chat.stream # 0 => wait[2] \in 1..submits
      BY <1>b, <2>2, <3>1
    <3>4. \A m \in Waits' \cup AnswersSent' : m[2] \in 1..submits
      BY <1>2, <2>5, <3>3 DEF ChatInv, Numbering
    <3> QED
      BY <1>b, <1>1, <2>2, <3>1, <3>2, <3>4 DEF ChatInv, Numbering
  <2>8. ASSUME OwnMessages PROVE OwnMessages'
    <3>0. msg[1] = "event" /\ msg[2] = n /\ msg[3] = i
      BY DEF msg
    <3>1. /\ chat.stream = n /\ AnswersSent = {msg} /\ inbox[msg] = 1 /\ Waits = {} /\ chat.streaming # FALSE
          /\ i = Told(chat.lines, n) /\ i = read[n]
      <4>1. /\ AnswersSent = {msg} /\ inbox[msg] = 1 /\ Waits = {} /\ msg[2] = chat.stream
            /\ msg[3] = Told(chat.lines, chat.stream) /\ msg[3] = read[chat.stream]
        BY <1>2, <2>8, <3>0 DEF OwnMessages
      <4>2. chat.streaming # FALSE
        BY <4>1, <2>8 DEF OwnMessages
      <4> QED
        BY <3>0, <4>1, <4>2
    <3>2. AnswersSent' = {} /\ n # 0
      BY <1>2, <3>1
    <3>3. Waits' = {wait} /\ running'[wait] = 1
      <4>1. Waits' = {wait}
        BY <2>5, <3>1, <3>2
      <4>2. wait \notin DOMAIN running
        BY <3>1 DEF Waits
      <4> QED
        BY <2>4, <3>1, <3>2, <4>1, <4>2
    <3>4. Told(chat'.lines, n) = Told(chat.lines, n) + 1
      BY <2>2, <2>3, LineAdded
    <3>5. LinesRight(chat'.lines, chat.session)
      <4>1. LinesRight(chat.lines, chat.session)
        BY <2>8 DEF OwnMessages
      <4> QED
        BY <2>2, <2>3, <3>1, <4>1, LineAdded
    <3>6. /\ \A m \in DOMAIN running' : m[1] = "fetch" => m[2] = chat.session
          /\ \A m \in DOMAIN inbox' : m[1] = "history" => m[2] = chat.session
      BY <1>2, <2>4, <2>8 DEF OwnMessages
    <3>7. (\A m \in Waits :
              /\ m = <<"wait", chat.stream>> /\ running[m] = 1 /\ AnswersSent = {} /\ chat.stream # 0
              /\ Told(chat.lines, chat.stream) = read[chat.stream] + 1)'
      BY <1>1, <2>2, <3>1, <3>2, <3>3, <3>4
    <3>8. chat'.streaming # FALSE /\ AnswersSent' = {}
      BY <2>2, <3>1, <3>2
    <3> QED
      BY <2>2, <3>5, <3>6, <3>7, <3>8 DEF OwnMessages
  <2> QED
    BY <1>1, <1>4, <2>7, <2>8 DEF ChatInv, Conversing
<1> QED
  BY <1>3, <1>4

\* What is under way moves nothing of a chat's answer; a line that is of no answer,
\* and only of this session, may be added.
LEMMA HistoryMoves ==
    ASSUME TuiTypeOK, ChatInv, NEW s \in ChatSessions, FetchHistory(s) \/ HistoryLoaded(s)
    PROVE  ChatInv'
<1>b. IsABag(running) /\ IsABag(inbox) /\ submits \in Nat
  BY ChatAssumption DEF TuiTypeOK
<1>1. CASE FetchHistory(s)
  <2>1. Ended(<<"fetch", s>>, <<"history", s>>) /\ <<"fetch", s>> \in DOMAIN running
    BY <1>1 DEF FetchHistory, BagIn, BagToSet
  <2>2. UNCHANGED <<chat, mixed, dropped, read, submits>>
    BY <1>1 DEF FetchHistory
  <2>3. /\ DOMAIN running' \subseteq DOMAIN running /\ DOMAIN inbox' = DOMAIN inbox \cup {<<"history", s>>}
        /\ \A m \in DOMAIN running : m # <<"fetch", s>> => m \in DOMAIN running' /\ running'[m] = running[m]
        /\ \A m \in DOMAIN inbox : m # <<"history", s>> => inbox'[m] = inbox[m]
    BY <1>b, <2>1, EndedIs
  <2>4. \A m : m[1] = "wait" => m # <<"fetch", s>>
    OBVIOUS
  <2>5. \A m : m[1] \in {"event", "done"} => m # <<"history", s>>
    OBVIOUS
  <2>6. /\ Waits' = Waits /\ \A m \in Waits : running'[m] = running[m]
        /\ AnswersSent' = AnswersSent /\ \A m \in AnswersSent : inbox'[m] = inbox[m]
    BY <2>3, <2>4, <2>5 DEF Waits, AnswersSent
  <2>7. Numbering'
    BY <2>2, <2>6 DEF ChatInv, Numbering
  <2>8. ASSUME OwnMessages PROVE OwnMessages'
    <3>1. <<"fetch", s>>[2] = chat.session
      BY <2>1, <2>8 DEF OwnMessages
    <3>2. \A m \in DOMAIN inbox' : m[1] = "history" => m[2] = chat.session
      BY <2>3, <2>8, <3>1 DEF OwnMessages
    <3>3. \A m \in DOMAIN running' : m[1] = "fetch" => m[2] = chat.session
      BY <2>3, <2>8 DEF OwnMessages
    <3> QED
      BY <2>2, <2>6, <2>8, <3>2, <3>3 DEF OwnMessages
  <2> QED
    BY <2>2, <2>7, <2>8 DEF ChatInv, Conversing
<1>2. CASE HistoryLoaded(s)
  <2> DEFINE msg == <<"history", s>>
             line == Line(s, 0, 0)
  <2>1. Taken(msg) /\ UNCHANGED <<running, mixed, dropped, read, submits>>
    BY <1>2 DEF HistoryLoaded
  <2>2. /\ DOMAIN inbox' \subseteq DOMAIN inbox /\ msg \in DOMAIN inbox /\ msg[1] = "history" /\ msg[2] = s
        /\ \A m \in DOMAIN inbox : m # msg => m \in DOMAIN inbox' /\ inbox'[m] = inbox[m]
    BY <1>b, <2>1, TakenIs
  <2>3. line \in Lines /\ line.stream = 0 /\ line.at = 0 /\ line.session = s
    BY LineIs, ChatAssumption
  <2> HIDE DEF msg, line
  <2>4. \A m : m[1] \in {"event", "done"} => m # msg
    BY <2>2
  <2>5. Waits' = Waits /\ AnswersSent' = AnswersSent /\ \A m \in AnswersSent : inbox'[m] = inbox[m]
    BY <2>1, <2>2, <2>4 DEF Waits, AnswersSent
  <2>6. CASE chat = Unset
    <3>1. chat' = chat
      BY <1>2, <2>6 DEF HistoryLoaded
    <3> QED
      BY <2>1, <2>5, <2>6, <3>1 DEF ChatInv, Numbering, Conversing
  <2>7. CASE chat # Unset
    <3>1. chat \in Chats /\ chat' = [chat EXCEPT !.lines = Append(@, line)]
      BY <1>2, <2>7 DEF HistoryLoaded, ShowLine, TuiTypeOK, line
    <3>2. /\ chat'.stream = chat.stream /\ chat'.session = chat.session /\ chat'.streaming = chat.streaming
          /\ chat'.lines = Append(chat.lines, line) /\ chat.lines \in Seq(Lines)
      BY <3>1 DEF Chats
    <3>3. \A k \in DOMAIN chat'.lines : chat'.lines[k] = line \/ \E j \in DOMAIN chat.lines : chat'.lines[k] = chat.lines[j]
      BY <2>3, <3>2, LineAdded
    <3>4. Numbering'
      <4>1. chat.stream <= submits /\ \A j \in DOMAIN chat.lines : chat.lines[j].stream <= submits
        BY <2>7 DEF ChatInv, Numbering
      <4>2. \A k \in DOMAIN chat'.lines : chat'.lines[k].stream <= submits
        BY <1>b, <2>3, <3>3, <4>1
      <4> QED
        BY <2>1, <2>5, <3>2, <4>1, <4>2 DEF ChatInv, Numbering
    <3>5. ASSUME OwnMessages PROVE OwnMessages'
      <4>1. chat.session = s
        BY <2>2, <3>5 DEF OwnMessages
      <4>2. \A n : n # 0 => Told(chat'.lines, n) = Told(chat.lines, n)
        <5> SUFFICES ASSUME NEW n, n # 0 PROVE Told(chat'.lines, n) = Told(chat.lines, n)
          OBVIOUS
        <5>1. Told(Append(chat.lines, line), n) = Told(chat.lines, n) + 0 /\ Told(chat.lines, n) \in Nat
          BY <2>3, <3>2, LineAdded
        <5> QED
          BY <3>2, <5>1
      <4>3. LinesRight(chat'.lines, chat.session)
        <5>1. LinesRight(chat.lines, chat.session)
          BY <3>5 DEF OwnMessages
        <5> QED
          BY <2>3, <3>2, <4>1, <5>1, LineAdded
      <4>4. /\ \A m \in DOMAIN running' : m[1] = "fetch" => m[2] = chat.session
            /\ \A m \in DOMAIN inbox' : m[1] = "history" => m[2] = chat.session
        BY <2>1, <2>2, <3>5 DEF OwnMessages
      <4>5. (\A m \in Waits :
                /\ m = <<"wait", chat.stream>> /\ running[m] = 1 /\ AnswersSent = {} /\ chat.stream # 0
                /\ Told(chat.lines, chat.stream) = read[chat.stream] + 1)'
        BY <2>1, <2>5, <3>2, <3>5, <4>2 DEF OwnMessages
      <4>6. (\A m \in AnswersSent :
                /\ AnswersSent = {m} /\ inbox[m] = 1 /\ Waits = {} /\ m[2] = chat.stream /\ chat.stream # 0
                /\ m[1] = "event" => m[3] = Told(chat.lines, chat.stream) /\ m[3] = read[chat.stream])'
        BY <2>1, <2>5, <3>2, <3>5, <4>2 DEF OwnMessages
      <4>7. chat'.streaming = FALSE => Waits' = {} /\ AnswersSent' = {}
        BY <2>5, <3>2, <3>5 DEF OwnMessages
      <4> QED
        BY <3>2, <4>3, <4>4, <4>5, <4>6, <4>7 DEF OwnMessages
    <3> QED
      BY <2>1, <2>7, <3>4, <3>5 DEF ChatInv, Conversing
  <2> QED
    BY <2>6, <2>7
<1> QED
  BY <1>1, <1>2

\* The answer ends, or a message is lost to an open dialog.
LEMMA AnswerLeaves ==
    ASSUME TuiTypeOK, ChatInv,
           \/ \E n \in 1..MaxSubmits : StreamDone(n)
           \/ \E m \in BagToSet(inbox) : Captured(m)
    PROVE  ChatInv'
<1>b. IsABag(running) /\ IsABag(inbox) /\ submits \in Nat /\ dropped \in BOOLEAN
  BY ChatAssumption DEF TuiTypeOK
<1>1. CASE \E n \in 1..MaxSubmits : StreamDone(n)
  <2> PICK n \in 1..MaxSubmits : StreamDone(n)
    BY <1>1
  <2> DEFINE msg == <<"done", n>>
  <2>1. Taken(msg) /\ UNCHANGED <<running, mixed, dropped, read, submits>>
    BY DEF StreamDone
  <2>2. /\ msg \in AnswersSent /\ AnswersSent' \subseteq AnswersSent /\ (inbox[msg] = 1 => AnswersSent' = AnswersSent \ {msg})
        /\ DOMAIN inbox' \subseteq DOMAIN inbox
    BY <1>b, <2>1, TokenTaken, TakenIs DEF AnswersSent
  <2> HIDE DEF msg
  <2>3. Waits' = Waits /\ \A m \in Waits' \cup AnswersSent' : m[2] \in 1..submits
    BY <2>1, <2>2 DEF ChatInv, Numbering, Waits
  <2>4. CASE chat = Unset
    <3>1. chat' = chat
      BY <2>4 DEF StreamDone
    <3> QED
      BY <2>1, <2>3, <2>4, <3>1 DEF ChatInv, Numbering, Conversing
  <2>5. CASE chat # Unset
    <3>1. chat \in Chats /\ chat' = [chat EXCEPT !.streaming = FALSE]
      BY <2>5 DEF StreamDone, TuiTypeOK
    <3>2. chat'.stream = chat.stream /\ chat'.session = chat.session /\ chat'.lines = chat.lines
      BY <3>1 DEF Chats
    <3>3. Numbering'
      BY <2>1, <2>3, <2>5, <3>2 DEF ChatInv, Numbering
    <3>4. ASSUME OwnMessages PROVE OwnMessages'
      <4>1. AnswersSent = {msg} /\ inbox[msg] = 1 /\ Waits = {}
        BY <2>2, <3>4 DEF OwnMessages
      <4>2. AnswersSent' = {} /\ Waits' = {}
        BY <2>2, <2>3, <4>1
      <4>3. /\ \A m \in DOMAIN running' : m[1] = "fetch" => m[2] = chat.session
            /\ \A m \in DOMAIN inbox' : m[1] = "history" => m[2] = chat.session
        BY <2>1, <2>2, <3>4 DEF OwnMessages
      <4>4. LinesRight(chat.lines, chat.session)
        BY <3>4 DEF OwnMessages
      <4> QED
        BY <3>2, <4>2, <4>3, <4>4 DEF OwnMessages
    <3> QED
      BY <2>1, <2>5, <3>3, <3>4 DEF ChatInv, Conversing
  <2> QED
    BY <2>4, <2>5
<1>2. CASE \E m \in BagToSet(inbox) : Captured(m)
  <2> PICK m \in BagToSet(inbox) : Captured(m)
    BY <1>2
  <2>1. /\ Taken(m) /\ UNCHANGED <<chat, running, mixed, read, submits>>
        /\ dropped' = (dropped \/ m[1] \in {"event", "done"})
    BY DEF Captured
  <2>2. DOMAIN inbox' \subseteq DOMAIN inbox /\ \A x \in DOMAIN inbox : x # m => x \in DOMAIN inbox' /\ inbox'[x] = inbox[x]
    BY <1>b, <2>1, TakenIs
  <2>3. CASE m[1] \in {"event", "done"}
    <3>1. Waits' = Waits /\ AnswersSent' \subseteq AnswersSent
      BY <2>1, <2>2 DEF Waits, AnswersSent
    <3>2. dropped'
      BY <2>1, <2>3
    <3>3. \A x \in Waits' \cup AnswersSent' : x[2] \in 1..submits
      BY <3>1 DEF ChatInv, Numbering
    <3> QED
      BY <2>1, <3>2, <3>3 DEF ChatInv, Numbering, Conversing
  <2>4. CASE m[1] \notin {"event", "done"}
    <3>1. dropped' = dropped
      BY <1>b, <2>1, <2>4
    <3>2. \A x : x[1] \in {"event", "done"} => x # m
      BY <2>4
    <3>3. Quiet
      BY <2>1, <2>2, <3>1, <3>2 DEF Quiet, TalkSame, Waits, AnswersSent
    <3> QED
      BY <3>3, QuietChat
  <2> QED
    BY <2>3, <2>4
<1> QED
  BY <1>1, <1>2

\* A message is sent while no answer is under way.
LEMMA SendsChat == TuiTypeOK /\ ChatInv /\ PressSubmit => ChatInv'
<1> SUFFICES ASSUME TuiTypeOK, ChatInv, PressSubmit PROVE ChatInv'
  OBVIOUS
<1>b. IsABag(running) /\ IsABag(inbox) /\ submits \in Nat /\ submits < MaxSubmits /\ MaxSubmits \in Nat
  BY ChatAssumption DEF TuiTypeOK, PressSubmit
<1> DEFINE new == submits + 1
           line == Line(chat.session, new, 0)
           wait == <<"wait", new>>
<1>1. chat # Unset /\ chat \in Chats /\ chat.streaming = FALSE
  BY DEF PressSubmit, TakesInput, TuiTypeOK, Chats
<1>2. submits' = new /\ new \in 1..MaxSubmits /\ UNCHANGED <<inbox, mixed, dropped, read>>
  BY <1>b DEF PressSubmit, Otherwise, Unmoved
<1>3. line \in Lines /\ line.stream = new /\ line.at = 0 /\ line.session = chat.session
  BY <1>1, <1>2, LineIs, ChatAssumption DEF Chats
<1>4. /\ chat'.session = chat.session /\ chat'.lines = Append(chat.lines, line)
      /\ \/ chat'.stream = new /\ chat'.streaming = TRUE /\ running' = With(running, wait)
         \/ chat'.stream = chat.stream /\ chat'.streaming = FALSE /\ running' = running
  <2>1. CASE /\ chat' = [chat EXCEPT !.stream = submits', !.streaming = TRUE,
                                     !.lines = Append(@, Line(chat.session, submits', 0))]
             /\ running' = With(running, <<"wait", submits'>>)
    BY <1>1, <1>2, <2>1 DEF Chats
  <2>2. CASE ShowLine(Line(chat.session, submits', 0)) /\ UNCHANGED running
    BY <1>1, <1>2, <2>2 DEF ShowLine, Chats
  <2> QED
    BY <2>1, <2>2 DEF PressSubmit
<1>5. chat.lines \in Seq(Lines) /\ chat.stream \in Nat
  BY <1>1, ChatAssumption DEF Chats
<1> HIDE DEF line
<1>6. DOMAIN With(running, wait) = DOMAIN running \cup {wait} /\ (wait \notin DOMAIN running => With(running, wait)[wait] = 1)
  BY <1>b, Adding
<1>7. AnswersSent' = AnswersSent /\ Waits' \subseteq Waits \cup {wait} /\ (running' = running => Waits' = Waits)
  BY <1>2, <1>4, <1>6 DEF Waits, AnswersSent
<1>8. \A k \in DOMAIN chat'.lines : chat'.lines[k] = line \/ \E j \in DOMAIN chat.lines : chat'.lines[k] = chat.lines[j]
  BY <1>3, <1>4, <1>5, LineAdded
<1>9. chat.stream <= submits /\ \A j \in DOMAIN chat.lines : chat.lines[j].stream <= submits
  BY <1>1 DEF ChatInv, Numbering
<1>10. \A j \in DOMAIN chat.lines : chat.lines[j].stream \in Nat
  <2>1. \A l \in Lines : l.stream \in 0..MaxSubmits
    BY DEF Lines
  <2>2. \A j \in DOMAIN chat.lines : chat.lines[j] \in Lines
    BY <1>5
  <2> QED
    BY <1>b, <2>1, <2>2
<1>11. Numbering'
  <2>1. chat'.stream <= new
    BY <1>b, <1>4, <1>5, <1>9
  <2>2. \A k \in DOMAIN chat'.lines : chat'.lines[k].stream <= new
    <3>1. \A j \in DOMAIN chat.lines : chat.lines[j].stream <= new
      BY <1>b, <1>9, <1>10
    <3> QED
      BY <1>b, <1>3, <1>8, <3>1
  <2>3. \A m \in Waits' \cup AnswersSent' : m[2] \in 1..new
    <3>1. wait[2] \in 1..new /\ 1..submits \subseteq 1..new
      BY <1>b
    <3>2. \A m \in Waits \cup AnswersSent : m[2] \in 1..submits
      BY DEF ChatInv, Numbering
    <3> QED
      BY <1>7, <3>1, <3>2
  <2>4. \A n \in 1..MaxSubmits : n > new => read[n] = 0
    BY <1>b DEF ChatInv, Numbering
  <2> QED
    BY <1>2, <2>1, <2>2, <2>3, <2>4 DEF Numbering
<1>12. ASSUME OwnMessages PROVE OwnMessages'
  <2>1. Waits = {} /\ AnswersSent = {}
    BY <1>1, <1>12 DEF OwnMessages
  <2>2. Told(chat.lines, new) = 0 /\ read[new] = 0
    <3>1. {j \in DOMAIN chat.lines : chat.lines[j].stream = new} = {}
      BY <1>b, <1>9, <1>10
    <3>2. read[new] = 0
      BY <1>b, <1>2 DEF ChatInv, Numbering
    <3> QED
      BY <3>1, <3>2, FS_EmptySet DEF Told
  <2>3. Told(chat'.lines, new) = 1
    <3>1. Told(Append(chat.lines, line), new) = Told(chat.lines, new) + 1
      BY <1>3, <1>5, LineAdded
    <3> QED
      BY <1>4, <2>2, <3>1
  <2>4. LinesRight(chat'.lines, chat.session)
    <3>1. LinesRight(chat.lines, chat.session)
      BY <1>12 DEF OwnMessages
    <3> QED
      BY <1>3, <1>4, <1>5, <2>2, <3>1, LineAdded
  <2>5. /\ \A m \in DOMAIN running' : m[1] = "fetch" => m[2] = chat.session
        /\ \A m \in DOMAIN inbox' : m[1] = "history" => m[2] = chat.session
    BY <1>2, <1>4, <1>6, <1>12 DEF OwnMessages
  <2>6. AnswersSent' = {}
    BY <1>7, <2>1
  <2>7. CASE chat'.stream = chat.stream /\ chat'.streaming = FALSE /\ running' = running
    <3>1. Waits' = {}
      BY <1>7, <2>1, <2>7
    <3> QED
      BY <1>4, <2>4, <2>5, <2>6, <3>1 DEF OwnMessages
  <2>8. CASE chat'.stream = new /\ chat'.streaming = TRUE /\ running' = With(running, wait)
    <3>1. wait \notin DOMAIN running
      BY <2>1 DEF Waits
    <3>2. running'[wait] = 1 /\ Waits' \subseteq {wait}
      BY <1>6, <1>7, <2>1, <2>8, <3>1
    <3>3. (\A m \in Waits :
              /\ m = <<"wait", chat.stream>> /\ running[m] = 1 /\ AnswersSent = {} /\ chat.stream # 0
              /\ Told(chat.lines, chat.stream) = read[chat.stream] + 1)'
      BY <1>b, <1>2, <2>2, <2>3, <2>6, <2>8, <3>2
    <3> QED
      BY <1>4, <2>4, <2>5, <2>6, <2>8, <3>3 DEF OwnMessages
  <2> QED
    BY <1>4, <2>7, <2>8
<1> QED
  BY <1>1, <1>2, <1>11, <1>12 DEF ChatInv, Conversing

LEMMA ChatStep == TuiTypeOK /\ ChatInv /\ [TuiNext]_chatVars => ChatInv'
<1> SUFFICES ASSUME TuiTypeOK, ChatInv, [TuiNext]_chatVars PROVE ChatInv'
  OBVIOUS
<1>b. IsABag(running) /\ IsABag(inbox)
  BY DEF TuiTypeOK
<1>1. CASE \E a \in ChatAgents : AgentChosen(a)
  <2> PICK a \in ChatAgents : AgentChosen(a)
    BY <1>1
  <2>1. /\ Taken(<<"chosen", a>>) /\ chat' = Unset /\ running' = With(running, <<"load">>)
        /\ UNCHANGED <<read, submits>>
    BY DEF AgentChosen
  <2>2. DOMAIN running' = DOMAIN running \cup {<<"load">>} /\ DOMAIN inbox' \subseteq DOMAIN inbox
    BY <1>b, <2>1, Adding, TakenIs
  <2>3. Waits' \subseteq Waits /\ AnswersSent' \subseteq AnswersSent
    BY <2>2 DEF Waits, AnswersSent
  <2> QED
    BY <2>1, <2>3 DEF ChatInv, Numbering, Conversing
<1>2. CASE \E s \in ChatSessions : SessionSelected(s)
  <2> PICK s \in ChatSessions : SessionSelected(s)
    BY <1>2
  <2>1. Taken(<<"selected", s>>) /\ startChat(s, {<<"fetch", s>>}) /\ UNCHANGED <<read, submits>>
    BY DEF SessionSelected
  <2> QED
    BY <2>1, BeginsChat
<1>3. CASE \E s \in ChatSessions \cup {Unset} : SessionCreated(s)
  <2> PICK s \in ChatSessions \cup {Unset} : SessionCreated(s)
    BY <1>3
  <2>1. CASE s # Unset
    <3>1. Taken(<<"created", s>>) /\ startChat(s, {}) /\ UNCHANGED <<read, submits>>
      BY <2>1 DEF SessionCreated
    <3> QED
      BY <2>1, <3>1, BeginsChat
  <2>2. CASE s = Unset
    BY <2>2, QuietSteps, QuietChat
  <2> QED
    BY <2>1, <2>2
<1> QED
  BY <1>1, <1>2, <1>3, QuietSteps, QuietChat, ReadChat, ShowsChat, HistoryMoves, AnswerLeaves, SendsChat DEF TuiNext

\* A chat shows one conversation: its session's history, and each message followed by
\* the events of its answer in their order, none lost and none of another chat's,
\* unless something of an earlier chat was under way when it began or an event met
\* an open dialog (workspace.go, chat.go).
THEOREM ChatIsOne == TuiSpec => []OneConversation
<1>1. TuiInit => ChatInv
  <2>1. DOMAIN EmptyBag = {}
    BY DEF EmptyBag, SetToBag
  <2> QED
    BY <2>1 DEF TuiInit, ChatInv, Numbering, Conversing, Waits, AnswersSent
<1>2. TuiTypeOK /\ TuiTypeOK' /\ ChatInv /\ [TuiNext]_chatVars => ChatInv'
  BY ChatStep
<1>3. ChatInv => OneConversation
  BY DEF ChatInv, Conversing, OwnMessages, LinesRight, OneConversation
<1> QED
  BY TuiTypeCorrect, <1>1, <1>2, <1>3, PTL DEF TuiSpec

----------------------------------------------------------------------------
(* The deploy command: a manifest deployed is deployed whole. *)

\* What a write has put into its object is there: in an object all of it; in a Secret,
\* which others may share, each key, with the value of one of the manifest's writes of it.
AllSecrets(m) == UNION {Secrets(m, part) : part \in PartsOf(m)}
Claims(m, obj, k) == {v.data[k] : v \in {v \in AllSecrets(m) : v.obj = obj /\ k \in DOMAIN v.data}}
SecretKept(st, m, w) ==
    /\ st[w.obj].rv > 0
    /\ \A k \in DOMAIN w.data : k \in DOMAIN st[w.obj].data /\ st[w.obj].data[k] \in Claims(m, w.obj, k)
ObjectKept(st, w) == st[w.obj].rv > 0 /\ st[w.obj].data = w.data

SecretDone(st, m, w) == SecretKept(st, m, w) /\ w.needs \subseteq DOMAIN m.shell
PartDone(st, m, part) ==
    /\ \A w \in Secrets(m, part) : SecretDone(st, m, w)
    /\ ObjectKept(st, ObjectOf(m, part))

StoreShape == \A o \in Objects : store[o] = [rv |-> store[o].rv, data |-> store[o].data]
AgentStored ==
    (AgentObject \in Objects /\ store[AgentObject].rv > 0) =>
        store[AgentObject].data \in {[refs |-> DOMAIN m.env] : m \in Manifests}

\* What a command is about to write belongs to the part it is at.
WriteInv ==
    \A d \in Deployers : (job[d] # Absent /\ job[d].seen # Absent) =>
        /\ Writing(d) /\ job[d].write \in ToWrite(d)
        /\ job[d].write.needs \subseteq DOMAIN job[d].m.shell

\* The image is pushed, and nodes have no program but it that they did not have before.
Pushed(image, nodes, r) == image = r.m.code /\ nodes \subseteq r.older \cup {r.m.code}

\* What a command that has the field to itself has done so far.
AloneInv ==
    \A d \in Deployers : (job[d] # Absent /\ job[d].alone) =>
        /\ \A e \in Deployers \ {d} : job[e] = Absent
        /\ job[d].at > 0 => Pushed(registry, nodeImages, job[d])
        /\ \A part \in PartsOf(job[d].m) : part < job[d].at => PartDone(store, job[d].m, part)
        /\ job[d].at \in PartsOf(job[d].m) =>
              \A w \in Secrets(job[d].m, job[d].at) \ job[d].left : SecretDone(store, job[d].m, w)

PodsCurrent ==
    (pods # Absent /\ pods.rev = deployment.rev) =>
        pods.env = [k \in deployment.refs |-> store[EnvSecret(AgentName)].data[k]]

Rests == last.told /\ \A d \in Deployers : job[d] = Absent
RestInv ==
    Rests => /\ last.m \in Manifests /\ Pushed(registry, nodeImages, last) /\ PodsCurrent
             /\ \A part \in PartsOf(last.m) : PartDone(store, last.m, part)

DeployInv == DeployTypeOK /\ StoreShape /\ AgentStored /\ WriteInv /\ AloneInv /\ RestInv

\* The objects of a manifest are of four kinds, told apart by their names.
LEMMA ObjectsApart ==
    /\ \A n, t, h : <<"Secret", n, h>> # AgentObject /\ <<"Secret", n, h>> # <<t, n>>
    /\ \A n, t, h, k : <<"Secret", n, h>> # <<t, k>>
    /\ \A k, n : k \in {"remote", "command"} => <<k, n>> # AgentObject
BY DEF AgentObject

LEMMA SameSecret ==
    ASSUME NEW n, NEW h, NEW o, NEW k, <<"Secret", n, h>> = <<"Secret", o, k>>
    PROVE  n = o /\ h = k
<1>1. <<"Secret", n, h>>[2] = <<"Secret", o, k>>[2] /\ <<"Secret", n, h>>[3] = <<"Secret", o, k>>[3]
  OBVIOUS
<1> QED
  BY <1>1

\* A manifest has a name for each server, and the parts after the first are its servers.
LEMMA ManifestShape ==
    ASSUME NEW m \in Manifests
    PROVE  /\ Len(m.servers) \in Nat
           /\ DOMAIN m.servers = 1..Len(m.servers)
           /\ 1 \in PartsOf(m)
           /\ \A part \in PartsOf(m) : part # 1 => part - 1 \in DOMAIN m.servers
<1>1. m.servers \in Seq({m.servers[i] : i \in DOMAIN m.servers})
  BY ManifestsAssumption
<1>2. Len(m.servers) \in Nat /\ DOMAIN m.servers = 1..Len(m.servers)
  BY <1>1
<1> QED
  BY <1>2 DEF PartsOf

\* What a write for a header, and for the variables of an env, puts where.
LEMMA HeaderWrite ==
    ASSUME NEW s, NEW shell, NEW h \in DOMAIN s.fields.refs, NEW w, w = processHeaderValue(s, shell, h)
    PROVE  /\ w.obj = HeaderSecret(s, h) /\ w.how = "merge" /\ w.needs = {s.fields.refs[h]}
           /\ DOMAIN w.data \subseteq {sanitizeForSecretKey[h]}
           /\ \A k \in DOMAIN w.data : w.data[k] = shell[s.fields.refs[h]]
           /\ s.fields.refs[h] \in DOMAIN shell => sanitizeForSecretKey[h] \in DOMAIN w.data
BY DEF processHeaderValue, Write, Values

LEMMA EnvWritten ==
    ASSUME NEW s, NEW shell, NEW w, w = EnvWrite(s, shell)
    PROVE  /\ w.obj = EnvSecret(s.name) /\ w.how = "merge"
           /\ w.needs = {s.fields.refs[n] : n \in DOMAIN s.fields.refs}
           /\ \A k \in DOMAIN w.data : /\ k \in {ToLower[n] : n \in DOMAIN s.fields.refs}
                                      /\ w.data[k] = shell[s.fields.refs[s.wins[k]]]
           /\ \A n \in DOMAIN s.fields.refs :
                s.fields.refs[s.wins[ToLower[n]]] \in DOMAIN shell => ToLower[n] \in DOMAIN w.data
BY DEF EnvWrite, Write, Values

\* A Secret of a server is merged into, and has the values of names with that place.
LEMMA SecretOfServer ==
    ASSUME NEW m \in Manifests, NEW part \in PartsOf(m), part # 1, NEW w \in Secrets(m, part)
    PROVE  LET s == m.servers[part - 1]
           IN /\ w.how = "merge" /\ \E h : w.obj = <<"Secret", s.name, h>>
              /\ \A k \in DOMAIN w.data : \E l \in DOMAIN s.fields.refs :
                    Place(s, l) = <<w.obj, k>> /\ w.data[k] = m.shell[s.fields.refs[l]]
<1> DEFINE s == m.servers[part - 1]
<1>3. part - 1 \in DOMAIN m.servers /\ s.kind \in {"remote", "command"}
  BY ManifestShape, ManifestsAssumption
<1>1. CASE s.kind = "remote"
  <2>1. PICK h \in DOMAIN s.fields.refs : w = processHeaderValue(s, m.shell, h)
    BY <1>1 DEF Secrets, HeaderWrites
  <2> HIDE DEF s
  <2>2. /\ w.obj = HeaderSecret(s, h) /\ w.how = "merge"
        /\ DOMAIN w.data \subseteq {sanitizeForSecretKey[h]}
        /\ \A k \in DOMAIN w.data : w.data[k] = m.shell[s.fields.refs[h]]
    BY <2>1, HeaderWrite
  <2>3. \A k \in DOMAIN w.data : Place(s, h) = <<w.obj, k>>
    BY <1>1, <2>2 DEF Place
  <2>4. w.obj = <<"Secret", s.name, sanitizeForSecretName[h]>>
    BY <2>2 DEF HeaderSecret
  <2> QED
    BY <2>2, <2>3, <2>4 DEF s
<1>2. CASE s.kind = "command"
  <2>1. w = EnvWrite(s, m.shell)
    BY <1>2 DEF Secrets, EnvWrites
  <2>2. \A n \in DOMAIN s.fields.refs : s.wins[ToLower[n]] \in {l \in DOMAIN s.fields.refs : ToLower[l] = ToLower[n]}
    BY <1>2, <1>3, ManifestsAssumption
  <2> HIDE DEF s
  <2>3. /\ w.obj = EnvSecret(s.name) /\ w.how = "merge"
        /\ \A k \in DOMAIN w.data : /\ k \in {ToLower[n] : n \in DOMAIN s.fields.refs}
                                   /\ w.data[k] = m.shell[s.fields.refs[s.wins[k]]]
    BY <2>1, EnvWritten
  <2>4. ASSUME NEW k \in DOMAIN w.data
        PROVE  \E l \in DOMAIN s.fields.refs : Place(s, l) = <<w.obj, k>> /\ w.data[k] = m.shell[s.fields.refs[l]]
    <3>1. PICK n \in DOMAIN s.fields.refs : k = ToLower[n]
      BY <2>3
    <3>2. s.wins[k] \in DOMAIN s.fields.refs /\ ToLower[s.wins[k]] = k
      BY <2>2, <3>1
    <3>3. Place(s, s.wins[k]) = <<w.obj, k>>
      BY <1>2, <2>3, <3>2 DEF Place
    <3> QED
      BY <2>3, <3>2, <3>3
  <2>5. w.obj = <<"Secret", s.name, "env">>
    BY <2>3 DEF EnvSecret
  <2> QED
    BY <2>3, <2>4, <2>5 DEF s
<1> QED
  BY <1>1, <1>2, <1>3

LEMMA SecretObject ==
    ASSUME NEW m \in Manifests, NEW part \in PartsOf(m), NEW w \in Secrets(m, part)
    PROVE  \E n, h : w.obj = <<"Secret", n, h>>
<1>1. CASE part = 1
  BY <1>1 DEF Secrets, createEnvFileSecret, Write, EnvSecret
<1>2. CASE part # 1
  BY <1>2, SecretOfServer
<1> QED
  BY <1>1, <1>2

LEMMA PartObject ==
    ASSUME NEW m \in Manifests, NEW part \in PartsOf(m)
    PROVE  /\ ObjectOf(m, part).how = "replace" /\ ObjectOf(m, part).needs = {}
           /\ \E t, n : ObjectOf(m, part).obj = <<t, n>>
           /\ ObjectOf(m, part).obj = AgentObject <=> part = 1
<1>1. CASE part = 1
  BY <1>1 DEF ObjectOf, createAgentCRD, Write, AgentObject
<1>2. CASE part # 1
  <2> DEFINE s == m.servers[part - 1]
  <2>1. s.kind \in {"remote", "command"}
    BY <1>2, ManifestShape, ManifestsAssumption
  <2>2. ObjectOf(m, part) = Write(ServerObject(s), "replace", s.fields, {})
    BY <1>2 DEF ObjectOf
  <2> QED
    BY <1>2, <2>1, <2>2, ObjectsApart DEF Write, ServerObject
<1> QED
  BY <1>1, <1>2

LEMMA WritesTyped ==
    ASSUME NEW m \in Manifests, NEW part \in PartsOf(m)
    PROVE  /\ Secrets(m, part) \subseteq AllWrites /\ ObjectOf(m, part) \in AllWrites
           /\ \A w \in WritesOf(m, part) : w \in AllWrites /\ w.obj \in Objects
BY DEF WritesOf, PlannedWrites, AllWrites, Objects

\* No two parts write one object.
LEMMA ObjectsOnce ==
    ASSUME NEW m \in Manifests, NEW p \in PartsOf(m), NEW q \in PartsOf(m), p # q
    PROVE  ObjectOf(m, p).obj # ObjectOf(m, q).obj
<1>1. CASE p = 1 \/ q = 1
  BY <1>1, PartObject
<1>2. CASE p # 1 /\ q # 1
  <2>1. p - 1 \in DOMAIN m.servers /\ q - 1 \in DOMAIN m.servers /\ p - 1 # q - 1
    BY <1>2, ManifestShape DEF PartsOf
  <2>2. m.servers[p - 1].name # m.servers[q - 1].name
    BY <2>1, ManifestsAssumption
  <2>3. /\ ObjectOf(m, p).obj = ServerObject(m.servers[p - 1])
        /\ ObjectOf(m, q).obj = ServerObject(m.servers[q - 1])
    BY <1>2 DEF ObjectOf, Write
  <2> QED
    BY <2>2, <2>3 DEF ServerObject
<1> QED
  BY <1>1, <1>2

\* A Secret that is replaced is the agent's, and the first to be written.
LEMMA ReplacedFirst ==
    ASSUME NEW m \in Manifests, NEW q \in PartsOf(m), NEW w \in Secrets(m, q)
    PROVE  \/ w.how = "merge"
           \/ q = 1 /\ \A p \in PartsOf(m) : p <= q => p = q /\ Secrets(m, p) = {w}
<1>1. CASE q = 1
  BY <1>1 DEF Secrets, PartsOf
<1>2. CASE q # 1
  BY <1>2, SecretOfServer
<1> QED
  BY <1>1, <1>2

----------------------------------------------------------------------------
(* What a write changes. *)

\* The store after a write: one object is changed.
AfterWrite(st, w) ==
    [st EXCEPT ![w.obj] =
        [rv   |-> st[w.obj].rv + 1,
         data |-> IF st[w.obj].rv = 0 \/ w.how = "replace" THEN w.data ELSE Merged(st[w.obj].data, w.data)]]

StoreTyped(st) == DOMAIN st = Objects /\ \A o \in Objects : st[o].rv \in Nat

LEMMA AfterWriteShape ==
    ASSUME NEW st, StoreTyped(st), NEW w \in AllWrites
    PROVE  /\ DOMAIN AfterWrite(st, w) = Objects
           /\ \A o \in Objects : o # w.obj => AfterWrite(st, w)[o] = st[o]
           /\ AfterWrite(st, w)[w.obj] =
                [rv   |-> st[w.obj].rv + 1,
                 data |-> IF st[w.obj].rv = 0 \/ w.how = "replace" THEN w.data ELSE Merged(st[w.obj].data, w.data)]
           /\ st[w.obj].rv \in Nat
<1>1. w.obj \in Objects
  BY DEF Objects
<1> QED
  BY <1>1 DEF AfterWrite, StoreTyped

HasKeys(f, keys, g) == \A k \in keys : k \in DOMAIN f /\ f[k] = g[k]

LEMMA MergedKeys ==
    ASSUME NEW x, NEW y
    PROVE  /\ HasKeys(Merged(x, y), DOMAIN y, y)
           /\ HasKeys(Merged(x, y), DOMAIN x \ DOMAIN y, x)
BY DEF Merged, HasKeys

\* An object is replaced by what is written.
LEMMA ObjectIsKept ==
    ASSUME NEW st, StoreTyped(st), NEW w \in AllWrites, w.how = "replace"
    PROVE  ObjectKept(AfterWrite(st, w), w)
<1> DEFINE old == st[w.obj]   new == AfterWrite(st, w)[w.obj]
<1>1. /\ new = [rv |-> old.rv + 1, data |-> IF old.rv = 0 \/ w.how = "replace" THEN w.data ELSE Merged(old.data, w.data)]
      /\ old.rv \in Nat
  BY AfterWriteShape
<1> HIDE DEF old, new
<1>2. new.rv > 0 /\ new.data = w.data
  BY <1>1
<1> QED
  BY <1>2 DEF ObjectKept, new

\* A Secret has the keys that are written, with their values, and keeps the others
\* where it is merged into.
LEMMA KeysAfterWrite ==
    ASSUME NEW st, StoreTyped(st), NEW w \in AllWrites
    PROVE  /\ AfterWrite(st, w)[w.obj].rv > 0
           /\ HasKeys(AfterWrite(st, w)[w.obj].data, DOMAIN w.data, w.data)
           /\ (w.how = "merge" /\ st[w.obj].rv > 0) =>
                HasKeys(AfterWrite(st, w)[w.obj].data, DOMAIN st[w.obj].data \ DOMAIN w.data, st[w.obj].data)
<1> DEFINE old == st[w.obj]   new == AfterWrite(st, w)[w.obj]
<1>1. /\ new = [rv |-> old.rv + 1, data |-> IF old.rv = 0 \/ w.how = "replace" THEN w.data ELSE Merged(old.data, w.data)]
      /\ old.rv \in Nat
  BY AfterWriteShape
<1> HIDE DEF old, new
<1>2. new.rv > 0
  BY <1>1
<1>3. new.data = w.data \/ new.data = Merged(old.data, w.data)
  BY <1>1
<1>4. HasKeys(w.data, DOMAIN w.data, w.data)
  BY DEF HasKeys
<1>5. HasKeys(new.data, DOMAIN w.data, w.data)
  BY <1>3, <1>4, MergedKeys
<1>6. ASSUME w.how = "merge", old.rv > 0
      PROVE  HasKeys(new.data, DOMAIN old.data \ DOMAIN w.data, old.data)
  <2>1. new.data = Merged(old.data, w.data)
    BY <1>1, <1>6
  <2> QED
    BY <2>1, MergedKeys
<1> QED
  BY <1>2, <1>5, <1>6 DEF new, old

\* What another object holds is left alone.
LEMMA OthersAreKept ==
    ASSUME NEW st, StoreTyped(st), NEW m, NEW w \in AllWrites, NEW v \in AllWrites, v.obj # w.obj
    PROVE  /\ SecretKept(st, m, v) => SecretKept(AfterWrite(st, w), m, v)
           /\ ObjectKept(st, v) => ObjectKept(AfterWrite(st, w), v)
<1>1. AfterWrite(st, w)[v.obj] = st[v.obj]
  <2>1. v.obj \in Objects
    BY DEF Objects
  <2> QED
    BY <2>1, AfterWriteShape
<1> QED
  BY <1>1 DEF SecretKept, ObjectKept

\* A Secret that is written has its keys, with values the manifest gives them.
LEMMA SecretIsKept ==
    ASSUME NEW st, StoreTyped(st), NEW m \in Manifests, NEW q \in PartsOf(m), NEW w \in Secrets(m, q)
    PROVE  /\ SecretKept(AfterWrite(st, w), m, w)
           /\ \A k \in DOMAIN w.data : w.data[k] \in Claims(m, w.obj, k)
<1>1. \A k \in DOMAIN w.data : w.data[k] \in Claims(m, w.obj, k)
  BY DEF Claims, AllSecrets
<1>2. w \in AllWrites
  BY WritesTyped
<1> QED
  BY <1>1, <1>2, KeysAfterWrite DEF SecretKept, HasKeys

\* A Secret of a part keeps the Secrets of the parts up to it, and every object.
LEMMA SecretWritten ==
    ASSUME NEW st, StoreTyped(st), NEW m \in Manifests, NEW q \in PartsOf(m), NEW w \in Secrets(m, q)
    PROVE  /\ SecretKept(AfterWrite(st, w), m, w)
           /\ \A p \in PartsOf(m) : p <= q =>
                \A v \in Secrets(m, p) : SecretKept(st, m, v) => SecretKept(AfterWrite(st, w), m, v)
           /\ \A p \in PartsOf(m) :
                ObjectKept(st, ObjectOf(m, p)) => ObjectKept(AfterWrite(st, w), ObjectOf(m, p))
<1>1. w \in AllWrites
  BY WritesTyped
<1>2. /\ SecretKept(AfterWrite(st, w), m, w)
      /\ \A k \in DOMAIN w.data : w.data[k] \in Claims(m, w.obj, k)
  BY SecretIsKept
<1>3. ASSUME NEW p \in PartsOf(m), p <= q, NEW v \in Secrets(m, p), SecretKept(st, m, v)
      PROVE  SecretKept(AfterWrite(st, w), m, v)
  <2>1. v \in AllWrites
    BY WritesTyped
  <2>2. CASE v = w
    BY <1>2, <2>2
  <2>3. CASE v.obj # w.obj
    BY <1>1, <1>3, <2>1, <2>3, OthersAreKept
  <2>4. CASE v # w /\ v.obj = w.obj
    <3> DEFINE old == st[w.obj]   new == AfterWrite(st, w)[w.obj]
    <3>1. w.how = "merge"
      BY <1>3, <2>4, ReplacedFirst
    <3>2. /\ old.rv > 0
          /\ \A k \in DOMAIN v.data : k \in DOMAIN old.data /\ old.data[k] \in Claims(m, w.obj, k)
      BY <1>3, <2>4 DEF SecretKept
    <3>3. /\ new.rv > 0 /\ HasKeys(new.data, DOMAIN w.data, w.data)
          /\ HasKeys(new.data, DOMAIN old.data \ DOMAIN w.data, old.data)
      BY <1>1, <3>1, <3>2, KeysAfterWrite
    <3> HIDE DEF old, new
    <3>4. ASSUME NEW k \in DOMAIN v.data
          PROVE  k \in DOMAIN new.data /\ new.data[k] \in Claims(m, w.obj, k)
      <4>1. CASE k \in DOMAIN w.data
        BY <1>2, <3>3, <4>1 DEF HasKeys
      <4>2. CASE k \notin DOMAIN w.data
        BY <3>2, <3>3, <4>2 DEF HasKeys
      <4> QED
        BY <4>1, <4>2
    <3> QED
      BY <2>4, <3>3, <3>4 DEF SecretKept, new
  <2> QED
    BY <2>2, <2>3, <2>4
<1>4. ASSUME NEW p \in PartsOf(m), ObjectKept(st, ObjectOf(m, p))
      PROVE  ObjectKept(AfterWrite(st, w), ObjectOf(m, p))
  <2>1. PICK n, h : w.obj = <<"Secret", n, h>>
    BY SecretObject
  <2>2. PICK t, k : ObjectOf(m, p).obj = <<t, k>>
    BY PartObject
  <2>3. ObjectOf(m, p).obj # w.obj
    BY <2>1, <2>2, ObjectsApart
  <2>4. ObjectOf(m, p) \in AllWrites
    BY WritesTyped
  <2> QED
    BY <1>1, <1>4, <2>3, <2>4, OthersAreKept
<1> QED
  BY <1>2, <1>3, <1>4

\* An object of a part keeps every Secret, and the objects of the other parts.
LEMMA ObjectWritten ==
    ASSUME NEW st, StoreTyped(st), NEW m \in Manifests, NEW q \in PartsOf(m)
    PROVE  /\ ObjectKept(AfterWrite(st, ObjectOf(m, q)), ObjectOf(m, q))
           /\ \A p \in PartsOf(m) : \A v \in Secrets(m, p) :
                SecretKept(st, m, v) => SecretKept(AfterWrite(st, ObjectOf(m, q)), m, v)
           /\ \A p \in PartsOf(m) :
                ObjectKept(st, ObjectOf(m, p)) => ObjectKept(AfterWrite(st, ObjectOf(m, q)), ObjectOf(m, p))
<1> DEFINE w == ObjectOf(m, q)
<1>1. w \in AllWrites
  BY WritesTyped
<1>2. ObjectKept(AfterWrite(st, w), w)
  BY <1>1, ObjectIsKept, PartObject
<1>3. ASSUME NEW p \in PartsOf(m), NEW v \in Secrets(m, p), SecretKept(st, m, v)
      PROVE  SecretKept(AfterWrite(st, w), m, v)
  <2>1. PICK n, h : v.obj = <<"Secret", n, h>>
    BY SecretObject
  <2>2. PICK t, k : w.obj = <<t, k>>
    BY PartObject
  <2>3. v.obj # w.obj
    BY <2>1, <2>2, ObjectsApart
  <2>4. v \in AllWrites
    BY WritesTyped
  <2> QED
    BY <1>1, <1>3, <2>3, <2>4, OthersAreKept
<1>4. ASSUME NEW p \in PartsOf(m), ObjectKept(st, ObjectOf(m, p))
      PROVE  ObjectKept(AfterWrite(st, w), ObjectOf(m, p))
  <2>1. CASE p = q
    BY <1>2, <2>1
  <2>2. CASE p # q
    <3>1. ObjectOf(m, p).obj # w.obj
      BY <2>2, ObjectsOnce
    <3>2. ObjectOf(m, p) \in AllWrites
      BY WritesTyped
    <3> QED
      BY <1>1, <1>4, <3>1, <3>2, OthersAreKept
  <2> QED
    BY <2>1, <2>2
<1> QED
  BY <1>2, <1>3, <1>4

----------------------------------------------------------------------------
(* The steps of a command. *)

StoreOK ==
    /\ DOMAIN store = Objects
    /\ \A o \in Objects : store[o].rv \in Nat /\ (store[o].rv = 0 => store[o].data = Absent)
JobsOK ==
    /\ job \in [Deployers -> DeployJobs \cup {Absent}]
    /\ \A d \in Deployers : job[d] # Absent =>
          /\ job[d].at \in 0..Len(job[d].m.servers) + 2
          /\ job[d].left # {} => job[d].at \in PartsOf(job[d].m) /\ job[d].left \subseteq Secrets(job[d].m, job[d].at)
ClusterOK ==
    /\ deployment \in Deployments \cup {Absent}
    /\ pods # Absent => deployment # Absent /\ pods.rev \in 0..deployment.rev /\ pods.code \in nodeImages
    /\ registry \in Programs \cup {Absent} /\ nodeImages \subseteq Programs
CountsOK == last.told \in BOOLEAN /\ deploys \in 0..MaxDeploys /\ deployFaults \in 0..MaxDeployFaults

LEMMA DeployTypeParts == DeployTypeOK <=> (StoreOK /\ JobsOK /\ ClusterOK /\ CountsOK)
BY DEF DeployTypeOK, StoreOK, JobsOK, ClusterOK, CountsOK

\* What a step of a command leaves to the others.
OtherJobs(d) == \A e \in Deployers \ {d} : job'[e] = job[e]

LEMMA JobTyped ==
    ASSUME JobsOK, NEW d \in Deployers, job[d] # Absent
    PROVE  /\ job[d] \in DeployJobs /\ job[d].m \in Manifests /\ job[d].at \in Nat
           /\ job[d].left \subseteq AllWrites /\ job[d].older \in SUBSET Programs
BY DEF JobsOK, DeployJobs

\* A command that has the field to itself is the only one.
LEMMA AloneOnly ==
    ASSUME AloneInv, NEW d \in Deployers, job[d] # Absent,
           NEW e \in Deployers, job[e] # Absent, job[e].alone
    PROVE  e = d
BY DEF AloneInv

LEMMA EndsJobs ==
    ASSUME JobsOK, WriteInv, AloneInv, NEW d \in Deployers, job[d] # Absent, NEW told, Ends(d, told)
    PROVE  /\ JobsOK' /\ WriteInv' /\ AloneInv'
           /\ job'[d] = Absent /\ OtherJobs(d)
           /\ last' = [m |-> job[d].m, told |-> told, older |-> job[d].older]
<1>1. job' \in [Deployers -> DeployJobs \cup {Absent}] /\ job'[d] = Absent /\ OtherJobs(d)
  BY DEF Ends, JobsOK, OtherJobs
<1>2. last' = [m |-> job[d].m, told |-> told, older |-> job[d].older]
  BY DEF Ends
<1>3. JobsOK'
  BY <1>1 DEF JobsOK, OtherJobs
<1>4. WriteInv'
  BY <1>1 DEF WriteInv, OtherJobs, Writing, ToWrite
<1>5. AloneInv'
  <2>1. \A e \in Deployers : job'[e] # Absent => ~ job'[e].alone
    BY <1>1, AloneOnly DEF OtherJobs
  <2> QED
    BY <2>1 DEF AloneInv
<1> QED
  BY <1>1, <1>2, <1>3, <1>4, <1>5

\* The command after it went on to a part.
LEMMA GoesToJob ==
    ASSUME JobsOK, WriteInv, NEW d \in Deployers, job[d] # Absent,
           NEW at \in Nat, at \in 0..Len(job[d].m.servers) + 2,
           NEW older \in SUBSET Programs, GoesTo(d, at, older)
    PROVE  /\ JobsOK' /\ WriteInv' /\ OtherJobs(d) /\ job'[d] # Absent
           /\ job'[d].m = job[d].m /\ job'[d].alone = job[d].alone /\ job'[d].at = at /\ job'[d].older = older
           /\ at \in PartsOf(job[d].m) => job'[d].left = Secrets(job[d].m, at)
<1> DEFINE m == job[d].m   left == IF at \in PartsOf(m) THEN Secrets(m, at) ELSE {}
           r == [job[d] EXCEPT !.at = at, !.write = Absent, !.seen = Absent, !.older = older, !.left = left]
<1>1. job[d] \in DeployJobs /\ m \in Manifests
  BY JobTyped
<1>2. left \subseteq AllWrites
  BY <1>1, WritesTyped
<1>3. job' = [job EXCEPT ![d] = r]
  BY DEF GoesTo
<1> HIDE DEF left
<1>4. /\ r \in DeployJobs
      /\ r.m = m /\ r.alone = job[d].alone /\ r.at = at /\ r.left = left /\ r.seen = Absent /\ r.older = older
  BY <1>1, <1>2 DEF DeployJobs
<1> HIDE DEF r, m
<1>5. job' \in [Deployers -> DeployJobs \cup {Absent}] /\ job'[d] = r /\ OtherJobs(d) /\ r # Absent
  BY <1>3, <1>4, DeployAssumption DEF JobsOK, OtherJobs
<1>6. JobsOK'
  <2>1. r.left # {} => r.at \in PartsOf(r.m) /\ r.left \subseteq Secrets(r.m, r.at)
    BY <1>4 DEF left
  <2>2. r.at \in 0..Len(r.m.servers) + 2
    BY <1>4 DEF m
  <2> QED
    BY <1>5, <2>1, <2>2 DEF JobsOK, OtherJobs
<1>7. WriteInv'
  BY <1>4, <1>5 DEF WriteInv, OtherJobs, Writing, ToWrite
<1> QED
  BY <1>4, <1>5, <1>6, <1>7 DEF left, m

\* A command that ends without a word of success, whatever else happened.
LEMMA EndsUntold ==
    ASSUME JobsOK, WriteInv, AloneInv, NEW d \in Deployers, job[d] # Absent, Ends(d, FALSE)
    PROVE  JobsOK' /\ WriteInv' /\ AloneInv' /\ RestInv' /\ last'.told \in BOOLEAN
<1>1. /\ JobsOK' /\ WriteInv' /\ AloneInv'
      /\ last' = [m |-> job[d].m, told |-> FALSE, older |-> job[d].older]
  BY EndsJobs
<1>2. last'.told = FALSE
  BY <1>1
<1>3. RestInv'
  BY <1>2 DEF RestInv, Rests
<1> QED
  BY <1>1, <1>2, <1>3

\* The write a command is at belongs to its part: one of the Secrets left, or the object.
LEMMA CurrentWrite ==
    ASSUME JobsOK, WriteInv, NEW d \in Deployers, Writing(d), job[d].seen # Absent
    PROVE  /\ job[d].m \in Manifests /\ job[d].at \in PartsOf(job[d].m)
           /\ job[d].write \in AllWrites /\ job[d].write.needs \subseteq DOMAIN job[d].m.shell
           /\ \/ /\ job[d].left # {} /\ job[d].write \in job[d].left
                 /\ job[d].write \in Secrets(job[d].m, job[d].at)
              \/ job[d].left = {} /\ job[d].write = ObjectOf(job[d].m, job[d].at)
<1>1. job[d] # Absent /\ job[d].at \in PartsOf(job[d].m)
  BY DEF Writing
<1>2. job[d].m \in Manifests
  BY <1>1, JobTyped
<1>3. job[d].write \in ToWrite(d) /\ job[d].write.needs \subseteq DOMAIN job[d].m.shell
  BY <1>1 DEF WriteInv
<1>4. job[d].left # {} => job[d].left \subseteq Secrets(job[d].m, job[d].at)
  BY <1>1 DEF JobsOK
<1>5. \/ /\ job[d].left # {} /\ job[d].write \in job[d].left
         /\ job[d].write \in Secrets(job[d].m, job[d].at)
      \/ job[d].left = {} /\ job[d].write = ObjectOf(job[d].m, job[d].at)
  BY <1>3, <1>4 DEF ToWrite
<1>6. job[d].write \in AllWrites
  BY <1>1, <1>2, <1>5, WritesTyped
<1> QED
  BY <1>1, <1>2, <1>3, <1>5, <1>6

----------------------------------------------------------------------------
(* Every step keeps the invariant. *)

\* What the steps leave of the invariant to be shown.
JobInv == JobsOK /\ WriteInv /\ AloneInv /\ RestInv
StoredInv == StoreOK /\ StoreShape /\ AgentStored

LEMMA DeployInvParts == DeployInv <=> (StoredInv /\ ClusterOK /\ CountsOK /\ JobInv)
BY DeployTypeParts DEF DeployInv, StoredInv, JobInv

LEMMA InitDeployInv == DeployInit => DeployInv
<1> SUFFICES ASSUME DeployInit
             PROVE  DeployInv
  OBVIOUS
<1>1. \A d \in Deployers : job[d] = Absent
  BY DEF DeployInit
<1>2. StoredInv
  <2>1. DOMAIN store = Objects /\ \A o \in Objects : store[o] = [rv |-> 0, data |-> Absent]
    BY DEF DeployInit
  <2> QED
    BY <2>1 DEF StoredInv, StoreOK, StoreShape, AgentStored
<1>3. ClusterOK
  BY DEF DeployInit, ClusterOK
<1>4. CountsOK
  BY DeployAssumption DEF DeployInit, CountsOK
<1>5. JobInv
  <2>1. job \in [Deployers -> DeployJobs \cup {Absent}] /\ last.told = FALSE
    BY DEF DeployInit
  <2> QED
    BY <1>1, <2>1 DEF JobInv, JobsOK, WriteInv, AloneInv, RestInv, Rests
<1> QED
  BY <1>2, <1>3, <1>4, <1>5, DeployInvParts

LEMMA BeginInv ==
    ASSUME JobInv, NEW d \in Deployers, NEW m \in Manifests, Begin(d, m)
    PROVE  JobInv'
<1> DEFINE r == [m |-> m, at |-> 0, left |-> {}, write |-> Absent, seen |-> Absent,
                 alone |-> \A f \in Deployers : job[f] = Absent, older |-> {}]
<1>1. /\ job[d] = Absent
      /\ job' = [e \in Deployers |-> IF e = d THEN r
                                     ELSE IF job[e] # Absent THEN [job[e] EXCEPT !.alone = FALSE] ELSE Absent]
  BY DEF Begin
<1>2. r \in DeployJobs /\ r.at = 0 /\ r.left = {} /\ r.seen = Absent /\ r.m = m
      /\ (r.alone <=> \A f \in Deployers : job[f] = Absent)
  <2>1. (\A f \in Deployers : job[f] = Absent) \in BOOLEAN
    OBVIOUS
  <2> QED
    BY <2>1 DEF DeployJobs
<1> HIDE DEF r
<1>3. job'[d] = r /\ r # Absent
  BY <1>1, <1>2, DeployAssumption
<1>4. ASSUME NEW e \in Deployers, e # d, job[e] # Absent
      PROVE  /\ job'[e] \in DeployJobs /\ job'[e].alone = FALSE
             /\ job'[e].m = job[e].m /\ job'[e].at = job[e].at /\ job'[e].left = job[e].left
             /\ job'[e].write = job[e].write /\ job'[e].seen = job[e].seen
  <2>1. job[e] \in DeployJobs
    BY <1>4, JobTyped DEF JobInv
  <2>2. job'[e] = [job[e] EXCEPT !.alone = FALSE]
    BY <1>1, <1>4
  <2> QED
    BY <2>1, <2>2 DEF DeployJobs
<1>5. \A e \in Deployers : e # d /\ job[e] = Absent => job'[e] = Absent
  BY <1>1
<1>6. JobsOK'
  <2>1. job' \in [Deployers -> DeployJobs \cup {Absent}]
    BY <1>1, <1>2, <1>3, <1>4, <1>5
  <2>2. \A e \in Deployers : job'[e] # Absent =>
          /\ job'[e].at \in 0..Len(job'[e].m.servers) + 2
          /\ job'[e].left # {} => job'[e].at \in PartsOf(job'[e].m) /\ job'[e].left \subseteq Secrets(job'[e].m, job'[e].at)
    <3>1. ASSUME NEW e \in Deployers, e # d, job[e] # Absent
          PROVE  /\ job'[e].at \in 0..Len(job'[e].m.servers) + 2
                 /\ job'[e].left # {} => job'[e].at \in PartsOf(job'[e].m)
                                           /\ job'[e].left \subseteq Secrets(job'[e].m, job'[e].at)
      BY <1>4, <3>1 DEF JobInv, JobsOK
    <3>2. 0 \in 0..Len(m.servers) + 2
      BY ManifestShape
    <3> QED
      BY <1>2, <1>3, <1>5, <3>1, <3>2
  <2> QED
    BY <2>1, <2>2 DEF JobsOK
<1>7. WriteInv'
  <2> SUFFICES ASSUME NEW e \in Deployers, job'[e] # Absent, job'[e].seen # Absent
               PROVE  /\ Writing(e)' /\ job'[e].write \in ToWrite(e)'
                      /\ job'[e].write.needs \subseteq DOMAIN job'[e].m.shell
    BY DEF WriteInv
  <2>1. e # d
    BY <1>2, <1>3
  <2>2. job[e] # Absent
    BY <1>5, <2>1
  <2>3. /\ job'[e].m = job[e].m /\ job'[e].at = job[e].at /\ job'[e].left = job[e].left
        /\ job'[e].write = job[e].write /\ job'[e].seen = job[e].seen
    BY <1>4, <2>1, <2>2
  <2> QED
    BY <2>2, <2>3 DEF JobInv, WriteInv, Writing, ToWrite
<1>8. AloneInv'
  <2> SUFFICES ASSUME NEW e \in Deployers, job'[e] # Absent, job'[e].alone
               PROVE  /\ \A f \in Deployers \ {e} : job'[f] = Absent
                      /\ job'[e].at > 0 => Pushed(registry', nodeImages', job'[e])
                      /\ \A part \in PartsOf(job'[e].m) : part < job'[e].at => PartDone(store', job'[e].m, part)
                      /\ job'[e].at \in PartsOf(job'[e].m) =>
                           \A w \in Secrets(job'[e].m, job'[e].at) \ job'[e].left : SecretDone(store', job'[e].m, w)
    BY DEF AloneInv
  <2>1. e = d
    BY <1>4, <1>5
  <2>2. \A f \in Deployers \ {e} : job'[f] = Absent
    BY <1>2, <1>3, <1>5, <2>1
  <2>3. job'[e].at = 0
    BY <1>2, <1>3, <2>1
  <2> QED
    BY <2>2, <2>3 DEF PartsOf
<1>9. RestInv'
  BY <1>3 DEF RestInv, Rests
<1> QED
  BY <1>6, <1>7, <1>8, <1>9 DEF JobInv

LEMMA BuildInv ==
    ASSUME JobInv, ClusterOK, NEW d \in Deployers, BuildAndPush(d)
    PROVE  JobInv'
<1>1. job[d] # Absent /\ job[d].at = 0 /\ UNCHANGED <<store, nodeImages>>
  BY DEF BuildAndPush
<1>2. CASE Ends(d, FALSE)
  BY <1>1, <1>2, EndsUntold DEF JobInv
<1>3. CASE registry' = job[d].m.code /\ GoesTo(d, 1, nodeImages)
  <2>1. job[d].m \in Manifests
    BY <1>1, JobTyped DEF JobInv
  <2>2. 1 \in PartsOf(job[d].m) /\ 1 \in 0..Len(job[d].m.servers) + 2
    BY <2>1, ManifestShape
  <2>3. /\ JobsOK' /\ WriteInv' /\ OtherJobs(d) /\ job'[d] # Absent
        /\ job'[d].m = job[d].m /\ job'[d].alone = job[d].alone /\ job'[d].at = 1 /\ job'[d].older = nodeImages
        /\ job'[d].left = Secrets(job[d].m, 1)
    BY <1>1, <1>3, <2>2, GoesToJob DEF JobInv, ClusterOK
  <2>4. AloneInv'
    <3> SUFFICES ASSUME NEW e \in Deployers, job'[e] # Absent, job'[e].alone
                 PROVE  /\ \A f \in Deployers \ {e} : job'[f] = Absent
                        /\ job'[e].at > 0 => Pushed(registry', nodeImages', job'[e])
                        /\ \A part \in PartsOf(job'[e].m) : part < job'[e].at => PartDone(store', job'[e].m, part)
                        /\ job'[e].at \in PartsOf(job'[e].m) =>
                             \A w \in Secrets(job'[e].m, job'[e].at) \ job'[e].left : SecretDone(store', job'[e].m, w)
      BY DEF AloneInv
    <3>1. e = d /\ job[d].alone
      BY <1>1, <2>3, AloneOnly DEF JobInv, OtherJobs
    <3>2. \A f \in Deployers \ {e} : job'[f] = Absent
      BY <1>1, <2>3, <3>1 DEF JobInv, AloneInv, OtherJobs
    <3>3. Pushed(registry', nodeImages', job'[e])
      BY <1>1, <1>3, <2>3, <3>1 DEF Pushed
    <3> QED
      BY <2>3, <3>1, <3>2, <3>3 DEF PartsOf
  <2>5. RestInv'
    BY <2>3 DEF RestInv, Rests
  <2> QED
    BY <2>3, <2>4, <2>5 DEF JobInv
<1> QED
  BY <1>2, <1>3 DEF BuildAndPush

LEMMA LookInv ==
    ASSUME JobInv, StoredInv, NEW d \in Deployers, Look(d)
    PROVE  JobInv'
<1>1. job[d] # Absent /\ job[d].at \in PartsOf(job[d].m) /\ UNCHANGED <<store, registry, nodeImages>>
  BY DEF Look, Writing
<1>2. CASE Ends(d, FALSE)
  BY <1>1, <1>2, EndsUntold DEF JobInv
<1>3. ASSUME NEW w \in ToWrite(d), w.needs \subseteq DOMAIN job[d].m.shell,
             job' = [job EXCEPT ![d] = [@ EXCEPT !.write = w, !.seen = store[w.obj].rv]]
      PROVE  JobInv'
  <2> DEFINE r == [job[d] EXCEPT !.write = w, !.seen = store[w.obj].rv]
  <2>1. job[d] \in DeployJobs /\ job[d].m \in Manifests
    BY <1>1, JobTyped DEF JobInv
  <2>2. w \in AllWrites
    BY <1>1, <2>1, JobTyped, WritesTyped DEF ToWrite, JobInv
  <2>3. store[w.obj].rv \in Nat
    BY <2>2 DEF StoredInv, StoreOK, Objects
  <2>4. /\ r \in DeployJobs
        /\ r.m = job[d].m /\ r.at = job[d].at /\ r.left = job[d].left /\ r.alone = job[d].alone /\ r.write = w
        /\ r.older = job[d].older
    BY <2>1, <2>2, <2>3 DEF DeployJobs
  <2> HIDE DEF r
  <2>5. /\ job' \in [Deployers -> DeployJobs \cup {Absent}]
        /\ job'[d] = r /\ r # Absent /\ OtherJobs(d)
    <3>1. job' = [job EXCEPT ![d] = r]
      BY <1>3 DEF r
    <3> QED
      BY <2>4, <3>1, DeployAssumption DEF JobInv, JobsOK, OtherJobs
  <2>6. JobsOK'
    BY <1>1, <2>4, <2>5 DEF JobInv, JobsOK, OtherJobs
  <2>7. WriteInv'
    <3> SUFFICES ASSUME NEW e \in Deployers, job'[e] # Absent, job'[e].seen # Absent
                 PROVE  /\ Writing(e)' /\ job'[e].write \in ToWrite(e)'
                        /\ job'[e].write.needs \subseteq DOMAIN job'[e].m.shell
      BY DEF WriteInv
    <3>1. CASE e = d
      BY <1>1, <1>3, <2>4, <2>5, <3>1 DEF Writing, ToWrite
    <3>2. CASE e # d
      <4>1. job'[e] = job[e]
        BY <2>5, <3>2 DEF OtherJobs
      <4> QED
        BY <4>1 DEF JobInv, WriteInv, Writing, ToWrite
    <3> QED
      BY <3>1, <3>2
  <2>8. AloneInv'
    <3> SUFFICES ASSUME NEW e \in Deployers, job'[e] # Absent, job'[e].alone
                 PROVE  /\ \A f \in Deployers \ {e} : job'[f] = Absent
                        /\ job'[e].at > 0 => Pushed(registry', nodeImages', job'[e])
                        /\ \A part \in PartsOf(job'[e].m) : part < job'[e].at => PartDone(store', job'[e].m, part)
                        /\ job'[e].at \in PartsOf(job'[e].m) =>
                             \A v \in Secrets(job'[e].m, job'[e].at) \ job'[e].left : SecretDone(store', job'[e].m, v)
      BY DEF AloneInv
    <3>1. e = d /\ job[d].alone
      BY <1>1, <2>4, <2>5, AloneOnly DEF JobInv, OtherJobs
    <3>2. \A f \in Deployers \ {e} : job'[f] = Absent
      BY <1>1, <2>5, <3>1 DEF JobInv, AloneInv, OtherJobs
    <3>3. job'[e].at > 0 => Pushed(registry', nodeImages', job'[e])
      BY <1>1, <2>4, <2>5, <3>1 DEF JobInv, AloneInv, Pushed
    <3> QED
      BY <1>1, <2>4, <2>5, <3>1, <3>2, <3>3 DEF JobInv, AloneInv
  <2>9. RestInv'
    BY <2>5 DEF RestInv, Rests
  <2> QED
    BY <2>6, <2>7, <2>8, <2>9 DEF JobInv
<1> QED
  BY <1>2, <1>3 DEF Look

\* What is done of a manifest after one of its Secrets, or one of its objects, is written.
LEMMA SecretsGrow ==
    ASSUME NEW st, StoreTyped(st), NEW m \in Manifests, NEW q \in PartsOf(m), NEW w \in Secrets(m, q),
           w.needs \subseteq DOMAIN m.shell
    PROVE  /\ \A p \in PartsOf(m) : p < q /\ PartDone(st, m, p) => PartDone(AfterWrite(st, w), m, p)
           /\ \A v \in Secrets(m, q) : SecretDone(st, m, v) => SecretDone(AfterWrite(st, w), m, v)
           /\ SecretDone(AfterWrite(st, w), m, w)
<1>1. SecretDone(AfterWrite(st, w), m, w)
  BY SecretWritten DEF SecretDone
<1>2. ASSUME NEW p \in PartsOf(m), p <= q, NEW v \in Secrets(m, p), SecretDone(st, m, v)
      PROVE  SecretDone(AfterWrite(st, w), m, v)
  BY <1>2, SecretWritten DEF SecretDone
<1>3. ASSUME NEW p \in PartsOf(m), p < q, PartDone(st, m, p)
      PROVE  PartDone(AfterWrite(st, w), m, p)
  <2>1. p <= q
    BY <1>3 DEF PartsOf
  <2>2. \A v \in Secrets(m, p) : SecretDone(AfterWrite(st, w), m, v)
    BY <1>2, <1>3, <2>1 DEF PartDone
  <2>3. ObjectKept(AfterWrite(st, w), ObjectOf(m, p))
    BY <1>3, SecretWritten DEF PartDone
  <2> QED
    BY <2>2, <2>3 DEF PartDone
<1>4. q <= q
  BY DEF PartsOf
<1> QED
  BY <1>1, <1>2, <1>3, <1>4

LEMMA PartsGrow ==
    ASSUME NEW st, StoreTyped(st), NEW m \in Manifests, NEW q \in PartsOf(m)
    PROVE  /\ \A p \in PartsOf(m) : PartDone(st, m, p) => PartDone(AfterWrite(st, ObjectOf(m, q)), m, p)
           /\ (\A w \in Secrets(m, q) : SecretDone(st, m, w)) => PartDone(AfterWrite(st, ObjectOf(m, q)), m, q)
<1>1. ASSUME NEW p \in PartsOf(m), NEW v \in Secrets(m, p), SecretDone(st, m, v)
      PROVE  SecretDone(AfterWrite(st, ObjectOf(m, q)), m, v)
  BY <1>1, ObjectWritten DEF SecretDone
<1>2. ASSUME NEW p \in PartsOf(m), ObjectKept(st, ObjectOf(m, p))
      PROVE  ObjectKept(AfterWrite(st, ObjectOf(m, q)), ObjectOf(m, p))
  BY <1>2, ObjectWritten
<1>3. ObjectKept(AfterWrite(st, ObjectOf(m, q)), ObjectOf(m, q))
  BY ObjectWritten
<1> QED
  BY <1>1, <1>2, <1>3 DEF PartDone

LEMMA WriteInvStep ==
    ASSUME JobInv, StoredInv, NEW d \in Deployers, CreateOrUpdate(d)
    PROVE  JobInv'
<1> DEFINE w == job[d].write   m == job[d].m   at == job[d].at
<1>1. /\ Writing(d) /\ job[d] # Absent /\ job[d].seen # Absent /\ UNCHANGED <<registry, nodeImages>>
  BY DEF CreateOrUpdate, Writing
<1>2. /\ m \in Manifests /\ at \in PartsOf(m) /\ w \in AllWrites /\ w.needs \subseteq DOMAIN m.shell
      /\ \/ job[d].left # {} /\ w \in job[d].left /\ w \in Secrets(m, at)
         \/ job[d].left = {} /\ w = ObjectOf(m, at)
  BY <1>1, CurrentWrite DEF JobInv
<1>3. StoreTyped(store)
  BY DEF StoredInv, StoreOK, StoreTyped
<1>4. CASE Ends(d, FALSE)
  BY <1>1, <1>4, EndsUntold DEF JobInv
<1>5. CASE store' = AfterWrite(store, w) /\ Written(d)
  <2>1. CASE job[d].left # {}
    <3> DEFINE r == [job[d] EXCEPT !.left = job[d].left \ {w}, !.write = Absent, !.seen = Absent]
    <3>1. job[d] \in DeployJobs
      BY <1>1, JobTyped DEF JobInv
    <3>2. /\ r \in DeployJobs
          /\ r.m = m /\ r.at = at /\ r.left = job[d].left \ {w} /\ r.alone = job[d].alone /\ r.seen = Absent
          /\ r.older = job[d].older
      BY <3>1 DEF DeployJobs
    <3>3. job' = [job EXCEPT ![d] = r]
      BY <1>5, <2>1 DEF Written
    <3> HIDE DEF r
    <3>4. job' \in [Deployers -> DeployJobs \cup {Absent}] /\ job'[d] = r /\ r # Absent /\ OtherJobs(d)
      BY <3>2, <3>3, DeployAssumption DEF JobInv, JobsOK, OtherJobs
    <3>5. JobsOK'
      BY <1>1, <3>2, <3>4 DEF JobInv, JobsOK, OtherJobs
    <3>6. WriteInv'
      BY <3>2, <3>4 DEF JobInv, WriteInv, OtherJobs, Writing, ToWrite
    <3>7. RestInv'
      BY <3>4 DEF RestInv, Rests
    <3>8. AloneInv'
      <4> SUFFICES ASSUME NEW e \in Deployers, job'[e] # Absent, job'[e].alone
                   PROVE  /\ \A f \in Deployers \ {e} : job'[f] = Absent
                          /\ job'[e].at > 0 => Pushed(registry', nodeImages', job'[e])
                          /\ \A part \in PartsOf(job'[e].m) :
                               part < job'[e].at => PartDone(store', job'[e].m, part)
                          /\ job'[e].at \in PartsOf(job'[e].m) =>
                               \A v \in Secrets(job'[e].m, job'[e].at) \ job'[e].left :
                                 SecretDone(store', job'[e].m, v)
        BY DEF AloneInv
      <4>1. e = d /\ job[d].alone
        BY <1>1, <3>2, <3>4, AloneOnly DEF JobInv, OtherJobs
      <4>2. /\ \A f \in Deployers \ {d} : job[f] = Absent
            /\ at > 0 => Pushed(registry, nodeImages, job[d])
            /\ \A part \in PartsOf(m) : part < at => PartDone(store, m, part)
            /\ \A v \in Secrets(m, at) \ job[d].left : SecretDone(store, m, v)
        BY <1>1, <1>2, <4>1 DEF JobInv, AloneInv
      <4>3. \A f \in Deployers \ {e} : job'[f] = Absent
        BY <3>4, <4>1, <4>2 DEF OtherJobs
      <4>4. w \in Secrets(m, at)
        BY <1>2, <2>1
      <4>5. \A part \in PartsOf(m) : part < at => PartDone(store', m, part)
        BY <1>2, <1>3, <1>5, <4>2, <4>4, SecretsGrow
      <4>6. \A v \in Secrets(m, at) : SecretDone(store, m, v) => SecretDone(store', m, v)
        BY <1>2, <1>3, <1>5, <4>4, SecretsGrow
      <4>7. SecretDone(store', m, w)
        BY <1>2, <1>3, <1>5, <4>4, SecretsGrow
      <4>8. \A v \in Secrets(m, at) \ (job[d].left \ {w}) : SecretDone(store', m, v)
        BY <4>2, <4>6, <4>7
      <4>9. job'[e].at > 0 => Pushed(registry', nodeImages', job'[e])
        BY <1>1, <3>2, <3>4, <4>1, <4>2 DEF Pushed
      <4> HIDE DEF m, at, w
      <4> QED
        BY <3>2, <3>4, <4>1, <4>3, <4>5, <4>8, <4>9
    <3> QED
      BY <3>5, <3>6, <3>7, <3>8 DEF JobInv
  <2>2. CASE job[d].left = {}
    <3>1. PICK k \in Nat : k = at + 1
      BY <1>2 DEF PartsOf
    <3>2. GoesTo(d, k, job[d].older) /\ job[d].older \in SUBSET Programs
      BY <1>1, <1>5, <2>2, <3>1, JobTyped DEF Written, GoesTo, JobInv
    <3>3. k \in 0..Len(m.servers) + 2
      BY <1>2, <3>1, ManifestShape DEF PartsOf
    <3>4. /\ JobsOK' /\ WriteInv' /\ OtherJobs(d) /\ job'[d] # Absent
          /\ job'[d].m = m /\ job'[d].alone = job[d].alone /\ job'[d].at = k /\ job'[d].older = job[d].older
          /\ k \in PartsOf(m) => job'[d].left = Secrets(m, k)
      BY <1>1, <3>2, <3>3, GoesToJob DEF JobInv
    <3>5. RestInv'
      BY <3>4 DEF RestInv, Rests
    <3>6. AloneInv'
      <4> SUFFICES ASSUME NEW e \in Deployers, job'[e] # Absent, job'[e].alone
                   PROVE  /\ \A f \in Deployers \ {e} : job'[f] = Absent
                          /\ job'[e].at > 0 => Pushed(registry', nodeImages', job'[e])
                          /\ \A part \in PartsOf(job'[e].m) :
                               part < job'[e].at => PartDone(store', job'[e].m, part)
                          /\ job'[e].at \in PartsOf(job'[e].m) =>
                               \A v \in Secrets(job'[e].m, job'[e].at) \ job'[e].left :
                                 SecretDone(store', job'[e].m, v)
        BY DEF AloneInv
      <4>1. e = d /\ job[d].alone
        BY <1>1, <3>4, AloneOnly DEF JobInv, OtherJobs
      <4>2. /\ \A f \in Deployers \ {d} : job[f] = Absent
            /\ at > 0 => Pushed(registry, nodeImages, job[d])
            /\ \A part \in PartsOf(m) : part < at => PartDone(store, m, part)
            /\ \A v \in Secrets(m, at) : SecretDone(store, m, v)
        BY <1>1, <1>2, <2>2, <4>1 DEF JobInv, AloneInv
      <4>3. \A f \in Deployers \ {e} : job'[f] = Absent
        BY <3>4, <4>1, <4>2 DEF OtherJobs
      <4>4. store' = AfterWrite(store, ObjectOf(m, at))
        BY <1>2, <1>5, <2>2
      <4>5. \A part \in PartsOf(m) : PartDone(store, m, part) => PartDone(store', m, part)
        BY <1>2, <1>3, <4>4, PartsGrow
      <4>6. PartDone(store', m, at)
        BY <1>2, <1>3, <4>2, <4>4, PartsGrow
      <4>7. \A part \in PartsOf(m) : part < k => PartDone(store', m, part)
        <5> SUFFICES ASSUME NEW part \in PartsOf(m), part < k
                     PROVE  PartDone(store', m, part)
          OBVIOUS
        <5>1. part < at \/ part = at
          BY <1>2, <3>1 DEF PartsOf
        <5> QED
          BY <4>2, <4>5, <4>6, <5>1
      <4>8. at > 0
        BY <1>2 DEF PartsOf
      <4>9. Pushed(registry', nodeImages', job'[e])
        BY <1>1, <3>4, <4>1, <4>2, <4>8 DEF Pushed
      <4> HIDE DEF m, at, w
      <4> QED
        BY <3>4, <4>1, <4>3, <4>7, <4>9
    <3> QED
      BY <3>4, <3>5, <3>6 DEF JobInv
  <2> QED
    BY <2>1, <2>2
<1> QED
  BY <1>4, <1>5 DEF CreateOrUpdate, AfterWrite

\* Where a command that had the field to itself ends with success, all of it is done.
LEMMA RestartInv ==
    ASSUME JobInv, ClusterOK, NEW d \in Deployers, restartAgentDeployment(d)
    PROVE  JobInv'
<1> DEFINE m == job[d].m
<1>1. job[d] # Absent /\ job[d].at = Len(m.servers) + 2 /\ UNCHANGED <<store, registry, nodeImages, pods>>
  BY DEF restartAgentDeployment
<1>2. CASE Ends(d, FALSE)
  BY <1>1, <1>2, EndsUntold DEF JobInv
<1>3. CASE Ends(d, job[d].alone) /\ (deployment # Absent => RolloutRestart) /\ (deployment = Absent => UNCHANGED deployment)
  <2>1. PICK told : told = job[d].alone
    OBVIOUS
  <2>2. Ends(d, told)
    BY <1>3, <2>1 DEF Ends
  <2>3. /\ JobsOK' /\ WriteInv' /\ AloneInv'
        /\ job'[d] = Absent /\ OtherJobs(d)
        /\ last' = [m |-> m, told |-> told, older |-> job[d].older]
    BY <1>1, <2>2, EndsJobs DEF JobInv
  <2>4. RestInv'
    <3> SUFFICES ASSUME Rests'
                 PROVE  /\ last'.m \in Manifests /\ Pushed(registry', nodeImages', last') /\ PodsCurrent'
                        /\ \A part \in PartsOf(last'.m) : PartDone(store', last'.m, part)
      BY DEF RestInv
    <3>1. job[d].alone /\ last'.m = m /\ last'.older = job[d].older
      BY <2>1, <2>3 DEF Rests
    <3>2. m \in Manifests /\ Len(m.servers) \in Nat
      BY <1>1, JobTyped, ManifestShape DEF JobInv
    <3>3. /\ job[d].at > 0 => Pushed(registry, nodeImages, job[d])
          /\ \A part \in PartsOf(m) : part < job[d].at => PartDone(store, m, part)
      BY <1>1, <3>1 DEF JobInv, AloneInv
    <3>4. \A part \in PartsOf(m) : part < job[d].at
      BY <1>1, <3>2 DEF PartsOf
    <3>5. Pushed(registry, nodeImages, job[d]) /\ \A part \in PartsOf(m) : PartDone(store, m, part)
      BY <1>1, <3>2, <3>3, <3>4
    <3>7. Pushed(registry', nodeImages', last')
      BY <1>1, <3>1, <3>5 DEF Pushed
    <3>6. PodsCurrent'
      <4>1. CASE deployment = Absent
        BY <1>1, <4>1 DEF ClusterOK, PodsCurrent
      <4>2. CASE deployment # Absent
        <5>1. deployment \in Deployments /\ deployment' = [deployment EXCEPT !.rev = @ + 1]
          BY <1>3, <4>2 DEF ClusterOK, RolloutRestart
        <5>2. deployment'.rev = deployment.rev + 1 /\ deployment.rev \in Nat
          BY <5>1 DEF Deployments
        <5>3. pods # Absent => pods.rev # deployment'.rev
          BY <5>2 DEF ClusterOK
        <5> QED
          BY <1>1, <5>3 DEF PodsCurrent
      <4> QED
        BY <4>1, <4>2
    <3> HIDE DEF m
    <3> QED
      BY <1>1, <3>1, <3>2, <3>5, <3>6, <3>7
  <2> QED
    BY <2>3, <2>4 DEF JobInv
<1> QED
  BY <1>2, <1>3 DEF restartAgentDeployment

\* The controller changes the version of the Agent, and nothing that was written.
LEMMA RenderedStore ==
    ASSUME StoredInv, RenderAgent
    PROVE  /\ DOMAIN store' = Objects
           /\ \A o \in Objects : /\ store'[o] = [rv |-> store'[o].rv, data |-> store'[o].data]
                                 /\ store'[o].data = store[o].data
                                 /\ store[o].rv \in Nat /\ store'[o].rv \in Nat /\ store'[o].rv >= store[o].rv
<1>1. store' = [store EXCEPT ![AgentObject].rv = @ + 1] /\ DOMAIN store = Objects
  BY DEF RenderAgent, StoredInv, StoreOK
<1>2. ASSUME NEW o \in Objects
      PROVE  /\ store'[o] = [rv |-> store'[o].rv, data |-> store'[o].data]
             /\ store'[o].data = store[o].data
             /\ store[o].rv \in Nat /\ store'[o].rv \in Nat /\ store'[o].rv >= store[o].rv
  <2>1. store[o] = [rv |-> store[o].rv, data |-> store[o].data] /\ store[o].rv \in Nat
    BY DEF StoredInv, StoreShape, StoreOK
  <2>2. CASE o = AgentObject
    <3>1. store'[o] = [store[o] EXCEPT !.rv = @ + 1]
      BY <1>1, <2>2
    <3>2. store'[o] = [rv |-> store[o].rv + 1, data |-> store[o].data]
      BY <2>1, <3>1
    <3> QED
      BY <2>1, <3>2
  <2>3. CASE o # AgentObject
    BY <1>1, <2>1, <2>3
  <2> QED
    BY <2>2, <2>3
<1> QED
  BY <1>1, <1>2

LEMMA RenderedParts ==
    ASSUME StoredInv, RenderAgent, NEW m \in Manifests, NEW part \in PartsOf(m), PartDone(store, m, part)
    PROVE  PartDone(store', m, part)
<1>1. \A w \in WritesOf(m, part) : w.obj \in Objects
  BY WritesTyped
<1>2. \A o \in Objects : /\ store'[o].data = store[o].data
                         /\ store[o].rv \in Nat /\ store'[o].rv \in Nat /\ store'[o].rv >= store[o].rv
  BY RenderedStore
<1>3. \A w \in WritesOf(m, part) : /\ SecretKept(store, m, w) => SecretKept(store', m, w)
                                   /\ ObjectKept(store, w) => ObjectKept(store', w)
  BY <1>1, <1>2 DEF SecretKept, ObjectKept
<1> QED
  BY <1>3 DEF PartDone, SecretDone, WritesOf

LEMMA RenderInv ==
    ASSUME JobInv, StoredInv, ClusterOK, RenderAgent
    PROVE  JobInv'
<1>1. UNCHANGED <<registry, nodeImages, pods, job, last>>
  BY DEF RenderAgent
<1>2. JobsOK' /\ WriteInv'
  BY <1>1 DEF JobInv, JobsOK, WriteInv, Writing, ToWrite
<1>3. AloneInv'
  <2> SUFFICES ASSUME NEW e \in Deployers, job[e] # Absent, job[e].alone
               PROVE  /\ \A f \in Deployers \ {e} : job[f] = Absent
                      /\ job[e].at > 0 => Pushed(registry, nodeImages, job[e])
                      /\ \A part \in PartsOf(job[e].m) : part < job[e].at => PartDone(store', job[e].m, part)
                      /\ job[e].at \in PartsOf(job[e].m) =>
                           \A v \in Secrets(job[e].m, job[e].at) \ job[e].left : SecretDone(store', job[e].m, v)
    BY <1>1 DEF AloneInv
  <2> DEFINE m == job[e].m
  <2>1. m \in Manifests
    BY JobTyped DEF JobInv
  <2>2. /\ \A f \in Deployers \ {e} : job[f] = Absent
        /\ job[e].at > 0 => Pushed(registry, nodeImages, job[e])
        /\ \A part \in PartsOf(m) : part < job[e].at => PartDone(store, m, part)
        /\ job[e].at \in PartsOf(m) =>
             \A v \in Secrets(m, job[e].at) \ job[e].left : SecretDone(store, m, v)
    BY DEF JobInv, AloneInv
  <2>3. \A part \in PartsOf(m) : part < job[e].at => PartDone(store', m, part)
    BY <2>1, <2>2, RenderedParts
  <2>4. ASSUME job[e].at \in PartsOf(m), NEW v \in Secrets(m, job[e].at) \ job[e].left
        PROVE  SecretDone(store', m, v)
    <3>1. SecretDone(store, m, v)
      BY <2>2, <2>4
    <3>2. v.obj \in Objects
      BY <2>1, <2>4, WritesTyped DEF WritesOf
    <3>3. /\ store'[v.obj].data = store[v.obj].data
          /\ store[v.obj].rv \in Nat /\ store'[v.obj].rv \in Nat /\ store'[v.obj].rv >= store[v.obj].rv
      BY <3>2, RenderedStore
    <3> QED
      BY <3>1, <3>3 DEF SecretDone, SecretKept
  <2> QED
    BY <2>2, <2>3, <2>4
<1>4. RestInv'
  <2> SUFFICES ASSUME Rests
               PROVE  /\ last.m \in Manifests /\ Pushed(registry, nodeImages, last) /\ PodsCurrent'
                      /\ \A part \in PartsOf(last.m) : PartDone(store', last.m, part)
    BY <1>1 DEF RestInv, Rests
  <2>1. /\ last.m \in Manifests /\ Pushed(registry, nodeImages, last)
        /\ \A part \in PartsOf(last.m) : PartDone(store, last.m, part)
    BY DEF JobInv, RestInv
  <2>2. \A part \in PartsOf(last.m) : PartDone(store', last.m, part)
    BY <2>1, RenderedParts
  <2>3. PodsCurrent'
    <3>1. deployment' = [rev |-> IF deployment = Absent THEN 1 ELSE deployment.rev + 1,
                         refs |-> store[AgentObject].data.refs]
      BY DEF RenderAgent
    <3>2. CASE deployment = Absent
      BY <1>1, <3>2 DEF ClusterOK, PodsCurrent
    <3>3. CASE deployment # Absent
      <4>1. deployment.rev \in Nat
        BY <3>3 DEF ClusterOK, Deployments
      <4>2. deployment'.rev = deployment.rev + 1
        BY <3>1, <3>3
      <4>3. pods # Absent => pods.rev # deployment'.rev
        BY <4>1, <4>2 DEF ClusterOK
      <4> QED
        BY <1>1, <4>3 DEF PodsCurrent
    <3> QED
      BY <3>2, <3>3
  <2> QED
    BY <2>1, <2>2, <2>3
<1> QED
  BY <1>2, <1>3, <1>4 DEF JobInv

\* A pod's program is the registry's or one that a node has.
LEMMA StartInv ==
    ASSUME JobInv, StartPods
    PROVE  JobInv'
<1>1. PICK code \in nodeImages \cup ({registry} \ {Absent}) :
        /\ pods' = [rev |-> deployment.rev, code |-> code,
                    env |-> [k \in deployment.refs |-> store[EnvSecret(AgentName)].data[k]]]
        /\ nodeImages' = nodeImages \cup {code}
  BY DEF StartPods
<1>2. UNCHANGED <<store, registry, deployment, job, last>>
  BY DEF StartPods
<1>3. JobsOK' /\ WriteInv'
  BY <1>2 DEF JobInv, JobsOK, WriteInv, Writing, ToWrite
<1>4. ASSUME NEW r, Pushed(registry, nodeImages, r)
      PROVE  Pushed(registry', nodeImages', r)
  BY <1>1, <1>2, <1>4 DEF Pushed
<1>5. AloneInv'
  BY <1>2, <1>4 DEF JobInv, AloneInv
<1>6. PodsCurrent'
  BY <1>1, <1>2 DEF PodsCurrent
<1>7. RestInv'
  BY <1>2, <1>4, <1>6 DEF JobInv, RestInv, Rests
<1> QED
  BY <1>3, <1>5, <1>7 DEF JobInv

LEMMA JobInvStep ==
    ASSUME JobInv, StoredInv, ClusterOK, [DeployNext]_deployVars
    PROVE  JobInv'
<1>1. ASSUME NEW d \in Deployers, NEW m \in Manifests, Begin(d, m) PROVE JobInv'
  BY <1>1, BeginInv
<1>2. ASSUME NEW d \in Deployers, BuildAndPush(d) PROVE JobInv'
  BY <1>2, BuildInv
<1>3. ASSUME NEW d \in Deployers, Look(d) PROVE JobInv'
  BY <1>3, LookInv
<1>4. ASSUME NEW d \in Deployers, CreateOrUpdate(d) PROVE JobInv'
  BY <1>4, WriteInvStep
<1>5. ASSUME NEW d \in Deployers, restartAgentDeployment(d) PROVE JobInv'
  BY <1>5, RestartInv
<1>6. CASE RenderAgent
  BY <1>6, RenderInv
<1>7. CASE StartPods
  BY <1>7, StartInv
<1>8. CASE UNCHANGED deployVars
  BY <1>8 DEF deployVars, JobInv, JobsOK, WriteInv, AloneInv, RestInv, Rests, PodsCurrent, Writing, ToWrite
<1> QED
  BY <1>1, <1>2, <1>3, <1>4, <1>5, <1>6, <1>7, <1>8 DEF DeployNext

LEMMA StoredStep ==
    ASSUME StoredInv, JobInv, [DeployNext]_deployVars
    PROVE  StoredInv'
<1>1. CASE UNCHANGED store
  BY <1>1 DEF StoredInv, StoreOK, StoreShape, AgentStored
<1>2. ASSUME NEW d \in Deployers, CreateOrUpdate(d), ~ UNCHANGED store
      PROVE  StoredInv'
  <2> DEFINE w == job[d].write   m == job[d].m   at == job[d].at
  <2>1. Writing(d) /\ job[d].seen # Absent /\ store' = AfterWrite(store, w)
    BY <1>2 DEF CreateOrUpdate, AfterWrite
  <2>2. /\ m \in Manifests /\ at \in PartsOf(m) /\ w \in AllWrites
        /\ w \in Secrets(m, at) \/ w = ObjectOf(m, at)
    BY <2>1, CurrentWrite DEF JobInv
  <2>3. StoreTyped(store)
    BY DEF StoredInv, StoreOK, StoreTyped
  <2>4. /\ DOMAIN store' = Objects
        /\ \A o \in Objects : o # w.obj => store'[o] = store[o]
        /\ store'[w.obj] = [rv   |-> store[w.obj].rv + 1,
                            data |-> IF store[w.obj].rv = 0 \/ w.how = "replace" THEN w.data
                                     ELSE Merged(store[w.obj].data, w.data)]
        /\ store[w.obj].rv \in Nat
    BY <2>1, <2>2, <2>3, AfterWriteShape
  <2>5. AgentStored'
    <3> SUFFICES ASSUME AgentObject \in Objects, store'[AgentObject].rv > 0
                 PROVE  store'[AgentObject].data \in {[refs |-> DOMAIN n.env] : n \in Manifests}
      BY DEF AgentStored
    <3>1. CASE w.obj # AgentObject
      BY <2>4, <3>1 DEF StoredInv, AgentStored
    <3>2. CASE w.obj = AgentObject
      <4>1. w \notin Secrets(m, at)
        BY <2>2, <3>2, SecretObject, ObjectsApart
      <4>2. w = ObjectOf(m, at)
        BY <2>2, <4>1
      <4>3. at = 1 /\ w.how = "replace"
        BY <2>2, <3>2, <4>2, PartObject
      <4>4. w = createAgentCRD(m)
        BY <4>2, <4>3 DEF ObjectOf
      <4>5. w.data = [refs |-> DOMAIN m.env]
        BY <4>4 DEF createAgentCRD, Write
      <4>6. store'[AgentObject].data = w.data
        BY <2>4, <3>2, <4>3
      <4> QED
        BY <2>2, <4>5, <4>6
    <3> QED
      BY <3>1, <3>2
  <2>6. StoreOK' /\ StoreShape'
    <3> HIDE DEF w
    <3>1. ASSUME NEW o \in Objects
          PROVE  /\ store'[o].rv \in Nat /\ (store'[o].rv = 0 => store'[o].data = Absent)
                 /\ store'[o] = [rv |-> store'[o].rv, data |-> store'[o].data]
      <4>1. CASE o = w.obj
        BY <2>4, <4>1
      <4>2. CASE o # w.obj
        BY <2>4, <4>2 DEF StoredInv, StoreOK, StoreShape
      <4> QED
        BY <4>1, <4>2
    <3> QED
      BY <2>4, <3>1 DEF StoreOK, StoreShape
  <2> QED
    BY <2>5, <2>6 DEF StoredInv
<1>3. CASE RenderAgent
  <2>1. StoreOK' /\ StoreShape'
    <3>1. ASSUME NEW o \in Objects, store'[o].rv = 0
          PROVE  store'[o].data = Absent
      <4>1. store[o].rv = 0
        BY <1>3, <3>1, RenderedStore
      <4> QED
        BY <1>3, <4>1, RenderedStore DEF StoredInv, StoreOK
    <3> QED
      BY <1>3, <3>1, RenderedStore DEF StoreOK, StoreShape
  <2>2. AgentStored'
    <3>1. store[AgentObject].rv > 0
      BY <1>3 DEF RenderAgent
    <3>2. AgentObject \in Objects => store'[AgentObject].data = store[AgentObject].data
      BY <1>3, RenderedStore
    <3> QED
      BY <3>1, <3>2 DEF StoredInv, AgentStored
  <2> QED
    BY <2>1, <2>2 DEF StoredInv
<1>4. \/ UNCHANGED store \/ RenderAgent \/ \E d \in Deployers : CreateOrUpdate(d)
  BY DEF DeployNext, deployVars, Begin, BuildAndPush, Look, restartAgentDeployment, StartPods
<1> QED
  BY <1>1, <1>2, <1>3, <1>4

LEMMA ClusterStep ==
    ASSUME StoredInv, ClusterOK, JobInv, [DeployNext]_deployVars
    PROVE  ClusterOK'
<1>1. CASE UNCHANGED <<deployment, pods, registry, nodeImages>>
  BY <1>1 DEF ClusterOK
<1>2. ASSUME NEW d \in Deployers, restartAgentDeployment(d), ~ UNCHANGED deployment
      PROVE  ClusterOK'
  <2>1. deployment # Absent /\ deployment' = [deployment EXCEPT !.rev = @ + 1]
        /\ UNCHANGED <<pods, registry, nodeImages>>
    BY <1>2 DEF restartAgentDeployment, RolloutRestart
  <2>2. deployment \in Deployments
    BY <2>1 DEF ClusterOK
  <2>3. deployment' \in Deployments /\ deployment.rev \in Nat /\ deployment'.rev = deployment.rev + 1
    BY <2>1, <2>2 DEF Deployments
  <2>4. deployment' # Absent
    BY <2>3, DeployAssumption
  <2> QED
    BY <2>1, <2>3, <2>4 DEF ClusterOK
<1>3. CASE RenderAgent
  <2>1. AgentObject \in Objects
    <3>1. PICK m \in Manifests : TRUE
      BY DeployAssumption
    <3>2. ObjectOf(m, 1).obj = AgentObject /\ ObjectOf(m, 1) \in AllWrites
      BY ManifestShape, PartObject, WritesTyped
    <3> QED
      BY <3>2 DEF Objects
  <2>2. store[AgentObject].data \in {[refs |-> DOMAIN m.env] : m \in Manifests}
    BY <1>3, <2>1 DEF RenderAgent, StoredInv, AgentStored
  <2>3. store[AgentObject].data.refs \in {DOMAIN m.env : m \in Manifests}
    BY <2>2
  <2>4. deployment' = [rev |-> IF deployment = Absent THEN 1 ELSE deployment.rev + 1,
                       refs |-> store[AgentObject].data.refs] /\ UNCHANGED <<pods, registry, nodeImages>>
    BY <1>3 DEF RenderAgent
  <2>5. deployment # Absent => deployment.rev \in Nat
    BY DEF ClusterOK, Deployments
  <2>6. deployment' \in Deployments
    BY <2>3, <2>4, <2>5 DEF Deployments
  <2>7. deployment' # Absent
    BY <2>6, DeployAssumption
  <2>8. pods # Absent => pods.rev \in 0..deployment'.rev
    BY <2>4, <2>5 DEF ClusterOK
  <2> QED
    BY <2>4, <2>6, <2>7, <2>8 DEF ClusterOK
<1>4. CASE StartPods
  <2>1. PICK code \in nodeImages \cup ({registry} \ {Absent}) :
          /\ pods' = [rev |-> deployment.rev, code |-> code,
                      env |-> [k \in deployment.refs |-> store[EnvSecret(AgentName)].data[k]]]
          /\ nodeImages' = nodeImages \cup {code}
    BY <1>4 DEF StartPods
  <2>2. deployment # Absent /\ UNCHANGED <<deployment, registry>>
    BY <1>4 DEF StartPods
  <2>3. deployment.rev \in 0..deployment.rev
    BY <2>2 DEF ClusterOK, Deployments
  <2>4. pods'.rev = deployment.rev /\ pods'.code = code
    BY <2>1
  <2>5. nodeImages' \subseteq Programs /\ code \in nodeImages'
    BY <2>1 DEF ClusterOK
  <2> QED
    BY <2>2, <2>3, <2>4, <2>5 DEF ClusterOK
<1>5. ASSUME NEW d \in Deployers, BuildAndPush(d)
      PROVE  ClusterOK'
  <2>1. job[d] # Absent /\ UNCHANGED <<deployment, pods, nodeImages>>
    BY <1>5 DEF BuildAndPush
  <2>2. job[d].m.code \in Programs
    BY <2>1, JobTyped DEF JobInv, Programs
  <2>3. registry' = job[d].m.code \/ UNCHANGED registry
    BY <1>5 DEF BuildAndPush
  <2> QED
    BY <2>1, <2>2, <2>3 DEF ClusterOK
<1>6. \/ UNCHANGED <<deployment, pods, registry, nodeImages>> \/ RenderAgent \/ StartPods
      \/ \E d \in Deployers : BuildAndPush(d)
      \/ \E d \in Deployers : restartAgentDeployment(d) /\ ~ UNCHANGED deployment
  BY DEF DeployNext, deployVars, Begin, Look, CreateOrUpdate, restartAgentDeployment
<1> QED
  BY <1>1, <1>2, <1>3, <1>4, <1>5, <1>6

LEMMA CountsStep ==
    ASSUME CountsOK, JobInv, [DeployNext]_deployVars
    PROVE  CountsOK'
<1>1. DeployFault => deployFaults' \in 0..MaxDeployFaults
  BY DeployAssumption DEF CountsOK, DeployFault
<1>2. ASSUME NEW d \in Deployers, NEW m \in Manifests, Begin(d, m) PROVE CountsOK'
  BY <1>2, DeployAssumption DEF CountsOK, Begin
<1>3. \A d \in Deployers : Ends(d, FALSE) => last'.told \in BOOLEAN
  BY DEF Ends
<1>4. \A d \in Deployers : job[d] # Absent /\ Ends(d, job[d].alone) => last'.told \in BOOLEAN
  BY DEF Ends, JobInv, JobsOK, DeployJobs
<1>5. ASSUME NEW d \in Deployers, BuildAndPush(d) \/ Look(d) \/ CreateOrUpdate(d)
      PROVE  CountsOK'
  <2>1. UNCHANGED deploys /\ (UNCHANGED deployFaults \/ DeployFault) /\ (UNCHANGED last \/ Ends(d, FALSE))
    BY <1>5 DEF BuildAndPush, Look, CreateOrUpdate
  <2> QED
    BY <1>1, <1>3, <2>1 DEF CountsOK
<1>6. ASSUME NEW d \in Deployers, restartAgentDeployment(d)
      PROVE  CountsOK'
  <2>1. /\ UNCHANGED deploys /\ (UNCHANGED deployFaults \/ DeployFault)
        /\ job[d] # Absent /\ (Ends(d, job[d].alone) \/ Ends(d, FALSE))
    BY <1>6 DEF restartAgentDeployment
  <2> QED
    BY <1>1, <1>3, <1>4, <2>1 DEF CountsOK
<1>7. CASE RenderAgent \/ StartPods \/ UNCHANGED deployVars
  BY <1>7 DEF CountsOK, RenderAgent, StartPods, deployVars
<1> QED
  BY <1>2, <1>5, <1>6, <1>7 DEF DeployNext

LEMMA DeployInvStep == DeployInv /\ [DeployNext]_deployVars => DeployInv'
<1> SUFFICES ASSUME DeployInv, [DeployNext]_deployVars
             PROVE  DeployInv'
  OBVIOUS
<1>1. StoredInv /\ ClusterOK /\ CountsOK /\ JobInv
  BY DeployInvParts
<1>2. StoredInv' /\ ClusterOK' /\ CountsOK' /\ JobInv'
  BY <1>1, StoredStep, ClusterStep, CountsStep, JobInvStep
<1>3. DeployTypeOK'
  BY <1>2 DEF DeployTypeOK, StoredInv, StoreOK, ClusterOK, CountsOK, JobInv, JobsOK
<1> QED
  BY <1>2, <1>3 DEF DeployInv, StoredInv, JobInv

LEMMA DeployInvariant == DeploySpec => []DeployInv
<1>1. DeployInit => DeployInv
  BY InitDeployInv
<1>2. DeployInv /\ [DeployNext]_deployVars => DeployInv'
  BY DeployInvStep
<1> QED
  BY <1>1, <1>2, PTL DEF DeploySpec

\* The variables of the deploy model keep their types (DeployCmd's steps and the cluster's).
THEOREM DeployTypeCorrect == DeploySpec => []DeployTypeOK
<1>1. DeployInv => DeployTypeOK
  BY DEF DeployInv
<1> QED
  BY <1>1, DeployInvariant, PTL

\* Where no server refers to a key of the env file, only the env file has a value for
\* its keys, and only the names of a server with a place have one for that.
LEMMA EnvFileClaims ==
    ASSUME NEW m \in Manifests, SparesEnvFile(m), NEW k \in DOMAIN m.env
    PROVE  Claims(m, EnvSecret(AgentName), k) \subseteq {m.env[k]}
<1> SUFFICES ASSUME NEW part \in PartsOf(m), NEW v \in Secrets(m, part),
                    v.obj = EnvSecret(AgentName), k \in DOMAIN v.data
             PROVE  v.data[k] = m.env[k]
  BY DEF Claims, AllSecrets
<1>1. CASE part = 1
  BY <1>1 DEF Secrets, createEnvFileSecret, Write
<1>2. CASE part # 1
  <2> DEFINE s == m.servers[part - 1]
  <2>1. PICK l \in DOMAIN s.fields.refs : Place(s, l) = <<v.obj, k>>
    BY <1>2, SecretOfServer
  <2>2. part - 1 \in DOMAIN m.servers
    BY <1>2, ManifestShape
  <2> QED
    BY <2>1, <2>2 DEF SparesEnvFile
<1> QED
  BY <1>1, <1>2

LEMMA ServerClaims ==
    ASSUME NEW m \in Manifests, SparesEnvFile(m), NEW i \in DOMAIN m.servers,
           NEW n \in DOMAIN m.servers[i].fields.refs,
           NEW obj, NEW k, Place(m.servers[i], n) = <<obj, k>>, NEW value \in Claims(m, obj, k)
    PROVE  \E l \in DOMAIN m.servers[i].fields.refs :
             Place(m.servers[i], l) = <<obj, k>> /\ value = m.shell[m.servers[i].fields.refs[l]]
<1> DEFINE s == m.servers[i]
<1>1. PICK part \in PartsOf(m), v \in AllSecrets(m) :
        v \in Secrets(m, part) /\ v.obj = obj /\ k \in DOMAIN v.data /\ value = v.data[k]
  BY DEF Claims, AllSecrets
<1>2. \E h : obj = <<"Secret", s.name, h>>
  BY DEF Place, HeaderSecret, EnvSecret
<1>3. CASE part = 1
  <2>1. obj = EnvSecret(AgentName) /\ k \in DOMAIN m.env
    BY <1>1, <1>3 DEF Secrets, createEnvFileSecret, Write
  <2> QED
    BY <2>1 DEF SparesEnvFile
<1>4. CASE part # 1
  <2> DEFINE t == m.servers[part - 1]
  <2>1. part - 1 \in DOMAIN m.servers
    BY <1>4, ManifestShape
  <2>2. PICK h : obj = <<"Secret", t.name, h>>
    BY <1>1, <1>4, SecretOfServer
  <2>3. s.name = t.name
    <3>1. PICK g : obj = <<"Secret", s.name, g>>
      BY <1>2
    <3>2. <<"Secret", s.name, g>> = <<"Secret", t.name, h>>
      BY <2>2, <3>1
    <3> HIDE DEF s, t
    <3> QED
      BY <3>2, SameSecret
  <2>4. part - 1 = i
    BY <2>1, <2>3, ManifestsAssumption
  <2> QED
    BY <1>1, <1>4, <2>4, SecretOfServer
<1> QED
  BY <1>3, <1>4

\* A server whose part is done is deployed: its object, and each Secret it names.
LEMMA ServerIsDeployed ==
    ASSUME NEW m \in Manifests, SparesEnvFile(m), NEW i \in DOMAIN m.servers, PartDone(store, m, i + 1)
    PROVE  ServerDeployed(m.servers[i], m.shell)
<1> DEFINE s == m.servers[i]
<1>1. i + 1 # 1 /\ (i + 1) - 1 = i
  BY ManifestShape
<1>2. ObjectOf(m, i + 1) = Write(ServerObject(s), "replace", s.fields, {})
  BY <1>1 DEF ObjectOf
<1>3. store[ServerObject(s)].rv > 0 /\ store[ServerObject(s)].data = s.fields
  BY <1>2 DEF PartDone, ObjectKept, Write
<1>4. Secrets(m, i + 1) = IF s.kind = "remote" THEN HeaderWrites(s, m.shell) ELSE EnvWrites(s, m.shell)
  BY <1>1 DEF Secrets
<1>5. ASSUME NEW n \in DOMAIN s.fields.refs
      PROVE  LET secret == store[Place(s, n)[1]]   key == Place(s, n)[2]
             IN /\ secret.rv > 0 /\ key \in DOMAIN secret.data
                /\ \E l \in DOMAIN s.fields.refs :
                      Place(s, l) = Place(s, n) /\ secret.data[key] = m.shell[s.fields.refs[l]]
  <2>1. PICK o, k : Place(s, n) = <<o, k>>
    BY DEF Place
  <2>2. PICK w \in Secrets(m, i + 1) : w.obj = o /\ (w.needs \subseteq DOMAIN m.shell => k \in DOMAIN w.data)
    <3>1. CASE s.kind = "remote"
      <4> DEFINE w == processHeaderValue(s, m.shell, n)
      <4>1. w \in Secrets(m, i + 1)
        BY <1>4, <3>1 DEF HeaderWrites
      <4>2. o = HeaderSecret(s, n) /\ k = sanitizeForSecretKey[n]
        BY <2>1, <3>1 DEF Place
      <4> HIDE DEF s
      <4>3. /\ w.obj = HeaderSecret(s, n) /\ w.needs = {s.fields.refs[n]}
            /\ s.fields.refs[n] \in DOMAIN m.shell => sanitizeForSecretKey[n] \in DOMAIN w.data
        BY HeaderWrite
      <4> HIDE DEF w
      <4> QED
        BY <4>1, <4>2, <4>3
    <3>2. CASE s.kind # "remote"
      <4> DEFINE w == EnvWrite(s, m.shell)
      <4>1. w \in Secrets(m, i + 1)
        BY <1>4, <3>2 DEF EnvWrites
      <4>2. o = EnvSecret(s.name) /\ k = ToLower[n]
        BY <2>1, <3>2 DEF Place
      <4>3. s.wins[ToLower[n]] \in DOMAIN s.fields.refs
        BY <3>2, ManifestsAssumption
      <4> HIDE DEF s
      <4>4. /\ w.obj = EnvSecret(s.name) /\ w.needs = {s.fields.refs[h] : h \in DOMAIN s.fields.refs}
            /\ \A h \in DOMAIN s.fields.refs :
                 s.fields.refs[s.wins[ToLower[h]]] \in DOMAIN m.shell => ToLower[h] \in DOMAIN w.data
        BY EnvWritten
      <4> HIDE DEF w
      <4> QED
        BY <4>1, <4>2, <4>3, <4>4
    <3> QED
      BY <3>1, <3>2
  <2>3. SecretKept(store, m, w) /\ w.needs \subseteq DOMAIN m.shell
    BY <2>2 DEF PartDone, SecretDone
  <2>4. store[o].rv > 0 /\ k \in DOMAIN store[o].data /\ store[o].data[k] \in Claims(m, o, k)
    BY <2>2, <2>3 DEF SecretKept
  <2>5. \E l \in DOMAIN s.fields.refs : Place(s, l) = <<o, k>> /\ store[o].data[k] = m.shell[s.fields.refs[l]]
    <3> HIDE DEF s
    <3>1. PICK value \in Claims(m, o, k) : value = store[o].data[k]
      BY <2>4
    <3>2. \E l \in DOMAIN m.servers[i].fields.refs :
            Place(m.servers[i], l) = <<o, k>> /\ value = m.shell[m.servers[i].fields.refs[l]]
      BY <2>1, ServerClaims DEF s
    <3> QED
      BY <3>1, <3>2 DEF s
  <2>6. Place(s, n)[1] = o /\ Place(s, n)[2] = k
    BY <2>1
  <2> HIDE DEF s
  <2> QED
    BY <2>1, <2>4, <2>5, <2>6
<1> QED
  BY <1>3, <1>5 DEF ServerDeployed

\* Where a deploy that ran alone reported success, nothing runs, and no server of its
\* manifest takes a key of the env file, the cluster comes to rest on all of that
\* deploy: its servers with the values of its shell, and pods that can start and run
\* its program, or an older one of a node, with the values of its env file (DeployCmd).
THEOREM DeployIsWhole == DeploySpec => []DeployedIsWhole
<1>1. ASSUME DeployInv
      PROVE  DeployedIsWhole
  <2> SUFFICES ASSUME Rests, SparesEnvFile(last.m)
               PROVE  /\ \A i \in DOMAIN last.m.servers : ServerDeployed(last.m.servers[i], last.m.shell)
                      /\ store[AgentObject].data = [refs |-> DOMAIN last.m.env]
                      /\ (deployment # Absent /\ deployment.refs = store[AgentObject].data.refs)
                           => /\ CanStart
                              /\ (pods # Absent /\ pods.rev = deployment.rev)
                                   => pods.code \in {last.m.code} \cup last.older /\ pods.env = last.m.env
    BY DEF DeployedIsWhole, Rests
  <2>1. PICK m \in Manifests : m = last.m
    BY <1>1 DEF DeployInv, RestInv
  <2>2. /\ nodeImages \subseteq last.older \cup {m.code} /\ PodsCurrent
        /\ \A part \in PartsOf(m) : PartDone(store, m, part)
    BY <1>1, <2>1 DEF DeployInv, RestInv, Pushed
  <2>3. \A i \in DOMAIN m.servers : ServerDeployed(m.servers[i], m.shell)
    <3> SUFFICES ASSUME NEW i \in DOMAIN m.servers
                 PROVE  ServerDeployed(m.servers[i], m.shell)
      OBVIOUS
    <3>1. i + 1 \in PartsOf(m)
      BY ManifestShape DEF PartsOf
    <3> QED
      BY <2>1, <2>2, <3>1, ServerIsDeployed
  <2>4. PartDone(store, m, 1)
    BY <2>2, ManifestShape
  <2>5. store[AgentObject].data = [refs |-> DOMAIN m.env]
    BY <2>4 DEF PartDone, ObjectKept, ObjectOf, createAgentCRD, Write
  <2>6. SecretKept(store, m, createEnvFileSecret(m))
    BY <2>4 DEF PartDone, SecretDone, Secrets
  <2>7. /\ store[EnvSecret(AgentName)].rv > 0
        /\ \A k \in DOMAIN m.env : /\ k \in DOMAIN store[EnvSecret(AgentName)].data
                                   /\ store[EnvSecret(AgentName)].data[k] \in Claims(m, EnvSecret(AgentName), k)
    BY <2>6 DEF SecretKept, createEnvFileSecret, Write
  <2>9. \A k \in DOMAIN m.env : store[EnvSecret(AgentName)].data[k] = m.env[k]
    BY <2>1, <2>7, EnvFileClaims
  <2>8. ASSUME deployment # Absent, deployment.refs = store[AgentObject].data.refs
        PROVE  /\ CanStart
               /\ (pods # Absent /\ pods.rev = deployment.rev) =>
                    pods.code \in {m.code} \cup last.older /\ pods.env = m.env
    <3>1. deployment.refs = DOMAIN m.env
      BY <2>5, <2>8
    <3>2. CanStart
      BY <2>7, <3>1 DEF CanStart
    <3>3. ASSUME pods # Absent, pods.rev = deployment.rev
          PROVE  pods.code \in {m.code} \cup last.older /\ pods.env = m.env
      <4>1. pods.env = [k \in DOMAIN m.env |-> store[EnvSecret(AgentName)].data[k]]
        BY <2>2, <3>1, <3>3 DEF PodsCurrent
      <4>2. pods.env = [k \in DOMAIN m.env |-> m.env[k]]
        BY <2>9, <4>1
      <4>3. pods.code \in nodeImages
        BY <1>1, <3>3 DEF DeployInv, DeployTypeOK
      <4> QED
        BY <2>2, <4>2, <4>3, ManifestsAssumption
    <3> QED
      BY <3>2, <3>3
  <2> QED
    BY <2>1, <2>3, <2>5, <2>8
<1> QED
  BY <1>1, DeployInvariant, PTL
=============================================================================
