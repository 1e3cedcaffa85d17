---------------------------- MODULE ServerWizard ----------------------------
(***************************************************************************)
(* The form that describes an MCP server for kagent.yaml                   *)
(* (go/cli/internal/tui/dialogs/mcp_server_wizard.go): pages that are left *)
(* with Enter and gone back through with Esc, inputs of which those with   *)
(* focus take what is typed, and the result the last page builds.          *)
(*                                                                         *)
(* A text is "", what a mode presets, or something typed, of which matters *)
(* only whether it begins like a URL.  An item of a list is chosen and     *)
(* entered in one step: where its cursor stands is the list's own state.   *)
(* Drawing and window sizes are left out.                                  *)
(***************************************************************************)
EXTENDS Naturals, FiniteSets

CONSTANTS MaxTyped, MaxBacks, MaxTabs      \* bounds

ASSUME WizardAssumption == MaxTyped \in Nat /\ MaxBacks \in Nat /\ MaxTabs \in Nat

VARIABLES
    step, chosenType, chosenMethod, commandMode, buildPath,
    text,       \* what each input holds
    focused,    \* the inputs that have focus
    headers,    \* whether a header was added (only whether: all are typed alike)
    result,     \* the server described
    errMsg,     \* whether a message is shown
    ended,      \* how the program ended, or "no"
    entered,    \* history: the pages with inputs that were come to with Enter
    astray,     \* history: a page was come to again, a header was added, or Tab was
                \*  pressed where only the package is shown
    leftover,   \* history: the inputs with a text from before the type, the method or
                \*  the mode was chosen
    typed, backs, tabs     \* counters of the bounds

choices    == <<chosenType, chosenMethod, commandMode, buildPath>>
form       == <<text, focused, entered, astray, leftover>>
counters   == <<typed, backs, tabs>>
wizardVars == <<step, choices, form, headers, result, errMsg, ended, counters>>

Pages   == {"pickType", "remoteURL", "remoteHeaders", "commandMethod", "commandMode",
            "commandDetails", "argsEnv", "name"}
Inputs  == {"url", "key", "value", "image", "pkg", "command", "args", "env", "name"}
Details == {"image", "pkg", "command"}
Packages == {"npx", "uvx"}
Texts   == {"", "word", "http"} \cup Packages

\* The fields of common.McpServerType; Headers is the map of the form itself.
NoServer == [Type |-> "", Name |-> "", URL |-> "", Headers |-> FALSE, Image |-> "", Build |-> "",
             Command |-> "", Args |-> {}, Env |-> ""]

McpServers == [Type : {"", "remote", "command"}, Name : Texts, URL : Texts, Headers : BOOLEAN,
               Image : Texts, Build : {"", "file"}, Command : Texts, Args : SUBSET Texts, Env : Texts]

StepTypeOK == /\ step \in Pages /\ ended \in {"no", "ok", "quit", "panic"}
              /\ chosenType \in {"", "remote", "command"}
              /\ chosenMethod \in {"", "image", "build", "command"}
              /\ commandMode \in {"", "custom"} \cup Packages /\ buildPath \in {"", "file"}
FormTypeOK == /\ text \in [Inputs -> Texts] /\ focused \subseteq Inputs
              /\ entered \subseteq Pages /\ astray \in BOOLEAN /\ leftover \subseteq Inputs
CountTypeOK == typed \in 0..MaxTyped /\ backs \in 0..MaxBacks /\ tabs \in 0..MaxTabs

WizardTypeOK == /\ StepTypeOK /\ FormTypeOK /\ CountTypeOK
                /\ result \in McpServers /\ headers \in BOOLEAN /\ errMsg \in BOOLEAN

WizardInit ==
    /\ step = "pickType" /\ text = [i \in Inputs |-> ""] /\ focused = {}
    /\ chosenType = "" /\ chosenMethod = "" /\ commandMode = "" /\ buildPath = ""
    /\ headers = FALSE /\ result = NoServer /\ errMsg = FALSE /\ ended = "no"
    /\ entered = {} /\ astray = FALSE /\ leftover = {} /\ typed = 0 /\ backs = 0 /\ tabs = 0

\* The inputs a page hands a key to, and those it shows.
Receives == CASE step = "remoteURL"     -> {"url"}
              [] step = "remoteHeaders" -> {"key", "value"}
              [] step = "commandDetails" -> IF chosenMethod = "build" THEN {} ELSE Details
              [] step = "argsEnv"       -> {"args", "env"}
              [] step = "name"          -> {"name"}
              [] OTHER                  -> {}

ShowsPackage == step = "commandDetails" /\ chosenMethod = "command" /\ commandMode \in Packages

Displays == IF step # "commandDetails" THEN Receives
            ELSE CASE chosenMethod = "image"   -> {"image", "command"}
                   [] ShowsPackage             -> {"pkg"}
                   [] chosenMethod = "command" /\ ~ShowsPackage -> {"command"}
                   [] OTHER                    -> {}

\* A page with inputs is come to: some are emptied, the first gets focus, and no
\* input loses it.
Emptied(inputs) == [i \in Inputs |-> IF i \in inputs THEN "" ELSE text[i]]
Open(page, first, texts) ==
    /\ step' = page /\ text' = texts /\ focused' = focused \cup {first}
    /\ entered' = entered \cup {page} /\ astray' = (astray \/ page \in entered)

GoTo(page, first, inputs) ==
    Open(page, first, Emptied(inputs)) /\ leftover' = leftover \ inputs

\* The same on a choice: what the other inputs hold is of before it.
Outlives(inputs) == leftover' = {i \in Inputs \ inputs : text[i] # ""}
Choose(page, first, texts, inputs) == Open(page, first, texts) /\ Outlives(inputs)
Pass(page) == step' = page /\ UNCHANGED <<text, focused, entered, astray>> /\ Outlives({})
Refuse == errMsg' = TRUE /\ UNCHANGED <<step, form>>

----------------------------------------------------------------------------
(* Enter, page by page. *)

Enter(page) == ended = "no" /\ step = page /\ UNCHANGED counters

EnterPickType(type) ==
    /\ Enter("pickType") /\ errMsg' = FALSE /\ chosenType' = type
    /\ IF type = "remote" THEN Choose("remoteURL", "url", Emptied({"url"}), {"url"})
       ELSE Pass("commandMethod")
    /\ UNCHANGED <<chosenMethod, commandMode, buildPath, headers, result, ended>>

EnterRemoteURL ==
    /\ Enter("remoteURL")
    /\ \/ text["url"] # "http" /\ Refuse /\ UNCHANGED result
       \/ /\ text["url"] = "http" /\ errMsg' = FALSE
          /\ result' = [result EXCEPT !.Type = "remote", !.URL = text["url"]]
          /\ GoTo("remoteHeaders", "key", {"key", "value"})
    /\ UNCHANGED <<choices, headers, ended>>

EnterRemoteHeaders ==
    /\ Enter("remoteHeaders")
    /\ \/ /\ text["key"] = "" /\ text["value"] = "" /\ errMsg' = FALSE
          /\ result' = [result EXCEPT !.Headers = TRUE]
          /\ GoTo("name", "name", {"name"}) /\ UNCHANGED headers
       \/ (text["key"] = "") # (text["value"] = "") /\ Refuse /\ UNCHANGED <<headers, result>>
       \/ /\ text["key"] # "" /\ text["value"] # "" /\ errMsg' = FALSE /\ headers' = TRUE
          /\ text' = Emptied({"key", "value"}) /\ focused' = focused \cup {"key"}
          /\ astray' = TRUE /\ leftover' = leftover \ {"key", "value"}
          /\ UNCHANGED <<step, entered, result>>
    /\ UNCHANGED <<choices, ended>>

EnterCommandMethod(method) ==
    /\ Enter("commandMethod") /\ errMsg' = FALSE /\ chosenMethod' = method
    /\ \/ /\ method = "image"
          /\ Choose("commandDetails", "image", Emptied({"image", "command"}), {"image", "command"})
          /\ UNCHANGED <<commandMode, buildPath>>
       \/ /\ method = "build" /\ Pass("commandDetails") /\ buildPath' = ""
          /\ UNCHANGED commandMode
       \/ /\ method = "command" /\ Pass("commandMode") /\ commandMode' = ""
          /\ UNCHANGED buildPath
    /\ UNCHANGED <<chosenType, headers, result, ended>>

Preset(mode) == [Emptied({"pkg"}) EXCEPT !["command"] = mode]

\* Mutant: the command is left as it was.
KeepsCommand(mode) ==
    /\ Enter("commandMode") /\ errMsg' = FALSE /\ commandMode' = mode
    /\ IF mode \in Packages THEN Choose("commandDetails", "pkg", Preset(mode), {"pkg", "command"})
       ELSE Choose("commandDetails", "command", text, {})
    /\ UNCHANGED <<chosenType, chosenMethod, buildPath, headers, result, ended>>

EnterCommandMode(mode) ==
    /\ Enter("commandMode") /\ errMsg' = FALSE /\ commandMode' = mode
    /\ IF mode \in Packages THEN Choose("commandDetails", "pkg", Preset(mode), {"pkg", "command"})
       ELSE Choose("commandDetails", "command", Emptied({"command"}), {"command"})
    /\ UNCHANGED <<chosenType, chosenMethod, buildPath, headers, result, ended>>

\* Mutant: the name of an image is not asked for.
ImageUnchecked == CASE chosenMethod = "image" -> TRUE
                    [] chosenMethod = "build" -> buildPath # ""
                    [] OTHER                  -> text["command"] # ""

\* The package of npx and uvx is not looked at.
DetailsComplete == CASE chosenMethod = "image" -> text["image"] # ""
                     [] chosenMethod = "build" -> buildPath # ""
                     [] OTHER                  -> text["command"] # ""

EnterCommandDetails ==
    /\ Enter("commandDetails")
    /\ IF DetailsComplete THEN errMsg' = FALSE /\ GoTo("argsEnv", "args", {"args", "env"})
       ELSE Refuse
    /\ UNCHANGED <<choices, headers, result, ended>>

EnterArgsEnv ==
    /\ Enter("argsEnv") /\ errMsg' = FALSE /\ GoTo("name", "name", {"name"})
    /\ UNCHANGED <<choices, headers, result, ended>>

\* buildFinalResult: of a remote server it only sets type and name.  The build case
\* reads the command as well, which its page does not show.
BuildFinalResult ==
    IF chosenType = "remote" THEN [result EXCEPT !.Type = "remote", !.Name = text["name"]]
    ELSE [result EXCEPT
            !.Type = "command", !.Name = text["name"], !.Command = text["command"],
            !.Image = IF chosenMethod = "image" THEN text["image"] ELSE "",
            !.Build = IF chosenMethod = "build" THEN buildPath ELSE "",
            !.Args = (IF text["args"] = "" THEN {} ELSE {text["args"]}) \cup
                     (IF chosenMethod = "command" /\ commandMode \in Packages THEN {text["pkg"]} ELSE {}),
            !.Env = text["env"]]

EnterName ==
    /\ Enter("name")
    /\ \/ text["name"] = "" /\ Refuse /\ UNCHANGED <<result, ended>>
       \/ /\ text["name"] # "" /\ errMsg' = FALSE
          /\ result' = BuildFinalResult /\ ended' = "ok" /\ UNCHANGED <<step, form>>
    /\ UNCHANGED <<choices, headers>>

----------------------------------------------------------------------------
(* The other keys. *)

PrevStep ==
    CASE step = "remoteHeaders"  -> "remoteURL"
      [] step = "commandMode"    -> "commandMethod"
      [] step = "commandDetails" -> IF chosenMethod = "command" THEN "commandMode" ELSE "commandMethod"
      [] step = "argsEnv"        -> "commandDetails"
      [] step = "name"           -> IF chosenType = "remote" THEN "remoteHeaders" ELSE "argsEnv"
      [] OTHER                   -> "pickType"

Esc ==
    /\ ended = "no" /\ step # "pickType" /\ backs < MaxBacks
    /\ step' = PrevStep /\ errMsg' = FALSE /\ backs' = backs + 1
    /\ UNCHANGED <<choices, form, headers, result, ended, typed, tabs>>

\* "q" quits on every page, also where a text is typed.
Quit ==
    /\ ended = "no" /\ ended' = "quit"
    /\ UNCHANGED <<step, choices, form, headers, result, errMsg, counters>>

\* Of two inputs, Tab gives focus to one and takes it from the other; which one,
\* depends on the input that is asked first.
Toggled(a, b, reverse) ==
    LET toA == IF reverse THEN b \in focused ELSE a \notin focused
    IN IF toA THEN (focused \ {b}) \cup {a} ELSE (focused \ {a}) \cup {b}

\* detailOrderKeys: the next input after the first that has focus; with two inputs
\* both directions are the same.
NextDetail == IF chosenMethod = "image" /\ "image" \notin focused /\ "command" \in focused
              THEN "image" ELSE "command"

Tab(reverse) ==
    /\ ended = "no" /\ tabs < MaxTabs /\ tabs' = tabs + 1
    /\ \/ /\ step \in {"remoteHeaders", "argsEnv", "commandDetails"} /\ Receives # {}
          /\ focused' = CASE step = "remoteHeaders" -> Toggled("key", "value", reverse)
                          [] step = "argsEnv"       -> Toggled("args", "env", reverse)
                          [] OTHER                  -> (focused \ Details) \cup {NextDetail}
          /\ astray' = (astray \/ ShowsPackage)
          /\ UNCHANGED <<text, entered, leftover, ended>>
       \* No input to go to: a division by zero, or an index of -1.
       \/ step = "commandDetails" /\ Receives = {} /\ ended' = "panic" /\ UNCHANGED form
    /\ UNCHANGED <<step, choices, headers, result, errMsg, typed, backs>>

Appended(old, new) == IF old = "" THEN new ELSE IF old = "http" THEN old ELSE "word"

\* The file picker selects on Enter, which Update does not hand on.
SelectKeys == {"enter"}
DidSelectFile(key) == key \in SelectKeys

Type(new) ==
    /\ ended = "no" /\ typed < MaxTyped /\ typed' = typed + 1
    /\ step \in {"remoteURL", "remoteHeaders", "commandDetails", "argsEnv", "name"}
    /\ new = "http" => step = "remoteURL"
    /\ text' = [i \in Inputs |-> IF i \in focused \cap Receives THEN Appended(text[i], new) ELSE text[i]]
    /\ buildPath' = IF Receives = {} /\ DidSelectFile("character") THEN "file" ELSE buildPath
    /\ UNCHANGED <<step, chosenType, chosenMethod, commandMode, focused, entered, astray, leftover,
                   headers, result, errMsg, ended, backs, tabs>>

Erase ==
    /\ ended = "no" /\ \E i \in focused \cap Receives : text[i] # ""
    /\ text' = [i \in Inputs |-> IF i \in focused \cap Receives THEN "" ELSE text[i]]
    /\ leftover' = leftover \ (focused \cap Receives)
    /\ UNCHANGED <<step, choices, focused, entered, astray, headers, result, errMsg, ended, counters>>

WizardNext ==
    \/ \E type \in {"remote", "command"} : EnterPickType(type)
    \/ EnterRemoteURL \/ EnterRemoteHeaders
    \/ \E method \in {"image", "build", "command"} : EnterCommandMethod(method)
    \/ \E mode \in {"custom"} \cup Packages : EnterCommandMode(mode)
    \/ EnterCommandDetails \/ EnterArgsEnv \/ EnterName
    \/ Esc \/ Quit
    \/ \E reverse \in BOOLEAN : Tab(reverse)
    \/ \E new \in {"word", "http"} : Type(new)
    \/ Erase

WizardSpec == WizardInit /\ [][WizardNext]_wizardVars

----------------------------------------------------------------------------
(* Properties *)

\* What the form gives out passed the checks of its pages, however the user went
\* back and forth: a remote server has a URL, an image its name, and another command
\* is not empty (enterRemoteURL, validateCommandDetails, enterCommandDetails are only
\* run by Enter, and Esc goes back over them).
ResultIsValid ==
    ended = "ok" =>
        /\ result.Type = chosenType /\ result.Name # ""
        /\ result.Type = "remote"  => result.URL = "http"
        /\ result.Type = "command" => result.Image # "" \/ result.Build # "" \/ result.Command # ""
        /\ result.Type = "command" /\ chosenMethod = "image" => result.Image # ""

RunsNothing(server) == /\ server.Image = "" /\ server.Build = "" /\ server.Command = ""
                       /\ server.Args = {} /\ server.Env = ""

\* The inputs of the pages on the way to what is chosen.
Wanted == IF chosenType = "remote" THEN {"url", "name"}
          ELSE {"args", "env", "name"} \cup
               CASE chosenMethod = "image" -> {"image", "command"}
                 [] chosenMethod = "command" /\ commandMode \in Packages -> {"pkg"}
                 [] OTHER -> {"command"}

\* The server has what the input holds.
Tells(server, i) == CASE i = "url"     -> server.URL = text[i]
                      [] i = "name"    -> server.Name = text[i]
                      [] i = "image"   -> server.Image = text[i]
                      [] i = "command" -> server.Command = text[i]
                      [] i = "env"     -> server.Env = text[i]
                      [] OTHER         -> text[i] \in server.Args \cup {""}

\* However often the user goes back and chooses something else, the form gives out
\* what was typed on the pages of the way taken in the end, all of it, and nothing
\* typed before the last choice: no input of that way holds a text of another way
\* (the enter functions empty what they come to), and what is not asked for on it is
\* empty.  Two things are let through: of a user who came back from a remote server
\* the URL and the headers may stay (buildFinalResult does not clear them), and the
\* command of npx and uvx, which is preset, takes what is typed when the focus went
\* astray.
ResultTellsPages ==
    ended = "ok" =>
        /\ Wanted \cap leftover = {}
        /\ \A i \in Wanted : Tells(result, i)
        /\ chosenType = "remote" => RunsNothing(result) /\ result.Headers
        /\ chosenType = "command" =>
              /\ result.Args \subseteq {text[i] : i \in Wanted \cap {"pkg", "args"}}
              /\ result.Image # "" => "image" \in Wanted
              /\ "command" \notin Wanted => result.Command = commandMode \/ astray
              /\ result.URL # "" => "remoteHeaders" \in entered
              /\ result.Headers => result.URL # ""

\* What is typed goes to one input, and one that is shown, until the focus goes
\* astray: Focus does not take it from another input, so a page that is come to again,
\* and the page of headers after the first one, may have two, and Tab on the page of a
\* package goes to the command, which is not shown.
OneCursor ==
    ended = "no" /\ ~astray /\ Receives # {} =>
        \E i \in Displays : focused \cap Receives = {i}
=============================================================================
