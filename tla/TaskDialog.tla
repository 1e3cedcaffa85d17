----------------------------- MODULE TaskDialog -----------------------------
(***************************************************************************)
(* What a client that reads a task from the task store may see of one that *)
(* asks its user questions, in the order it may see it.  A task asks while *)
(* it works, each time something new; until the next message nothing more  *)
(* happens to a task that asks than that it is given up; and a task that   *)
(* is over stays so.  A request may end early, also with what it stores    *)
(* last.  TaskExecution implements this (LifeOfDialog).                    *)
(***************************************************************************)
VARIABLES life,       \* the state of the stored task
          question,   \* what it asks, or NoQuestion
          questions,  \* all it has ever asked
          phase       \* of the request: "closed", "open", "asked"

dialogVars == <<life, question, questions, phase>>

Over       == {"completed", "failed"}
NoQuestion == 0

DialogInit == life = "none" /\ question = NoQuestion /\ questions = {} /\ phase = "closed"

\* The request goes on, or ends with this.
Onto(p) == phase' \in {p, "closed"}

Opened    == /\ phase = "closed" /\ life \notin Over /\ phase' = "open"
             /\ UNCHANGED <<life, question, questions>>
Submitted == /\ phase = "open" /\ life = "none" /\ life' = "submitted" /\ Onto("open")
             /\ UNCHANGED <<question, questions>>
Working   == /\ phase = "open" /\ life \notin Over \cup {"none"} /\ life' = "working" /\ Onto("open")
             /\ question' = NoQuestion /\ UNCHANGED questions
Asks      == /\ phase = "open" /\ life = "working" /\ life' = "input_required" /\ Onto("asked")
             /\ question' \notin questions \cup {NoQuestion} /\ questions' = questions \cup {question'}
Ends      == /\ \/ phase = "open" /\ life = "working" /\ life' \in Over
                \/ phase = "asked" /\ life' = "failed"
             /\ phase' = "closed" /\ question' = NoQuestion /\ UNCHANGED questions
Stops     == /\ phase # "closed" /\ phase' = "closed" /\ UNCHANGED <<life, question, questions>>

DialogNext == Opened \/ Submitted \/ Working \/ Asks \/ Ends \/ Stops

DialogSpec == DialogInit /\ [][DialogNext]_dialogVars
=============================================================================
