------------------------------ MODULE TaskLife ------------------------------
(***************************************************************************)
(* What a client that reads a task from the task store may see of it, in   *)
(* the order it may see it.  Within a request a task is submitted at most  *)
(* once and before it works, and it leaves working once, for good, as the  *)
(* last thing the request does: a task that waits for its user or is over  *)
(* does not go on by itself.  A request may end early, and what is stored  *)
(* then stays.  TaskRuns implements this (LifeOfTask).                     *)
(***************************************************************************)
VARIABLES life,    \* the state of the stored task
          phase    \* of the request: "closed", "open", "working", "over"

lifeVars == <<life, phase>>

Over    == {"completed", "failed"}
Waiting == {"input_required", "auth_required"}

LifeInit == life = "none" /\ phase = "closed"

Opened    == phase = "closed" /\ life \notin Over /\ phase' = "open" /\ life' = life
Submitted == phase = "open" /\ life = "none" /\ life' = "submitted" /\ phase' = phase
Working   == phase \in {"open", "working"} /\ life # "none" /\ life' = "working" /\ phase' = "working"
Ends      == phase \in {"open", "working"} /\ life # "none" /\ phase' = "over"
             /\ life' \in Over \cup Waiting \cup {"working"}
Closed    == phase # "closed" /\ phase' = "closed" /\ life' = life

LifeNext == Opened \/ Submitted \/ Working \/ Ends \/ Closed

LifeSpec == LifeInit /\ [][LifeNext]_lifeVars
=============================================================================
