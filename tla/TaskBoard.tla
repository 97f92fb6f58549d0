----------------------------- MODULE TaskBoard -----------------------------
(***************************************************************************)
(* What the resolver relies on when it reads tasks.status: a task is taken *)
(* from 'todo', and is then closed or given back; a closed task stays      *)
(* closed.  The dispatch of one feature at a time implements it.           *)
(***************************************************************************)
CONSTANT Tasks
VARIABLE status

Init == status = [t \in Tasks |-> "todo"]

Move(t, from, to) == status[t] = from /\ status' = [status EXCEPT ![t] = to]

Take(t)     == Move(t, "todo", "in_progress")
Close(t)    == Move(t, "in_progress", "done")
GiveBack(t) == Move(t, "in_progress", "todo")

Next == \E t \in Tasks : Take(t) \/ Close(t) \/ GiveBack(t)

Spec == Init /\ [][Next]_status
=============================================================================
