----------------------------- MODULE TaskService -----------------------------
(***************************************************************************)
(* What sending a task promises, whatever the connection does: a task is run *)
(* at most once; a caller told ok was given the result of a run that          *)
(* finished; a caller told error knows that there is no result; and any other *)
(* caller knows nothing.                                                      *)
(***************************************************************************)
CONSTANT Tasks

VARIABLES
    outcome,   \* what the caller of each task knows
    work       \* what has become of the task itself

vars == <<outcome, work>>

Outcomes == {"new", "asked", "ok", "error", "unknown"}
Works == {"none", "refused", "begun", "done", "failed", "dropped"}

Init ==
    /\ outcome = [t \in Tasks |-> "new"]
    /\ work = [t \in Tasks |-> "none"]

Told(t, what) == outcome' = [outcome EXCEPT ![t] = what] /\ UNCHANGED work
Became(t, what) == work' = [work EXCEPT ![t] = what] /\ UNCHANGED outcome

Ask(t) == outcome[t] = "new" /\ Told(t, "asked")
GiveUp(t) == outcome[t] \in {"new", "asked"} /\ Told(t, "unknown")
LearnOk(t) == outcome[t] = "asked" /\ work[t] = "done" /\ Told(t, "ok")
LearnError(t) ==
    outcome[t] = "asked" /\ work[t] \in {"refused", "failed"} /\ Told(t, "error")

Refuse(t) == outcome[t] # "new" /\ work[t] = "none" /\ Became(t, "refused")
Begin(t) == outcome[t] # "new" /\ work[t] = "none" /\ Became(t, "begun")
End(t) == work[t] = "begun" /\ \E w \in {"done", "failed", "dropped"} : Became(t, w)

Next ==
    \E t \in Tasks :
        \/ Ask(t) \/ GiveUp(t) \/ LearnOk(t) \/ LearnError(t)
        \/ Refuse(t) \/ Begin(t) \/ End(t)

Spec == Init /\ [][Next]_vars
=============================================================================
