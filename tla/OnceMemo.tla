------------------------------- MODULE OnceMemo -------------------------------
(***************************************************************************)
(* What uv's OnceMap promises (crates/uv-once-map): a job registered for a  *)
(* key is run by one task, and every task that joined it is handed a value  *)
(* that was submitted for that key.  No notification, no re-check, no map   *)
(* lookup: those are OnceMap's business.                                    *)
(***************************************************************************)
CONSTANTS Keys,     \* what jobs are registered for
          Tasks,    \* the async tasks (and blocked threads) that use the map
          Values    \* the results of jobs

VARIABLES memo,     \* memo[k]: <<>> no job, <<"running">>, or <<"value", v>>
          call      \* call[t]: what t is doing with the map

vars == <<memo, call>>

Absent   == <<>>
Running  == <<"running">>
Known(v) == <<"value", v>>

Idle        == <<"idle">>
Working(k)  == <<"working", k>>
Joined(k)   == <<"joined", k>>
Holding(v)  == <<"holding", v>>

Init == memo = [k \in Keys |-> Absent] /\ call = [t \in Tasks |-> Idle]

\* The first task to ask for an unknown key is told to run the job.
Start(t, k) ==
    /\ call[t] = Idle /\ memo[k] = Absent
    /\ memo' = [memo EXCEPT ![k] = Running]
    /\ call' = [call EXCEPT ![t] = Working(k)]

\* Any other task joins: it will be handed the result.
Join(t, k) ==
    /\ call[t] = Idle /\ memo[k] # Absent
    /\ call' = [call EXCEPT ![t] = Joined(k)]
    /\ UNCHANGED memo

\* The key is known already: the task has its answer at once.
Hit(t, k) ==
    /\ call[t] = Idle
    /\ \E v \in Values : memo[k] = Known(v) /\ call' = [call EXCEPT ![t] = Holding(v)]
    /\ UNCHANGED memo

\* The job's task submits its result.
Finish(t) ==
    \E k \in Keys, v \in Values :
        /\ call[t] = Working(k)
        /\ memo' = [memo EXCEPT ![k] = Known(v)]
        /\ call' = [call EXCEPT ![t] = Idle]

\* A result is submitted by a task that did not register the key.
Publish(k) ==
    /\ \E v \in Values : memo' = [memo EXCEPT ![k] = Known(v)]
    /\ UNCHANGED call

\* A task that joined is handed the value.
Deliver(t) ==
    /\ \E k \in Keys, v \in Values :
        /\ call[t] = Joined(k) /\ memo[k] = Known(v)
        /\ call' = [call EXCEPT ![t] = Holding(v)]
    /\ UNCHANGED memo

\* A task returns from its call, or gives up waiting.
Leave(t) ==
    /\ \/ \E k \in Keys : call[t] = Joined(k)
       \/ \E v \in Values : call[t] = Holding(v)
    /\ call' = [call EXCEPT ![t] = Idle]
    /\ UNCHANGED memo

\* With nobody using the map a key can be forgotten.
Forget(k) ==
    /\ \A t \in Tasks : call[t] = Idle
    /\ memo' = [memo EXCEPT ![k] = Absent]
    /\ UNCHANGED call

Next == \/ \E t \in Tasks, k \in Keys : Start(t, k) \/ Join(t, k) \/ Hit(t, k)
        \/ \E t \in Tasks : Finish(t) \/ Deliver(t) \/ Leave(t)
        \/ \E k \in Keys : Publish(k) \/ Forget(k)

SafeSpec == Init /\ [][Next]_vars

\* Jobs finish, and a task whose job is finished is not left waiting.
Spec == /\ SafeSpec
        /\ \A t \in Tasks : WF_vars(Finish(t)) /\ WF_vars(Deliver(t))
===============================================================================
