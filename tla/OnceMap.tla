-------------------------------- MODULE OnceMap --------------------------------
(***************************************************************************)
(* uv_once_map::OnceMap and RegisteredOnceMap                               *)
(* (crates/uv-once-map/src/lib.rs, registered.rs): a concurrent map from    *)
(* keys to Waiting(Notify) or Filled(value).  A task's call is split where  *)
(* other threads can run: between two accesses to the lock-free map, and at *)
(* the await.  tokio's Notify is external: notified() makes a future that   *)
(* is completed by every later notify_waiters() and by no earlier one.      *)
(***************************************************************************)
EXTENDS Naturals

CONSTANTS Keys, Tasks, Values,
          Populators,        \* the tasks that call done without registering
          MaxRegistrations   \* bound: the Notify objects ever created

ASSUME RegistrationBound == MaxRegistrations \in Nat
ASSUME NonEmpty == Keys # {} /\ Values # {}

\* What a variable holds before the code has written it; never read.
Unset(S) == CHOOSE x \in S : TRUE

VARIABLES
    entry,     \* entry[k]: "absent", or the variant of Value stored for k
    value,     \* value[k]: the V of Value::Filled
    bell,      \* bell[k]: the Notify of k's last Value::Waiting; 0: none yet
    rung,      \* how many Notify objects were created: the last one's number
    pc, key,   \* where each task is in its call, and for which key
    arc,       \* the Arc<Notify> a task cloned out of the map
    woken,     \* woken[t]: t's Notified future is complete
    result     \* result[t]: what the call returned

vars == <<entry, value, bell, rung, pc, key, arc, woken, result>>
mapVars == <<entry, value, bell, rung>>

Waiting == {"cloned", "listening", "awaiting"}
Borrowing == Waiting \cup {"handle"}

Init ==
    /\ entry = [k \in Keys |-> "absent"]
    /\ value = [k \in Keys |-> Unset(Values)]
    /\ bell = [k \in Keys |-> 0]
    /\ rung = 0
    /\ pc = [t \in Tasks |-> "idle"]
    /\ key = [t \in Tasks |-> Unset(Keys)]
    /\ arc = [t \in Tasks |-> 0]
    /\ woken = [t \in Tasks |-> FALSE]
    /\ result = [t \in Tasks |-> Unset(Values)]

------------------------------------------------------------------------------
(* Helpers *)

\* Mutant: insert instead of try_insert: a Waiting entry is replaced.
InsertOverWaiting(t, k) ==
    /\ entry[k] # "filled"
    /\ rung < MaxRegistrations
    /\ rung' = rung + 1
    /\ bell' = [bell EXCEPT ![k] = rung + 1]
    /\ entry' = [entry EXCEPT ![k] = "waiting"]
    /\ pc' = [pc EXCEPT ![t] = "owner"]
    /\ key' = [key EXCEPT ![t] = k]
    /\ UNCHANGED <<value, arc, woken, result>>

\* try_insert_with(key, Value::Waiting(Notify::new())) found no entry: the
\* caller must run the job.
InsertWaiting(t, k) ==
    /\ entry[k] = "absent"
    /\ rung < MaxRegistrations
    /\ rung' = rung + 1
    /\ bell' = [bell EXCEPT ![k] = rung + 1]
    /\ entry' = [entry EXCEPT ![k] = "waiting"]
    /\ pc' = [pc EXCEPT ![t] = "owner"]
    /\ key' = [key EXCEPT ![t] = k]
    /\ UNCHANGED <<value, arc, woken, result>>

\* Mutant: the Mutex<Option<V>> of a Filled entry is taken, not cloned.
ReturnTaken(t, k) ==
    /\ pc' = [pc EXCEPT ![t] = "returned"]
    /\ key' = [key EXCEPT ![t] = k]
    /\ result' = [result EXCEPT ![t] = "taken"]
    /\ UNCHANGED <<mapVars, arc, woken>>

\* Leave the map with the value stored for k.
ReturnValue(t, k) ==
    /\ pc' = [pc EXCEPT ![t] = "returned"]
    /\ key' = [key EXCEPT ![t] = k]
    /\ result' = [result EXCEPT ![t] = value[k]]
    /\ UNCHANGED <<mapVars, arc, woken>>

\* Clone the Arc<Notify> out of a Waiting entry and drop the map guard.
CloneNotify(t, k) ==
    /\ pc' = [pc EXCEPT ![t] = "cloned"]
    /\ key' = [key EXCEPT ![t] = k]
    /\ arc' = [arc EXCEPT ![t] = bell[k]]
    /\ UNCHANGED <<mapVars, woken, result>>

Goto(t, label) ==
    /\ pc' = [pc EXCEPT ![t] = label]
    /\ UNCHANGED <<mapVars, key, arc, woken, result>>

------------------------------------------------------------------------------
(* Operations *)

\* register_or_wait: run the job, take the value, or wait for it.
RegisterOrWait(t, k) ==
    /\ pc[t] = "idle"
    /\ \/ InsertWaiting(t, k)
       \/ entry[k] = "filled" /\ ReturnValue(t, k)
       \/ entry[k] = "waiting" /\ CloneNotify(t, k)

\* RegisteredOnceMap::register_entry, and get_registered on a present key: an
\* existing entry yields a handle that borrows the map.
RegisterEntry(t, k) ==
    /\ pc[t] = "idle"
    /\ \/ InsertWaiting(t, k)
       \/ /\ entry[k] # "absent"
          /\ pc' = [pc EXCEPT ![t] = "handle"]
          /\ key' = [key EXCEPT ![t] = k]
          /\ UNCHANGED <<mapVars, arc, woken, result>>

\* RegisteredEntry::wait: wait_registered(..).expect("registered entries
\* cannot be removed while borrowed").
WaitRegistered(t) ==
    LET k == key[t] IN
    /\ pc[t] = "handle"
    /\ \/ entry[k] = "absent" /\ Goto(t, "panicked")
       \/ entry[k] = "filled" /\ ReturnValue(t, k)
       \/ entry[k] = "waiting" /\ CloneNotify(t, k)

\* wait_pending: create the Notified future, before looking at the map again.
Listen(t) ==
    /\ pc[t] = "cloned"
    /\ pc' = [pc EXCEPT ![t] = "listening"]
    /\ woken' = [woken EXCEPT ![t] = FALSE]
    /\ UNCHANGED <<mapVars, key, arc, result>>

\* Mutant: the map is not looked at again before awaiting.
AwaitBlindly(t) == pc[t] = "listening" /\ Goto(t, "awaiting")

\* wait_pending: "Make sure the value wasn't inserted in-between us checking
\* the map and registering the waiter".
Recheck(t) ==
    LET k == key[t] IN
    /\ pc[t] = "listening"
    /\ \/ entry[k] = "absent" /\ Goto(t, "panicked")
       \/ entry[k] = "filled" /\ ReturnValue(t, k)
       \/ entry[k] = "waiting" /\ Goto(t, "awaiting")

\* Mutant: the await can end without a notification.
AwakeSpuriously(t) == pc[t] = "awaiting" /\ ReturnValue(t, key[t])

\* wait_pending: the Notified future completed; read the map.  A missing entry
\* fails expect("map is append-only"), a Waiting one unreachable!().
Awake(t) ==
    LET k == key[t] IN
    /\ pc[t] = "awaiting" /\ woken[t]
    /\ \/ entry[k] # "filled" /\ Goto(t, "panicked")
       \/ entry[k] = "filled" /\ ReturnValue(t, k)

\* done: insert(key, Value::filled(v)).  Who replaced a Waiting entry goes on
\* to ring its bell; between the two, other threads see Filled.
Fill(t, k, v) ==
    /\ entry' = [entry EXCEPT ![k] = "filled"]
    /\ value' = [value EXCEPT ![k] = v]
    /\ key' = [key EXCEPT ![t] = k]
    /\ IF entry[k] = "waiting"
       THEN /\ pc' = [pc EXCEPT ![t] = "notifying"]
            /\ arc' = [arc EXCEPT ![t] = bell[k]]
       ELSE /\ pc' = [pc EXCEPT ![t] = "idle"]
            /\ arc' = arc
    /\ UNCHANGED <<bell, rung, woken, result>>

\* The task that was told to run the job submits its result.
Done(t) == pc[t] = "owner" /\ \E v \in Values : Fill(t, key[t], v)

\* done "or populate an entry before registration".
Populate(t, k) == t \in Populators /\ pc[t] = "idle" /\ \E v \in Values : Fill(t, k, v)

\* done: notify.notify_waiters() completes every Notified future made from
\* this Notify, and only those.
NotifyWaiters(t) ==
    /\ pc[t] = "notifying"
    /\ woken' = [u \in Tasks |->
                   woken[u] \/ (arc[u] = arc[t] /\ pc[u] \in {"listening", "awaiting"})]
    /\ pc' = [pc EXCEPT ![t] = "idle"]
    /\ UNCHANGED <<mapVars, key, arc, result>>

\* The caller goes on with the value it was given.
Return(t) == pc[t] = "returned" /\ Goto(t, "idle")

\* The future of a waiting task is dropped at one of its await points, or the
\* handle is dropped.
DropWaiter(t) == pc[t] \in {"handle", "awaiting"} /\ Goto(t, "idle")

\* Mutant: remove through a shared reference.
SharedAccess == TRUE

\* No other task uses the map: &mut self for RegisteredOnceMap::remove, "There
\* are no parallel workspace operations" for OnceMap::remove.
ExclusiveAccess == \A t \in Tasks : pc[t] = "idle"

\* remove.
Remove(k) ==
    /\ ExclusiveAccess
    /\ entry[k] # "absent"
    /\ entry' = [entry EXCEPT ![k] = "absent"]
    /\ UNCHANGED <<value, bell, rung, pc, key, arc, woken, result>>

TaskStep(t) == \/ WaitRegistered(t) \/ Listen(t) \/ Recheck(t) \/ Awake(t)
               \/ Done(t) \/ NotifyWaiters(t)

Next == \/ \E t \in Tasks, k \in Keys :
              RegisterOrWait(t, k) \/ RegisterEntry(t, k) \/ Populate(t, k)
        \/ \E t \in Tasks : TaskStep(t) \/ Return(t) \/ DropWaiter(t)
        \/ \E k \in Keys : Remove(k)

\* The executor polls every runnable future, and "you need to start a job and
\* call done eventually": a started call, and a started job, take their next
\* step.  No task is obliged to begin a call, to drop one or to remove a key.
Fairness == \A t \in Tasks : WF_vars(TaskStep(t))

Spec == Init /\ [][Next]_vars /\ Fairness

------------------------------------------------------------------------------
(* Properties *)

TypeOK ==
    /\ entry \in [Keys -> {"absent", "waiting", "filled"}]
    /\ value \in [Keys -> Values]
    /\ bell \in [Keys -> Nat] /\ rung \in Nat
    /\ pc \in [Tasks -> {"idle", "owner", "handle", "cloned", "listening",
                         "awaiting", "notifying", "returned", "panicked"}]
    /\ key \in [Tasks -> Keys] /\ arc \in [Tasks -> Nat]
    /\ woken \in [Tasks -> BOOLEAN] /\ result \in [Tasks -> Values]

\* No lost wakeup: a task asleep on a key that is already Filled has its
\* notification, or the task that filled the key is about to send it.  This is
\* what creating notified() before the second look at the map is for
\* (wait_pending).
NoLostWakeup ==
    \A t \in Tasks :
        pc[t] = "awaiting" /\ entry[key[t]] = "filled" =>
            woken[t] \/ \E u \in Tasks : pc[u] = "notifying" /\ arc[u] = arc[t]

\* The two expect("map is append-only"), the unreachable!("notify was called")
\* and RegisteredEntry::wait's expect never fire, whatever the interleaving of
\* waiters, fillers and (exclusive) removals.
NeverPanics == \A t \in Tasks : pc[t] # "panicked"

\* A Waiting entry has exactly one task that was told to run its job: no job
\* is run twice at the same time, and none that others wait for is nobody's.
OneJobPerEntry ==
    \A k \in Keys :
        /\ entry[k] = "waiting" => \E t \in Tasks : pc[t] = "owner" /\ key[t] = k
        /\ \A t, u \in Tasks :
              pc[t] = "owner" /\ key[t] = k /\ pc[u] = "owner" /\ key[u] = k => t = u

\* What makes the three invariants above inductive.  A task inside a call keeps
\* its key in the map (Remove needs ExclusiveAccess), holds the Notify of its
\* key's last Waiting entry, and no two keys share a Notify; a completed
\* Notified future means its key is filled.
CallsKeepKey ==
    \A t \in Tasks : pc[t] \in Borrowing \cup {"owner", "notifying"} =>
                        entry[key[t]] # "absent"
HoldsOwnBell ==
    \A t \in Tasks : pc[t] \in Waiting \cup {"notifying"} =>
                        arc[t] = bell[key[t]] /\ bell[key[t]] # 0
BellsDistinct ==
    \A k \in Keys : /\ bell[k] <= rung
                    /\ entry[k] = "waiting" => bell[k] # 0
                    /\ \A l \in Keys : k # l /\ bell[k] # 0 => bell[k] # bell[l]
WakeupsAfterFill ==
    \A t \in Tasks :
        \/ pc[t] \in {"listening", "awaiting"} /\ woken[t]
        \/ pc[t] = "notifying"
        => entry[key[t]] = "filled"

IInv == /\ TypeOK /\ NeverPanics /\ NoLostWakeup /\ OneJobPerEntry
        /\ CallsKeepKey /\ HoldsOwnBell /\ BellsDistinct /\ WakeupsAfterFill

------------------------------------------------------------------------------
(* The map implements OnceMemo. *)

MemoShown(e, v) == CASE e = "absent"  -> <<>>
                     [] e = "waiting" -> <<"running">>
                     [] e = "filled"  -> <<"value", v>>

CallShown(label, k, v) == CASE label = "owner"       -> <<"working", k>>
                            [] label \in Borrowing   -> <<"joined", k>>
                            [] label = "returned"    -> <<"holding", v>>
                            [] label = "panicked"    -> <<"panicked">>
                            [] OTHER                 -> <<"idle">>

memoView == [k \in Keys |-> MemoShown(entry[k], value[k])]
callView == [t \in Tasks |-> CallShown(pc[t], key[t], result[t])]

Memo == INSTANCE OnceMemo WITH memo <- memoView, call <- callView

\* Seen through the map's entries and the tasks' calls, every behaviour of the
\* map is one of OnceMemo: a waiter is handed a value submitted for its key, no
\* task panics, and, under fairness, whoever joined a finished job is answered.
ImplementsMemo == Memo!Spec
================================================================================
