----------------------------- MODULE OnceMapProofs -----------------------------
(***************************************************************************)
(* For every set of keys, tasks and values: OnceMap's type invariant, and   *)
(* that no wakeup is lost, no call panics and every Waiting entry has one   *)
(* job, by induction on IInv; and every step of the map is one of OnceMemo  *)
(* or shows nothing of what OnceMemo speaks about.                          *)
(***************************************************************************)
EXTENDS OnceMap, TLAPS

LEMMA UnsetIn == ASSUME NEW S, S # {} PROVE Unset(S) \in S
BY DEF Unset

\* The map starts empty and no task is in a call.
LEMMA InitIInv == Init => IInv
<1> SUFFICES ASSUME Init PROVE IInv
  OBVIOUS
<1>1. Unset(Keys) \in Keys /\ Unset(Values) \in Values
  BY UnsetIn, NonEmpty
<1>2. TypeOK
  BY <1>1 DEF Init, TypeOK
<1> QED
  BY <1>2 DEF Init, IInv, NeverPanics, NoLostWakeup, OneJobPerEntry, CallsKeepKey,
     HoldsOwnBell, BellsDistinct, WakeupsAfterFill, Borrowing, Waiting

\* A call that finds no entry creates the key's next Notify.
LEMMA InsertWaitingIInv ==
  ASSUME NEW t \in Tasks, NEW k \in Keys, IInv, pc[t] = "idle", InsertWaiting(t, k)
  PROVE  IInv'
<1> USE DEF IInv, TypeOK, InsertWaiting
<1>1. TypeOK'
  OBVIOUS
<1>2. NeverPanics' /\ CallsKeepKey'
  BY DEF NeverPanics, CallsKeepKey, Borrowing, Waiting
<1>3. NoLostWakeup' /\ WakeupsAfterFill'
  BY DEF NoLostWakeup, WakeupsAfterFill, CallsKeepKey, Borrowing, Waiting
<1>4. OneJobPerEntry'
  BY DEF OneJobPerEntry, CallsKeepKey
<1>5. HoldsOwnBell'
  BY DEF HoldsOwnBell, CallsKeepKey, Borrowing, Waiting
<1>6. BellsDistinct'
  BY DEF BellsDistinct
<1> QED
  BY <1>1, <1>2, <1>3, <1>4, <1>5, <1>6

\* A call that finds a value leaves the map alone and leaves the call.
LEMMA ReturnValueIInv ==
  ASSUME NEW t \in Tasks, NEW k \in Keys, IInv, ReturnValue(t, k),
         pc[t] \in Borrowing \cup {"idle"}
  PROVE  IInv'
<1> USE DEF IInv, TypeOK, ReturnValue, mapVars, Borrowing, Waiting
<1>1. TypeOK'
  OBVIOUS
<1>2. NeverPanics' /\ CallsKeepKey' /\ HoldsOwnBell' /\ BellsDistinct'
  BY DEF NeverPanics, CallsKeepKey, HoldsOwnBell, BellsDistinct
<1>3. NoLostWakeup' /\ WakeupsAfterFill'
  BY DEF NoLostWakeup, WakeupsAfterFill
<1>4. OneJobPerEntry'
  BY DEF OneJobPerEntry
<1> QED
  BY <1>1, <1>2, <1>3, <1>4

\* A call that finds a Waiting entry takes that entry's Notify.
LEMMA CloneNotifyIInv ==
  ASSUME NEW t \in Tasks, NEW k \in Keys, IInv, CloneNotify(t, k),
         entry[k] = "waiting", pc[t] \in {"idle", "handle"}
  PROVE  IInv'
<1> USE DEF IInv, TypeOK, CloneNotify, mapVars, Borrowing, Waiting
<1>1. TypeOK'
  OBVIOUS
<1>2. NeverPanics' /\ CallsKeepKey' /\ BellsDistinct'
  BY DEF NeverPanics, CallsKeepKey, BellsDistinct
<1>3. HoldsOwnBell'
  BY DEF HoldsOwnBell, BellsDistinct
<1>4. NoLostWakeup' /\ WakeupsAfterFill'
  BY DEF NoLostWakeup, WakeupsAfterFill
<1>5. OneJobPerEntry'
  BY DEF OneJobPerEntry
<1> QED
  BY <1>1, <1>2, <1>3, <1>4, <1>5

\* A task moves between two points of a call, or leaves it, without touching
\* the map; it goes to sleep only on a Waiting entry.
LEMMA GotoIInv ==
  ASSUME NEW t \in Tasks, NEW label \in {"awaiting", "idle"}, IInv, Goto(t, label),
         pc[t] \in Borrowing \cup {"returned"},
         label = "awaiting" => pc[t] = "listening" /\ entry[key[t]] = "waiting"
  PROVE  IInv'
<1> USE DEF IInv, TypeOK, Goto, mapVars, Borrowing, Waiting
<1>1. TypeOK'
  OBVIOUS
<1>2. NeverPanics' /\ CallsKeepKey' /\ HoldsOwnBell' /\ BellsDistinct'
  BY DEF NeverPanics, CallsKeepKey, HoldsOwnBell, BellsDistinct
<1>3. NoLostWakeup' /\ WakeupsAfterFill'
  BY DEF NoLostWakeup, WakeupsAfterFill
<1>4. OneJobPerEntry'
  BY DEF OneJobPerEntry
<1> QED
  BY <1>1, <1>2, <1>3, <1>4

\* done's insert: the key becomes Filled, and whoever replaced a Waiting entry
\* now owes its waiters a notification.
LEMMA FillIInv ==
  ASSUME NEW t \in Tasks, NEW k \in Keys, NEW v \in Values, IInv, Fill(t, k, v),
         \/ pc[t] = "idle"
         \/ pc[t] = "owner" /\ key[t] = k
  PROVE  IInv'
<1> USE DEF IInv, TypeOK, Fill, Borrowing, Waiting
<1>1. TypeOK'
  OBVIOUS
<1>2. NeverPanics' /\ CallsKeepKey'
  BY DEF NeverPanics, CallsKeepKey
<1>3. HoldsOwnBell' /\ BellsDistinct'
  BY DEF HoldsOwnBell, BellsDistinct
<1>4. WakeupsAfterFill'
  BY DEF WakeupsAfterFill
<1>5. NoLostWakeup'
  <2> SUFFICES ASSUME NEW u \in Tasks, pc'[u] = "awaiting", entry'[key'[u]] = "filled"
               PROVE  woken'[u] \/ \E w \in Tasks : pc'[w] = "notifying" /\ arc'[w] = arc'[u]
    BY DEF NoLostWakeup
  <2>1. u # t /\ pc[u] = "awaiting" /\ key'[u] = key[u] /\ arc'[u] = arc[u]
    OBVIOUS
  <2>2. CASE entry[key[u]] = "filled"
    <3>1. woken[u] \/ \E w \in Tasks : pc[w] = "notifying" /\ arc[w] = arc[u]
      BY <2>1, <2>2 DEF NoLostWakeup
    <3> QED
      BY <3>1, <2>1
  <2>3. CASE entry[key[u]] # "filled"
    <3>1. key[u] = k /\ entry[k] = "waiting"
      BY <2>1, <2>3 DEF CallsKeepKey
    <3>2. pc'[t] = "notifying" /\ arc'[t] = bell[k]
      BY <3>1
    <3>3. arc[u] = bell[k]
      BY <2>1, <3>1 DEF HoldsOwnBell
    <3> QED
      BY <2>1, <3>2, <3>3
  <2> QED
    BY <2>2, <2>3
<1>6. OneJobPerEntry'
  <2>1. ASSUME NEW l \in Keys, entry'[l] = "waiting"
        PROVE  \E u \in Tasks : pc'[u] = "owner" /\ key'[u] = l
    <3>1. l # k /\ entry[l] = "waiting"
      BY <2>1
    <3>2. PICK u \in Tasks : pc[u] = "owner" /\ key[u] = l
      BY <3>1 DEF OneJobPerEntry
    <3>3. u # t
      BY <3>1, <3>2
    <3> QED
      BY <3>2, <3>3
  <2>2. \A u \in Tasks : pc'[u] = "owner" => pc[u] = "owner" /\ key'[u] = key[u]
    OBVIOUS
  <2>3. ASSUME NEW l \in Keys, NEW u \in Tasks, NEW w \in Tasks,
               pc'[u] = "owner", key'[u] = l, pc'[w] = "owner", key'[w] = l
        PROVE  u = w
    BY <2>2, <2>3 DEF OneJobPerEntry
  <2> QED
    BY <2>1, <2>3 DEF OneJobPerEntry
<1> QED
  BY <1>1, <1>2, <1>3, <1>4, <1>5, <1>6

\* done's notify_waiters reaches exactly the tasks waiting for the filled key.
LEMMA NotifyWaitersIInv ==
  ASSUME NEW t \in Tasks, IInv, NotifyWaiters(t)
  PROVE  IInv'
<1> USE DEF IInv, TypeOK, NotifyWaiters, mapVars, Borrowing, Waiting
<1>1. TypeOK'
  OBVIOUS
<1>2. NeverPanics' /\ CallsKeepKey' /\ HoldsOwnBell' /\ BellsDistinct'
  BY DEF NeverPanics, CallsKeepKey, HoldsOwnBell, BellsDistinct
<1>3. NoLostWakeup'
  <2> SUFFICES ASSUME NEW u \in Tasks, pc'[u] = "awaiting", entry'[key'[u]] = "filled"
               PROVE  woken'[u] \/ \E w \in Tasks : pc'[w] = "notifying" /\ arc'[w] = arc'[u]
    BY DEF NoLostWakeup
  <2>1. u # t /\ pc[u] = "awaiting" /\ entry[key[u]] = "filled"
    OBVIOUS
  <2>2. CASE woken[u] \/ arc[u] = arc[t]
    BY <2>1, <2>2
  <2>3. CASE ~woken[u] /\ arc[u] # arc[t]
    <3>1. PICK w \in Tasks : pc[w] = "notifying" /\ arc[w] = arc[u]
      BY <2>1, <2>3 DEF NoLostWakeup
    <3>2. w # t
      BY <2>3, <3>1
    <3> QED
      BY <3>1, <3>2
  <2> QED
    BY <2>2, <2>3
<1>4. WakeupsAfterFill'
  <2> SUFFICES ASSUME NEW u \in Tasks,
                      \/ pc'[u] \in {"listening", "awaiting"} /\ woken'[u]
                      \/ pc'[u] = "notifying"
               PROVE  entry'[key'[u]] = "filled"
    BY DEF WakeupsAfterFill
  <2>1. CASE pc[u] \in {"listening", "awaiting"} /\ arc[u] = arc[t]
    <3>1. key[u] = key[t]
      BY <2>1 DEF HoldsOwnBell, BellsDistinct
    <3> QED
      BY <3>1 DEF WakeupsAfterFill
  <2>2. CASE ~(pc[u] \in {"listening", "awaiting"} /\ arc[u] = arc[t])
    BY <2>2 DEF WakeupsAfterFill
  <2> QED
    BY <2>1, <2>2
<1>5. OneJobPerEntry'
  BY DEF OneJobPerEntry
<1> QED
  BY <1>1, <1>2, <1>3, <1>4, <1>5

\* wait_pending's notified().
LEMMA ListenIInv ==
  ASSUME NEW t \in Tasks, IInv, Listen(t)
  PROVE  IInv'
<1> USE DEF IInv, TypeOK, Listen, mapVars, Borrowing, Waiting
<1>1. TypeOK'
  OBVIOUS
<1>2. NeverPanics' /\ CallsKeepKey' /\ HoldsOwnBell' /\ BellsDistinct'
  BY DEF NeverPanics, CallsKeepKey, HoldsOwnBell, BellsDistinct
<1>3. NoLostWakeup' /\ WakeupsAfterFill'
  BY DEF NoLostWakeup, WakeupsAfterFill
<1>4. OneJobPerEntry'
  BY DEF OneJobPerEntry
<1> QED
  BY <1>1, <1>2, <1>3, <1>4

\* remove, with no task in a call.
LEMMA RemoveIInv ==
  ASSUME NEW k \in Keys, IInv, Remove(k)
  PROVE  IInv'
<1> USE DEF IInv, TypeOK, Remove, ExclusiveAccess, Borrowing, Waiting
<1>1. TypeOK'
  OBVIOUS
<1>2. NeverPanics' /\ CallsKeepKey' /\ HoldsOwnBell' /\ BellsDistinct'
  BY DEF NeverPanics, CallsKeepKey, HoldsOwnBell, BellsDistinct
<1>3. NoLostWakeup' /\ WakeupsAfterFill' /\ OneJobPerEntry'
  BY DEF NoLostWakeup, WakeupsAfterFill, OneJobPerEntry
<1> QED
  BY <1>1, <1>2, <1>3

\* Every step of the map preserves IInv.
LEMMA NextIInv == IInv /\ [Next]_vars => IInv'
<1> SUFFICES ASSUME IInv, [Next]_vars PROVE IInv'
  OBVIOUS
<1>k. \A t \in Tasks : key[t] \in Keys
  BY DEF IInv, TypeOK
<1>1. ASSUME NEW t \in Tasks, NEW k \in Keys, RegisterOrWait(t, k) PROVE IInv'
  BY <1>1, InsertWaitingIInv, ReturnValueIInv, CloneNotifyIInv DEF RegisterOrWait
<1>2. ASSUME NEW t \in Tasks, NEW k \in Keys, RegisterEntry(t, k) PROVE IInv'
  <2>1. CASE InsertWaiting(t, k)
    BY <1>2, <2>1, InsertWaitingIInv DEF RegisterEntry
  <2>2. CASE ~InsertWaiting(t, k)
    <3> USE <1>2, <2>2 DEF RegisterEntry, IInv, TypeOK, mapVars, Borrowing, Waiting
    <3>1. TypeOK' /\ NeverPanics' /\ CallsKeepKey' /\ HoldsOwnBell' /\ BellsDistinct'
      BY DEF NeverPanics, CallsKeepKey, HoldsOwnBell, BellsDistinct
    <3>2. NoLostWakeup' /\ WakeupsAfterFill'
      BY DEF NoLostWakeup, WakeupsAfterFill
    <3>3. OneJobPerEntry'
      BY DEF OneJobPerEntry
    <3> QED
      BY <3>1, <3>2, <3>3
  <2> QED
    BY <2>1, <2>2
<1>3. ASSUME NEW t \in Tasks, NEW k \in Keys, Populate(t, k) PROVE IInv'
  BY <1>3, FillIInv DEF Populate
<1>4. ASSUME NEW t \in Tasks, WaitRegistered(t) PROVE IInv'
  <2>1. entry[key[t]] # "absent" /\ pc[t] = "handle"
    BY <1>4 DEF WaitRegistered, IInv, CallsKeepKey, Borrowing
  <2> QED
    BY <1>4, <1>k, <2>1, ReturnValueIInv, CloneNotifyIInv DEF WaitRegistered, Borrowing
<1>5. ASSUME NEW t \in Tasks, Listen(t) PROVE IInv'
  BY <1>5, ListenIInv
<1>6. ASSUME NEW t \in Tasks, Recheck(t) PROVE IInv'
  <2>1. entry[key[t]] # "absent" /\ pc[t] = "listening"
    BY <1>6 DEF Recheck, IInv, CallsKeepKey, Borrowing, Waiting
  <2> QED
    BY <1>6, <1>k, <2>1, ReturnValueIInv, GotoIInv DEF Recheck, Borrowing, Waiting
<1>7. ASSUME NEW t \in Tasks, Awake(t) PROVE IInv'
  <2>1. entry[key[t]] = "filled" /\ pc[t] = "awaiting"
    BY <1>7 DEF Awake, IInv, WakeupsAfterFill
  <2> QED
    BY <1>7, <1>k, <2>1, ReturnValueIInv DEF Awake, Borrowing, Waiting
<1>8. ASSUME NEW t \in Tasks, Done(t) PROVE IInv'
  BY <1>8, <1>k, FillIInv DEF Done
<1>9. ASSUME NEW t \in Tasks, NotifyWaiters(t) PROVE IInv'
  BY <1>9, NotifyWaitersIInv
<1>10. ASSUME NEW t \in Tasks, Return(t) \/ DropWaiter(t) PROVE IInv'
  BY <1>10, GotoIInv DEF Return, DropWaiter, Borrowing, Waiting
<1>11. ASSUME NEW k \in Keys, Remove(k) PROVE IInv'
  BY <1>11, RemoveIInv
<1>12. CASE UNCHANGED vars
  BY <1>12 DEF vars, IInv, TypeOK, NeverPanics, NoLostWakeup, OneJobPerEntry,
     CallsKeepKey, HoldsOwnBell, BellsDistinct, WakeupsAfterFill
<1> QED
  BY <1>1, <1>2, <1>3, <1>4, <1>5, <1>6, <1>7, <1>8, <1>9, <1>10, <1>11, <1>12
     DEF Next, TaskStep

\* IInv holds in every reachable state.
THEOREM Inductive == Spec => []IInv
BY InitIInv, NextIInv, PTL DEF Spec

\* Type correctness of the map and of the tasks that use it.
THEOREM TypeCorrect == Spec => []TypeOK
<1>1. IInv => TypeOK
  BY DEF IInv
<1> QED
  BY <1>1, Inductive, PTL

\* wait_pending never loses a wakeup, for any number of tasks and keys.
THEOREM NoWakeupIsLost == Spec => []NoLostWakeup
<1>1. IInv => NoLostWakeup
  BY DEF IInv
<1> QED
  BY <1>1, Inductive, PTL

\* None of the map's expect()s and unreachable!()s fires.
THEOREM NoPanic == Spec => []NeverPanics
<1>1. IInv => NeverPanics
  BY DEF IInv
<1> QED
  BY <1>1, Inductive, PTL

\* Every Waiting entry has exactly one task running its job.
THEOREM JobsRunOnce == Spec => []OneJobPerEntry
<1>1. IInv => OneJobPerEntry
  BY DEF IInv
<1> QED
  BY <1>1, Inductive, PTL

------------------------------------------------------------------------------
(* The map implements OnceMemo, step by step. *)

\* How an entry and a task's point in its call show in OnceMemo.
LEMMA Shown ==
  ASSUME NEW k, NEW v
  PROVE  /\ MemoShown("absent", v) = Memo!Absent
         /\ MemoShown("waiting", v) = Memo!Running
         /\ MemoShown("filled", v) = Memo!Known(v)
         /\ Memo!Absent # Memo!Running /\ Memo!Absent # Memo!Known(v)
         /\ CallShown("owner", k, v) = Memo!Working(k)
         /\ \A label \in Borrowing : CallShown(label, k, v) = Memo!Joined(k)
         /\ CallShown("returned", k, v) = Memo!Holding(v)
         /\ \A label \in {"idle", "notifying"} : CallShown(label, k, v) = Memo!Idle
<1>1. /\ MemoShown("absent", v) = Memo!Absent
      /\ MemoShown("waiting", v) = Memo!Running
      /\ MemoShown("filled", v) = Memo!Known(v)
  BY DEF MemoShown, Memo!Absent, Memo!Running, Memo!Known
<1>2. Memo!Absent # Memo!Running /\ Memo!Absent # Memo!Known(v)
  BY DEF Memo!Absent, Memo!Running, Memo!Known
<1>3. /\ CallShown("owner", k, v) = Memo!Working(k)
      /\ CallShown("returned", k, v) = Memo!Holding(v)
  BY DEF CallShown, Borrowing, Waiting, Memo!Working, Memo!Holding
<1>4. ASSUME NEW label \in Borrowing PROVE CallShown(label, k, v) = Memo!Joined(k)
  <2>1. label # "owner" /\ label # "returned" /\ label # "panicked"
    BY DEF Borrowing, Waiting
  <2> QED
    BY <2>1, Zenon DEF CallShown, Memo!Joined
<1>5. ASSUME NEW label \in {"idle", "notifying"} PROVE CallShown(label, k, v) = Memo!Idle
  <2>1. label # "owner" /\ label \notin Borrowing /\ label # "returned" /\ label # "panicked"
    BY DEF Borrowing, Waiting
  <2> QED
    BY <2>1, Zenon DEF CallShown, Memo!Idle
<1> QED
  BY <1>1, <1>2, <1>3, <1>4, <1>5, Zenon

\* Only what happens to one task, or to one key, shows.
LEMMA CallMoves ==
  ASSUME NEW t \in Tasks,
         \A u \in Tasks \ {t} : pc'[u] = pc[u] /\ key'[u] = key[u] /\ result'[u] = result[u]
  PROVE  callView' = [callView EXCEPT ![t] = CallShown(pc'[t], key'[t], result'[t])]
BY DEF callView

LEMMA CallsStay ==
  ASSUME pc' = pc, key' = key, result' = result
  PROVE  callView' = callView
BY DEF callView

LEMMA MemoStays ==
  ASSUME entry' = entry, value' = value
  PROVE  memoView' = memoView
BY DEF memoView

LEMMA MemoMoves ==
  ASSUME NEW k \in Keys,
         \A l \in Keys \ {k} : entry'[l] = entry[l] /\ value'[l] = value[l]
  PROVE  memoView' = [memoView EXCEPT ![k] = MemoShown(entry'[k], value'[k])]
BY DEF memoView

\* A step of the map in which one task moves within its call shows as nothing.
LEMMA Stutters ==
  ASSUME NEW t \in Tasks, UNCHANGED <<entry, value, result>>,
         \A u \in Tasks \ {t} : pc'[u] = pc[u] /\ key'[u] = key[u],
         CallShown(pc'[t], key'[t], result'[t]) = CallShown(pc[t], key[t], result[t])
  PROVE  UNCHANGED Memo!vars
<1>1. callView' = callView
  BY DEF callView
<1>2. memoView' = memoView
  BY MemoStays
<1> QED
  BY <1>1, <1>2 DEF Memo!vars

\* A task that finds no entry starts the job.
LEMMA InsertWaitingStarts ==
  ASSUME IInv, NEW t \in Tasks, NEW k \in Keys, pc[t] = "idle", InsertWaiting(t, k)
  PROVE  Memo!Start(t, k)
<1> USE DEF IInv, TypeOK, InsertWaiting
<1>1. callView[t] = Memo!Idle /\ memoView[k] = Memo!Absent
  <2>1. callView[t] = CallShown("idle", key[t], result[t])
    BY DEF callView
  <2>2. memoView[k] = MemoShown("absent", value[k])
    BY DEF memoView
  <2> QED
    BY <2>1, <2>2, Shown
<1>2. callView' = [callView EXCEPT ![t] = Memo!Working(k)]
  <2>1. /\ pc'[t] = "owner" /\ key'[t] = k
        /\ \A u \in Tasks \ {t} : pc'[u] = pc[u] /\ key'[u] = key[u] /\ result'[u] = result[u]
    OBVIOUS
  <2> QED
    BY <2>1, CallMoves, Shown
<1>3. memoView' = [memoView EXCEPT ![k] = Memo!Running]
  BY MemoMoves, Shown
<1> QED
  BY <1>1, <1>2, <1>3 DEF Memo!Start

\* A task that had joined, and returns, is handed the key's value.
LEMMA ReturnValueDelivers ==
  ASSUME IInv, NEW t \in Tasks, entry[key[t]] = "filled", pc[t] \in Borrowing,
         ReturnValue(t, key[t])
  PROVE  Memo!Deliver(t)
<1> USE DEF IInv, TypeOK, ReturnValue, mapVars
<1>1. callView[t] = Memo!Joined(key[t]) /\ memoView[key[t]] = Memo!Known(value[key[t]])
  BY Shown DEF callView, memoView
<1>2. callView' = [callView EXCEPT ![t] = Memo!Holding(value[key[t]])]
  BY CallMoves, Shown
<1>3. memoView' = memoView
  BY MemoStays
<1> QED
  BY <1>1, <1>2, <1>3 DEF Memo!Deliver

\* A task that did not have to wait is handed the key's value at once.
LEMMA ReturnValueHits ==
  ASSUME IInv, NEW t \in Tasks, NEW k \in Keys, entry[k] = "filled", pc[t] = "idle",
         ReturnValue(t, k)
  PROVE  Memo!Hit(t, k)
<1> USE DEF IInv, TypeOK, ReturnValue, mapVars
<1>1. callView[t] = Memo!Idle /\ memoView[k] = Memo!Known(value[k])
  BY Shown DEF callView, memoView
<1>2. callView' = [callView EXCEPT ![t] = Memo!Holding(value[k])]
  BY CallMoves, Shown
<1>3. memoView' = memoView
  BY MemoStays
<1> QED
  BY <1>1, <1>2, <1>3 DEF Memo!Hit

\* A task that finds an entry, and keeps a handle or its Notify, joins the job.
LEMMA BorrowingJoins ==
  ASSUME IInv, NEW t \in Tasks, NEW k \in Keys, entry[k] # "absent", pc[t] = "idle",
         NEW label \in Borrowing, pc' = [pc EXCEPT ![t] = label],
         key' = [key EXCEPT ![t] = k], UNCHANGED <<entry, value, result>>
  PROVE  Memo!Join(t, k)
<1> USE DEF IInv, TypeOK
<1>1. callView[t] = Memo!Idle /\ memoView[k] # Memo!Absent
  BY Shown DEF callView, memoView
<1>2. callView' = [callView EXCEPT ![t] = Memo!Joined(k)]
  <2>1. /\ pc'[t] = label /\ key'[t] = k
        /\ \A u \in Tasks \ {t} : pc'[u] = pc[u] /\ key'[u] = key[u] /\ result'[u] = result[u]
    OBVIOUS
  <2>2. CallShown(label, k, result'[t]) = Memo!Joined(k)
    BY Shown
  <2> QED
    BY <2>1, <2>2, CallMoves
<1>3. memoView' = memoView
  BY MemoStays
<1> QED
  BY <1>1, <1>2, <1>3 DEF Memo!Join

\* done, by the task that was told to run the job, finishes it.
LEMMA DoneFinishes ==
  ASSUME IInv, NEW t \in Tasks, Done(t)
  PROVE  Memo!Finish(t)
<1> USE DEF IInv, TypeOK, Fill
<1>1. PICK v \in Values : Fill(t, key[t], v)
  BY DEF Done
<1>2. callView[t] = Memo!Working(key[t])
  BY Shown DEF callView, Done
<1>3. callView' = [callView EXCEPT ![t] = Memo!Idle]
  BY <1>1, CallMoves, Shown
<1>4. memoView' = [memoView EXCEPT ![key[t]] = Memo!Known(v)]
  BY <1>1, MemoMoves, Shown
<1> QED
  BY <1>2, <1>3, <1>4 DEF Memo!Finish

\* done, by any other task, publishes a value.
LEMMA PopulatePublishes ==
  ASSUME IInv, NEW t \in Tasks, NEW k \in Keys, Populate(t, k)
  PROVE  Memo!Publish(k)
<1> USE DEF IInv, TypeOK, Fill
<1>1. PICK v \in Values : Fill(t, k, v)
  BY DEF Populate
<1>2. callView[t] = Memo!Idle
  BY Shown DEF callView, Populate
<1>3. callView' = [callView EXCEPT ![t] = Memo!Idle]
  BY <1>1, CallMoves, Shown
<1>4. callView' = callView
  BY <1>2, <1>3 DEF callView
<1>5. memoView' = [memoView EXCEPT ![k] = Memo!Known(v)]
  BY <1>1, MemoMoves, Shown
<1> QED
  BY <1>4, <1>5 DEF Memo!Publish

\* A task that goes back to idle leaves its call.
LEMMA GotoLeaves ==
  ASSUME IInv, NEW t \in Tasks, pc[t] \in {"handle", "awaiting", "returned"},
         Goto(t, "idle")
  PROVE  Memo!Leave(t)
<1> USE DEF IInv, TypeOK, Goto, mapVars
<1>1. callView[t] = Memo!Joined(key[t]) \/ callView[t] = Memo!Holding(result[t])
  BY Shown DEF callView, Borrowing, Waiting
<1>2. callView' = [callView EXCEPT ![t] = Memo!Idle]
  BY CallMoves, Shown
<1>3. memoView' = memoView
  BY MemoStays
<1> QED
  BY <1>1, <1>2, <1>3 DEF Memo!Leave

\* remove, with no task in a call, forgets the key.
LEMMA RemoveForgets ==
  ASSUME IInv, NEW k \in Keys, Remove(k)
  PROVE  Memo!Forget(k)
<1> USE DEF IInv, TypeOK, Remove
<1>1. \A t \in Tasks : callView[t] = Memo!Idle
  BY Shown DEF callView, ExclusiveAccess
<1>2. callView' = callView
  BY CallsStay
<1>3. memoView' = [memoView EXCEPT ![k] = Memo!Absent]
  BY MemoMoves, Shown
<1> QED
  BY <1>1, <1>2, <1>3 DEF Memo!Forget

\* The empty map shows as OnceMemo's initial state.
LEMMA InitShows == Init => Memo!Init
BY Shown DEF Init, Memo!Init, memoView, callView

\* Every step of the map is one of OnceMemo's, or changes nothing it shows.
LEMMA NextShows == IInv /\ [Next]_vars => [Memo!Next]_(Memo!vars)
<1> SUFFICES ASSUME IInv, [Next]_vars PROVE Memo!Next \/ UNCHANGED Memo!vars
  OBVIOUS
<1> USE DEF Memo!Next
<1>k. \A t \in Tasks : key[t] \in Keys
  BY DEF IInv, TypeOK
<1>1. ASSUME NEW t \in Tasks, NEW k \in Keys, RegisterOrWait(t, k)
      PROVE  Memo!Next
  <2>1. CASE InsertWaiting(t, k)
    BY <1>1, <2>1, InsertWaitingStarts DEF RegisterOrWait
  <2>2. CASE entry[k] = "filled" /\ ReturnValue(t, k)
    BY <1>1, <2>2, ReturnValueHits DEF RegisterOrWait
  <2>3. CASE entry[k] = "waiting" /\ CloneNotify(t, k)
    <3>1. "cloned" \in Borrowing /\ pc[t] = "idle"
      BY <1>1 DEF Borrowing, Waiting, RegisterOrWait
    <3>2. Memo!Join(t, k)
      BY <2>3, <3>1, BorrowingJoins DEF CloneNotify, mapVars
    <3> QED
      BY <3>2
  <2> QED
    BY <1>1, <2>1, <2>2, <2>3 DEF RegisterOrWait
<1>2. ASSUME NEW t \in Tasks, NEW k \in Keys, RegisterEntry(t, k)
      PROVE  Memo!Next
  <2>1. CASE InsertWaiting(t, k)
    BY <1>2, <2>1, InsertWaitingStarts DEF RegisterEntry
  <2>2. CASE ~InsertWaiting(t, k)
    <3>1. "handle" \in Borrowing
      BY DEF Borrowing
    <3>2. Memo!Join(t, k)
      BY <1>2, <2>2, <3>1, BorrowingJoins DEF RegisterEntry, mapVars
    <3> QED
      BY <3>2
  <2> QED
    BY <2>1, <2>2
<1>3. ASSUME NEW t \in Tasks, NEW k \in Keys, Populate(t, k) PROVE Memo!Next
  BY <1>3, PopulatePublishes
<1>4. ASSUME NEW t \in Tasks, WaitRegistered(t) PROVE Memo!Next \/ UNCHANGED Memo!vars
  <2>1. entry[key[t]] # "absent" /\ pc[t] \in Borrowing
    BY <1>4 DEF WaitRegistered, IInv, CallsKeepKey, Borrowing
  <2>2. CASE entry[key[t]] = "filled" /\ ReturnValue(t, key[t])
    BY <2>1, <2>2, ReturnValueDelivers
  <2>3. CASE CloneNotify(t, key[t])
    <3>1. pc'[t] = "cloned" /\ key'[t] = key[t] /\ result'[t] = result[t]
      BY <2>3 DEF CloneNotify, IInv, TypeOK
    <3>2. CallShown(pc'[t], key'[t], result'[t]) = CallShown(pc[t], key[t], result[t])
      BY <2>1, <3>1, Shown DEF Borrowing, Waiting
    <3> QED
      BY <2>3, <3>2, Stutters DEF CloneNotify, mapVars, IInv, TypeOK
  <2> QED
    BY <1>4, <2>1, <2>2, <2>3 DEF WaitRegistered
<1>5. ASSUME NEW t \in Tasks, Listen(t) PROVE UNCHANGED Memo!vars
  <2>1. pc[t] = "cloned" /\ pc'[t] = "listening" /\ key'[t] = key[t] /\ result'[t] = result[t]
    BY <1>5 DEF Listen, IInv, TypeOK
  <2>2. CallShown(pc'[t], key'[t], result'[t]) = CallShown(pc[t], key[t], result[t])
    BY <2>1, Shown DEF Borrowing, Waiting
  <2> QED
    BY <1>5, <2>2, Stutters DEF Listen, mapVars, IInv, TypeOK
<1>6. ASSUME NEW t \in Tasks, Recheck(t) PROVE Memo!Next \/ UNCHANGED Memo!vars
  <2>1. entry[key[t]] # "absent" /\ pc[t] = "listening" /\ pc[t] \in Borrowing
    BY <1>6 DEF Recheck, IInv, CallsKeepKey, Borrowing, Waiting
  <2>2. CASE entry[key[t]] = "filled" /\ ReturnValue(t, key[t])
    BY <2>1, <2>2, ReturnValueDelivers
  <2>3. CASE Goto(t, "awaiting")
    <3>1. pc'[t] = "awaiting" /\ key'[t] = key[t] /\ result'[t] = result[t]
      BY <2>3 DEF Goto, IInv, TypeOK
    <3>2. CallShown(pc'[t], key'[t], result'[t]) = CallShown(pc[t], key[t], result[t])
      BY <2>1, <3>1, Shown DEF Borrowing, Waiting
    <3> QED
      BY <2>3, <3>2, Stutters DEF Goto, mapVars, IInv, TypeOK
  <2> QED
    BY <1>6, <2>1, <2>2, <2>3 DEF Recheck
<1>7. ASSUME NEW t \in Tasks, Awake(t) PROVE Memo!Next
  <2>1. entry[key[t]] = "filled" /\ pc[t] \in Borrowing
    BY <1>7 DEF Awake, IInv, WakeupsAfterFill, Borrowing, Waiting
  <2> QED
    BY <1>7, <2>1, ReturnValueDelivers DEF Awake
<1>8. ASSUME NEW t \in Tasks, Done(t) PROVE Memo!Next
  BY <1>8, DoneFinishes
<1>9. ASSUME NEW t \in Tasks, NotifyWaiters(t) PROVE UNCHANGED Memo!vars
  <2>1. pc[t] = "notifying" /\ pc'[t] = "idle" /\ key'[t] = key[t] /\ result'[t] = result[t]
    BY <1>9 DEF NotifyWaiters, IInv, TypeOK
  <2>2. CallShown(pc'[t], key'[t], result'[t]) = CallShown(pc[t], key[t], result[t])
    BY <2>1, Shown
  <2> QED
    BY <1>9, <2>2, Stutters DEF NotifyWaiters, mapVars, IInv, TypeOK
<1>10. ASSUME NEW t \in Tasks, Return(t) \/ DropWaiter(t) PROVE Memo!Next
  BY <1>10, GotoLeaves DEF Return, DropWaiter
<1>11. ASSUME NEW k \in Keys, Remove(k) PROVE Memo!Next
  BY <1>11, RemoveForgets
<1>12. CASE UNCHANGED vars
  BY <1>12, CallsStay, MemoStays DEF vars, Memo!vars
<1> QED
  BY <1>1, <1>2, <1>3, <1>4, <1>5, <1>6, <1>7, <1>8, <1>9, <1>10, <1>11, <1>12
     DEF Next, TaskStep

\* The safety half of ImplementsMemo, for any keys, tasks and values: whatever
\* the interleaving of waiters, fillers and removals, a task is told to run a
\* job only for a key without one, and is handed only a value that was submitted
\* for the key it joined.
THEOREM Refines == Spec => Memo!SafeSpec
BY InitShows, NextShows, Inductive, PTL DEF Spec, Memo!SafeSpec
================================================================================
