----------------------- MODULE ConcurrentTask_proofs -----------------------
(***************************************************************************)
(* Theorems about ConcurrentTask, for every set of tasks, every limit and  *)
(* every number of runs and aborts.                                        *)
(***************************************************************************)
EXTENDS SequentialTask, MultipleOptionsTask, NetJob, FiniteSetTheorems, TLAPS

-----------------------------------------------------------------------------
(* Type correctness *)

LEMMA InitTypeOK == Init => TypeOK
<1> SUFFICES ASSUME Init PROVE TypeOK
  OBVIOUS
<1>1. asserted \in BOOLEAN
  BY Zenon DEF Init
<1>2. runs \in 0..MaxRuns /\ aborts \in 0..MaxAborts
  BY PoolAssumption DEF Init
<1>3. state \in State /\ child \in [Tasks -> State]
  BY DEF Init, State
<1>4. QED
  BY <1>1, <1>2, <1>3 DEF Init, TypeOK

(* What a finished child does to the bookkeeping keeps its types. *)
LEMMA FinishedTypes ==
    ASSUME TypeOK, NEW t \in Tasks, NEW result, NEW pending \in Seq(Event),
           SubTaskFinished(t, result, pending)
    PROVE  /\ queue' \in Seq(Tasks) /\ doing' \subseteq Tasks /\ done' \subseteq Tasks
           /\ failed' \subseteq done' /\ succeeded' \subseteq Tasks
           /\ events' \in Seq(Event)
<1>1. Wakeup \in Event
  BY DEF Wakeup, Event
<1>2. QED
  BY <1>1 DEF TypeOK, SubTaskFinished

LEMMA EmitTypes ==
    ASSUME TypeOK, NEW v \in Terminal, Emit(v)
    PROVE  state' \in State /\ emitted' \in Seq(Terminal) /\ asserted' \in BOOLEAN
<1>1. asserted' \in BOOLEAN
  BY Zenon DEF TypeOK, Emit
<1>2. state' \in State /\ emitted' \in Seq(Terminal)
  <2>1. state \in State /\ emitted \in Seq(Terminal)
    BY DEF TypeOK
  <2>2. Append(emitted, v) \in Seq(Terminal) /\ v \in State
    BY <2>1 DEF State
  <2> QED
    BY <2>1, <2>2 DEF Emit
<1>3. QED
  BY <1>1, <1>2

LEMMA StepTypeOK == TypeOK /\ [Next]_vars => TypeOK'
<1> SUFFICES ASSUME TypeOK, [Next]_vars PROVE TypeOK'
  OBVIOUS
<1> USE PoolAssumption
<1>1. ASSUME NEW t \in Tasks, AddTask(t) PROVE TypeOK'
  BY <1>1 DEF TypeOK, AddTask, taskVars, budget
<1>2. CASE Start
  <2>1. [i \in 1..MaxConcurrent |-> Wakeup] \in Seq(Event)
    BY DEF Wakeup, Event
  <2>2. events' \in Seq(Event)
    BY <1>2, <2>1 DEF TypeOK, Start
  <2>3. emitted' \in Seq(Terminal) /\ state' \in State
    BY <1>2 DEF Start, State
  <2>4. runs' \in 0..MaxRuns
    BY <1>2 DEF Start, TypeOK
  <2>5. QED
    BY <1>2, <2>2, <2>3, <2>4 DEF TypeOK, Start, poolVars, history
<1>3. CASE Clear
  BY <1>3 DEF TypeOK, Clear, Queued, taskVars, budget
<1>4. CASE ExecuteNextSubTask
  <2> USE <1>4 DEF ExecuteNextSubTask, history, budget
  <2>1. Tail(events) \in Seq(Event)
    BY DEF TypeOK
  <2>2. CASE SkipWakeup
    BY <2>1, <2>2 DEF TypeOK, SkipWakeup, poolVars, taskVars
  <2>3. CASE Conclude
    <3>1. Verdict \in Terminal
      BY DEF Verdict, Terminal
    <3>2. QED
      BY <2>1, <2>3, <3>1, EmitTypes DEF TypeOK, Conclude, poolVars
  <2>4. CASE StartSubTask
    <3>1. Head(queue) \in Tasks /\ Tail(queue) \in Seq(Tasks)
      BY <2>4 DEF TypeOK, StartSubTask
    <3>2. StartOf(Head(queue)) \in Event
      BY <3>1 DEF StartOf, Event
    <3>3. QED
      BY <2>1, <2>4, <3>1, <3>2 DEF TypeOK, StartSubTask, taskVars
  <2>5. QED
    BY <2>2, <2>3, <2>4
<1>5. ASSUME NEW t \in Tasks, StartChild(t) PROVE TypeOK'
  <2>1. Tail(events) \in Seq(Event)
    BY <1>5 DEF TypeOK, StartChild
  <2>2. child' \in [Tasks -> State]
    BY <1>5 DEF TypeOK, StartChild, State, Terminal
  <2> DEFINE Typed == /\ queue' \in Seq(Tasks) /\ doing' \subseteq Tasks /\ done' \subseteq Tasks
                      /\ failed' \subseteq done' /\ succeeded' \subseteq Tasks
                      /\ events' \in Seq(Event)
  <2>3. Typed
    <3>1. CASE events' = Tail(events) /\ UNCHANGED poolVars
      BY <2>1, <3>1 DEF TypeOK, poolVars
    <3>2. ASSUME NEW result \in {"Succeeded", "Failed"}, SubTaskFinished(t, result, Tail(events))
          PROVE  Typed
      BY <2>1, <3>2, FinishedTypes
    <3>3. \/ events' = Tail(events) /\ UNCHANGED poolVars
          \/ \E result \in {"Succeeded", "Failed"} : SubTaskFinished(t, result, Tail(events))
      BY Zenon, <1>5 DEF StartChild
    <3> HIDE DEF Typed
    <3>4. QED
      BY Zenon, <3>1, <3>2, <3>3
  <2>4. QED
    BY <1>5, <2>2, <2>3 DEF TypeOK, StartChild, taskVars, history, budget
<1>6. ASSUME NEW t \in Tasks, ChildConcludes(t) PROVE TypeOK'
  <2>1. PICK result \in {"Succeeded", "Failed"} :
          child' = [child EXCEPT ![t] = result] /\ SubTaskFinished(t, result, events)
    BY <1>6 DEF ChildConcludes
  <2>2. child' \in [Tasks -> State]
    BY <2>1 DEF TypeOK, State, Terminal
  <2>3. events \in Seq(Event)
    BY DEF TypeOK
  <2>4. QED
    BY <1>6, <2>1, <2>2, <2>3, FinishedTypes DEF TypeOK, ChildConcludes, taskVars, history, budget
<1>7. ASSUME NEW t \in Tasks, ChildAborted(t) PROVE TypeOK'
  <2>1. child' \in [Tasks -> State]
    BY <1>7 DEF TypeOK, ChildAborted, State, Terminal
  <2>2. events \in Seq(Event)
    BY DEF TypeOK
  <2>3. CASE t \in muted
    BY <1>7, <2>1, <2>3 DEF TypeOK, ChildAborted, poolVars, taskVars, history, budget
  <2>4. CASE t \notin muted
    <3>1. SubTaskFinished(t, "Aborted", events)
      BY <1>7, <2>4 DEF ChildAborted
    <3>2. QED
      BY <1>7, <2>1, <2>2, <3>1, FinishedTypes DEF TypeOK, ChildAborted, taskVars, history, budget
  <2>5. QED
    BY <2>3, <2>4
<1>8. CASE Abort
  <2>1. aborts' \in 0..MaxAborts
    BY <1>8 DEF Abort, TypeOK
  <2>0. asserted' \in BOOLEAN
    BY Zenon, <1>8 DEF Abort, AbortIdle, AbortInFlight, Emit, TypeOK
  <2>2. CASE AbortIdle
    <3>1. emitted' \in Seq(Terminal)
      BY <2>2 DEF AbortIdle, TypeOK, Terminal
    <3>2. QED
      BY <1>8, <2>0, <2>1, <2>2, <3>1 DEF Abort, AbortIdle, TypeOK, Queued
  <2>3. CASE AbortInFlight
    <3>1. PICK v \in Terminal : Emit(v)
      BY <2>3 DEF AbortInFlight, Terminal
    <3>2. child' \in [Tasks -> State]
      BY <2>3 DEF AbortInFlight, TypeOK, State, Terminal
    <3>3. QED
      BY <1>8, <2>0, <2>1, <2>3, <3>1, <3>2, EmitTypes DEF Abort, AbortInFlight, TypeOK, Queued
  <2>4. QED
    BY <1>8, <2>2, <2>3 DEF Abort
<1>9. CASE UNCHANGED vars
  BY <1>9 DEF vars, poolVars, taskVars, history, budget, TypeOK
<1>10. QED
  BY <1>1, <1>2, <1>3, <1>4, <1>5, <1>6, <1>7, <1>8, <1>9 DEF Next

(* Every reachable state of the pool is well formed. *)
THEOREM TypeCorrect == Spec => []TypeOK
BY InitTypeOK, StepTypeOK, PTL DEF Spec

-----------------------------------------------------------------------------
(* The limit and the accounting are not inductive alone: that a running     *)
(* child occupies a slot depends on every queued start being for a child    *)
(* that is in m_doing, has not started, and has no second start queued.     *)

Starts(ev, d, c) ==
    \A t \in Tasks : \A i \in DOMAIN ev :
        ev[i] = StartOf(t) =>
            /\ t \in d
            /\ c[t] = "Inactive"
            /\ \A j \in DOMAIN ev : ev[j] = StartOf(t) => j = i

Untouched == \A t \in Tasks : t \notin added \/ t \in Queued => child[t] = "Inactive"

SlotInv ==
    /\ TypeOK
    /\ Accounted
    /\ Untouched
    /\ Starts(events, doing, child)
    /\ SlotsBounded

LEMMA EventKinds ==
    /\ Wakeup \in Event
    /\ \A t \in Tasks : StartOf(t) \in Event /\ StartOf(t) # Wakeup
    /\ \A t, u \in Tasks : StartOf(t) = StartOf(u) => t = u
<1>1. \A t \in Tasks : StartOf(t).call = "start" /\ StartOf(t).task = t
  BY DEF StartOf
<1>2. Wakeup.call = "executeNextSubTask"
  BY DEF Wakeup
<1>3. Wakeup \in Event /\ \A t \in Tasks : StartOf(t) \in Event
  BY DEF Wakeup, StartOf, Event
<1>4. \A t \in Tasks : StartOf(t) # Wakeup
  BY <1>1, <1>2
<1>5. \A t, u \in Tasks : StartOf(t) = StartOf(u) => t = u
  BY <1>1
<1>6. QED
  BY <1>3, <1>4, <1>5

(* Serving the oldest call keeps the property of the others. *)
LEMMA ServeStarts ==
    ASSUME NEW ev \in Seq(Event), ev # <<>>, NEW d, NEW c, Starts(ev, d, c)
    PROVE  /\ Starts(Tail(ev), d, c)
           /\ \A t \in Tasks : Head(ev) = StartOf(t) =>
                  /\ t \in d /\ c[t] = "Inactive"
                  /\ \A i \in DOMAIN Tail(ev) : Tail(ev)[i] # StartOf(t)
<1>1. /\ Len(ev) \in Nat \ {0}
      /\ DOMAIN ev = 1..Len(ev)
      /\ DOMAIN Tail(ev) = 1..(Len(ev) - 1)
      /\ \A i \in DOMAIN Tail(ev) : i + 1 \in DOMAIN ev /\ Tail(ev)[i] = ev[i + 1]
      /\ 1 \in DOMAIN ev /\ Head(ev) = ev[1]
  OBVIOUS
<1>2. Starts(Tail(ev), d, c)
  <2> SUFFICES ASSUME NEW t \in Tasks, NEW i \in DOMAIN Tail(ev), Tail(ev)[i] = StartOf(t)
               PROVE  /\ t \in d /\ c[t] = "Inactive"
                      /\ \A j \in DOMAIN Tail(ev) : Tail(ev)[j] = StartOf(t) => j = i
    BY DEF Starts
  <2>1. i + 1 \in DOMAIN ev /\ ev[i + 1] = StartOf(t)
    BY <1>1
  <2>2. /\ t \in d /\ c[t] = "Inactive"
        /\ \A j \in DOMAIN ev : ev[j] = StartOf(t) => j = i + 1
    BY <2>1 DEF Starts
  <2>3. ASSUME NEW j \in DOMAIN Tail(ev), Tail(ev)[j] = StartOf(t) PROVE j = i
    <3>1. j + 1 = i + 1
      BY <1>1, <2>2, <2>3
    <3>2. QED
      BY <1>1, <3>1
  <2>4. QED
    BY <2>2, <2>3
<1>3. ASSUME NEW t \in Tasks, Head(ev) = StartOf(t)
      PROVE  /\ t \in d /\ c[t] = "Inactive"
             /\ \A i \in DOMAIN Tail(ev) : Tail(ev)[i] # StartOf(t)
  <2>1. /\ t \in d /\ c[t] = "Inactive"
        /\ \A j \in DOMAIN ev : ev[j] = StartOf(t) => j = 1
    BY <1>1, <1>3 DEF Starts
  <2>2. QED
    BY <1>1, <2>1
<1>4. QED
  BY <1>2, <1>3

(* Posting a wakeup adds no start. *)
LEMMA WakeupStarts ==
    ASSUME NEW ev \in Seq(Event), NEW d, NEW c, Starts(ev, d, c)
    PROVE  Starts(Append(ev, Wakeup), d, c)
<1>1. \A i \in DOMAIN Append(ev, Wakeup) :
         Append(ev, Wakeup)[i] = Wakeup \/ (i \in DOMAIN ev /\ Append(ev, Wakeup)[i] = ev[i])
  BY EventKinds
<1>2. \A t \in Tasks : StartOf(t) # Wakeup
  BY EventKinds
<1>3. QED
  BY <1>1, <1>2 DEF Starts

LEMMA WakeupsStarts ==
    ASSUME NEW ev \in Seq(Event), NEW d, NEW c, Starts(ev, d, c)
    PROVE  Starts(ev \o [i \in 1..MaxConcurrent |-> Wakeup], d, c)
<1> DEFINE w == [i \in 1..MaxConcurrent |-> Wakeup]
<1>1. w \in Seq(Event) /\ Len(w) = MaxConcurrent
  BY EventKinds, PoolAssumption
<1>2. \A i \in DOMAIN w : w[i] = Wakeup
  OBVIOUS
<1> HIDE DEF w
<1>3. \A i \in DOMAIN (ev \o w) :
         (ev \o w)[i] = Wakeup \/ (i \in DOMAIN ev /\ (ev \o w)[i] = ev[i])
  BY <1>1, <1>2
<1>4. \A t \in Tasks : StartOf(t) # Wakeup
  BY EventKinds
<1>5. Starts(ev \o w, d, c)
  BY <1>3, <1>4 DEF Starts
<1>6. QED
  BY <1>5 DEF w

(* Posting the start of a child that has none queued. *)
LEMMA PostStart ==
    ASSUME NEW ev \in Seq(Event), NEW d, NEW c, Starts(ev, d, c),
           NEW t \in Tasks, t \notin d, c[t] = "Inactive"
    PROVE  Starts(Append(ev, StartOf(t)), d \cup {t}, c)
<1> DEFINE nev == Append(ev, StartOf(t))
<1>1. /\ DOMAIN nev = DOMAIN ev \cup {Len(ev) + 1}
      /\ nev[Len(ev) + 1] = StartOf(t)
      /\ \A i \in DOMAIN ev : nev[i] = ev[i]
  BY EventKinds
<1>2. \A i \in DOMAIN ev : ev[i] # StartOf(t)
  BY DEF Starts
<1>3. \A u \in Tasks : StartOf(u) = StartOf(t) => u = t
  BY EventKinds
<1> HIDE DEF nev
<1>4. Starts(nev, d \cup {t}, c)
  BY <1>1, <1>2, <1>3 DEF Starts
<1>5. QED
  BY <1>4 DEF nev

(* A child that occupies a slot reports its result: it leaves its slot, is  *)
(* filed as done, and the queued starts are still those of waiting children.*)
LEMMA FinishedSlots ==
    ASSUME SlotInv, NEW t \in doing, NEW result, NEW v, v # "Running",
           NEW pending \in Seq(Event), Starts(pending, doing, child),
           \A i \in DOMAIN pending : pending[i] # StartOf(t),
           SubTaskFinished(t, result, pending),
           child' = [child EXCEPT ![t] = v], UNCHANGED <<added, dismissed>>
    PROVE  Accounted' /\ Untouched' /\ Starts(events', doing', child') /\ SlotsBounded'
<1>1. t \in Tasks /\ t \in added /\ t \notin Queued
  BY DEF SlotInv, TypeOK, Accounted
<1>2. /\ queue' = queue /\ Queued' = Queued
      /\ doing' = doing \ {t} /\ done' = done \cup {t}
      /\ added' = added /\ dismissed' = dismissed
  BY DEF SubTaskFinished, Queued
<1>3. child'[t] # "Running" /\ \A u \in Tasks \ {t} : child'[u] = child[u]
  BY <1>1 DEF SlotInv, TypeOK
<1>4. Accounted'
  BY <1>1, <1>2 DEF SlotInv, Accounted
<1>5. Untouched'
  BY <1>1, <1>2, <1>3 DEF SlotInv, Untouched
<1>6. Starts(events', doing', child')
  <2>1. Starts(pending, doing', child')
    BY <1>1, <1>2, <1>3 DEF Starts
  <2>2. QED
    BY <2>1, WakeupStarts DEF SubTaskFinished
<1>7. SlotsBounded'
  <2>1. Running' \subseteq doing'
    BY <1>2, <1>3 DEF SlotInv, SlotsBounded, Running
  <2>2. IsFiniteSet(doing)
    BY PoolAssumption, FS_Subset DEF SlotInv, TypeOK
  <2>3. Cardinality(doing') <= Cardinality(doing) /\ Cardinality(doing) \in Nat /\ Cardinality(doing') \in Nat
    <3>1. doing' \in SUBSET doing
      BY <1>2
    <3>2. IsFiniteSet(doing') /\ Cardinality(doing') <= Cardinality(doing)
      BY <3>1, <2>2, FS_Subset
    <3>3. QED
      BY <2>2, <3>2, FS_CardinalityType
  <2>4. QED
    BY <2>1, <2>3, PoolAssumption DEF SlotInv, SlotsBounded
<1>8. QED
  BY <1>4, <1>5, <1>6, <1>7

LEMMA InitSlotInv == Init => SlotInv
<1> SUFFICES ASSUME Init PROVE SlotInv
  OBVIOUS
<1>1. TypeOK
  BY InitTypeOK
<1>2. Queued = {} /\ DOMAIN events = {} /\ DOMAIN queue = {}
  BY DEF Init, Queued
<1>3. Accounted
  BY <1>2 DEF Init, Accounted
<1>4. Untouched /\ Starts(events, doing, child)
  BY <1>2 DEF Init, Untouched, Starts
<1>5. Running = {}
  BY DEF Init, Running
<1>6. SlotsBounded
  BY <1>5, FS_EmptySet, PoolAssumption DEF Init, SlotsBounded
<1>7. QED
  BY <1>1, <1>3, <1>4, <1>6 DEF SlotInv

(* Steps that leave the slots, the children and the bookkeeping alone. *)
LEMMA QuietSlots ==
    ASSUME SlotInv, UNCHANGED <<queue, doing, done, child, added, dismissed>>,
           Starts(events', doing, child)
    PROVE  Accounted' /\ Untouched' /\ Starts(events', doing', child') /\ SlotsBounded'
<1>1. Queued' = Queued /\ Running' = Running
  BY DEF Queued, Running
<1>2. QED
  BY <1>1 DEF SlotInv, Accounted, Untouched, SlotsBounded

LEMMA StepSlotInv == SlotInv /\ [Next]_vars => SlotInv'
<1> SUFFICES ASSUME SlotInv, [Next]_vars PROVE SlotInv'
  OBVIOUS
<1> DEFINE Rest == Accounted' /\ Untouched' /\ Starts(events', doing', child') /\ SlotsBounded'
<1>0. TypeOK /\ TypeOK'
  BY StepTypeOK DEF SlotInv
<1>a. /\ Accounted /\ Untouched /\ SlotsBounded
      /\ Starts(events, doing, child)
      /\ events \in Seq(Event) /\ queue \in Seq(Tasks) /\ doing \subseteq Tasks
      /\ child \in [Tasks -> State]
  BY <1>0 DEF SlotInv, TypeOK
<1>b. SUFFICES Rest
  BY <1>0 DEF SlotInv
<1>1. ASSUME NEW t \in Tasks, AddTask(t) PROVE Rest
  <2>0. /\ t \notin added /\ queue' = Append(queue, t)
        /\ added' = added \cup {t}
        /\ UNCHANGED <<doing, done, dismissed, child, events>>
    BY <1>1 DEF AddTask
  <2>q. /\ DOMAIN queue' = DOMAIN queue \cup {Len(queue) + 1}
        /\ queue'[Len(queue) + 1] = t
        /\ \A i \in DOMAIN queue : queue'[i] = queue[i]
    BY <2>0, <1>a
  <2>1. /\ t \notin added
        /\ Queued' = Queued \cup {t}
        /\ added' = added \cup {t}
        /\ UNCHANGED <<doing, done, dismissed, child, events>>
    BY <2>0, <2>q DEF Queued
  <2>2. t \notin Queued \cup doing \cup done \cup dismissed /\ child[t] = "Inactive"
    BY <2>1, <1>a DEF Accounted, Untouched
  <2>3. \A i, j \in DOMAIN queue' : queue'[i] = queue'[j] => i = j
    <3>1. \A i \in DOMAIN queue : queue[i] # t
      BY <2>2 DEF Queued
    <3>2. QED
      BY <2>q, <3>1, <1>a DEF Accounted
  <2>4. Accounted'
    BY <2>1, <2>2, <2>3, <1>a DEF Accounted
  <2>5. Untouched' /\ Starts(events', doing', child')
    BY <2>1, <2>2, <1>a DEF Untouched
  <2>6. SlotsBounded'
    BY <2>1, <1>a DEF SlotsBounded, Running
  <2>7. QED
    BY <2>4, <2>5, <2>6
<1>2. CASE Start
  BY <1>2, <1>a, WakeupsStarts, QuietSlots DEF Start, poolVars, history
<1>3. CASE Clear
  <2>1. /\ Queued' = {} /\ done' = {} /\ DOMAIN queue' = {}
        /\ dismissed' = dismissed \cup Queued \cup done
        /\ UNCHANGED <<doing, child, events, added>>
    BY <1>3 DEF Clear, Queued
  <2>2. Accounted' /\ Untouched' /\ Starts(events', doing', child')
    BY <2>1, <1>a DEF Accounted, Untouched
  <2>3. SlotsBounded'
    BY <2>1, <1>a DEF SlotsBounded, Running
  <2>4. QED
    BY <2>2, <2>3
<1>4. CASE ExecuteNextSubTask
  <2>1. events # <<>> /\ Tail(events) \in Seq(Event) /\ Starts(Tail(events), doing, child)
    BY <1>4, <1>a, ServeStarts DEF ExecuteNextSubTask
  <2>2. CASE SkipWakeup \/ Conclude
    <3>1. /\ events' = Tail(events)
          /\ UNCHANGED <<queue, doing, done, child, added, dismissed>>
      BY <1>4, <2>2 DEF ExecuteNextSubTask, SkipWakeup, Conclude, poolVars, history
    <3>2. QED
      BY <2>1, <3>1, QuietSlots
  <2>3. CASE StartSubTask
    <3> DEFINE t == Head(queue)
    <3>1. /\ queue # <<>> /\ ~NoFreeSlot
          /\ queue' = Tail(queue) /\ doing' = doing \cup {t}
          /\ events' = Append(Tail(events), StartOf(t))
          /\ UNCHANGED <<done, child, added, dismissed>>
      BY <1>4, <2>3 DEF ExecuteNextSubTask, StartSubTask, history
    <3>2. /\ Len(queue) \in Nat \ {0} /\ DOMAIN queue = 1..Len(queue)
          /\ DOMAIN Tail(queue) = 1..(Len(queue) - 1)
          /\ \A i \in DOMAIN Tail(queue) : Tail(queue)[i] = queue[i + 1]
          /\ t = queue[1] /\ t \in Tasks
      BY <3>1, <1>a
    <3>3. t \in Queued
      BY <3>2 DEF Queued
    <3>4. Queued' = Queued \ {t}
      <4>1. ASSUME NEW x \in Queued, x # t PROVE x \in Queued'
        <5>1. PICK i \in DOMAIN queue : queue[i] = x
          BY DEF Queued
        <5>2. i # 1 /\ i - 1 \in DOMAIN Tail(queue) /\ Tail(queue)[i - 1] = x
          BY <4>1, <5>1, <3>2
        <5>3. QED
          BY <5>2, <3>1 DEF Queued
      <4>2. ASSUME NEW x \in Queued' PROVE x \in Queued /\ x # t
        <5>1. PICK i \in DOMAIN Tail(queue) : Tail(queue)[i] = x
          BY <3>1 DEF Queued
        <5>2. i + 1 \in DOMAIN queue /\ queue[i + 1] = x /\ i + 1 # 1 /\ 1 \in DOMAIN queue
          BY <5>1, <3>2
        <5>3. x # t
          BY <5>2, <3>2, <1>a DEF Accounted
        <5>4. QED
          BY <5>2, <5>3 DEF Queued
      <4>3. QED
        BY <4>1, <4>2
    <3>5. \A i, j \in DOMAIN queue' : queue'[i] = queue'[j] => i = j
      <4> SUFFICES ASSUME NEW i \in DOMAIN Tail(queue), NEW j \in DOMAIN Tail(queue),
                          Tail(queue)[i] = Tail(queue)[j]
                   PROVE  i = j
        BY <3>1
      <4>1. /\ i + 1 \in DOMAIN queue /\ j + 1 \in DOMAIN queue
            /\ queue[i + 1] = queue[j + 1]
        BY <3>2
      <4>2. i + 1 = j + 1
        BY <4>1, <1>a DEF Accounted
      <4>3. QED
        BY <4>2, <3>2
    <3>6. t \notin doing \cup done \cup dismissed /\ t \in added /\ child[t] = "Inactive"
      BY <3>3, <3>2, <1>a DEF Accounted, Untouched
    <3>7. Accounted' /\ Untouched'
      BY <3>1, <3>3, <3>4, <3>5, <3>6, <1>a DEF Accounted, Untouched
    <3>8. Starts(events', doing', child')
      BY <2>1, <3>1, <3>2, <3>6, PostStart
    <3>9. SlotsBounded'
      <4>1. IsFiniteSet(doing) /\ Cardinality(doing) \in Nat
        BY <1>a, PoolAssumption, FS_Subset, FS_CardinalityType
      <4>2. Cardinality(doing') = Cardinality(doing) + 1
        BY <4>1, <3>1, <3>6, FS_AddElement
      <4>3. Cardinality(doing) < MaxConcurrent
        BY <4>1, <3>1, PoolAssumption DEF NoFreeSlot
      <4>4. Running' \subseteq doing'
        BY <3>1, <1>a DEF SlotsBounded, Running
      <4>5. QED
        BY <4>1, <4>2, <4>3, <4>4, PoolAssumption DEF SlotsBounded
    <3>10. QED
      BY <3>7, <3>8, <3>9
  <2>4. QED
    BY <1>4, <2>2, <2>3 DEF ExecuteNextSubTask
<1>5. ASSUME NEW t \in Tasks, StartChild(t) PROVE Rest
  <2>1. /\ Tail(events) \in Seq(Event) /\ Starts(Tail(events), doing, child)
        /\ t \in doing /\ child[t] = "Inactive"
        /\ \A i \in DOMAIN Tail(events) : Tail(events)[i] # StartOf(t)
    BY <1>5, <1>a, ServeStarts DEF StartChild
  <2>2. UNCHANGED <<added, dismissed>>
    BY <1>5 DEF StartChild, history
  <2>3. ASSUME NEW result \in {"Succeeded", "Failed"}, child' = [child EXCEPT ![t] = result],
               SubTaskFinished(t, result, Tail(events))
        PROVE  Rest
    BY <2>1, <2>2, <2>3, FinishedSlots
  <2>4. CASE child' = [child EXCEPT ![t] = "Running"] /\ events' = Tail(events) /\ UNCHANGED poolVars
    <3>1. /\ Queued' = Queued /\ queue' = queue /\ doing' = doing /\ done' = done
          /\ \A u \in Tasks \ {t} : child'[u] = child[u]
          /\ t \in added /\ t \notin Queued
      BY <2>1, <2>4, <1>a DEF poolVars, Queued, Accounted
    <3>2. Accounted' /\ Untouched'
      BY <2>2, <3>1, <1>a DEF Accounted, Untouched
    <3>3. Starts(events', doing', child')
      BY <2>1, <2>4, <3>1 DEF Starts
    <3>4. SlotsBounded'
      BY <2>1, <3>1, <1>a DEF SlotsBounded, Running
    <3>5. QED
      BY <3>2, <3>3, <3>4
  <2> HIDE DEF Rest
  <2>5. QED
    BY Zenon, <1>5, <2>3, <2>4 DEF StartChild
<1>6. ASSUME NEW t \in Tasks, child[t] = "Running", NEW result, NEW v, v # "Running",
             child' = [child EXCEPT ![t] = v], SubTaskFinished(t, result, events),
             UNCHANGED <<added, dismissed>>
      PROVE  Rest
  <2>1. t \in doing
    BY <1>6, <1>a DEF SlotsBounded, Running
  <2>2. \A i \in DOMAIN events : events[i] # StartOf(t)
    BY <1>6, <1>a DEF Starts
  <2>3. QED
    BY <1>6, <1>a, <2>1, <2>2, FinishedSlots
<1>7. ASSUME NEW t \in Tasks, ChildConcludes(t) PROVE Rest
  BY <1>6, <1>7 DEF ChildConcludes, history
<1>8. ASSUME NEW t \in Tasks, ChildAborted(t) PROVE Rest
  <2>1. CASE t \notin muted
    BY <1>6, <1>8, <2>1 DEF ChildAborted, history
  <2>2. CASE t \in muted
    <3>1. /\ child[t] = "Running"
          /\ UNCHANGED <<queue, doing, done, events, added, dismissed>>
          /\ child'[t] = "AbortedByUser"
          /\ \A u \in Tasks \ {t} : child'[u] = child[u]
      BY <1>8, <2>2, <1>a DEF ChildAborted, poolVars, history
    <3>2. t \in doing /\ Queued' = Queued
      BY <3>1, <1>a DEF SlotsBounded, Running, Queued
    <3>3. Accounted' /\ Untouched'
      BY <3>1, <3>2, <1>a DEF Accounted, Untouched
    <3>4. Starts(events', doing', child')
      <4>1. \A i \in DOMAIN events : events[i] # StartOf(t)
        BY <3>1, <1>a DEF Starts
      <4>2. QED
        BY <3>1, <4>1, <1>a DEF Starts
    <3>5. SlotsBounded'
      BY <3>1, <1>a DEF SlotsBounded, Running
    <3>6. QED
      BY <3>3, <3>4, <3>5
  <2>3. QED
    BY <2>1, <2>2
<1>9. CASE Abort
  <2>1. /\ Queued' = {} /\ DOMAIN queue' = {} /\ dismissed' = dismissed \cup Queued
        /\ UNCHANGED <<doing, done, events, added>>
    BY <1>9 DEF Abort, AbortIdle, AbortInFlight, Queued
  <2>2. \A u \in Tasks : child'[u] = child[u] \/ (child[u] = "Running" /\ child'[u] = "AbortedByUser")
    BY <1>9 DEF Abort, AbortIdle, AbortInFlight, Running
  <2>3. Accounted'
    BY <2>1, <1>a DEF Accounted
  <2>4. Untouched' /\ Starts(events', doing', child')
    BY <2>1, <2>2, <1>a DEF Untouched, Starts
  <2>5. SlotsBounded'
    BY <2>1, <2>2, <1>a DEF SlotsBounded, Running
  <2>6. QED
    BY <2>3, <2>4, <2>5
<1>10. CASE UNCHANGED vars
  BY <1>10, <1>a, QuietSlots DEF vars, poolVars, history
<1>11. QED
  BY <1>1, <1>2, <1>3, <1>4, <1>5, <1>7, <1>8, <1>9, <1>10 DEF Next

LEMMA SlotInvariant == Spec => []SlotInv
BY InitSlotInv, StepSlotInv, PTL DEF Spec

(* Whatever is added, aborted, cleared or restarted, and however many tasks *)
(* there are: every running child occupies a slot and no more slots are in  *)
(* use than the limit allows.                                               *)
THEOREM SlotsAlwaysBounded == Spec => []SlotsBounded
<1>1. SlotInv => SlotsBounded
  BY DEF SlotInv
<1>2. QED
  BY <1>1, SlotInvariant, PTL

(* No task is lost, duplicated or run twice. *)
THEOREM TasksAccounted == Spec => []Accounted
<1>1. SlotInv => Accounted
  BY DEF SlotInv
<1>2. QED
  BY <1>1, SlotInvariant, PTL

-----------------------------------------------------------------------------
(* Without aborts the pool implements PoolContract.  Beyond SlotInv this    *)
(* needs that no child outlives the run it was started in and none is       *)
(* muted.                                                                   *)

NoStragglers ==
    /\ aborts = 0
    /\ muted = {}
    /\ doing # {} => state = "Running"
    /\ \A t \in doing : child[t] \in {"Inactive", "Running"}

LEMMA InitNoStragglers == Init => NoStragglers
BY DEF Init, NoStragglers

LEMMA StepNoStragglers ==
    ASSUME MaxAborts = 0, SlotInv, NoStragglers, [Next]_vars
    PROVE  NoStragglers'
<1>a. /\ events \in Seq(Event) /\ queue \in Seq(Tasks) /\ doing \subseteq Tasks
      /\ child \in [Tasks -> State]
      /\ Starts(events, doing, child) /\ Accounted /\ Untouched /\ Running \subseteq doing
  BY DEF SlotInv, TypeOK, SlotsBounded
<1>b. ASSUME NEW t \in doing, NEW result, NEW v, NEW pending, state' = state,
             SubTaskFinished(t, result, pending), child' = [child EXCEPT ![t] = v],
             UNCHANGED <<aborts, muted>>
      PROVE  NoStragglers'
  BY <1>a, <1>b DEF SubTaskFinished, NoStragglers
<1>1. ASSUME NEW t \in Tasks, AddTask(t) PROVE NoStragglers'
  BY <1>1 DEF AddTask, NoStragglers, taskVars, budget
<1>2. CASE Start
  BY <1>2 DEF Start, NoStragglers, poolVars
<1>3. CASE Clear
  BY <1>3 DEF Clear, NoStragglers, taskVars, budget
<1>4. CASE ExecuteNextSubTask
  <2> USE DEF ExecuteNextSubTask, NoStragglers, budget
  <2>1. CASE SkipWakeup
    BY <1>4, <2>1 DEF SkipWakeup, poolVars, taskVars
  <2>2. CASE Conclude
    BY <1>4, <2>2 DEF Conclude, poolVars
  <2>3. CASE StartSubTask
    <3>1. Head(queue) \in Queued
      BY <2>3, <1>a DEF StartSubTask, Queued
    <3>2. child[Head(queue)] = "Inactive"
      BY <3>1, <1>a DEF Untouched, Queued
    <3>3. QED
      BY <1>4, <2>3, <3>2 DEF StartSubTask, taskVars
  <2>4. QED
    BY <1>4, <2>1, <2>2, <2>3
<1>5. ASSUME NEW t \in Tasks, StartChild(t) PROVE NoStragglers'
  <2>1. t \in doing
    BY <1>5, <1>a, ServeStarts DEF StartChild
  <2>2. state' = state /\ UNCHANGED <<aborts, muted>>
    BY <1>5 DEF StartChild, taskVars, budget
  <2>3. CASE child' = [child EXCEPT ![t] = "Running"] /\ UNCHANGED poolVars
    BY <1>a, <2>1, <2>2, <2>3 DEF NoStragglers, poolVars
  <2>4. ASSUME NEW result, child' = [child EXCEPT ![t] = result],
               SubTaskFinished(t, result, Tail(events))
        PROVE  NoStragglers'
    BY <1>b, <2>1, <2>2, <2>4
  <2>5. QED
    BY Zenon, <1>5, <2>3, <2>4 DEF StartChild
<1>6. ASSUME NEW t \in Tasks, ChildConcludes(t) PROVE NoStragglers'
  <2>1. t \in doing /\ state' = state /\ UNCHANGED <<aborts, muted>>
    BY <1>6, <1>a DEF ChildConcludes, Running, taskVars, budget
  <2>2. QED
    BY <1>6, <1>b, <2>1 DEF ChildConcludes
<1>7. ASSUME NEW t \in Tasks, ChildAborted(t) PROVE NoStragglers'
  <2>1. t \in doing /\ t \notin muted /\ state' = state /\ UNCHANGED <<aborts, muted>>
    BY <1>7, <1>a DEF ChildAborted, Running, taskVars, budget, NoStragglers
  <2>2. QED
    BY <1>7, <1>b, <2>1 DEF ChildAborted
<1>8. ~Abort
  BY DEF Abort, NoStragglers
<1>9. CASE UNCHANGED vars
  BY <1>9 DEF vars, poolVars, taskVars, budget, NoStragglers
<1>10. QED
  BY <1>1, <1>2, <1>3, <1>4, <1>5, <1>6, <1>7, <1>8, <1>9 DEF Next

WaitingTasks == Queued \cup {t \in doing : child[t] = "Inactive"}
ActiveTasks == {t \in doing : child[t] = "Running"}

(* A child in a slot that ends is the contract's End. *)
LEMMA EndMaps ==
    ASSUME SlotInv, NoStragglers, NEW t \in doing, NEW result, NEW v, NEW pending,
           v \notin {"Inactive", "Running"},
           SubTaskFinished(t, result, pending), child' = [child EXCEPT ![t] = v],
           UNCHANGED state
    PROVE  Contract!End(t)
<1>1. /\ t \in Tasks /\ t \notin Queued /\ t \notin done
      /\ failed \subseteq done /\ doing \subseteq Tasks /\ IsFiniteSet(doing)
      /\ child \in [Tasks -> State] /\ Cardinality(doing) <= MaxConcurrent
  BY PoolAssumption, FS_Subset DEF SlotInv, TypeOK, Accounted, SlotsBounded
<1>2. /\ Queued' = Queued /\ doing' = doing \ {t} /\ done' = done \cup {t}
      /\ failed' = IF result = "Succeeded" THEN failed ELSE failed \cup {t}
      /\ child'[t] = v /\ \A u \in Tasks \ {t} : child'[u] = child[u]
  BY <1>1 DEF SubTaskFinished, Queued
<1>3. WaitingTasks' = WaitingTasks \ {t} /\ ActiveTasks' = ActiveTasks \ {t}
  BY <1>1, <1>2 DEF WaitingTasks, ActiveTasks
<1>4. \/ (done \ failed)' = (done \ failed) \cup {t} /\ UNCHANGED failed
      \/ failed' = failed \cup {t} /\ (done \ failed)' = done \ failed
  BY <1>1, <1>2
<1>5. state = "Running" /\ state' = state
  BY DEF NoStragglers
<1>6. t \in ActiveTasks \/ (t \in WaitingTasks /\ HasRoom(ActiveTasks))
  <2>1. CASE child[t] = "Running"
    BY <2>1 DEF ActiveTasks
  <2>2. CASE child[t] = "Inactive"
    <3>1. t \in WaitingTasks /\ ActiveTasks \in SUBSET doing /\ ActiveTasks # doing
      BY <2>2 DEF WaitingTasks, ActiveTasks
    <3>2. IsFiniteSet(ActiveTasks) /\ Cardinality(ActiveTasks) <= Cardinality(doing)
          /\ Cardinality(ActiveTasks) # Cardinality(doing)
      BY <1>1, <3>1, FS_Subset
    <3>3. Cardinality(ActiveTasks) \in Nat /\ Cardinality(doing) \in Nat
      BY <1>1, <3>2, FS_CardinalityType
    <3>4. QED
      BY <1>1, <3>1, <3>2, <3>3, PoolAssumption DEF HasRoom
  <2>3. QED
    BY <2>1, <2>2 DEF NoStragglers
<1>7. QED
  BY <1>3, <1>4, <1>5, <1>6 DEF Contract!End, WaitingTasks, ActiveTasks

LEMMA StepMaps ==
    ASSUME MaxAborts = 0, SlotInv, NoStragglers, [Next]_vars
    PROVE  [Contract!Next]_(Contract!vars)
<1>a. /\ events \in Seq(Event) /\ queue \in Seq(Tasks) /\ doing \subseteq Tasks
      /\ child \in [Tasks -> State] /\ failed \subseteq done
      /\ Starts(events, doing, child) /\ Accounted /\ Untouched /\ Running \subseteq doing
      /\ IsFiniteSet(doing) /\ Cardinality(doing) <= MaxConcurrent
  BY PoolAssumption, FS_Subset DEF SlotInv, TypeOK, SlotsBounded
<1> DEFINE Stutter == /\ WaitingTasks' = WaitingTasks /\ ActiveTasks' = ActiveTasks
                      /\ UNCHANGED <<done, failed, state>>
<1>s. Stutter => UNCHANGED Contract!vars
  BY DEF Contract!vars, WaitingTasks, ActiveTasks
<1>0. SUFFICES Contract!Next \/ Stutter
  BY <1>s
<1>1. ASSUME NEW t \in Tasks, AddTask(t) PROVE Contract!Offer(t)
  <2>1. t \notin Queued \cup doing \cup done
    BY <1>1, <1>a DEF AddTask, Accounted
  <2>2. /\ queue' = Append(queue, t)
        /\ UNCHANGED <<doing, done, failed, child, state>>
    BY <1>1 DEF AddTask, taskVars
  <2>3. /\ DOMAIN queue' = DOMAIN queue \cup {Len(queue) + 1}
        /\ queue'[Len(queue) + 1] = t
        /\ \A i \in DOMAIN queue : queue'[i] = queue[i]
    BY <2>2, <1>a
  <2>4. Queued' = Queued \cup {t}
    BY <2>3 DEF Queued
  <2>5. WaitingTasks' = WaitingTasks \cup {t} /\ ActiveTasks' = ActiveTasks
    BY <2>2, <2>4 DEF WaitingTasks, ActiveTasks
  <2>6. t \notin WaitingTasks \cup ActiveTasks \cup (done \ failed) \cup failed
    BY <2>1, <1>a DEF WaitingTasks, ActiveTasks
  <2>7. QED
    BY <2>2, <2>5, <2>6 DEF Contract!Offer, WaitingTasks, ActiveTasks
<1>2. CASE Start
  <2>1. state # "Running" /\ state' = "Running" /\ UNCHANGED <<queue, doing, done, failed, child>>
    BY <1>2 DEF Start, poolVars
  <2>2. Queued' = Queued
    BY <2>1 DEF Queued
  <2>3. Contract!Open
    BY <2>1, <2>2 DEF Contract!Open
  <2>4. QED
    BY <2>3 DEF Contract!Next
<1>3. CASE Clear
  <2>1. /\ state # "Running" /\ state' = state /\ doing = {} /\ doing' = {}
        /\ done' = {} /\ failed' = {} /\ Queued' = {} /\ child' = child
    BY <1>3 DEF Clear, taskVars, NoStragglers, Queued
  <2>2. WaitingTasks' = {} /\ ActiveTasks' = ActiveTasks
    BY <2>1 DEF WaitingTasks, ActiveTasks
  <2>3. Contract!Forget
    BY <2>1, <2>2 DEF Contract!Forget, WaitingTasks, ActiveTasks
  <2>4. QED
    BY <2>3 DEF Contract!Next
<1>4. CASE ExecuteNextSubTask
  <2>1. CASE SkipWakeup
    BY <2>1 DEF SkipWakeup, poolVars, taskVars, WaitingTasks, ActiveTasks, Queued
  <2>2. CASE Conclude
    <3>1. /\ state = "Running" /\ queue = <<>> /\ doing = {}
          /\ state' = Verdict /\ UNCHANGED <<queue, doing, done, failed, child>>
      BY <2>2 DEF Conclude, Emit, poolVars
    <3>2. Queued = {} /\ Queued' = {}
      BY <3>1 DEF Queued
    <3>3. Contract!Close
      BY <3>1, <3>2 DEF Contract!Close, Verdict
    <3>4. QED
      BY <3>3 DEF Contract!Next
  <2>3. CASE StartSubTask
    <3>1. /\ queue # <<>> /\ queue' = Tail(queue)
          /\ doing' = doing \cup {Head(queue)}
          /\ UNCHANGED <<done, failed, child, state>>
      BY <2>3 DEF StartSubTask, taskVars
    <3>2. /\ DOMAIN queue = 1..Len(queue) /\ Len(queue) \in Nat \ {0}
          /\ DOMAIN queue' = 1..(Len(queue) - 1)
          /\ \A i \in DOMAIN queue' : queue'[i] = queue[i + 1]
          /\ Head(queue) = queue[1]
      BY <3>1, <1>a
    <3>3. Queued = Queued' \cup {Head(queue)}
      <4>1. ASSUME NEW x \in Queued PROVE x \in Queued' \cup {Head(queue)}
        <5>1. PICK i \in DOMAIN queue : queue[i] = x
          BY DEF Queued
        <5>2. i # 1 => i - 1 \in DOMAIN queue' /\ queue'[i - 1] = x
          BY <5>1, <3>2
        <5>3. QED
          BY <5>1, <5>2, <3>2 DEF Queued
      <4>2. Queued' \cup {Head(queue)} \subseteq Queued
        BY <3>2 DEF Queued
      <4>3. QED
        BY <4>1, <4>2
    <3>4. child[Head(queue)] = "Inactive" /\ Head(queue) \in Queued
      <4>1. Head(queue) \in Queued /\ Head(queue) \in Tasks
        BY <3>3, <3>1, <1>a
      <4>2. QED
        BY <4>1, <1>a DEF Untouched
    <3>5. WaitingTasks' = WaitingTasks /\ ActiveTasks' = ActiveTasks
      BY <3>1, <3>3, <3>4 DEF WaitingTasks, ActiveTasks
    <3>6. QED
      BY <3>1, <3>5
  <2>4. QED
    BY <1>4, <2>1, <2>2, <2>3 DEF ExecuteNextSubTask
<1>5. ASSUME NEW t \in Tasks, StartChild(t) PROVE Contract!Begin(t) \/ Contract!End(t)
  <2>1. t \in doing /\ child[t] = "Inactive" /\ state' = state
    BY <1>5, <1>a, ServeStarts DEF StartChild, taskVars
  <2>2. ASSUME NEW result \in {"Succeeded", "Failed"}, child' = [child EXCEPT ![t] = result],
               SubTaskFinished(t, result, Tail(events))
        PROVE  Contract!End(t)
    BY <2>1, <2>2, EndMaps
  <2>3. CASE child' = [child EXCEPT ![t] = "Running"] /\ UNCHANGED poolVars
    <3>1. /\ UNCHANGED <<queue, doing, done, failed>> /\ Queued' = Queued
          /\ child'[t] = "Running" /\ \A u \in Tasks \ {t} : child'[u] = child[u]
          /\ t \notin Queued
      BY <2>1, <2>3, <1>a DEF poolVars, Queued, Accounted
    <3>2. WaitingTasks' = WaitingTasks \ {t} /\ ActiveTasks' = ActiveTasks \cup {t}
          /\ t \in WaitingTasks
      BY <2>1, <3>1, <1>a DEF WaitingTasks, ActiveTasks
    <3>3. ActiveTasks \in SUBSET doing /\ ActiveTasks # doing
      BY <2>1 DEF ActiveTasks
    <3>4. IsFiniteSet(ActiveTasks) /\ Cardinality(ActiveTasks) <= Cardinality(doing)
          /\ Cardinality(ActiveTasks) # Cardinality(doing)
      BY <1>a, <3>3, FS_Subset
    <3>5. Cardinality(ActiveTasks) \in Nat /\ Cardinality(doing) \in Nat
      BY <1>a, <3>4, FS_CardinalityType
    <3>6. HasRoom(ActiveTasks)
      BY <1>a, <3>4, <3>5, PoolAssumption DEF HasRoom
    <3>7. state = "Running"
      BY <2>1 DEF NoStragglers
    <3>8. QED
      BY <2>1, <3>1, <3>2, <3>6, <3>7 DEF Contract!Begin, WaitingTasks, ActiveTasks
  <2>4. QED
    BY Zenon, <1>5, <2>2, <2>3 DEF StartChild
<1>6. ASSUME NEW t \in Tasks, ChildConcludes(t) PROVE Contract!End(t)
  <2>1. t \in doing /\ state' = state
    BY <1>6, <1>a DEF ChildConcludes, Running, taskVars
  <2>2. QED
    BY <1>6, <2>1, EndMaps DEF ChildConcludes
<1>7. ASSUME NEW t \in Tasks, ChildAborted(t) PROVE Contract!End(t)
  <2>1. t \in doing /\ t \notin muted /\ state' = state
    BY <1>7, <1>a DEF ChildAborted, Running, taskVars, NoStragglers
  <2>2. QED
    BY <1>7, <2>1, EndMaps DEF ChildAborted
<1>8. ~Abort
  BY DEF Abort, NoStragglers
<1>9. CASE UNCHANGED vars
  BY <1>9 DEF vars, poolVars, taskVars, WaitingTasks, ActiveTasks, Queued
<1>10. QED
  BY <1>1, <1>2, <1>3, <1>4, <1>5, <1>6, <1>7, <1>8, <1>9 DEF Next, Contract!Next

(* Without aborts the event-driven pool implements the contract: tasks      *)
(* start only while there is room, end once, and the run is closed once,    *)
(* when nothing is left, with a success exactly when nothing failed.        *)
THEOREM ImplementsContract ==
    ASSUME MaxAborts = 0
    PROVE  Spec => KeepsContract
<1>1. Init => Contract!Init
  <2>1. Init => Queued = {}
    BY DEF Init, Queued
  <2>2. QED
    BY <2>1 DEF Init, Contract!Init
<1>2. Init => NoStragglers
  BY InitNoStragglers
<1>3. SlotInv /\ NoStragglers /\ [Next]_vars => NoStragglers'
  BY StepNoStragglers
<1>4. SlotInv /\ NoStragglers /\ [Next]_vars => [Contract!Next]_(Contract!vars)
  BY StepMaps
<1>5. QED
  BY <1>1, <1>2, <1>3, <1>4, SlotInvariant, PTL DEF Spec, KeepsContract, Contract!Spec

-----------------------------------------------------------------------------
(* Wakeups are never lost, if the limit is not 0.  The inductive form: every*)
(* unmuted child in a slot runs or is about to be started, and a running    *)
(* pool with no child in a slot has a wakeup in the event loop.             *)

Driven ==
    /\ \A t \in doing \ muted : child[t] = "Running" \/ Pending(StartOf(t))
    /\ (state = "Running" /\ doing = {}) => Pending(Wakeup)

LEMMA AppendPending ==
    ASSUME events \in Seq(Event), NEW e \in Event, events' = Append(events, e)
    PROVE  /\ Pending(e)'
           /\ \A f : Pending(f) => Pending(f)'
<1>1. /\ DOMAIN events' = DOMAIN events \cup {Len(events) + 1}
      /\ events'[Len(events) + 1] = e
      /\ \A i \in DOMAIN events : events'[i] = events[i]
  OBVIOUS
<1>2. QED
  BY <1>1 DEF Pending

LEMMA TailPending ==
    ASSUME NEW ev \in Seq(Event), ev # <<>>, NEW f, f # Head(ev),
           NEW i \in DOMAIN ev, ev[i] = f
    PROVE  \E j \in DOMAIN Tail(ev) : Tail(ev)[j] = f
<1>1. /\ Len(ev) \in Nat \ {0} /\ DOMAIN ev = 1..Len(ev)
      /\ DOMAIN Tail(ev) = 1..(Len(ev) - 1)
      /\ \A j \in DOMAIN Tail(ev) : Tail(ev)[j] = ev[j + 1]
      /\ Head(ev) = ev[1]
  OBVIOUS
<1>2. i # 1
  BY <1>1
<1>3. i - 1 \in DOMAIN Tail(ev) /\ Tail(ev)[i - 1] = f
  BY <1>1, <1>2
<1>4. QED
  BY <1>3

(* Serving the oldest call leaves the others pending, and appending one     *)
(* more keeps them.                                                         *)
LEMMA ServePending ==
    ASSUME events \in Seq(Event), events # <<>>, NEW f, Pending(f), f # Head(events),
           \/ events' = Tail(events)
           \/ \E e \in Event : events' = Append(Tail(events), e)
    PROVE  Pending(f)'
<1>1. PICK j \in DOMAIN Tail(events) : Tail(events)[j] = f
  BY TailPending DEF Pending
<1>2. CASE events' = Tail(events)
  BY <1>1, <1>2 DEF Pending
<1>3. ASSUME NEW e \in Event, events' = Append(Tail(events), e) PROVE Pending(f)'
  <2>1. Tail(events) \in Seq(Event)
    OBVIOUS
  <2>2. j \in DOMAIN events' /\ events'[j] = f
    BY <1>1, <1>3, <2>1
  <2>3. QED
    BY <2>2 DEF Pending
<1>4. QED
  BY <1>2, <1>3

LEMMA StepDriven ==
    ASSUME MaxConcurrent # 0, SlotInv, Driven, [Next]_vars
    PROVE  Driven'
<1>a. /\ events \in Seq(Event) /\ queue \in Seq(Tasks) /\ doing \subseteq Tasks
      /\ child \in [Tasks -> State] /\ Starts(events, doing, child) /\ Accounted
      /\ Untouched /\ Running \subseteq doing /\ IsFiniteSet(doing)
  BY PoolAssumption, FS_Subset DEF SlotInv, TypeOK, SlotsBounded
<1>b. /\ Wakeup \in Event
      /\ \A t \in Tasks : StartOf(t) \in Event /\ StartOf(t) # Wakeup
      /\ \A t, u \in Tasks : StartOf(t) = StartOf(u) => t = u
  BY EventKinds
(* Steps that leave slots, children and pending calls alone. *)
<1>q. ASSUME UNCHANGED <<doing, child, state, muted, events>> PROVE Driven'
  BY <1>q DEF Driven, Pending
<1>1. ASSUME NEW t \in Tasks, AddTask(t) PROVE Driven'
  BY <1>1, <1>q DEF AddTask, taskVars
<1>2. CASE Start
  <2> DEFINE w == [i \in 1..MaxConcurrent |-> Wakeup]
  <2>1. w \in Seq(Event) /\ Len(w) = MaxConcurrent /\ w[1] = Wakeup
    BY <1>b, PoolAssumption
  <2>2. events' = events \o w /\ UNCHANGED <<doing, child, muted>>
    BY <1>2 DEF Start, poolVars
  <2> HIDE DEF w
  <2>3. Len(events) + 1 \in DOMAIN events' /\ events'[Len(events) + 1] = Wakeup
    BY <1>a, <2>1, <2>2, PoolAssumption
  <2>4. \A i \in DOMAIN events : i \in DOMAIN events' /\ events'[i] = events[i]
    BY <1>a, <2>1, <2>2
  <2>5. QED
    BY <2>2, <2>3, <2>4 DEF Driven, Pending
<1>3. CASE Clear
  BY <1>3, <1>q DEF Clear, taskVars
<1>4. CASE ExecuteNextSubTask
  <2>1. events # <<>> /\ Head(events) = Wakeup
    BY <1>4 DEF ExecuteNextSubTask
  <2>2. ASSUME NEW t \in Tasks, Pending(StartOf(t)),
               \/ events' = Tail(events)
               \/ \E e \in Event : events' = Append(Tail(events), e)
        PROVE  Pending(StartOf(t))'
    BY <1>a, <1>b, <2>1, <2>2, ServePending
  <2>3. CASE SkipWakeup
    <3>1. events' = Tail(events) /\ UNCHANGED <<doing, child, state, muted>>
      BY <2>3 DEF SkipWakeup, poolVars, taskVars
    <3>2. state # "Running" \/ doing # {}
      <4>1. NoFreeSlot => doing # {}
        BY FS_EmptySet, PoolAssumption DEF NoFreeSlot
      <4>2. QED
        BY <2>3, <4>1 DEF SkipWakeup
    <3>3. QED
      BY <1>a, <2>2, <3>1, <3>2 DEF Driven
  <2>4. CASE Conclude
    <3>1. /\ events' = Tail(events) /\ UNCHANGED <<doing, child, muted>> /\ doing = {}
          /\ state' # "Running"
      BY <2>4 DEF Conclude, poolVars, Emit, Verdict
    <3>2. QED
      BY <3>1 DEF Driven
  <2>5. CASE StartSubTask
    <3>a. Head(queue) \in Tasks
      BY <2>5, <1>a DEF StartSubTask
    <3>b. PICK t \in Tasks : t = Head(queue)
      BY <3>a
    <3>1. /\ events' = Append(Tail(events), StartOf(t)) /\ doing' = doing \cup {t}
          /\ muted' = muted \ {t} /\ child' = child
      BY <2>5, <3>b DEF StartSubTask
    <3>2. Tail(events) \in Seq(Event) /\ StartOf(t) \in Event
      BY <1>a, <1>b, <2>1
    <3>3. \E k \in DOMAIN events' : events'[k] = StartOf(t)
      <4>1. Len(Tail(events)) + 1 \in DOMAIN events' /\ events'[Len(Tail(events)) + 1] = StartOf(t)
        BY <3>1, <3>2
      <4>2. QED
        BY <4>1
    <3>4. ASSUME NEW u \in doing' \ muted' PROVE child'[u] = "Running" \/ Pending(StartOf(u))'
      <4>1. CASE u = t
        <5>1. \E k \in DOMAIN events' : events'[k] = StartOf(u)
          BY <3>3, <4>1
        <5>2. QED
          BY <5>1 DEF Pending, StartOf
      <4>2. CASE u # t
        <5>1. u \in doing \ muted /\ u \in Tasks
          BY <1>a, <3>1, <3>4, <4>2
        <5>2. child[u] = "Running" \/ Pending(StartOf(u))
          BY <1>a, <5>1 DEF Driven
        <5>3. CASE child[u] = "Running"
          BY <3>1, <5>3
        <5>4. CASE Pending(StartOf(u))
          BY <2>2, <3>1, <3>2, <5>1, <5>4
        <5>5. QED
          BY <5>2, <5>3, <5>4
      <4>3. QED
        BY <4>1, <4>2
    <3>5. QED
      BY <3>1, <3>4 DEF Driven
  <2>6. QED
    BY <1>4, <2>3, <2>4, <2>5 DEF ExecuteNextSubTask
(* A child reports its result: every other child keeps its pending start,   *)
(* and a wakeup is posted.                                                  *)
<1>c. ASSUME NEW t \in Tasks, NEW result, NEW v, NEW pending \in Seq(Event),
             SubTaskFinished(t, result, pending), child' = [child EXCEPT ![t] = v],
             muted' = muted,
             \A u \in doing \ {t} : Pending(StartOf(u)) =>
                 \E i \in DOMAIN pending : pending[i] = StartOf(u)
      PROVE  Driven'
  <2>1. events' = Append(pending, Wakeup) /\ doing' = doing \ {t}
    BY <1>c DEF SubTaskFinished
  <2>2. /\ DOMAIN events' = DOMAIN pending \cup {Len(pending) + 1}
        /\ events'[Len(pending) + 1] = Wakeup
        /\ \A i \in DOMAIN pending : events'[i] = pending[i]
    BY <1>b, <1>c, <2>1
  <2>3. Pending(Wakeup)'
    BY <2>2 DEF Pending
  <2>4. ASSUME NEW u \in doing' \ muted' PROVE child'[u] = "Running" \/ Pending(StartOf(u))'
    <3>1. u \in doing \ {t} /\ u \notin muted /\ child'[u] = child[u]
      BY <1>a, <1>c, <2>1
    <3>2. CASE Pending(StartOf(u))
      <4>1. PICK i \in DOMAIN pending : pending[i] = StartOf(u)
        BY <1>c, <3>1, <3>2
      <4>2. i \in DOMAIN events' /\ events'[i] = StartOf(u)
        BY <2>2, <4>1
      <4>3. \E k \in DOMAIN events' : events'[k] = StartOf(u)
        BY <4>2
      <4>4. QED
        BY <4>3 DEF Pending
    <3>3. QED
      BY <3>1, <3>2 DEF Driven
  <2>5. QED
    BY <2>3, <2>4 DEF Driven
<1>5. ASSUME NEW t \in Tasks, StartChild(t) PROVE Driven'
  <2>1. /\ events # <<>> /\ Head(events) = StartOf(t) /\ t \in doing
        /\ Tail(events) \in Seq(Event) /\ muted' = muted /\ state' = state
    BY <1>5, <1>a, ServeStarts DEF StartChild, taskVars
  <2>2. \A u \in doing \ {t} : StartOf(u) # Head(events)
    BY <1>a, <1>b, <2>1
  <2>3. \A u \in doing \ {t} : Pending(StartOf(u)) =>
            \E i \in DOMAIN Tail(events) : Tail(events)[i] = StartOf(u)
    BY <1>a, <2>1, <2>2, TailPending DEF Pending
  <2>4. ASSUME NEW result \in {"Succeeded", "Failed"}, child' = [child EXCEPT ![t] = result],
               SubTaskFinished(t, result, Tail(events))
        PROVE  Driven'
    BY <1>c, <2>1, <2>3, <2>4
  <2>5. CASE child' = [child EXCEPT ![t] = "Running"] /\ events' = Tail(events) /\ UNCHANGED poolVars
    <3>1. doing' = doing /\ child'[t] = "Running" /\ \A u \in Tasks \ {t} : child'[u] = child[u]
      BY <1>a, <2>5 DEF poolVars
    <3>2. \A u \in doing \ {t} : Pending(StartOf(u)) => Pending(StartOf(u))'
      BY <2>3, <2>5 DEF Pending
    <3>3. QED
      BY <1>a, <2>1, <3>1, <3>2 DEF Driven
  <2>6. QED
    BY Zenon, <1>5, <2>4, <2>5 DEF StartChild
<1>6. ASSUME NEW t \in Tasks, ChildConcludes(t) PROVE Driven'
  BY <1>6, <1>a, <1>c DEF ChildConcludes, Pending
<1>7. ASSUME NEW t \in Tasks, ChildAborted(t) PROVE Driven'
  <2>1. CASE t \notin muted
    BY <1>7, <1>a, <1>c, <2>1 DEF ChildAborted, Pending
  <2>2. CASE t \in muted
    <3>1. /\ UNCHANGED <<doing, events, state, muted>>
          /\ \A u \in Tasks \ {t} : child'[u] = child[u]
      BY <1>7, <1>a, <2>2 DEF ChildAborted, poolVars, taskVars
    <3>2. QED
      BY <1>a, <2>2, <3>1 DEF Driven, Pending
  <2>3. QED
    BY <2>1, <2>2
<1>8. CASE Abort
  <2>1. CASE AbortIdle
    BY <2>1, <1>q DEF AbortIdle
  <2>2. CASE AbortInFlight
    BY <2>2 DEF AbortInFlight, Driven
  <2>3. QED
    BY <1>8, <2>1, <2>2 DEF Abort
<1>9. CASE UNCHANGED vars
  BY <1>9, <1>q DEF vars, poolVars, taskVars
<1>10. QED
  BY <1>1, <1>2, <1>3, <1>4, <1>5, <1>6, <1>7, <1>8, <1>9 DEF Next

(* If at least one child may run, a running pool always has a wakeup or a   *)
(* live child to move it; aborts, refusals and restarts do not change that  *)
(* as long as no muted child occupies a slot.                               *)
THEOREM WakeupsNeverLost ==
    ASSUME MaxConcurrent # 0
    PROVE  Spec => []WakeupNeverLost
<1>1. Init => Driven
  BY DEF Init, Driven
<1>2. SlotInv /\ Driven /\ [Next]_vars => Driven'
  BY StepDriven
<1>3. Driven => WakeupNeverLost
  BY DEF Driven, WakeupNeverLost
<1>4. QED
  BY <1>1, <1>2, <1>3, SlotInvariant, PTL DEF Spec

-----------------------------------------------------------------------------
(* The two tasks derived from the pool keep its slots: all that differs is  *)
(* what a report or a wakeup concludes.                                     *)

(* A child that ends, whatever is emitted for it.                           *)
LEMMA EndKeepsSlots ==
    ASSUME SlotInv, NEW t \in doing, NEW result, NEW v \in Terminal,
           NEW pending \in Seq(Event), Starts(pending, doing, child),
           \A i \in DOMAIN pending : pending[i] # StartOf(t),
           SubTaskFinished(t, result, pending), child' = [child EXCEPT ![t] = v],
           UNCHANGED taskVars \/ Emit("Failed"), UNCHANGED <<muted, history, budget>>
    PROVE  SlotInv'
<1>1. TypeOK /\ t \in Tasks
  BY DEF SlotInv, TypeOK
<1>2. state' \in State /\ emitted' \in Seq(Terminal) /\ asserted' \in BOOLEAN
  <2>1. CASE UNCHANGED taskVars
    BY <1>1, <2>1 DEF TypeOK, taskVars
  <2>2. CASE Emit("Failed")
    BY <1>1, <2>2, EmitTypes DEF Terminal
  <2> QED
    BY <2>1, <2>2
<1>3. child' \in [Tasks -> State]
  BY <1>1 DEF TypeOK, State
<1>4. TypeOK'
  BY <1>1, <1>2, <1>3, FinishedTypes DEF TypeOK, history, budget
<1>5. v # "Running" /\ UNCHANGED <<added, dismissed>>
  BY DEF Terminal, history
<1> QED
  BY <1>4, <1>5, FinishedSlots DEF SlotInv

(* What is known of a start that is served, and of a child that runs.       *)
LEMMA ServedStart ==
    ASSUME SlotInv, NEW t \in Tasks, events # <<>>, Head(events) = StartOf(t)
    PROVE  /\ t \in doing /\ child[t] = "Inactive"
           /\ Tail(events) \in Seq(Event) /\ Starts(Tail(events), doing, child)
           /\ \A i \in DOMAIN Tail(events) : Tail(events)[i] # StartOf(t)
<1>1. events \in Seq(Event) /\ Starts(events, doing, child)
  BY DEF SlotInv, TypeOK
<1> QED
  BY <1>1, ServeStarts

LEMMA RunningChild ==
    ASSUME SlotInv, NEW t \in Tasks, child[t] = "Running"
    PROVE  /\ t \in doing /\ events \in Seq(Event) /\ Starts(events, doing, child)
           /\ \A i \in DOMAIN events : events[i] # StartOf(t)
BY DEF SlotInv, TypeOK, Starts, SlotsBounded, Running

LEMMA SequenceSlots == SlotInv /\ [SeqNext]_vars => SlotInv'
<1> SUFFICES ASSUME SlotInv, [SeqNext]_vars PROVE SlotInv'
  OBVIOUS
<1>1. CASE [Next]_vars
  BY <1>1, StepSlotInv
<1>2. ASSUME NEW t \in Tasks, StartStep(t) PROVE SlotInv'
  <2>1. CASE StartChild(t)
    BY <1>1, <2>1 DEF Next
  <2>2. CASE ~StartChild(t)
    <3>1. PICK result \in {"Succeeded", "Failed"} :
            child' = [child EXCEPT ![t] = result] /\ SubTaskReported(t, result, Tail(events))
      BY <1>2, <2>2 DEF StartStep, StartChild
    <3> QED
      BY <1>2, <3>1, ServedStart, EndKeepsSlots DEF StartStep, SubTaskReported, Terminal
  <2> QED
    BY <2>1, <2>2
<1>3. ASSUME NEW t \in Tasks, StepConcludes(t) PROVE SlotInv'
  BY <1>3, RunningChild, EndKeepsSlots DEF StepConcludes, SubTaskReported, Terminal
<1>4. ASSUME NEW t \in Tasks, StepAborted(t) PROVE SlotInv'
  <2>1. CASE t \in muted
    <3>1. ChildAborted(t)
      BY <1>4, <2>1 DEF StepAborted, ChildAborted
    <3> QED
      BY <1>1, <3>1 DEF Next
  <2>2. CASE t \notin muted
    BY <1>4, <2>2, RunningChild, EndKeepsSlots DEF StepAborted, SubTaskReported, Terminal
  <2> QED
    BY <2>1, <2>2
<1> QED
  BY <1>1, <1>2, <1>3, <1>4 DEF SeqNext, Next

LEMMA OptionsSlots == SlotInv /\ [OptNext]_vars => SlotInv'
<1> SUFFICES ASSUME SlotInv, [OptNext]_vars PROVE SlotInv'
  OBVIOUS
<1>1. CASE [Next]_vars
  BY <1>1, StepSlotInv
<1>2. CASE ExecuteNextOption /\ TryNextOption
  BY <1>1, <1>2 DEF ExecuteNextOption, TryNextOption, ExecuteNextSubTask, Next
<1>3. CASE ExecuteNextOption /\ ConcludeOptions
  <2>1. TypeOK /\ Tail(events) \in Seq(Event) /\ Starts(Tail(events), doing, child)
    BY <1>3, ServeStarts DEF SlotInv, TypeOK, ExecuteNextOption
  <2>2. PICK verdict \in Terminal : Emit(verdict)
    BY <1>3 DEF ConcludeOptions, Terminal
  <2>3. TypeOK'
    BY <1>3, <2>1, <2>2, EmitTypes
       DEF TypeOK, ExecuteNextOption, ConcludeOptions, poolVars, history, budget
  <2>4. UNCHANGED <<queue, doing, done, child, added, dismissed>> /\ events' = Tail(events)
    BY <1>3 DEF ExecuteNextOption, ConcludeOptions, poolVars, history
  <2> QED
    BY <2>1, <2>3, <2>4, QuietSlots DEF SlotInv
<1> QED
  BY <1>1, <1>2, <1>3 DEF OptNext, Next, ExecuteNextOption

-----------------------------------------------------------------------------
(* What is filed of a child is how the child ended. *)

ResultsTrue ==
    /\ succeeded \subseteq done \cup dismissed
    /\ \A t \in done : /\ t \notin failed => child[t] = "Succeeded"
                       /\ t \in succeeded <=> t \notin failed

LEMMA EndKeepsResults ==
    ASSUME SlotInv, ResultsTrue, NEW t \in doing, NEW v, NEW result, NEW pending,
           result = "Succeeded" <=> v = "Succeeded",
           SubTaskFinished(t, result, pending), child' = [child EXCEPT ![t] = v],
           UNCHANGED history
    PROVE  ResultsTrue'
<1>1. /\ t \in Tasks /\ t \notin done /\ t \notin dismissed /\ t \in DOMAIN child
      /\ failed \subseteq done
  BY DEF SlotInv, TypeOK, Accounted
<1>2. \A u \in done : child'[u] = child[u]
  BY <1>1
<1> QED
  BY <1>1, <1>2 DEF SubTaskFinished, ResultsTrue, history

LEMMA QuietResults ==
    ASSUME ResultsTrue, UNCHANGED <<done, failed, succeeded, child, dismissed>>
    PROVE  ResultsTrue'
BY DEF ResultsTrue

LEMMA AbortKeepsResults == SlotInv /\ ResultsTrue /\ Abort => ResultsTrue'
<1> SUFFICES ASSUME SlotInv, ResultsTrue, Abort PROVE ResultsTrue'
  OBVIOUS
<1>1. UNCHANGED <<done, failed, succeeded>> /\ dismissed \subseteq dismissed'
  BY DEF Abort, AbortIdle, AbortInFlight
<1>2. \A t \in done : t \in Tasks /\ t \notin doing
  BY DEF SlotInv, TypeOK, Accounted
<1>3. \A t \in done : child'[t] = child[t]
  BY <1>2 DEF Abort, AbortIdle, AbortInFlight
<1> QED
  BY <1>1, <1>3 DEF ResultsTrue

(* What the pool and both of the derived tasks do alike.                    *)
LEMMA OwnerKeepsResults ==
    ASSUME SlotInv, ResultsTrue,
           \/ Start \/ Clear \/ Abort \/ ExecuteNextSubTask \/ UNCHANGED vars
           \/ \E t \in Tasks : AddTask(t)
    PROVE  ResultsTrue'
<1>1. CASE Clear
  BY <1>1 DEF Clear, ResultsTrue
<1>2. CASE Abort
  BY <1>2, AbortKeepsResults
<1>3. CASE Start \/ UNCHANGED vars
  BY <1>3, QuietResults DEF Start, vars, poolVars, history
<1>4. CASE ExecuteNextSubTask
  BY <1>4, QuietResults
     DEF ExecuteNextSubTask, SkipWakeup, Conclude, StartSubTask, poolVars, history
<1>5. CASE \E t \in Tasks : AddTask(t)
  BY <1>5, QuietResults DEF AddTask
<1> QED
  BY <1>1, <1>2, <1>3, <1>4, <1>5

(* A child that begins to run, or hears an abort nobody listens for.        *)
LEMMA ChildKeepsResults ==
    ASSUME SlotInv, ResultsTrue, NEW t \in doing, NEW v, child' = [child EXCEPT ![t] = v],
           UNCHANGED <<poolVars, history>>
    PROVE  ResultsTrue'
<1>1. t \notin done /\ t \in Tasks
  BY DEF SlotInv, TypeOK, Accounted
<1>2. \A u \in done : child'[u] = child[u]
  BY <1>1 DEF SlotInv, TypeOK
<1> QED
  BY <1>2 DEF ResultsTrue, poolVars, history

LEMMA ReportsKeepResults ==
    ASSUME SlotInv, ResultsTrue, NEW t \in Tasks,
           StartChild(t) \/ StartStep(t) \/ ChildConcludes(t) \/ StepConcludes(t)
               \/ ChildAborted(t) \/ StepAborted(t)
    PROVE  ResultsTrue'
<1>1. CASE StartChild(t) \/ StartStep(t)
  <2>1. t \in doing
    BY <1>1, ServedStart DEF StartChild, StartStep
  <2>2. CASE child' = [child EXCEPT ![t] = "Running"] /\ UNCHANGED poolVars
    BY <1>1, <2>1, <2>2, ChildKeepsResults DEF StartChild, StartStep
  <2>3. ASSUME NEW result \in {"Succeeded", "Failed"}, child' = [child EXCEPT ![t] = result],
               SubTaskFinished(t, result, Tail(events))
        PROVE  ResultsTrue'
    BY <1>1, <2>1, <2>3, EndKeepsResults DEF StartChild, StartStep
  <2> QED
    BY <1>1, <2>2, <2>3 DEF StartChild, StartStep, SubTaskReported
<1>2. CASE ChildConcludes(t) \/ StepConcludes(t)
  <2>1. t \in doing
    BY <1>2, RunningChild DEF ChildConcludes, StepConcludes
  <2> QED
    BY <1>2, <2>1, EndKeepsResults DEF ChildConcludes, StepConcludes, SubTaskReported
<1>3. CASE ChildAborted(t) \/ StepAborted(t)
  <2>1. t \in doing
    BY <1>3, RunningChild DEF ChildAborted, StepAborted
  <2>2. CASE t \in muted
    BY <1>3, <2>1, <2>2, ChildKeepsResults DEF ChildAborted, StepAborted
  <2>3. CASE t \notin muted
    BY <1>3, <2>1, <2>3, EndKeepsResults DEF ChildAborted, StepAborted, SubTaskReported
  <2> QED
    BY <2>2, <2>3
<1> QED
  BY <1>1, <1>2, <1>3

LEMMA InitResults == Init => ResultsTrue
BY DEF Init, ResultsTrue

(* A run of the pool is concluded as a success only when every task ever    *)
(* added has succeeded or was thrown away by abort() or clear(), for any    *)
(* number of restarts and late additions (ConcurrentTask::                  *)
(* executeNextSubTask).                                                     *)
THEOREM SuccessIsEarned == Spec => [][SuccessEarned]_vars
<1>1. Init => SlotInv /\ ResultsTrue
  BY InitSlotInv, InitResults
<1>2. SlotInv /\ ResultsTrue /\ [Next]_vars => (SlotInv /\ ResultsTrue)'
  BY StepSlotInv, OwnerKeepsResults, ReportsKeepResults DEF Next
<1>3. SlotInv /\ ResultsTrue /\ [Next]_vars => [SuccessEarned]_vars
  <2> SUFFICES ASSUME SlotInv, ResultsTrue, Next, state = "Running", state' = "Succeeded"
               PROVE  \A t \in added \ dismissed : child[t] = "Succeeded"
    BY DEF SuccessEarned
  <2>1. Conclude
    BY DEF Next, Start, Clear, ExecuteNextSubTask, SkipWakeup, StartSubTask, Abort, AbortIdle,
           AbortInFlight, Emit, AddTask, StartChild, ChildConcludes, ChildAborted, taskVars
  <2>2. queue = <<>> /\ doing = {} /\ failed = {}
    BY <2>1 DEF Conclude, Emit, Verdict
  <2> QED
    BY <2>2 DEF SlotInv, Accounted, Queued, ResultsTrue
<1> QED
  BY <1>1, <1>2, <1>3, PTL DEF Spec

-----------------------------------------------------------------------------
(* A sequence, and a task with options: pools with one slot *)

LEMMA OneSlot ==
    ASSUME SlotInv, MaxConcurrent = 1, NEW t \in doing
    PROVE  doing = {t} /\ NoFreeSlot
<1>1. IsFiniteSet(doing) /\ Cardinality(doing) \in Nat
  BY PoolAssumption, FS_Subset, FS_CardinalityType DEF SlotInv, TypeOK
<1>2. Cardinality(doing) <= 1 /\ Cardinality(doing) # 0
  BY <1>1, FS_EmptySet DEF SlotInv, SlotsBounded
<1>3. Cardinality(doing) = 1
  BY <1>1, <1>2
<1> QED
  BY <1>1, <1>3, FS_Singleton DEF NoFreeSlot

(* In its first run, if nobody aborts it, a sequence that has heard of a    *)
(* failure is over and has nothing in its slot.                             *)
OverOnFailure ==
    aborts = 0 /\ runs <= 1 =>
        /\ runs = 0 => doing = {} /\ events = <<>> /\ done = {} /\ state # "Running"
        /\ failed # {} => doing = {} /\ state # "Running"

SequenceInv == SlotInv /\ ResultsTrue /\ OverOnFailure

LEMMA ReportsKeepOver ==
    ASSUME MaxConcurrent = 1, SequenceInv, NEW t \in doing, NEW result, NEW pending,
           SubTaskReported(t, result, pending), UNCHANGED budget
    PROVE  OverOnFailure'
<1> SUFFICES ASSUME aborts = 0, runs <= 1 PROVE OverOnFailure'
  BY DEF OverOnFailure, budget
<1>1. runs # 0 /\ failed = {}
  BY DEF SequenceInv, OverOnFailure
<1>2. doing' = {}
  BY OneSlot DEF SequenceInv, SubTaskReported, SubTaskFinished
<1>3. failed' # {} => state' # "Running"
  BY <1>1 DEF SubTaskReported, SubTaskFinished, Emit
<1> QED
  BY <1>1, <1>2, <1>3 DEF OverOnFailure, budget

LEMMA StepOver ==
    ASSUME MaxConcurrent = 1, SequenceInv, [SeqNext]_vars
    PROVE  OverOnFailure'
<1>0. /\ aborts \in Nat /\ runs \in Nat /\ failed \subseteq done
      /\ SlotInv /\ OverOnFailure
  BY PoolAssumption DEF SequenceInv, SlotInv, TypeOK
<1>1. CASE Start
  BY <1>0, <1>1 DEF Start, OverOnFailure, poolVars
<1>2. CASE Clear
  BY <1>0, <1>2 DEF Clear, OverOnFailure, taskVars, budget
<1>3. CASE Abort
  BY <1>0, <1>3 DEF Abort, OverOnFailure
<1>4. CASE ExecuteNextSubTask
  BY <1>0, <1>4 DEF ExecuteNextSubTask, SkipWakeup, Conclude, StartSubTask, Emit, OverOnFailure,
                    poolVars, taskVars, budget
<1>5. ASSUME NEW t \in Tasks, AddTask(t) PROVE OverOnFailure'
  BY <1>0, <1>5 DEF AddTask, OverOnFailure, taskVars, budget
<1>6. ASSUME NEW t \in Tasks, StartStep(t) PROVE OverOnFailure'
  <2>1. t \in doing
    BY <1>0, <1>6, ServedStart DEF StartStep
  <2>2. CASE UNCHANGED <<poolVars, taskVars>>
    BY <1>0, <1>6, <2>1, <2>2 DEF StartStep, OverOnFailure, poolVars, taskVars, budget
  <2> QED
    BY <1>6, <2>1, <2>2, ReportsKeepOver DEF StartStep
<1>7. ASSUME NEW t \in Tasks, StepConcludes(t) PROVE OverOnFailure'
  BY <1>0, <1>7, RunningChild, ReportsKeepOver DEF StepConcludes
<1>8. ASSUME NEW t \in Tasks, StepAborted(t) PROVE OverOnFailure'
  <2>1. CASE t \in muted
    BY <1>0, <1>8, <2>1 DEF StepAborted, OverOnFailure, poolVars, taskVars, budget
  <2> QED
    BY <1>0, <1>8, <2>1, RunningChild, ReportsKeepOver DEF StepAborted
<1>9. CASE UNCHANGED vars
  BY <1>0, <1>9 DEF OverOnFailure, vars, poolVars, taskVars, budget
<1> QED
  BY <1>1, <1>2, <1>3, <1>4, <1>5, <1>6, <1>7, <1>8, <1>9 DEF SeqNext

(* A step of a sequence begins only when every step before it has succeeded *)
(* (SequentialTask::subTaskFailed), also when steps are added meanwhile.    *)
THEOREM StepsBuildOnSuccess ==
    ASSUME MaxConcurrent = 1
    PROVE  SeqSpec => [][StepBuildsOnSuccess]_vars
<1>1. Init => SequenceInv
  BY InitSlotInv, InitResults DEF Init, SequenceInv, OverOnFailure
<1>2. SequenceInv /\ [SeqNext]_vars => SequenceInv'
  BY SequenceSlots, OwnerKeepsResults, ReportsKeepResults, StepOver DEF SequenceInv, SeqNext
<1>3. SequenceInv /\ [SeqNext]_vars => [StepBuildsOnSuccess]_vars
  <2> SUFFICES ASSUME SequenceInv, SeqNext, NEW t \in Tasks, child[t] # "Running",
                      child'[t] = "Running", runs = 1, aborts = 0,
                      NEW u \in added \ (Queued \cup dismissed \cup {t})
               PROVE  child[u] = "Succeeded"
    BY DEF StepBuildsOnSuccess
  <2>1. t \in DOMAIN child
    BY DEF SequenceInv, SlotInv, TypeOK
  <2>2. PICK v \in Tasks : StartStep(v) \/ StepConcludes(v) \/ StepAborted(v)
    BY <2>1 DEF SeqNext, Start, Clear, Abort, AbortIdle, AbortInFlight, AddTask, ExecuteNextSubTask,
                SkipWakeup, Conclude, StartSubTask
  <2>3. StartStep(v) /\ v = t
    BY <2>1, <2>2 DEF StartStep, StepConcludes, StepAborted
  <2>4. doing = {t}
    BY <2>3, ServedStart, OneSlot DEF SequenceInv, StartStep
  <2>5. failed = {} /\ u \in done
    BY <2>4 DEF SequenceInv, OverOnFailure, SlotInv, Accounted
  <2> QED
    BY <2>5 DEF SequenceInv, ResultsTrue
<1> QED
  BY <1>1, <1>2, <1>3, PTL DEF SeqSpec

(* Among options, nothing is in the slot once one has worked; and without   *)
(* aborts there is one wakeup or one start posted at most, and nothing at   *)
(* all after the verdict.                                                   *)
OneOption ==
    /\ doing # {} => succeeded \cap done = {}
    /\ aborts = 0 =>
           /\ events \in {<<>>, <<Wakeup>>} \cup {<<StartOf(t)>> : t \in Tasks}
           /\ events = <<Wakeup>> => doing = {}
           /\ state # "Running" => events = <<>> /\ doing = {}

OptionsInv == SlotInv /\ ResultsTrue /\ OneOption

(* No option has worked while as many are filed as have failed.             *)
LEMMA NoneWorked ==
    ASSUME SlotInv, ResultsTrue, ~SomeOptionWorked
    PROVE  done = failed /\ succeeded \cap done = {}
<1>1. done \subseteq Tasks /\ failed \in SUBSET done
  BY DEF SlotInv, TypeOK
<1>2. IsFiniteSet(done)
  BY <1>1, PoolAssumption, FS_Subset
<1>3. done = failed
  BY <1>1, <1>2, FS_Subset DEF SomeOptionWorked
<1> QED
  BY <1>3 DEF ResultsTrue

LEMMA OneCall ==
    ASSUME NEW e
    PROVE  /\ Tail(<<e>>) = <<>> /\ Head(<<e>>) = e
           /\ Append(<<>>, e) = <<e>> /\ <<e>> # <<>>
<1>1. <<e>> \in Seq({e}) /\ Len(<<e>>) = 1
  OBVIOUS
<1>2. Tail(<<e>>) \in Seq({e}) /\ Len(Tail(<<e>>)) = 0
  BY <1>1
<1> QED
  BY <1>2

LEMMA ReportsKeepOne ==
    ASSUME MaxConcurrent = 1, OptionsInv, NEW t \in doing, NEW result, NEW pending,
           aborts = 0 => pending = <<>>,
           SubTaskFinished(t, result, pending), UNCHANGED <<taskVars, budget>>
    PROVE  OneOption'
<1>1. doing' = {} /\ events' = Append(pending, Wakeup)
  BY OneSlot DEF OptionsInv, SubTaskFinished
<1>2. aborts = 0 => state = "Running" /\ events' = <<Wakeup>>
  BY <1>1 DEF OptionsInv, OneOption
<1> QED
  BY <1>1, <1>2 DEF OneOption, taskVars, budget

LEMMA StepOne ==
    ASSUME MaxConcurrent = 1, OptionsInv, [OptNext]_vars
    PROVE  OneOption'
<1>0. /\ aborts \in Nat /\ runs \in Nat /\ failed \subseteq done /\ doing \subseteq Tasks
      /\ queue \in Seq(Tasks)
      /\ SlotInv /\ ResultsTrue /\ OneOption
  BY PoolAssumption DEF OptionsInv, SlotInv, TypeOK
<1>1. CASE Start
  <2>1. aborts = 0 => events' = <<Wakeup>>
    <3>1. aborts = 0 => events = <<>>
      BY <1>0, <1>1 DEF Start, OneOption
    <3>2. <<>> \o [i \in 1..1 |-> Wakeup] = <<Wakeup>>
      OBVIOUS
    <3> QED
      BY <1>1, <3>1, <3>2 DEF Start
  <2> QED
    BY <1>0, <1>1, <2>1 DEF Start, OneOption, poolVars
<1>2. CASE Clear
  BY <1>0, <1>2 DEF Clear, OneOption, taskVars, budget
<1>3. CASE Abort
  BY <1>0, <1>3 DEF Abort, AbortIdle, AbortInFlight, OneOption
<1>4. ASSUME ExecuteNextOption PROVE OneOption'
  <2>1. aborts = 0 => events = <<Wakeup>> /\ Tail(events) = <<>> /\ doing = {}
    <3> SUFFICES ASSUME aborts = 0 PROVE events = <<Wakeup>>
      BY <1>0, OneCall DEF OneOption
    <3>1. ASSUME NEW t \in Tasks, events = <<StartOf(t)>> PROVE FALSE
      BY <1>4, <3>1, EventKinds DEF ExecuteNextOption
    <3> QED
      BY <1>0, <1>4, <3>1 DEF OneOption, ExecuteNextOption
  <2>2. CASE ConcludeOptions
    BY <1>0, <1>4, <2>1, <2>2
       DEF ExecuteNextOption, ConcludeOptions, Emit, OneOption, poolVars, budget
  <2>3. CASE TryNextOption /\ SkipWakeup
    BY <1>0, <1>4, <2>1, <2>3
       DEF ExecuteNextOption, TryNextOption, SkipWakeup, OneOption, poolVars, taskVars, budget
  <2>4. CASE TryNextOption /\ StartSubTask
    <3>1. succeeded \cap done = {}
      BY <1>0, <2>4, NoneWorked DEF TryNextOption
    <3>2. Head(queue) \in Tasks
      BY <1>0, <2>4 DEF TryNextOption
    <3>3. aborts = 0 => events' = <<StartOf(Head(queue))>>
      BY <2>1, <2>4, OneCall DEF StartSubTask
    <3>4. <<StartOf(Head(queue))>> # <<Wakeup>>
      BY <3>2, EventKinds
    <3> QED
      BY <1>4, <2>4, <3>1, <3>2, <3>3, <3>4
         DEF ExecuteNextOption, StartSubTask, OneOption, taskVars, budget
  <2> QED
    BY <1>4, <2>2, <2>3, <2>4 DEF ExecuteNextOption, TryNextOption
<1>5. ASSUME NEW t \in Tasks, AddTask(t) PROVE OneOption'
  BY <1>0, <1>5 DEF AddTask, OneOption, taskVars, budget
<1>6. ASSUME NEW t \in Tasks, StartChild(t) PROVE OneOption'
  <2>1. t \in doing
    BY <1>0, <1>6, ServedStart DEF StartChild
  <2>2. aborts = 0 => Tail(events) = <<>>
    BY <1>0, <1>6, OneCall DEF OneOption, StartChild
  <2>3. CASE events' = Tail(events) /\ UNCHANGED poolVars
    <3>1. <<>> # <<Wakeup>>
      OBVIOUS
    <3>2. aborts = 0 => state = "Running"
      BY <1>0, <2>1 DEF OneOption
    <3> QED
      BY <1>0, <1>6, <2>2, <2>3, <3>1, <3>2 DEF StartChild, OneOption, poolVars, taskVars, budget
  <2>4. ASSUME NEW result, SubTaskFinished(t, result, Tail(events)) PROVE OneOption'
    BY <1>6, <2>1, <2>2, <2>4, ReportsKeepOne DEF StartChild
  <2> QED
    BY <1>6, <2>3, <2>4 DEF StartChild
<1>7. ASSUME NEW t \in Tasks, child[t] = "Running" PROVE t \in doing /\ (aborts = 0 => events = <<>>)
  <2>1. /\ t \in doing /\ \A i \in DOMAIN events : events[i] # StartOf(t)
    BY <1>0, <1>7, RunningChild
  <2>2. ASSUME NEW u \in Tasks, events = <<StartOf(u)>> PROVE u = t
    <3>1. Head(events) = StartOf(u) /\ events # <<>>
      BY <2>2
    <3>2. u \in doing
      BY <1>0, <3>1, ServedStart
    <3> QED
      BY <1>0, <2>1, <3>2, OneSlot
  <2> QED
    BY <1>0, <2>1, <2>2 DEF OneOption
<1>8. ASSUME NEW t \in Tasks, ChildConcludes(t) PROVE OneOption'
  BY <1>7, <1>8, ReportsKeepOne DEF ChildConcludes
<1>9. ASSUME NEW t \in Tasks, ChildAborted(t) PROVE OneOption'
  <2>1. CASE t \in muted
    BY <1>0, <1>9, <2>1 DEF ChildAborted, OneOption, poolVars, taskVars, budget
  <2> QED
    BY <1>7, <1>9, <2>1, ReportsKeepOne DEF ChildAborted
<1>10. CASE UNCHANGED vars
  BY <1>0, <1>10 DEF OneOption, vars, poolVars, taskVars, budget
<1> QED
  BY <1>1, <1>2, <1>3, <1>4, <1>5, <1>6, <1>8, <1>9, <1>10 DEF OptNext

(* Once an option has worked no other is begun, and the task fails only     *)
(* when every option was tried and failed (MultipleOptionsTask::            *)
(* executeNextSubTask), for any number of restarts.                         *)
THEOREM OneOptionDecides ==
    ASSUME MaxConcurrent = 1
    PROVE  OptSpec => [][OptionDecides]_vars
<1>1. Init => OptionsInv
  BY InitSlotInv, InitResults DEF Init, OptionsInv, OneOption
<1>2. OptionsInv /\ [OptNext]_vars => OptionsInv'
  <2> SUFFICES ASSUME OptionsInv, [OptNext]_vars PROVE ResultsTrue'
    BY OptionsSlots, StepOne DEF OptionsInv
  <2>1. CASE ExecuteNextOption /\ ConcludeOptions
    BY <2>1, QuietResults DEF ExecuteNextOption, ConcludeOptions, OptionsInv, poolVars, history
  <2>2. CASE ExecuteNextOption /\ TryNextOption
    BY <2>2, OwnerKeepsResults DEF ExecuteNextOption, TryNextOption, ExecuteNextSubTask, OptionsInv
  <2> QED
    BY <2>1, <2>2, OwnerKeepsResults, ReportsKeepResults DEF OptionsInv, OptNext, ExecuteNextOption
<1>3. OptionsInv /\ [OptNext]_vars => [OptionDecides]_vars
  <2> SUFFICES ASSUME OptionsInv, OptNext PROVE OptionDecides
    OBVIOUS
  <2>0. /\ child \in [Tasks -> State] /\ SlotInv /\ ResultsTrue /\ OneOption /\ aborts \in Nat
    BY PoolAssumption DEF OptionsInv, SlotInv, TypeOK
  <2>1. ASSUME succeeded \cap done # {}, NEW t \in Running', t \notin Running PROVE FALSE
    <3>1. t \in Tasks /\ child'[t] = "Running" /\ child[t] # "Running"
      BY <2>1 DEF Running
    <3>2. PICK v \in Tasks : StartChild(v) \/ ChildConcludes(v) \/ ChildAborted(v)
      BY <2>0, <3>1 DEF OptNext, Start, Clear, Abort, AbortIdle, AbortInFlight, AddTask,
                        ExecuteNextOption, ConcludeOptions, TryNextOption, SkipWakeup, StartSubTask
    <3>3. v = t /\ StartChild(v)
      BY <2>0, <3>1, <3>2 DEF StartChild, ChildConcludes, ChildAborted
    <3> QED
      BY <2>0, <2>1, <3>3, ServedStart DEF OneOption, StartChild
  <2>2. ASSUME state = "Running", state' = "Failed", aborts' = 0
        PROVE  queue = <<>> /\ doing = {} /\ \A t \in added \ dismissed : t \in failed
    <3>1. ExecuteNextOption /\ ConcludeOptions
      BY <2>0, <2>2 DEF OptNext, Start, Clear, Abort, AddTask, ExecuteNextOption, TryNextOption, SkipWakeup,
                  StartSubTask, StartChild, ChildConcludes, ChildAborted, taskVars
    <3>2. ~SomeOptionWorked /\ queue = <<>> /\ aborts = 0 /\ Head(events) = Wakeup /\ events # <<>>
      BY <2>2, <3>1 DEF ExecuteNextOption, ConcludeOptions, Emit, budget
    <3>3. events = <<Wakeup>>
      BY <2>0, <3>2, OneCall, EventKinds DEF OneOption
    <3> QED
      BY <2>0, <3>2, <3>3, NoneWorked DEF OneOption, SlotInv, Accounted, Queued
  <2> QED
    BY <2>1, <2>2 DEF OptionDecides
<1> QED
  BY <1>1, <1>2, <1>3, PTL DEF OptSpec

-----------------------------------------------------------------------------
(* A job of downloads.  It files a download as failed that was never in a   *)
(* slot, and queues one again that failed: neither Accounted nor the order  *)
(* Inactive, Running, ended of a child holds of it.                         *)

NetTyped ==
    /\ queue \in Seq(Tasks) /\ doing \subseteq Tasks /\ failed \subseteq Tasks
    /\ events \in Seq(Event)
    /\ child \in [Tasks -> State]
    /\ lastReply \in [Tasks -> Reply] /\ attempts \in [Tasks -> Nat]
    /\ try \in Nat \ {0} /\ runs \in Nat /\ aborts \in Nat

(* Every download that was added is somewhere.                              *)
NetFiled == added = Queued \cup doing \cup succeeded \cup failed

(* Is a request at work? as a state of a child.                             *)
AtWork == [t \in Tasks |-> IF child[t] = "Running" THEN "Running" ELSE "Inactive"]

Apart ==
    /\ Queued \cap doing = {} /\ (Queued \cup doing) \cap failed = {}
    /\ \A i, j \in DOMAIN queue : queue[i] = queue[j] => i = j
    /\ Running \subseteq doing
    /\ Starts(events, doing, AtWork)

(* A download has been tried as often as the job says, but for the try that *)
(* it waits for.                                                            *)
Tried ==
    /\ \A t \in Queued \cup doing : attempts[t] + 1 >= try
    /\ \A t \in Running : attempts[t] >= try
    /\ \A t \in failed : lastReply[t] = "404" \/ attempts[t] >= try

(* In its first run, without aborts.                                        *)
FirstRun ==
    aborts = 0 /\ runs <= 1 =>
        /\ Apart /\ Tried
        /\ runs = 0 => try = 1 /\ events = <<>> /\ doing = {} /\ state # "Running"

NetInv == NetTyped /\ NetFiled /\ FirstRun

LEMMA NetInitHolds == NetInit => NetInv
<1> SUFFICES ASSUME NetInit PROVE NetInv
  OBVIOUS
<1>1. Queued = {} /\ Running = {} /\ DOMAIN queue = {} /\ DOMAIN events = {}
  BY DEF NetInit, Init, Queued, Running
<1>2. NetTyped
  BY DEF NetInit, Init, NetTyped, State, Reply
<1>3. NetFiled
  BY <1>1 DEF NetInit, Init, NetFiled
<1>4. FirstRun
  BY <1>1 DEF NetInit, Init, FirstRun, Apart, Starts, Tried
<1> QED
  BY <1>2, <1>3, <1>4 DEF NetInv

(* Who is in a queue, and is everyone in it once?                           *)
Named(q) == {q[i] : i \in DOMAIN q}
Once(q) == \A i, j \in DOMAIN q : q[i] = q[j] => i = j

(* Taking the first of a queue.                                             *)
LEMMA TakeFirst ==
    ASSUME NEW q \in Seq(Tasks), q # <<>>
    PROVE  /\ Head(q) \in Tasks /\ Tail(q) \in Seq(Tasks)
           /\ Named(q) = Named(Tail(q)) \cup {Head(q)}
           /\ Once(q) => Once(Tail(q)) /\ Head(q) \notin Named(Tail(q))
<1>1. /\ Len(q) \in Nat \ {0} /\ DOMAIN q = 1..Len(q) /\ Head(q) = q[1] /\ 1 \in DOMAIN q
      /\ DOMAIN Tail(q) = 1..(Len(q) - 1) /\ Tail(q) \in Seq(Tasks) /\ Head(q) \in Tasks
      /\ \A i \in DOMAIN Tail(q) : i + 1 \in DOMAIN q /\ Tail(q)[i] = q[i + 1]
  OBVIOUS
<1>2. ASSUME NEW i \in DOMAIN q, i # 1
      PROVE  \E j \in DOMAIN Tail(q) : Tail(q)[j] = q[i]
  <2>1. i - 1 \in DOMAIN Tail(q) /\ (i - 1) + 1 = i
    BY <1>1, <1>2
  <2> QED
    BY <1>1, <2>1
<1>3. Named(q) = Named(Tail(q)) \cup {Head(q)}
  BY <1>1, <1>2 DEF Named
<1>4. ASSUME Once(q) PROVE Once(Tail(q)) /\ Head(q) \notin Named(Tail(q))
  <2>1. \A i, j \in DOMAIN Tail(q) : i + 1 # 1 /\ (i + 1 = j + 1 => i = j)
    BY <1>1
  <2> QED
    BY <1>1, <1>4, <2>1 DEF Once, Named
<1> QED
  BY <1>1, <1>3, <1>4

(* An order of a set names each of its members once.                        *)
LEMMA OrderIsWhole ==
    ASSUME NEW S \in SUBSET Tasks, S # {}, NEW q \in OrdersOf(S)
    PROVE  q \in Seq(Tasks) /\ q # <<>> /\ Once(q) /\ Named(q) = S
<1>1. IsFiniteSet(S)
  BY PoolAssumption, FS_Subset
<1> DEFINE n == Cardinality(S)
<1>2. n \in Nat /\ n # 0
  BY <1>1, FS_CardinalityType, FS_EmptySet
<1>3. q \in [1..n -> S] /\ \A i, j \in DOMAIN q : q[i] = q[j] => i = j
  BY DEF OrdersOf
<1> HIDE DEF n
<1>4. q \in Seq(Tasks) /\ Len(q) = n /\ DOMAIN q = 1..n
  BY <1>2, <1>3
<1>5. q \in Injection(1..n, S)
  BY <1>3 DEF Injection, IsInjective
<1>6. Cardinality(1..n) = n
  BY <1>2, FS_Interval
<1>7. q \in Surjection(1..n, S)
  BY <1>1, <1>5, <1>6, FS_Injection DEF n
<1>8. Named(q) = S
  BY <1>3, <1>4, <1>7 DEF Surjection, Named
<1> QED
  BY <1>2, <1>3, <1>4, <1>8 DEF Once

(* The oldest call of a job.                                                *)
LEMMA NetServed ==
    ASSUME NetInv, events # <<>>
    PROVE  /\ Tail(events) \in Seq(Event)
           /\ Apart => Starts(Tail(events), doing, AtWork)
           /\ Apart => \A t \in Tasks : Head(events) = StartOf(t) =>
                 /\ t \in doing /\ child[t] # "Running"
                 /\ \A i \in DOMAIN Tail(events) : Tail(events)[i] # StartOf(t)
<1>1. events \in Seq(Event)
  BY DEF NetInv, NetTyped
<1>2. \A t \in Tasks : AtWork[t] = "Inactive" => child[t] # "Running"
  BY DEF AtWork
<1> QED
  BY <1>1, <1>2, ServeStarts DEF Apart

(* Nothing begins or ends: the calls that are served or posted start none.  *)
LEMMA NetQuiet ==
    ASSUME NetInv, UNCHANGED <<queue, doing, failed, succeeded, child, lastReply, attempts, added>>,
           events' \in Seq(Event), aborts' \in Nat, runs' \in Nat, UNCHANGED try,
           runs' = 0 /\ aborts' = 0 => runs = 0 /\ events' = events /\ state' = state,
           aborts' = 0 /\ runs' <= 1 => aborts = 0 /\ runs <= 1,
           Apart => Starts(events', doing, AtWork)
    PROVE  NetInv'
<1>1. Queued' = Queued /\ Running' = Running /\ AtWork' = AtWork
  BY DEF Queued, Running, AtWork
<1>2. NetTyped'
  BY DEF NetInv, NetTyped
<1>3. NetFiled'
  BY <1>1 DEF NetInv, NetFiled
<1>4. FirstRun'
  <2> SUFFICES ASSUME aborts' = 0, runs' <= 1
               PROVE  /\ Apart' /\ Tried'
                      /\ runs' = 0 => try' = 1 /\ events' = <<>> /\ doing' = {} /\ state' # "Running"
    BY DEF FirstRun
  <2>1. Apart /\ Tried /\ (runs = 0 => try = 1 /\ events = <<>> /\ doing = {} /\ state # "Running")
    BY DEF NetInv, FirstRun
  <2>2. Apart'
    BY <1>1, <2>1 DEF Apart
  <2>3. Tried'
    BY <1>1, <2>1 DEF Tried
  <2> QED
    BY <2>1, <2>2, <2>3
<1> QED
  BY <1>2, <1>3, <1>4 DEF NetInv

LEMMA NetAddKeeps ==
    ASSUME ~LateAdds, NetInv, NEW t \in Tasks, AddTask(t), UNCHANGED <<retryVars, lastReply, attempts>>
    PROVE  NetInv'
<1>1. /\ t \notin added /\ queue' = Append(queue, t) /\ added' = added \cup {t} /\ runs = 0
      /\ UNCHANGED <<doing, failed, succeeded, child, events, lastReply, attempts, try, runs, aborts, state>>
  BY DEF AddTask, taskVars, budget, retryVars
<1>2. /\ queue \in Seq(Tasks) /\ NetTyped
      /\ DOMAIN queue' = DOMAIN queue \cup {Len(queue) + 1}
      /\ queue'[Len(queue) + 1] = t
      /\ \A i \in DOMAIN queue : queue'[i] = queue[i]
  BY <1>1 DEF NetInv, NetTyped
<1>3. Queued' = Queued \cup {t} /\ Running' = Running /\ AtWork' = AtWork
  BY <1>1, <1>2 DEF Queued, Running, AtWork
<1>4. NetTyped'
  BY <1>1, <1>2 DEF NetTyped
<1>5. NetFiled'
  BY <1>1, <1>3 DEF NetInv, NetFiled
<1>6. t \notin Queued \cup doing \cup failed
  BY <1>1 DEF NetInv, NetFiled
<1>7. FirstRun'
  <2> SUFFICES ASSUME aborts = 0
               PROVE  /\ Apart' /\ Tried'
                      /\ try' = 1 /\ events' = <<>> /\ doing' = {} /\ state' # "Running"
    BY <1>1 DEF FirstRun
  <2>1. Apart /\ Tried /\ try = 1 /\ events = <<>> /\ doing = {} /\ state # "Running"
    BY <1>1 DEF NetInv, FirstRun
  <2>2. \A i \in DOMAIN queue : queue[i] # t
    BY <1>6 DEF Queued
  <2>3. Apart'
    BY <1>1, <1>2, <1>3, <1>6, <2>1, <2>2 DEF Apart
  <2>4. Tried'
    BY <1>1, <1>2, <1>3, <2>1 DEF Tried, NetTyped
  <2> QED
    BY <1>1, <2>1, <2>3, <2>4
<1> QED
  BY <1>4, <1>5, <1>7 DEF NetInv

LEMMA NetStartKeeps ==
    ASSUME NetInv, Start, UNCHANGED <<retryVars, lastReply, attempts>>
    PROVE  NetInv'
<1>1. /\ events' = events \o [i \in 1..MaxConcurrent |-> Wakeup] /\ runs' = runs + 1
      /\ UNCHANGED <<queue, doing, failed, succeeded, child, lastReply, attempts, added, aborts, try>>
  BY DEF Start, poolVars, history, retryVars
<1>2. events \in Seq(Event) /\ runs \in Nat /\ aborts \in Nat
  BY DEF NetInv, NetTyped
<1>3. [i \in 1..MaxConcurrent |-> Wakeup] \in Seq(Event)
  BY EventKinds, PoolAssumption
<1>4. Apart => Starts(events', doing, AtWork)
  BY <1>1, <1>2, WakeupsStarts DEF Apart
<1> QED
  BY <1>1, <1>2, <1>3, <1>4, NetQuiet

(* A wakeup that finds nothing to begin, and the verdicts.                  *)
LEMMA NetEndKeeps ==
    ASSUME NetInv, events # <<>>, (SkipWakeup /\ UNCHANGED retryVars) \/ Succeed \/ GiveUp,
           UNCHANGED <<history, budget, lastReply, attempts>>
    PROVE  NetInv'
<1>1. /\ events' = Tail(events)
      /\ UNCHANGED <<queue, doing, failed, succeeded, child, lastReply, attempts, added, runs, aborts>>
  BY DEF SkipWakeup, Succeed, GiveUp, poolVars, history, budget
<1>2. NetTyped /\ events' \in Seq(Event) /\ (Apart => Starts(events', doing, AtWork))
  BY <1>1, NetServed DEF NetInv
<1>3. runs = 0 /\ aborts = 0 => FALSE
  BY DEF NetInv, FirstRun, NetTyped
<1>4. CASE UNCHANGED try
  <2>1. runs' = 0 => aborts' # 0
    BY <1>1, <1>3
  <2>2. Queued' = Queued /\ Running' = Running /\ AtWork' = AtWork
    BY <1>1 DEF Queued, Running, AtWork
  <2>3. NetTyped' /\ NetFiled'
    BY <1>1, <1>2, <1>4, <2>2 DEF NetInv, NetTyped, NetFiled
  <2>4. FirstRun'
    BY <1>1, <1>2, <1>4, <2>1, <2>2 DEF NetInv, FirstRun, Apart, Tried
  <2> QED
    BY <2>3, <2>4 DEF NetInv
<1>5. CASE GiveUp
  <2>1. queue = <<>> /\ doing = {} /\ try' \in Nat \ {0}
    BY <1>2, <1>5 DEF GiveUp, RoundFailed, NetTyped, MaxTry
  <2>2. Queued' = Queued /\ Running' = Running /\ AtWork' = AtWork /\ Queued = {}
    BY <1>1, <2>1 DEF Queued, Running, AtWork
  <2>3. NetTyped' /\ NetFiled'
    BY <1>1, <1>2, <2>1, <2>2 DEF NetInv, NetTyped, NetFiled
  <2>4. FirstRun'
    <3> SUFFICES ASSUME aborts = 0, runs <= 1 PROVE Apart' /\ Tried' /\ runs # 0
      BY <1>1 DEF FirstRun
    <3>1. Apart /\ Tried
      BY DEF NetInv, FirstRun
    <3>2. Apart'
      BY <1>1, <1>2, <2>2, <3>1 DEF Apart
    <3>3. \A t \in failed : lastReply[t] = "404" \/ (Retryable # {} /\ attempts[t] >= try)
      BY <3>1 DEF Tried, Retryable
    <3>4. Retryable # {} => try' = try \/ try' = 1
      BY <1>2, <1>5 DEF GiveUp, NetTyped, MaxTry
    <3>5. Tried'
      BY <1>1, <1>2, <2>1, <2>2, <3>1, <3>3, <3>4 DEF Tried, NetTyped, Apart
    <3> QED
      BY <1>3, <3>2, <3>5
  <2> QED
    BY <2>3, <2>4 DEF NetInv
<1> QED
  BY <1>4, <1>5 DEF Succeed, retryVars

(* The first of a queue is given a slot and its start posted; the queue is  *)
(* the job's own, or one of downloads that failed.                          *)
LEMMA NetPostKeeps ==
    ASSUME NetInv, events # <<>>, NEW q \in Seq(Tasks), q # <<>>,
           queue' = Tail(q), doing' = doing \cup {Head(q)},
           events' = Append(Tail(events), StartOf(Head(q))),
           UNCHANGED <<succeeded, child, lastReply, attempts, added, runs, aborts>>,
           failed' \subseteq Tasks, try' \in Nat \ {0},
           Named(q) \cup doing \cup failed' = Queued \cup doing \cup failed,
           Apart => Once(q) /\ Named(q) \cap doing = {} /\ (Named(q) \cup doing) \cap failed' = {},
           Apart /\ Tried =>
               /\ \A t \in Named(q) \cup doing : attempts[t] + 1 >= try'
               /\ \A t \in Running : attempts[t] >= try'
               /\ \A t \in failed' : lastReply[t] = "404" \/ attempts[t] >= try'
    PROVE  NetInv'
<1>1. /\ Head(q) \in Tasks /\ Tail(q) \in Seq(Tasks) /\ Named(q) = Named(Tail(q)) \cup {Head(q)}
      /\ Once(q) => Once(Tail(q)) /\ Head(q) \notin Named(Tail(q))
  BY TakeFirst
<1>2. Queued' = Named(Tail(q)) /\ Running' = Running /\ AtWork' = AtWork
  BY DEF Queued, Named, Running, AtWork
<1>3. NetTyped /\ Tail(events) \in Seq(Event) /\ (Apart => Starts(Tail(events), doing, AtWork))
  BY NetServed DEF NetInv
<1>4. NetTyped'
  <2>1. events' \in Seq(Event)
    BY <1>1, <1>3, EventKinds
  <2> QED
    BY <1>1, <1>3, <2>1 DEF NetTyped
<1>5. NetFiled'
  BY <1>1, <1>2 DEF NetInv, NetFiled
<1>6. FirstRun'
  <2> SUFFICES ASSUME aborts = 0, runs <= 1 PROVE Apart' /\ Tried' /\ runs # 0
    BY DEF FirstRun
  <2>1. Apart /\ Tried /\ runs # 0
    BY DEF NetInv, FirstRun
  <2>2. Head(q) \notin doing /\ Head(q) \notin Running /\ Once(Tail(q)) /\ Head(q) \notin Named(Tail(q))
    BY <1>1, <2>1 DEF Apart
  <2>3. Starts(events', doing', AtWork')
    <3>1. AtWork[Head(q)] = "Inactive"
      BY <1>1, <2>2 DEF AtWork, Running
    <3> QED
      BY <1>1, <1>2, <1>3, <2>1, <2>2, <3>1, PostStart
  <2>4. Apart'
    <3>1. Queued' \cap doing' = {} /\ (Queued' \cup doing') \cap failed' = {} /\ Running' \subseteq doing'
      BY <1>1, <1>2, <2>1, <2>2 DEF Apart
    <3> QED
      BY <2>2, <2>3, <3>1 DEF Apart, Once
  <2>5. Tried'
    BY <1>1, <1>2, <2>1 DEF Tried
  <2> QED
    BY <2>1, <2>4, <2>5
<1> QED
  BY <1>4, <1>5, <1>6 DEF NetInv

LEMMA NetTakeKeeps ==
    ASSUME NetInv, events # <<>>, StartSubTask, UNCHANGED retryVars,
           UNCHANGED <<history, budget, lastReply, attempts>>
    PROVE  NetInv'
<1>1. queue \in Seq(Tasks) /\ failed \subseteq Tasks /\ try \in Nat \ {0} /\ Queued = Named(queue)
  BY DEF NetInv, NetTyped, Queued, Named
<1>2. Apart => Once(queue)
  BY DEF Apart, Once
<1>3. Apart => Named(queue) \cap doing = {} /\ (Named(queue) \cup doing) \cap failed = {}
  BY <1>1 DEF Apart
<1>4. Tried => /\ \A t \in Named(queue) \cup doing : attempts[t] + 1 >= try
               /\ \A t \in Running : attempts[t] >= try
               /\ \A t \in failed : lastReply[t] = "404" \/ attempts[t] >= try
  BY <1>1 DEF Tried
<1>5. /\ queue # <<>> /\ queue' = Tail(queue) /\ doing' = doing \cup {Head(queue)}
      /\ events' = Append(Tail(events), StartOf(Head(queue)))
      /\ UNCHANGED <<succeeded, child, lastReply, attempts, added, runs, aborts, failed, try>>
  BY DEF StartSubTask, taskVars, retryVars, history, budget
<1> QED
  BY <1>1, <1>2, <1>3, <1>4, <1>5, NetPostKeeps

(* What failed is queued again.                                             *)
LEMMA NetRetryKeeps ==
    ASSUME NetInv, events # <<>>, Retry \/ RetryManually, UNCHANGED <<history, budget, lastReply, attempts>>
    PROVE  NetInv'
<1>1. /\ NetTyped /\ RoundFailed /\ Retryable # {} /\ Requeue
      /\ try' = 1 \/ try' = try + 1
  BY DEF NetInv, Retry, RetryManually
<1>2. PICK q \in OrdersOf(Retryable) :
         queue' = Tail(q) /\ doing' = {Head(q)} /\ events' = Append(Tail(events), StartOf(Head(q)))
  BY <1>1 DEF Requeue
<1>3. Retryable \subseteq failed /\ Retryable \in SUBSET Tasks /\ doing = {} /\ Queued = {}
  BY <1>1 DEF Retryable, NetTyped, RoundFailed, Queued
<1>4. q \in Seq(Tasks) /\ q # <<>> /\ Once(q) /\ Named(q) = Retryable
  BY <1>1, <1>2, <1>3, OrderIsWhole
<1>5. /\ failed' = failed \ Retryable
      /\ UNCHANGED <<succeeded, child, lastReply, attempts, added, runs, aborts>>
  BY <1>1 DEF Requeue, history, budget
<1>6. try' \in Nat \ {0} /\ failed' \subseteq Tasks /\ doing' = doing \cup {Head(q)}
  BY <1>1, <1>2, <1>3, <1>5 DEF NetTyped
<1>7. Apart => Named(q) \cap doing = {} /\ (Named(q) \cup doing) \cap failed' = {} /\ Running = {}
  BY <1>3, <1>4, <1>5 DEF Apart
<1>8. \A t \in failed' : lastReply[t] = "404"
  BY <1>5 DEF Retryable
<1>9. Tried => \A t \in Named(q) \cup doing : attempts[t] + 1 >= try'
  <2> SUFFICES ASSUME Tried, NEW t \in Retryable PROVE attempts[t] + 1 >= try'
    BY <1>3, <1>4
  <2>1. attempts[t] >= try /\ attempts[t] \in Nat /\ try \in Nat \ {0}
    BY <1>1, <1>3 DEF Tried, Retryable, NetTyped
  <2> QED
    BY <1>1, <2>1
<1> QED
  BY <1>2, <1>3, <1>4, <1>5, <1>6, <1>7, <1>8, <1>9, NetPostKeeps

(* A request that is begun and stays at work.                               *)
LEMMA NetBeginKeeps ==
    ASSUME NetInv, NEW t \in Tasks, events # <<>>, Head(events) = StartOf(t),
           child' = [child EXCEPT ![t] = "Running"], attempts' = [attempts EXCEPT ![t] = @ + 1],
           events' = Tail(events),
           UNCHANGED <<queue, doing, failed, succeeded, lastReply, try, added, runs, aborts>>
    PROVE  NetInv'
<1>1. NetTyped /\ Tail(events) \in Seq(Event) /\ (Apart => Starts(Tail(events), doing, AtWork))
  BY NetServed DEF NetInv
<1>2. Queued' = Queued /\ Running' = Running \cup {t}
  BY <1>1 DEF Queued, Running, NetTyped
<1>3. /\ attempts' \in [Tasks -> Nat] /\ attempts'[t] = attempts[t] + 1
      /\ \A u \in Tasks : attempts'[u] >= attempts[u]
      /\ \A u \in Tasks : u # t => AtWork'[u] = AtWork[u]
  BY <1>1 DEF NetTyped, AtWork
<1>4. NetTyped'
  BY <1>1, <1>3 DEF NetTyped, State
<1>5. NetFiled'
  BY <1>2 DEF NetInv, NetFiled
<1>6. FirstRun'
  <2> SUFFICES ASSUME aborts = 0, runs <= 1 PROVE Apart' /\ Tried' /\ runs # 0
    BY DEF FirstRun
  <2>1. Apart /\ Tried /\ runs # 0
    BY DEF NetInv, FirstRun
  <2>2. t \in doing /\ \A i \in DOMAIN Tail(events) : Tail(events)[i] # StartOf(t)
    BY <2>1, NetServed
  <2>3. Starts(events', doing', AtWork')
    BY <1>1, <1>3, <2>1, <2>2 DEF Starts
  <2>4. Apart'
    BY <1>2, <2>1, <2>2, <2>3 DEF Apart
  <2>5. Tried'
    <3>1. \A u \in Queued \cup doing \cup Running \cup failed :
             u \in Tasks /\ attempts[u] \in Nat /\ attempts'[u] \in Nat /\ attempts'[u] >= attempts[u]
      BY <1>1, <1>3 DEF NetTyped, Queued, Running
    <3>2. attempts[t] + 1 >= try /\ try \in Nat
      BY <1>1, <2>1, <2>2 DEF Tried, NetTyped
    <3> QED
      BY <1>2, <1>3, <2>1, <3>1, <3>2 DEF Tried
  <2> QED
    BY <2>1, <2>4, <2>5
<1> QED
  BY <1>4, <1>5, <1>6 DEF NetInv

(* A request that reports its result.                                       *)
LEMMA NetReportKeeps ==
    ASSUME NetInv, NEW t \in Tasks, NEW result \in {"Succeeded", "Failed"}, NEW pending \in Seq(Event),
           Report(t, result, pending), UNCHANGED <<try, added, runs, aborts>>,
           attempts' \in [Tasks -> Nat], \A u \in Tasks : attempts'[u] >= attempts[u],
           aborts = 0 => runs # 0,
           Apart => /\ t \in doing /\ Starts(pending, doing, AtWork)
                    /\ \A i \in DOMAIN pending : pending[i] # StartOf(t),
           Apart /\ Tried => attempts'[t] >= try
    PROVE  NetInv'
<1>1. NetTyped /\ child' = [child EXCEPT ![t] = result]
  BY DEF NetInv, Report
<1>2. lastReply' \in [Tasks -> Reply] /\ \A u \in Tasks : u # t => lastReply'[u] = lastReply[u]
  BY <1>1 DEF NetTyped, Report
<1>3. CASE t \notin doing
  <2>1. events' = pending /\ UNCHANGED poolVars
    BY <1>3 DEF Report
  <2>2. NetTyped'
    BY <1>1, <1>2, <2>1 DEF NetTyped, State, Terminal, poolVars
  <2>3. Queued' = Queued
    BY <2>1 DEF Queued, poolVars
  <2>4. NetFiled'
    BY <2>1, <2>3 DEF NetInv, NetFiled, poolVars
  <2>5. FirstRun'
    BY <1>3 DEF NetInv, FirstRun
  <2> QED
    BY <2>2, <2>4, <2>5 DEF NetInv
<1>4. CASE t \in doing
  <2>1. /\ doing' = doing \ {t} /\ events' = Append(pending, Wakeup) /\ UNCHANGED queue
        /\ \/ succeeded' = succeeded \cup {t} /\ failed' = failed
           \/ succeeded' = succeeded /\ failed' = failed \cup {t}
    BY <1>4 DEF Report, SubTaskFinished
  <2>2. Queued' = Queued /\ Running' = Running \ {t} /\ \A u \in Tasks : u # t => AtWork'[u] = AtWork[u]
    BY <1>1, <2>1 DEF Queued, Running, AtWork, NetTyped
  <2>3. NetTyped'
    <3>1. events' \in Seq(Event)
      BY <2>1, EventKinds
    <3>2. child' \in [Tasks -> State]
      BY <1>1 DEF NetTyped, State, Terminal
    <3>3. doing' \subseteq Tasks /\ failed' \subseteq Tasks
      BY <1>1, <2>1 DEF NetTyped
    <3> QED
      BY <1>1, <1>2, <2>1, <3>1, <3>2, <3>3 DEF NetTyped
  <2>4. NetFiled'
    BY <1>4, <2>1, <2>2 DEF NetInv, NetFiled
  <2>5. FirstRun'
    <3> SUFFICES ASSUME aborts = 0, runs <= 1 PROVE Apart' /\ Tried'
      BY DEF FirstRun
    <3>1. Apart /\ Tried
      BY DEF NetInv, FirstRun
    <3>2. Starts(pending, doing', AtWork')
      BY <2>1, <2>2, <3>1 DEF Starts
    <3>3. Starts(events', doing', AtWork')
      BY <2>1, <3>2, WakeupStarts
    <3>4. Apart'
      BY <1>4, <2>1, <2>2, <3>1, <3>3 DEF Apart
    <3>5. Tried'
      <4>1. \A u \in Queued \cup doing \cup Running \cup failed :
               u \in Tasks /\ attempts[u] \in Nat /\ attempts'[u] \in Nat /\ attempts'[u] >= attempts[u]
        BY <1>1 DEF NetTyped, Queued, Running
      <4>2. try \in Nat /\ t \notin failed /\ attempts'[t] >= try
        BY <1>1, <1>4, <3>1 DEF NetTyped, Apart
      <4>3. \A u \in failed : lastReply'[u] = lastReply[u]
        BY <1>2, <4>1, <4>2
      <4>4. /\ \A u \in Queued' \cup doing' : attempts'[u] + 1 >= try
            /\ \A u \in Running' : attempts'[u] >= try
        BY <2>1, <2>2, <3>1, <4>1, <4>2 DEF Tried
      <4>5. \A u \in failed' : lastReply'[u] = "404" \/ attempts'[u] >= try
        BY <2>1, <3>1, <4>1, <4>2, <4>3 DEF Tried
      <4> QED
        BY <4>4, <4>5 DEF Tried
    <3> QED
      BY <3>4, <3>5
  <2> QED
    BY <2>3, <2>4, <2>5 DEF NetInv
<1> QED
  BY <1>3, <1>4

LEMMA NetRequestKeeps ==
    ASSUME NetInv, NEW t \in Tasks, StartRequest(t) \/ RequestConcludes(t)
    PROVE  NetInv'
<1>0. /\ NetTyped /\ attempts[t] \in Nat /\ try \in Nat /\ t \in Tasks
      /\ aborts = 0 /\ runs <= 1 => Apart /\ Tried /\ (runs = 0 => events = <<>> /\ doing = {})
      /\ UNCHANGED <<try, added, runs, aborts>>
  BY DEF NetInv, FirstRun, NetTyped, StartRequest, RequestConcludes, history, budget, retryVars
<1>1. ASSUME StartRequest(t) PROVE NetInv'
  <2>0. /\ events # <<>> /\ Head(events) = StartOf(t) /\ (aborts = 0 => runs # 0)
    BY <1>0, <1>1 DEF StartRequest, NetTyped
  <2>1. /\ Tail(events) \in Seq(Event)
        /\ Apart => /\ Starts(Tail(events), doing, AtWork) /\ t \in doing /\ child[t] # "Running"
                    /\ \A i \in DOMAIN Tail(events) : Tail(events)[i] # StartOf(t)
    BY <2>0, NetServed
  <2>2. CASE child[t] = "Running"
    <3>1. /\ events' = Tail(events)
          /\ UNCHANGED <<queue, doing, failed, succeeded, child, lastReply, attempts>>
      BY <1>1, <2>2 DEF StartRequest, poolVars
    <3> QED
      BY <1>0, <2>0, <2>1, <3>1, NetQuiet DEF NetTyped
  <2>3. CASE /\ attempts' = [attempts EXCEPT ![t] = @ + 1] /\ child' = [child EXCEPT ![t] = "Running"]
             /\ events' = Tail(events) /\ UNCHANGED <<poolVars, lastReply>>
    BY <1>0, <2>0, <2>3, NetBeginKeeps DEF poolVars
  <2>4. ASSUME attempts' = [attempts EXCEPT ![t] = @ + 1],
               NEW result \in {"Succeeded", "Failed"}, Report(t, result, Tail(events))
        PROVE  NetInv'
    <3>1. /\ attempts' \in [Tasks -> Nat] /\ \A u \in Tasks : attempts'[u] >= attempts[u]
          /\ attempts'[t] = attempts[t] + 1
      BY <1>0, <2>4 DEF NetTyped
    <3>2. Apart /\ Tried => attempts'[t] >= try
      BY <2>1, <3>1 DEF Tried
    <3> QED
      BY <1>0, <2>0, <2>1, <2>4, <3>1, <3>2, NetReportKeeps
  <2> QED
    BY <1>1, <2>2, <2>3, <2>4 DEF StartRequest
<1>2. ASSUME RequestConcludes(t) PROVE NetInv'
  <2>1. child[t] = "Running" /\ UNCHANGED attempts /\ t \in Running
    BY <1>2 DEF RequestConcludes, Running
  <2>2. Apart => /\ t \in doing /\ Starts(events, doing, AtWork)
                 /\ \A i \in DOMAIN events : events[i] # StartOf(t)
    <3>1. AtWork[t] # "Inactive"
      BY <2>1 DEF AtWork
    <3> QED
      BY <2>1, <3>1 DEF Apart, Starts
  <2>3. Apart /\ Tried => attempts[t] >= try
    BY <2>1 DEF Tried
  <2>4. aborts = 0 => runs # 0
    BY <1>0, <2>2 DEF NetTyped
  <2>5. /\ attempts' \in [Tasks -> Nat] /\ \A u \in Tasks : attempts'[u] >= attempts[u]
        /\ events \in Seq(Event)
    BY <1>0, <2>1 DEF NetTyped
  <2> QED
    BY <1>0, <1>2, <2>1, <2>2, <2>3, <2>4, <2>5, NetReportKeeps DEF RequestConcludes
<1> QED
  BY <1>1, <1>2

LEMMA NetAbortKeeps == NetInv /\ AbortJob => NetInv'
<1> SUFFICES ASSUME NetInv, AbortJob PROVE NetInv'
  OBVIOUS
<1>1. NetTyped /\ aborts' \in Nat /\ aborts' # 0 /\ UNCHANGED <<added, runs, try, lastReply, attempts, succeeded>>
  BY DEF NetInv, NetTyped, AbortJob, AbortQueued, AbortActive, retryVars
<1>2. queue' = <<>> /\ Queued' = {} /\ Queued \subseteq Tasks
  BY <1>1 DEF AbortJob, AbortQueued, AbortActive, Queued, NetTyped
<1>3. CASE AbortQueued
  BY <1>1, <1>2, <1>3 DEF AbortQueued, NetInv, NetTyped, NetFiled, FirstRun
<1>4. CASE AbortActive
  <2>1. doing' = {} /\ failed' = failed \cup Queued \cup doing /\ child' \in [Tasks -> State]
    BY <1>1, <1>4 DEF AbortActive, NetTyped, State, Terminal
  <2>2. events' \in Seq(Event)
    <3>1. IsFiniteSet(doing)
      BY <1>1, PoolAssumption, FS_Subset DEF NetTyped
    <3>2. [i \in 1..Cardinality(doing) |-> Wakeup] \in Seq(Event)
      BY <3>1, FS_CardinalityType, EventKinds
    <3> QED
      BY <1>1, <1>4, <3>2 DEF AbortActive, NetTyped
  <2>3. NetTyped'
    BY <1>1, <1>2, <2>1, <2>2 DEF NetTyped
  <2>4. NetFiled'
    BY <1>1, <1>2, <2>1 DEF NetInv, NetFiled
  <2> QED
    BY <1>1, <2>3, <2>4 DEF NetInv, FirstRun
<1> QED
  BY <1>3, <1>4 DEF AbortJob

(* A job reports success only when every download it was given has          *)
(* succeeded, and in a first run that nobody aborts it gives up on a        *)
(* download only when the server does not have it or it was tried MaxTry    *)
(* times (NetJob::executeNextSubTask, emitFailed), whatever the settings    *)
(* grant.  A download that was added to a running job would not get its     *)
(* tries: the job counts rounds, not the tries of each download.            *)
THEOREM JobVerdictsAreEarned ==
    ASSUME ~LateAdds
    PROVE  NetSpec => JobVerdictEarned
<1>1. NetInv /\ [NetNext]_netVars => NetInv'
  <2> SUFFICES ASSUME NetInv, [NetNext]_netVars PROVE NetInv'
    OBVIOUS
  <2>1. CASE ServeWakeup
    <3> QED
      BY <2>1, NetEndKeeps, NetTakeKeeps, NetRetryKeeps DEF ServeWakeup
  <2>2. CASE UNCHANGED netVars
    BY <2>2, NetQuiet DEF netVars, vars, poolVars, history, budget, taskVars, NetInv, NetTyped, Apart
  <2> QED
    BY <2>1, <2>2, NetStartKeeps, NetAddKeeps, NetRequestKeeps, NetAbortKeeps DEF NetNext
<1>2. NetInv /\ [NetNext]_netVars => [VerdictEarned]_netVars
  <2> SUFFICES ASSUME NetInv, NetNext PROVE VerdictEarned
    OBVIOUS
  <2>1. NetTyped /\ NetFiled /\ FirstRun
    BY DEF NetInv
  <2>2. ASSUME state = "Running", state' = "Succeeded" PROVE added \subseteq succeeded
    <3>1. Succeed
      BY <2>2 DEF NetNext, Start, AddTask, AbortJob, AbortQueued, AbortActive, Emit, ServeWakeup, SkipWakeup,
                  StartSubTask, Retry, RetryManually, Requeue, GiveUp, StartRequest, RequestConcludes, taskVars
    <3> QED
      BY <2>1, <3>1 DEF Succeed, NetFiled, Queued
  <2>3. ASSUME state = "Running", state' = "Failed", runs = 1, aborts = 0, NEW t \in failed
        PROVE  lastReply[t] = "404" \/ attempts[t] >= MaxTry
    <3>1. GiveUp
      BY <2>3 DEF NetNext, Start, AddTask, AbortJob, AbortQueued, AbortActive, Emit, ServeWakeup, SkipWakeup,
                  StartSubTask, Retry, RetryManually, Requeue, Succeed, StartRequest, RequestConcludes, taskVars
    <3>2. t \in Tasks /\ try \in Nat /\ attempts[t] \in Nat /\ (lastReply[t] = "404" \/ attempts[t] >= try)
      BY <2>1, <2>3 DEF FirstRun, Tried, NetTyped
    <3>3. lastReply[t] # "404" => try >= MaxTry
      BY <2>3, <3>1 DEF GiveUp, Retryable
    <3> QED
      BY <3>2, <3>3 DEF MaxTry
  <2> QED
    BY <2>2, <2>3 DEF VerdictEarned
<1> QED
  BY <1>1, <1>2, NetInitHolds, PTL DEF NetSpec, JobVerdictEarned
=============================================================================
