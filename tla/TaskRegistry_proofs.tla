-------------------------- MODULE TaskRegistry_proofs --------------------------
(***************************************************************************)
(* What a host of the backend asks for.  Theorems about TaskRegistry, for  *)
(* every size of the table, every number of tasks and calls, and every     *)
(* kind of host; about LogModel, for any number of lines it may keep and   *)
(* whatever it is given; and about GameOutput, whatever a game writes.     *)
(***************************************************************************)
EXTENDS TaskRegistry, LogModel, GameOutput, FiniteSetTheorems, SequenceTheorems,
        WellFoundedInduction, TLAPS

USE RegistryAssumption

(* What the proofs need of the types: everything but the stack.             *)
Fields ==
    /\ issued \in 0..MaxTasks /\ known \subseteq 1..issued
    /\ kind \in [Ids -> Kinds \cup {"none"}]
    /\ phase \in [Ids -> {"none", "queued", "running", "canceling"} \cup Ended]
    /\ reported \in [Ids -> {"running", "succeeded", "failed", "aborted"}]
    /\ accepted \subseteq 1..issued

(* An id that was issued has a task, one that was not has none.             *)
Numbered ==
    \A id \in Ids :
        IF id \in 1..issued THEN kind[id] # "none" /\ phase[id] # "none"
                           ELSE kind[id] = "none" /\ phase[id] = "none"

(* What the host is told of a task, also before there is one.               *)
Told == \A id \in Ids : reported[id] = Report(phase[id])

(* A cancelled export is on its way to its abort.                           *)
Sticks ==
    \A id \in accepted : kind[id] = "export" => phase[id] \in {"canceling", "AbortedByUser"}

RegistryInv == Fields /\ Numbered /\ Told /\ UnfinishedIsKnown /\ RecentIsKnown /\ Sticks

LEMMA InitHolds == Init => RegistryInv
BY DEF Init, RegistryInv, Fields, Numbered, Told, UnfinishedIsKnown, RecentIsKnown, Sticks, Ids, Ended, Report, Unfinished

-----------------------------------------------------------------------------
(* Pruning a table never erases an unfinished entry.                        *)
LEMMA PrunedKeepsUnfinished ==
    ASSUME NEW ids \in SUBSET Nat, NEW id \in ids, reported[id] = "running"
    PROVE  id \in Pruned(ids)
BY DEF Pruned

LEMMA IntervalSize ==
    ASSUME NEW a \in Int, NEW b \in Int, a <= b
    PROVE  IsFiniteSet(a..b) /\ Cardinality(a..b) = b - a + 1
<1>1. IsFiniteSet(a..b) /\ Cardinality(a..b) = IF a > b THEN 0 ELSE b - a + 1
  BY FS_Interval, Zenon
<1>2. ~(a > b)
  OBVIOUS
<1> QED
  BY <1>1, <1>2, Zenon

(* Nor one of the Limit newest.                                             *)
LEMMA PrunedKeepsRecent ==
    ASSUME NEW newest \in Nat, NEW ids \in SUBSET (1..newest), NEW id \in ids, id + Limit > newest
    PROVE  id \in Pruned(ids)
<1>1. id \in Int /\ newest \in Int /\ id <= newest
  OBVIOUS
<1>2. {other \in ids : other >= id} \in SUBSET (id..newest)
  <2> SUFFICES ASSUME NEW other \in ids, other >= id
               PROVE  other \in id..newest
    OBVIOUS
  <2> QED
    BY <1>1
<1>3. IsFiniteSet(id..newest) /\ Cardinality(id..newest) = newest - id + 1
  BY <1>1, IntervalSize
<1>4. Cardinality({other \in ids : other >= id}) <= newest - id + 1
  BY <1>2, <1>3, FS_Subset
<1>5. Cardinality({other \in ids : other >= id}) \in Nat
  BY <1>2, <1>3, FS_Subset, FS_CardinalityType
<1>6. Cardinality({other \in ids : other >= id}) <= Limit
  BY <1>1, <1>4, <1>5
<1> QED
  BY <1>6 DEF Pruned

(* A new task: its id is the next one, and the table is pruned.             *)
LEMMA BeginKeeps ==
    ASSUME RegistryInv, NEW k \in Kinds, Begin(k)
    PROVE  RegistryInv'
<1> DEFINE new == issued + 1
<1>1. /\ issued' = new /\ new \in Ids /\ new \notin 1..issued
      /\ 1..new = (1..issued) \cup {new} /\ 1..new \subseteq Ids
  BY DEF RegistryInv, Fields, Begin, Ids
<1>2. /\ kind' = [kind EXCEPT ![new] = k]
      /\ phase' = [phase EXCEPT ![new] = "queued"]
      /\ known' = Pruned(known \cup {new})
      /\ reported' = reported /\ accepted' = accepted
  BY <1>1 DEF Begin
<1>3. phase[new] = "none" /\ reported[new] = "running"
  BY <1>1 DEF RegistryInv, Numbered, Told, Report
<1>4. known \cup {new} \in SUBSET (1..new)
  BY <1>1 DEF RegistryInv, Fields
<1>5. Fields'
  <2>1. known' \subseteq 1..new
    BY <1>2, <1>4 DEF Pruned
  <2>2. issued' \in 0..MaxTasks
    BY <1>1 DEF Ids
  <2>3. known' \subseteq 1..issued'
    BY <1>1, <2>1
  <2>4. accepted' \subseteq 1..issued'
    BY <1>1, <1>2 DEF RegistryInv, Fields
  <2>5. kind' \in [Ids -> Kinds \cup {"none"}]
    BY <1>1, <1>2 DEF RegistryInv, Fields
  <2>6. phase' \in [Ids -> {"none", "queued", "running", "canceling"} \cup Ended]
    BY <1>1, <1>2 DEF RegistryInv, Fields
  <2> QED
    BY <1>2, <2>2, <2>3, <2>4, <2>5, <2>6 DEF RegistryInv, Fields
<1>6. Numbered'
  BY <1>1, <1>2 DEF RegistryInv, Numbered, Fields, Ids
<1>7. Told'
  BY <1>1, <1>2, <1>3 DEF RegistryInv, Told, Fields, Report
<1>8. UnfinishedIsKnown'
  <2> SUFFICES ASSUME NEW id \in 1..new, Unfinished(id)'
               PROVE  id \in known'
    BY <1>1 DEF UnfinishedIsKnown
  <2>1. id \in known \cup {new}
    BY <1>1, <1>2 DEF RegistryInv, Fields, UnfinishedIsKnown, Unfinished
  <2>2. reported[id] = "running"
    BY <1>1, <1>2, <1>7 DEF Told, Unfinished, Report, Ids
  <2>3. known \cup {new} \in SUBSET Nat
    BY <1>4
  <2> QED
    BY <1>2, <2>1, <2>2, <2>3, PrunedKeepsUnfinished
<1>9. RecentIsKnown'
  <2> SUFFICES ASSUME NEW id \in 1..new, id + Limit > new
               PROVE  id \in known'
    BY <1>1 DEF RecentIsKnown
  <2>1. id \in known \cup {new}
    BY <1>1 DEF RegistryInv, Fields, RecentIsKnown
  <2>2. new \in Nat
    BY <1>1 DEF Ids
  <2> QED
    BY <1>2, <1>4, <2>1, <2>2, PrunedKeepsRecent
<1>10. Sticks'
  BY <1>1, <1>2 DEF RegistryInv, Fields, Sticks
<1> QED
  BY <1>5, <1>6, <1>7, <1>8, <1>9, <1>10 DEF RegistryInv

(* A task changes its phase and its entry records it: nothing else does.    *)
LEMMA PhaseKeeps ==
    ASSUME RegistryInv, NEW id \in 1..issued, phase[id] \notin Ended,
           NEW p \in {"queued", "running", "canceling"} \cup Ended,
           phase' = [phase EXCEPT ![id] = p],
           reported' = [reported EXCEPT ![id] = Report(p)],
           UNCHANGED <<issued, known, kind>>,
           accepted' \subseteq accepted \cup {id},
           id \in accepted' /\ kind[id] = "export" => p \in {"canceling", "AbortedByUser"}
    PROVE  RegistryInv'
<1>1. id \in Ids /\ phase[id] \in {"queued", "running", "canceling"} /\ Unfinished(id)
  <2>1. id \in Ids
    BY DEF RegistryInv, Fields, Ids
  <2>2. phase[id] # "none"
    BY <2>1 DEF RegistryInv, Numbered
  <2>3. phase[id] \in {"none", "queued", "running", "canceling"} \cup Ended
    BY <2>1 DEF RegistryInv, Fields
  <2> QED
    BY <2>1, <2>2, <2>3 DEF Unfinished
<1>2. Report(p) \in {"running", "succeeded", "failed", "aborted"}
  BY DEF Report
<1>3. Fields'
  BY <1>1, <1>2 DEF RegistryInv, Fields
<1>4. Numbered'
  BY <1>1 DEF RegistryInv, Numbered, Fields, Ended
<1>5. Told'
  BY <1>1 DEF RegistryInv, Told, Fields, Report
<1>6. UnfinishedIsKnown' /\ RecentIsKnown'
  BY <1>1 DEF RegistryInv, UnfinishedIsKnown, RecentIsKnown, Unfinished, Fields
<1>7. Sticks'
  BY <1>1 DEF RegistryInv, Sticks, Fields
<1> QED
  BY <1>3, <1>4, <1>5, <1>6, <1>7 DEF RegistryInv

(* The registry as it was: a call that waits, a loop that returns, a step.  *)
LEMMA StutterKeeps ==
    ASSUME RegistryInv, UNCHANGED <<registry, phase, reported, accepted>>
    PROVE  RegistryInv'
BY DEF registry, RegistryInv, Fields, Numbered, Told, UnfinishedIsKnown, RecentIsKnown,
       Sticks, Unfinished

LEMMA StartKeeps ==
    ASSUME RegistryInv, NEW id \in 1..issued, StartTask(id)
    PROVE  RegistryInv'
<1>1. id \in Ids
  BY DEF RegistryInv, Fields, Ids
<1>2. phase[id] = "queued" /\ phase' = [phase EXCEPT ![id] = "running"]
      /\ reported' = reported /\ UNCHANGED <<issued, known, kind>> /\ accepted' = accepted
  BY DEF StartTask, registry
<1>3. reported[id] = "running" /\ Report("running") = "running"
  BY <1>1, <1>2 DEF RegistryInv, Told, Report
<1>4. reported' = [reported EXCEPT ![id] = Report("running")]
  BY <1>1, <1>2, <1>3 DEF RegistryInv, Fields
<1>5. ~(id \in accepted /\ kind[id] = "export")
  BY <1>2 DEF RegistryInv, Sticks
<1>6. phase[id] \notin Ended
  BY <1>2 DEF Ended
<1> QED
  BY <1>2, <1>4, <1>5, <1>6, PhaseKeeps

LEMMA ConcludeKeeps ==
    ASSUME RegistryInv, NEW id \in 1..issued, Conclude(id)
    PROVE  RegistryInv'
<1>1. PICK p \in Outcomes(id) : /\ phase' = [phase EXCEPT ![id] = p]
                                /\ reported' = [reported EXCEPT ![id] = Report(p)]
  BY DEF Conclude
<1>2. UNCHANGED <<issued, known, kind>> /\ accepted' = accepted
  BY DEF Conclude, registry
<1>3. phase[id] \in {"running", "canceling"} /\ p \in Ended
  BY DEF Outcomes, Ended
<1>4. ASSUME id \in accepted, kind[id] = "export"
      PROVE  p = "AbortedByUser"
  <2>1. phase[id] = "canceling"
    BY <1>3, <1>4 DEF RegistryInv, Sticks
  <2> QED
    BY <1>4, <2>1 DEF Outcomes
<1>5. phase[id] \notin Ended
  BY <1>3 DEF Ended
<1> QED
  BY <1>1, <1>2, <1>3, <1>4, <1>5, PhaseKeeps

(* What abort() may answer and do to a task that has not ended.             *)
LEMMA CancelOutcomes ==
    ASSUME NEW k \in Kinds \cup {"none"}, NEW p \in {"queued", "running", "canceling"},
           NEW outcome \in CancelOutcome(k, p)
    PROVE  /\ outcome[2] \in {p, "canceling", "AbortedByUser"}
           /\ outcome[1] /\ k = "export" => outcome[2] = "canceling"
           /\ k = "export" /\ p = "canceling" => outcome[2] = "canceling"
<1>1. CASE k = "login"
  <2>1. outcome = <<TRUE, IF p = "running" THEN "AbortedByUser" ELSE p>>
    BY <1>1 DEF CancelOutcome
  <2> QED
    BY <1>1, <2>1
<1>2. CASE k = "launch"
  <2>1. outcome = <<TRUE, p>> \/ outcome = <<FALSE, p>> \/ outcome = <<TRUE, "canceling">>
    BY <1>2 DEF CancelOutcome
  <2> QED
    <3>1. CASE outcome = <<TRUE, p>>
      BY <1>2, <3>1
    <3>2. CASE outcome = <<FALSE, p>>
      BY <1>2, <3>2
    <3>3. CASE outcome = <<TRUE, "canceling">>
      BY <1>2, <3>3
    <3> QED
      BY <2>1, <3>1, <3>2, <3>3
<1>3. CASE k = "export"
  <2>1. CASE p = "queued"
    <3>1. outcome = <<FALSE, p>>
      BY <1>3, <2>1 DEF CancelOutcome
    <3> QED
      BY <1>3, <2>1, <3>1
  <2>2. CASE p = "running"
    <3>1. outcome = <<TRUE, "canceling">> \/ outcome = <<FALSE, p>>
      BY <1>3, <2>2 DEF CancelOutcome
    <3> QED
      <4>1. CASE outcome = <<TRUE, "canceling">>
        BY <1>3, <2>2, <4>1
      <4>2. CASE outcome = <<FALSE, p>>
        BY <1>3, <2>2, <4>2
      <4> QED
        BY <3>1, <4>1, <4>2
  <2>3. CASE p = "canceling"
    <3>1. outcome = <<TRUE, p>> \/ outcome = <<FALSE, p>>
      BY <1>3, <2>3 DEF CancelOutcome
    <3> QED
      <4>1. CASE outcome = <<TRUE, p>>
        BY <1>3, <2>3, <4>1
      <4>2. CASE outcome = <<FALSE, p>>
        BY <1>3, <2>3, <4>2
      <4> QED
        BY <3>1, <4>1, <4>2
  <2> QED
    BY <2>1, <2>2, <2>3
<1>4. CASE k \in {"staging", "none"}
  <2>1. outcome = <<TRUE, p>> \/ outcome = <<FALSE, p>> \/ outcome = <<TRUE, "AbortedByUser">>
    BY <1>4 DEF CancelOutcome
  <2> QED
    <3>1. CASE outcome = <<TRUE, p>>
      BY <1>4, <3>1
    <3>2. CASE outcome = <<FALSE, p>>
      BY <1>4, <3>2
    <3>3. CASE outcome = <<TRUE, "AbortedByUser">>
      BY <1>4, <3>3
    <3> QED
      BY <2>1, <3>1, <3>2, <3>3
<1> QED
  BY <1>1, <1>2, <1>3, <1>4

(* A cancellation of a task that has ended changes nothing; one of a task   *)
(* that has not is a change of its phase.                                   *)
LEMMA CancelKeeps ==
    ASSUME RegistryInv, NEW id \in 1..issued, Cancel(id)
    PROVE  RegistryInv'
<1>1. id \in Ids
  BY DEF RegistryInv, Fields, Ids
<1>2. PICK outcome \in CancelOutcome(kind[id], phase[id]) :
          /\ phase' = [phase EXCEPT ![id] = outcome[2]]
          /\ reported' = [reported EXCEPT ![id] = IF outcome[2] = "AbortedByUser" THEN "aborted" ELSE @]
          /\ accepted' = IF outcome[1] /\ Unfinished(id) THEN accepted \cup {id} ELSE accepted
  BY DEF Cancel
<1>3. UNCHANGED <<issued, known, kind>>
  BY DEF Cancel, registry
<1>4. reported[id] = Report(phase[id]) /\ phase[id] # "none" /\ kind[id] \in Kinds \cup {"none"}
  <2>1. reported[id] = Report(phase[id])
    BY <1>1 DEF RegistryInv, Told
  <2>2. phase[id] # "none"
    BY <1>1 DEF RegistryInv, Numbered
  <2>3. kind[id] \in Kinds \cup {"none"}
    BY <1>1 DEF RegistryInv, Fields
  <2> QED
    BY <2>1, <2>2, <2>3
<1>5. CASE phase[id] \in Ended
  <2>1. ~Unfinished(id) /\ accepted' = accepted
    BY <1>2, <1>5 DEF Unfinished, Ended
  <2>2. outcome[2] = phase[id]
    <3>1. phase[id] \notin {"queued", "running", "canceling"}
      BY <1>5 DEF Ended
    <3>2. outcome = <<TRUE, phase[id]>> \/ outcome = <<FALSE, phase[id]>>
      BY <3>1 DEF CancelOutcome
    <3> QED
      <4>1. CASE outcome = <<TRUE, phase[id]>>
        BY <4>1
      <4>2. CASE outcome = <<FALSE, phase[id]>>
        BY <4>2
      <4> QED
        BY <3>2, <4>1, <4>2
  <2>3. phase' = phase
    BY <1>1, <1>2, <2>2 DEF RegistryInv, Fields
  <2>4. phase[id] = "AbortedByUser" => reported[id] = "aborted"
    BY <1>4 DEF Report
  <2>5. reported' = reported
    BY <1>1, <1>2, <2>2, <2>4 DEF RegistryInv, Fields
  <2> QED
    BY <1>3, <2>1, <2>3, <2>5, StutterKeeps DEF registry
<1>6. CASE phase[id] \notin Ended
  <2>1. phase[id] \in {"queued", "running", "canceling"}
    BY <1>1, <1>4, <1>6 DEF RegistryInv, Fields
  <2>2. /\ outcome[2] \in {phase[id], "canceling", "AbortedByUser"}
        /\ outcome[1] /\ kind[id] = "export" => outcome[2] = "canceling"
        /\ kind[id] = "export" /\ phase[id] = "canceling" => outcome[2] = "canceling"
    BY <1>4, <2>1, CancelOutcomes
  <2>3. reported[id] = "running"
    BY <1>4, <2>1 DEF Report
  <2>4. Report(outcome[2]) = IF outcome[2] = "AbortedByUser" THEN "aborted" ELSE "running"
    BY <2>1, <2>2 DEF Report
  <2>5. reported' = [reported EXCEPT ![id] = Report(outcome[2])]
    BY <1>2, <2>3, <2>4
  <2>6. accepted' \subseteq accepted \cup {id}
    BY <1>2
  <2>7. ASSUME id \in accepted', kind[id] = "export"
        PROVE  outcome[2] \in {"canceling", "AbortedByUser"}
    <3>1. CASE id \in accepted
      <4>1. phase[id] = "canceling"
        BY <2>1, <2>7, <3>1 DEF RegistryInv, Sticks
      <4> QED
        BY <2>2, <2>7, <4>1
    <3>2. CASE id \notin accepted
      <4>1. outcome[1]
        BY <1>2, <2>7, <3>2, Zenon
      <4> QED
        BY <2>2, <2>7, <4>1, Zenon
    <3> QED
      BY <3>1, <3>2
  <2>8. outcome[2] \in {"queued", "running", "canceling"} \cup Ended
    BY <2>1, <2>2 DEF Ended
  <2> QED
    BY <1>2, <1>3, <1>6, <2>5, <2>6, <2>7, <2>8, PhaseKeeps
<1> QED
  BY <1>5, <1>6

-----------------------------------------------------------------------------
LEMMA StepKeeps == RegistryInv /\ [Next]_vars => RegistryInv'
<1> SUFFICES ASSUME RegistryInv, [Next]_vars
             PROVE  RegistryInv'
  OBVIOUS
<1>1. ASSUME NEW k \in Kinds, Begin(k)
      PROVE  RegistryInv'
  BY <1>1, BeginKeeps
<1>2. ASSUME NEW id \in 1..issued, Cancel(id)
      PROVE  RegistryInv'
  BY <1>2, CancelKeeps
<1>3. ASSUME NEW id \in 1..issued, StartTask(id)
      PROVE  RegistryInv'
  BY <1>3, StartKeeps
<1>4. ASSUME NEW id \in 1..issued, Conclude(id)
      PROVE  RegistryInv'
  BY <1>4, ConcludeKeeps
<1>5. ASSUME NEW id \in 1..issued, Wait(id) \/ EnterStep(id) \/ StepEnds(id)
      PROVE  RegistryInv'
  BY <1>5, StutterKeeps DEF Wait, EnterStep, StepEnds
<1>6. CASE RunSync \/ SyncConcludes \/ SyncValve \/ Expire \/ Return
  BY <1>6, StutterKeeps DEF RunSync, SyncConcludes, SyncValve, Expire, Return
<1>7. CASE UNCHANGED vars
  BY <1>7, StutterKeeps DEF vars, registry
<1> QED
  BY <1>1, <1>2, <1>3, <1>4, <1>5, <1>6, <1>7 DEF Next

LEMMA RegistryInvHolds == Spec => []RegistryInv
BY InitHolds, StepKeeps, PTL DEF Spec

(* pruneFinishedTasks never erases the entry of a task that can still be    *)
(* polled, awaited or cancelled, however many were begun after it.          *)
THEOREM UnfinishedStaysKnown == Spec => []UnfinishedIsKnown
<1>1. RegistryInv => UnfinishedIsKnown
  BY DEF RegistryInv
<1> QED
  BY <1>1, RegistryInvHolds, PTL

(* pruneFinishedTasks leaves the results of the last Limit tasks.           *)
THEOREM RecentStaysKnown == Spec => []RecentIsKnown
<1>1. RegistryInv => RecentIsKnown
  BY DEF RegistryInv
<1> QED
  BY <1>1, RegistryInvHolds, PTL

(* task_status says of every task what has become of it, in every order of  *)
(* starts, cancellations and ends.                                          *)
THEOREM StatusStaysTrue == Spec => []StatusIsTrue
<1>1. RegistryInv => StatusIsTrue
  BY DEF RegistryInv, Fields, Told, StatusIsTrue, Ids
<1> QED
  BY <1>1, RegistryInvHolds, PTL

(* An export that accepted a cancellation never succeeds, however often it  *)
(* is cancelled again.                                                      *)
THEOREM ExportStaysCancelled == Spec => []ExportCancelSticks
<1>1. RegistryInv => ExportCancelSticks
  BY DEF RegistryInv, Sticks, ExportCancelSticks
<1> QED
  BY <1>1, RegistryInvHolds, PTL

-----------------------------------------------------------------------------
(* The log of a game implements a bounded log: the ring that holds the      *)
(* lines is seen row by row.                                                *)

HIDE RegistryAssumption

Entries == [level : Levels \cup {"Unknown", "Fatal"}, line : Lines]
RowSet == Entries \cup {Empty, Overflow}
Places == 0..(MaxLines - 1)

LogInv ==
    /\ content \in [Places -> RowSet]
    /\ firstLine \in Places /\ numLines \in 0..MaxLines
    /\ stopOnOverflow \in BOOLEAN

(* The ring *)

(* Where a row is, and what is shown of a ring. *)
Turned(first, row) == (first + row) % MaxLines
RowsOf(ring, first, n) == [i \in 1..n |-> ring[Turned(first, i - 1)]]

LEMMA ShownIsRows == Shown = RowsOf(content, firstLine, numLines) /\ \A row : Place(row) = Turned(firstLine, row)
BY DEF Shown, Row, Place, RowsOf, Turned

(* Less than two turns of the ring: one turn is taken off, if it is full.   *)
LEMMA OneTurn ==
    ASSUME NEW size \in Nat \ {0}, NEW place \in 0..(2 * size - 1)
    PROVE  place % size = IF place < size THEN place ELSE place - size
OBVIOUS

LEMMA TurnedIs ==
    ASSUME NEW first \in Places, NEW row \in 0..MaxLines
    PROVE  /\ Turned(first, row) \in Places
           /\ Turned(first, row) = IF first + row < MaxLines THEN first + row ELSE first + row - MaxLines
<1>1. MaxLines \in Nat /\ MaxLines > 0 /\ first \in Nat /\ first < MaxLines /\ row \in Nat /\ row <= MaxLines
  BY LogAssumption DEF Places
<1> DEFINE place == first + row
<1>2. place \in 0..(2 * MaxLines - 1)
  BY <1>1
<1>3. Turned(first, row) = IF place < MaxLines THEN place ELSE place - MaxLines
  <2> HIDE DEF place
  <2>1. place % MaxLines = IF place < MaxLines THEN place ELSE place - MaxLines
    BY <1>1, <1>2, OneTurn
  <2> QED
    BY <2>1 DEF Turned, place
<1> QED
  BY <1>1, <1>3 DEF Places

LEMMA RowsAreSeq ==
    ASSUME NEW ring \in [Places -> RowSet], NEW first \in Places, NEW n \in 0..MaxLines
    PROVE  /\ RowsOf(ring, first, n) \in Seq(RowSet) /\ Len(RowsOf(ring, first, n)) = n
           /\ \A i \in 1..n : RowsOf(ring, first, n)[i] = ring[Turned(first, i - 1)]
<1>1. n \in Nat
  BY LogAssumption
<1>2. ASSUME NEW i \in 1..n PROVE ring[Turned(first, i - 1)] \in RowSet
  <2>1. i - 1 \in 0..MaxLines
    BY LogAssumption
  <2> QED
    BY <2>1, TurnedIs
<1>3. RowsOf(ring, first, n) \in [1..n -> RowSet]
  BY <1>2 DEF RowsOf
<1> QED
  BY <1>1, <1>3 DEF RowsOf

(* A sequence that goes on with one more entry.                             *)
LEMMA OneMore ==
    ASSUME NEW S, NEW s \in Seq(S), NEW t \in Seq(S), NEW e \in S, Len(t) = Len(s) + 1,
           \A i \in 1..Len(s) : t[i] = s[i], t[Len(t)] = e
    PROVE  t = Append(s, e)
<1>1. /\ Append(s, e) \in Seq(S) /\ Len(Append(s, e)) = Len(s) + 1
      /\ \A i \in 1..Len(s) : Append(s, e)[i] = s[i]
      /\ Append(s, e)[Len(s) + 1] = e
  OBVIOUS
<1>2. Len(s) \in Nat
  OBVIOUS
<1>3. \A i \in 1..Len(t) : t[i] = Append(s, e)[i]
  BY <1>1, <1>2
<1> QED
  BY <1>1, <1>3, SeqEqual

(* The place behind the newest row is that of no row.                       *)
LEMMA RowsGoOn ==
    ASSUME NEW ring \in [Places -> RowSet], NEW first \in Places, NEW n \in Places, NEW e \in RowSet
    PROVE  RowsOf([ring EXCEPT ![Turned(first, n)] = e], first, n + 1) = Append(RowsOf(ring, first, n), e)
<1> DEFINE new == [ring EXCEPT ![Turned(first, n)] = e]
           s == RowsOf(ring, first, n)
           t == RowsOf(new, first, n + 1)
<1>1. MaxLines \in Nat /\ n \in Nat /\ n < MaxLines /\ first \in Nat /\ first < MaxLines
  BY LogAssumption DEF Places
<1>2. n \in 0..MaxLines /\ n + 1 \in 0..MaxLines /\ n + 1 \in 1..(n + 1) /\ (n + 1) - 1 = n
  BY <1>1
<1>3. Turned(first, n) \in Places
  BY <1>2, TurnedIs
<1>4. new \in [Places -> RowSet] /\ new[Turned(first, n)] = e /\ \A p \in Places : p # Turned(first, n) => new[p] = ring[p]
  BY <1>3
<1> HIDE DEF new
<1>5. /\ s \in Seq(RowSet) /\ Len(s) = n /\ \A i \in 1..n : s[i] = ring[Turned(first, i - 1)]
      /\ t \in Seq(RowSet) /\ Len(t) = n + 1 /\ \A i \in 1..(n + 1) : t[i] = new[Turned(first, i - 1)]
  BY <1>2, <1>4, RowsAreSeq
<1>6. ASSUME NEW i \in 1..n PROVE t[i] = s[i]
  <2>1. i \in 1..(n + 1) /\ i - 1 \in 0..MaxLines /\ i - 1 < n
    BY <1>1
  <2>2. Turned(first, i - 1) \in Places /\ Turned(first, i - 1) # Turned(first, n)
    BY <1>1, <1>2, <2>1, TurnedIs
  <2> QED
    BY <1>4, <1>5, <2>1, <2>2
<1>7. t[n + 1] = e
  BY <1>2, <1>4, <1>5
<1> HIDE DEF s, t
<1>8. t = Append(s, e)
  BY <1>5, <1>6, <1>7, OneMore
<1> QED
  BY <1>8 DEF s, t, new

(* In a full ring the place of the oldest row becomes that of the newest.   *)
LEMMA RowsMoveOn ==
    ASSUME NEW ring \in [Places -> RowSet], NEW first \in Places, NEW e \in RowSet
    PROVE  /\ RowsOf(ring, first, MaxLines) # <<>>
           /\ RowsOf([ring EXCEPT ![first] = e], Turned(first, 1), MaxLines)
                = Append(Tail(RowsOf(ring, first, MaxLines)), e)
<1> DEFINE new == [ring EXCEPT ![first] = e]
           next == Turned(first, 1)
           s == RowsOf(ring, first, MaxLines)
           t == RowsOf(new, next, MaxLines)
<1>1. MaxLines \in Nat /\ MaxLines > 0 /\ first \in Nat /\ first < MaxLines
  BY LogAssumption DEF Places
<1>2. next \in Places /\ next = IF first + 1 < MaxLines THEN first + 1 ELSE 0
  <2>1. 1 \in 0..MaxLines
    BY <1>1
  <2>2. next \in Places /\ next = IF first + 1 < MaxLines THEN first + 1 ELSE first + 1 - MaxLines
    BY <2>1, TurnedIs
  <2> QED
    BY <1>1, <2>2
<1>3. new \in [Places -> RowSet] /\ new[first] = e /\ \A p \in Places : p # first => new[p] = ring[p]
  OBVIOUS
<1> HIDE DEF new, next
<1>4. /\ s \in Seq(RowSet) /\ Len(s) = MaxLines /\ \A i \in 1..MaxLines : s[i] = ring[Turned(first, i - 1)]
      /\ t \in Seq(RowSet) /\ Len(t) = MaxLines /\ \A i \in 1..MaxLines : t[i] = new[Turned(next, i - 1)]
  <2>1. MaxLines \in 0..MaxLines
    BY <1>1
  <2> QED
    BY <1>2, <1>3, <2>1, RowsAreSeq
<1>5. ASSUME NEW row \in Places
      PROVE  Turned(next, row) = IF row + 1 = MaxLines THEN first ELSE Turned(first, row + 1)
  <2>1. row \in Nat /\ row < MaxLines /\ row + 1 \in 0..MaxLines /\ row \in 0..MaxLines
    BY <1>1 DEF Places
  <2>2. Turned(first, row + 1) = IF first + (row + 1) < MaxLines THEN first + (row + 1) ELSE first + (row + 1) - MaxLines
    BY <2>1, TurnedIs
  <2>3. Turned(next, row) = IF next + row < MaxLines THEN next + row ELSE next + row - MaxLines
    BY <1>2, <2>1, TurnedIs
  <2> QED
    BY <1>1, <1>2, <2>1, <2>2, <2>3
<1> HIDE DEF s, t
<1>6. s # <<>>
  BY <1>1, <1>4, EmptySeq
<1>7. /\ Tail(s) \in Seq(RowSet) /\ Len(Tail(s)) = MaxLines - 1
      /\ \A i \in 1..(MaxLines - 1) : Tail(s)[i] = s[i + 1]
  BY <1>4, <1>6, HeadTailProperties
<1>8. ASSUME NEW i \in 1..(MaxLines - 1) PROVE t[i] = Tail(s)[i]
  <2>1. /\ i \in Nat /\ 0 < i /\ i < MaxLines /\ i \in 1..MaxLines /\ i + 1 \in 1..MaxLines /\ i \in 0..MaxLines
        /\ i - 1 \in Places /\ (i - 1) + 1 = i /\ (i + 1) - 1 = i
    BY <1>1 DEF Places
  <2>2. Turned(next, i - 1) = Turned(first, i)
    BY <1>5, <2>1
  <2>3. Turned(first, i) \in Places /\ Turned(first, i) # first
    BY <1>1, <2>1, TurnedIs
  <2>4. t[i] = new[Turned(next, i - 1)] /\ s[i + 1] = ring[Turned(first, i)]
    BY <1>4, <2>1
  <2> QED
    BY <1>3, <1>7, <2>2, <2>3, <2>4
<1>9. t[MaxLines] = e
  <2>1. MaxLines - 1 \in Places /\ MaxLines \in 1..MaxLines /\ (MaxLines - 1) + 1 = MaxLines
    BY <1>1 DEF Places
  <2>2. Turned(next, MaxLines - 1) = first
    BY <1>5, <2>1
  <2> QED
    BY <1>3, <1>4, <2>1, <2>2
<1>10. Len(t) = Len(Tail(s)) + 1
  BY <1>1, <1>4, <1>7
<1>11. t = Append(Tail(s), e)
  BY <1>4, <1>7, <1>8, <1>9, <1>10, OneMore
<1> QED
  BY <1>6, <1>11 DEF s, t, new, next

-----------------------------------------------------------------------------
(* The steps *)

LEMMA LogInitHolds == LogInit => LogInv /\ Log!Init
<1> SUFFICES ASSUME LogInit PROVE LogInv /\ Log!Init
  OBVIOUS
<1>1. LogInv
  BY LogAssumption DEF LogInit, LogInv, Places, RowSet
<1>2. Shown = <<>>
  <2>1. Shown \in Seq(RowSet) /\ Len(Shown) = 0
    BY <1>1, ShownIsRows, RowsAreSeq DEF LogInit, LogInv
  <2> QED
    BY <2>1, EmptySeq
<1> QED
  BY <1>1, <1>2 DEF Log!Init, LogInv

LEMMA PreviousLevelIsLevel ==
    ASSUME LogInv PROVE PreviousLevel \in Levels \cup {"Unknown", "Fatal"}
<1>1. CASE numLines > 0
  <2>1. content[numLines - 1] \in RowSet
    BY <1>1, LogAssumption DEF LogInv, Places
  <2>2. ASSUME NEW entry \in RowSet PROVE entry.level \in Levels \cup {"Unknown", "Fatal"}
    <3>1. CASE entry \in Entries
      BY <3>1 DEF Entries
    <3>2. CASE entry = Empty
      BY <3>2 DEF Empty
    <3>3. CASE entry = Overflow
      BY <3>3 DEF Overflow
    <3> QED
      BY <3>1, <3>2, <3>3 DEF RowSet
  <2> QED
    BY <1>1, <2>1, <2>2 DEF PreviousLevel
<1>2. CASE ~(numLines > 0)
  BY <1>2 DEF PreviousLevel
<1> QED
  BY <1>1, <1>2

(* A line takes the place behind the newest one, or that of the oldest.     *)
LEMMA AppendKeeps ==
    ASSUME LogInv, NEW entry \in Entries, AppendEntry(entry)
    PROVE  LogInv' /\ Log!Next
<1> DEFINE new == IF stopOnOverflow /\ numLines = MaxLines - 1 THEN Overflow ELSE entry
<1>1. /\ content' = [content EXCEPT ![Turned(firstLine, numLines)] = new]
      /\ IF Full THEN firstLine' = Turned(firstLine, 1) /\ UNCHANGED numLines
                 ELSE numLines' = numLines + 1 /\ UNCHANGED firstLine
      /\ UNCHANGED stopOnOverflow /\ ~(Full /\ stopOnOverflow)
  BY ShownIsRows DEF AppendEntry, Turned
<1>2. new \in RowSet
  BY DEF RowSet
<1> HIDE DEF new
<1>3. /\ MaxLines \in Nat /\ MaxLines > 0 /\ numLines \in 0..MaxLines /\ firstLine \in Places
      /\ content \in [Places -> RowSet] /\ stopOnOverflow \in BOOLEAN
  BY LogAssumption DEF LogInv
<1>4. Shown = RowsOf(content, firstLine, numLines) /\ Shown' = RowsOf(content', firstLine', numLines')
  BY DEF Shown, Row, Place, RowsOf, Turned
<1>5. Len(Shown) = numLines
  BY <1>3, <1>4, RowsAreSeq
<1>6. content' \in [Places -> RowSet]
  BY <1>1, <1>2, <1>3
<1>7. CASE ~Full
  <2>1. numLines \in Places /\ numLines < MaxLines /\ numLines' = numLines + 1 /\ firstLine' = firstLine
    BY <1>1, <1>3, <1>7 DEF Full, Places
  <2>2. LogInv'
    BY <1>1, <1>3, <1>6, <2>1 DEF LogInv
  <2>3. Shown' = Append(Shown, new)
    BY <1>1, <1>2, <1>3, <1>4, <2>1, RowsGoOn
  <2>4. IF stopOnOverflow THEN Log!KeepFirst(entry) ELSE Log!KeepNewest(entry)
    BY <1>3, <1>5, <2>1, <2>3 DEF new, Log!KeepFirst, Log!KeepNewest
  <2> QED
    BY <1>1, <2>2, <2>4 DEF Log!Next, Entries
<1>8. CASE Full
  <2>1. numLines = MaxLines /\ numLines' = MaxLines /\ firstLine' = Turned(firstLine, 1) /\ ~stopOnOverflow
    BY <1>1, <1>8 DEF Full
  <2>2. Turned(firstLine, numLines) = firstLine /\ firstLine' \in Places
    BY <1>3, <2>1, TurnedIs DEF Places
  <2>3. LogInv'
    BY <1>1, <1>3, <1>6, <2>1, <2>2 DEF LogInv
  <2>4. Shown' = Append(Tail(Shown), new)
    BY <1>1, <1>2, <1>3, <1>4, <2>1, <2>2, RowsMoveOn
  <2>5. Log!KeepNewest(entry)
    BY <1>3, <1>5, <2>1, <2>4 DEF new, Log!KeepNewest
  <2> QED
    BY <1>1, <2>1, <2>3, <2>5 DEF Log!Next, Entries
<1> QED
  BY <1>7, <1>8

(* Every step keeps the ring in order and is one of the bounded log's.      *)
LEMMA LogStepKeeps ==
    LogInv /\ [LogNext]_logVars => LogInv' /\ [Log!Next]_<<Shown, stopOnOverflow>>
<1> SUFFICES ASSUME LogInv, [LogNext]_logVars PROVE LogInv' /\ [Log!Next]_<<Shown, stopOnOverflow>>
  OBVIOUS
<1>1. CASE OnLogLine
  <2>1. PICK line \in Lines, level \in Levels \cup {PreviousLevel} : AppendEntry([level |-> level, line |-> line])
    BY <1>1 DEF OnLogLine
  <2>2. [level |-> level, line |-> line] \in Entries
    BY <2>1, PreviousLevelIsLevel DEF Entries
  <2> QED
    BY <2>1, <2>2, AppendKeeps
<1>2. CASE Clear
  <2>1. LogInv'
    BY <1>2, LogAssumption DEF Clear, LogInv, Places
  <2>2. Shown' = RowsOf(content', firstLine', 0) /\ stopOnOverflow' = stopOnOverflow
    BY <1>2 DEF Clear, Shown, Row, Place, RowsOf, Turned
  <2>3. Shown' \in Seq(RowSet) /\ Len(Shown') = 0
    BY <1>2, <2>1, <2>2, RowsAreSeq, LogAssumption DEF LogInv, Clear
  <2>4. Shown' = <<>>
    BY <2>3, EmptySeq
  <2> QED
    BY <2>1, <2>2, <2>4 DEF Log!Next
<1>3. CASE Suspend \/ UNCHANGED logVars
  <2>1. UNCHANGED <<content, firstLine, numLines, stopOnOverflow>>
    BY <1>3 DEF Suspend, logVars
  <2> QED
    BY <2>1 DEF LogInv, Shown, Row, Place
<1> QED
  BY <1>1, <1>2, <1>3 DEF LogNext

(* What a host is shown of the log of a game is a bounded log: the newest   *)
(* lines in their order however often the ring has turned, or the first     *)
(* ones and the message that no more are kept.                              *)
THEOREM LogIsBoundedLog == LogSpec => KeepsLog
<1> QED
  BY LogInitHolds, LogStepKeeps, PTL DEF LogSpec, KeepsLog, Log!Spec

-----------------------------------------------------------------------------
(* What a game writes.  What is kept of a sequence and what is parsed are   *)
(* functions that are defined by recursion: what they do is shown by        *)
(* induction, for which a set of numbers has its least member.              *)

LEMMA LeastOf ==
    ASSUME NEW B, B \subseteq Nat, B # {}
    PROVE  \E m \in B : \A y \in B : ~ (y < m)
<1>1. PICK m \in B : \A y \in B : ~ (<<y, m>> \in OpToRel(<, Nat))
  BY NatLessThanWellFounded, WFMin
<1> QED
  BY <1>1 DEF OpToRel

LEMMA UpTo ==
    ASSUME NEW k \in Nat, NEW S, 0 \in S, \A n \in 0..k : n + 1 \in 0..k /\ n \in S => n + 1 \in S
    PROVE  0..k \subseteq S
<1> DEFINE B == {n \in 0..k : n \notin S}
<1> SUFFICES ASSUME B # {} PROVE FALSE
  OBVIOUS
<1>1. PICK m \in B : \A y \in B : ~ (y < m)
  <2>1. B \subseteq Nat
    OBVIOUS
  <2> HIDE DEF B
  <2> QED
    BY <2>1, LeastOf
<1>2. m \in Nat \ {0} /\ m \in 0..k
  BY <1>1
<1>3. m - 1 \in 0..k /\ m - 1 \notin B /\ (m - 1) + 1 = m
  BY <1>1, <1>2
<1> QED
  BY <1>1, <1>3

(* What holds of the empty sequence, and goes on from a sequence to one with *)
(* another element, holds of every sequence.                                *)
LEMMA OfSequences ==
    ASSUME NEW T, NEW P, <<>> \in P, \A q \in Seq(T), x \in T : q \in P => Append(q, x) \in P
    PROVE  Seq(T) \subseteq P
<1> SUFFICES ASSUME NEW q \in Seq(T) PROVE q \in P
  OBVIOUS
<1> DEFINE S == {n \in Nat : SubSeq(q, 1, n) \in P}
           k == Len(q)
<1>1. k \in Nat /\ SubSeq(q, 1, k) = q
  BY SubSeqFull
<1>2. 0 \in S
  <2>1. SubSeq(q, 1, 0) = <<>>
    BY SubSeqEmpty
  <2> QED
    BY <2>1
<1>3. ASSUME NEW n \in 0..k, n + 1 \in 0..k, n \in S PROVE n + 1 \in S
  <2>1. n + 1 \in 1..Len(q) /\ 1 \in 1..Len(q) /\ n + 1 \in 1..Len(q) /\ (n + 1) - 1 = n
    BY <1>1, <1>3
  <2>2. SubSeq(q, 1, n + 1) = SubSeq(q, 1, n) \o <<q[n + 1]>>
    BY <2>1, SubSeqRecursiveSecond
  <2>3. SubSeq(q, 1, n) \in Seq(T) /\ q[n + 1] \in T
    BY <2>1
  <2>4. SubSeq(q, 1, n + 1) = Append(SubSeq(q, 1, n), q[n + 1])
    BY <2>2, <2>3, AppendIsConcat
  <2> DEFINE p == SubSeq(q, 1, n)
             x == q[n + 1]
  <2>5. p \in Seq(T) /\ x \in T /\ p \in P
    BY <1>3, <2>3
  <2>6. Append(p, x) \in P
    <3> HIDE DEF p, x
    <3> QED
      BY <2>5
  <2>7. n + 1 \in Nat
    OBVIOUS
  <2> QED
    BY <2>4, <2>6, <2>7
<1>4. 0..k \subseteq S
  <2> HIDE DEF S, k
  <2> QED
    BY <1>1, <1>2, <1>3, UpTo
<1>5. k \in S
  BY <1>1, <1>4
<1> QED
  BY <1>1, <1>5

(* What is kept of the first k elements.                                    *)
Keeping(f, q, S, k) ==
    f = [n \in 0..k |-> IF n = 0 THEN <<>> ELSE IF q[n] \in S THEN Append(f[n - 1], q[n]) ELSE f[n - 1]]

LEMMA KeepingExists ==
    ASSUME NEW q, NEW S, NEW k \in Nat
    PROVE  \E f : Keeping(f, q, S, k)
<1> DEFINE R == {j \in Nat : \E f : Keeping(f, q, S, j)}
<1>1. 0 \in R
  <2> DEFINE g == [n \in 0..0 |-> <<>>]
  <2>1. Keeping(g, q, S, 0)
    BY DEF Keeping
  <2> QED
    BY <2>1
<1>2. ASSUME NEW j \in 0..k, j \in R PROVE j + 1 \in R
  <2>1. PICK g : Keeping(g, q, S, j)
    BY <1>2
  <2> DEFINE e == IF q[j + 1] \in S THEN Append(g[j], q[j + 1]) ELSE g[j]
             f == [n \in 0..(j + 1) |-> IF n = j + 1 THEN e ELSE g[n]]
  <2>2. \A n \in 0..j : g[n] = IF n = 0 THEN <<>> ELSE IF q[n] \in S THEN Append(g[n - 1], q[n]) ELSE g[n - 1]
    BY <2>1 DEF Keeping
  <2>3. ASSUME NEW n \in 0..(j + 1)
        PROVE  f[n] = IF n = 0 THEN <<>> ELSE IF q[n] \in S THEN Append(f[n - 1], q[n]) ELSE f[n - 1]
    <3>1. CASE n = j + 1
      <4>1. n # 0 /\ n - 1 = j /\ j \in 0..(j + 1) /\ j # j + 1
        BY <3>1
      <4> QED
        BY <3>1, <4>1
    <3>2. CASE n # j + 1
      <4>1. n \in 0..j /\ (n # 0 => n - 1 \in 0..(j + 1) /\ n - 1 # j + 1)
        BY <3>2
      <4> QED
        BY <2>2, <3>2, <4>1
    <3> QED
      BY <3>1, <3>2
  <2>4. Keeping(f, q, S, j + 1)
    BY <2>3 DEF Keeping
  <2> QED
    BY <2>4
<1>3. 0..k \subseteq R
  <2> HIDE DEF R
  <2> QED
    BY <1>1, <1>2, UpTo
<1> QED
  BY <1>3

LEMMA KeptIsReached ==
    ASSUME NEW q, NEW S, Len(q) \in Nat
    PROVE  \E f : /\ f[0] = <<>> /\ Kept(q, S) = f[Len(q)]
                  /\ \A n \in 0..Len(q) : n + 1 \in 0..Len(q) =>
                        f[n + 1] = IF q[n + 1] \in S THEN Append(f[n], q[n + 1]) ELSE f[n]
<1>1. \E f : Keeping(f, q, S, Len(q))
  BY KeepingExists
<1> DEFINE f == CHOOSE g : Keeping(g, q, S, Len(q))
<1>2. Keeping(f, q, S, Len(q))
  BY <1>1
<1>3. Kept(q, S) = f[Len(q)]
  BY DEF Kept, Keeping
<1> HIDE DEF f
<1>4. \A n \in 0..Len(q) :
         f[n] = IF n = 0 THEN <<>> ELSE IF q[n] \in S THEN Append(f[n - 1], q[n]) ELSE f[n - 1]
  BY <1>2 DEF Keeping
<1>5. ASSUME NEW n \in 0..Len(q), n + 1 \in 0..Len(q)
      PROVE  f[n + 1] = IF q[n + 1] \in S THEN Append(f[n], q[n + 1]) ELSE f[n]
  <2>1. n + 1 # 0 /\ (n + 1) - 1 = n
    OBVIOUS
  <2> QED
    BY <1>4, <1>5, <2>1
<1>6. f[0] = <<>>
  BY <1>4
<1> QED
  BY <1>3, <1>5, <1>6

LEMMA NothingIsKept == ASSUME NEW S PROVE Kept(<<>>, S) = <<>>
<1>1. PICK f : f[0] = <<>> /\ Kept(<<>>, S) = f[Len(<<>>)]
  BY KeptIsReached
<1> QED
  BY <1>1

LEMMA OneMoreKept ==
    ASSUME NEW T, NEW q \in Seq(T), NEW x \in T, NEW S
    PROVE  Kept(Append(q, x), S) = IF x \in S THEN Append(Kept(q, S), x) ELSE Kept(q, S)
<1> DEFINE r == Append(q, x)
           k == Len(q)
<1>1. k \in Nat /\ Len(r) = k + 1 /\ r[k + 1] = x /\ \A i \in 1..k : r[i] = q[i]
  OBVIOUS
<1>2. PICK f : /\ f[0] = <<>> /\ Kept(q, S) = f[k]
               /\ \A n \in 0..k : n + 1 \in 0..k =>
                     f[n + 1] = IF q[n + 1] \in S THEN Append(f[n], q[n + 1]) ELSE f[n]
  BY <1>1, KeptIsReached
<1> HIDE DEF r
<1>3. PICK g : /\ g[0] = <<>> /\ Kept(r, S) = g[k + 1]
               /\ \A n \in 0..(k + 1) : n + 1 \in 0..(k + 1) =>
                     g[n + 1] = IF r[n + 1] \in S THEN Append(g[n], r[n + 1]) ELSE g[n]
  BY <1>1, KeptIsReached
<1> DEFINE R == {n \in Nat : f[n] = g[n]}
<1>4. 0..k \subseteq R
  <2>1. 0 \in R
    BY <1>2, <1>3
  <2>2. ASSUME NEW n \in 0..k, n + 1 \in 0..k, n \in R PROVE n + 1 \in R
    <3>1. n \in 0..(k + 1) /\ n + 1 \in 0..(k + 1) /\ n + 1 \in 1..k /\ n + 1 \in Nat
      BY <1>1, <2>2
    <3> QED
      BY <1>1, <1>2, <1>3, <2>2, <3>1
  <2> HIDE DEF R
  <2> QED
    BY <1>1, <2>1, <2>2, UpTo
<1>5. f[k] = g[k]
  BY <1>1, <1>4
<1>6. k \in 0..(k + 1) /\ k + 1 \in 0..(k + 1)
  BY <1>1
<1> QED
  BY <1>1, <1>2, <1>3, <1>5, <1>6 DEF r

LEMMA KeptIsOf ==
    ASSUME NEW T, NEW q \in Seq(T), NEW S
    PROVE  Kept(q, S) \in Seq(T \cap S)
<1> DEFINE P == {p \in Seq(T) : Kept(p, S) \in Seq(T \cap S)}
<1>1. <<>> \in P
  <2>1. <<>> \in Seq(T) /\ <<>> \in Seq(T \cap S)
    OBVIOUS
  <2>2. Kept(<<>>, S) = <<>>
    BY NothingIsKept
  <2> QED
    BY <2>1, <2>2
<1>2. ASSUME NEW p \in Seq(T), NEW x \in T, p \in P PROVE Append(p, x) \in P
  <2> DEFINE kp == Kept(p, S)
             ka == Kept(Append(p, x), S)
  <2>1. kp \in Seq(T \cap S) /\ Append(p, x) \in Seq(T)
    BY <1>2
  <2>2. ka = IF x \in S THEN Append(kp, x) ELSE kp
    BY OneMoreKept
  <2>3. ka \in Seq(T \cap S)
    <3> HIDE DEF kp, ka
    <3> QED
      BY <2>1, <2>2
  <2> QED
    BY <2>1, <2>3
<1>3. Seq(T) \subseteq P
  <2> HIDE DEF P
  <2> QED
    BY <1>1, <1>2, OfSequences
<1> QED
  BY <1>3

LEMMA AllIsKept ==
    ASSUME NEW T, NEW q \in Seq(T), NEW S, T \subseteq S
    PROVE  Kept(q, S) = q
<1> DEFINE P == {p \in Seq(T) : Kept(p, S) = p}
<1>1. <<>> \in P
  BY NothingIsKept
<1>2. ASSUME NEW p \in Seq(T), NEW x \in T, p \in P PROVE Append(p, x) \in P
  BY <1>2, OneMoreKept
<1>3. Seq(T) \subseteq P
  <2> HIDE DEF P
  <2> QED
    BY <1>1, <1>2, OfSequences
<1> QED
  BY <1>3

LEMMA NoneIsKept ==
    ASSUME NEW T, NEW q \in Seq(T), NEW S, T \cap S = {}
    PROVE  Kept(q, S) = <<>>
<1>1. Kept(q, S) \in Seq({})
  BY KeptIsOf
<1> HIDE DEF Kept
<1> QED
  BY <1>1, EmptySeq

LEMMA KeptOfBoth ==
    ASSUME NEW T, NEW a \in Seq(T), NEW b \in Seq(T), NEW S
    PROVE  Kept(a \o b, S) = Kept(a, S) \o Kept(b, S)
<1> DEFINE P == {p \in Seq(T) : Kept(a \o p, S) = Kept(a, S) \o Kept(p, S)}
<1>1. Kept(a, S) \in Seq(T \cap S)
  BY KeptIsOf
<1>2. <<>> \in P
  <2>1. Kept(a, S) \o <<>> = Kept(a, S) /\ a \o <<>> = a /\ <<>> \in Seq(T)
    BY <1>1, ConcatEmptySeq
  <2>2. Kept(<<>>, S) = <<>>
    BY NothingIsKept
  <2> QED
    BY <2>1, <2>2
<1>3. ASSUME NEW p \in Seq(T), NEW x \in T, p \in P PROVE Append(p, x) \in P
  <2>1. a \o Append(p, x) = Append(a \o p, x) /\ a \o p \in Seq(T)
    OBVIOUS
  <2>2. Kept(p, S) \in Seq(T \cap S)
    BY KeptIsOf
  <2>3. Kept(Append(p, x), S) = IF x \in S THEN Append(Kept(p, S), x) ELSE Kept(p, S)
    BY OneMoreKept
  <2>4. Kept(Append(a \o p, x), S) = IF x \in S THEN Append(Kept(a \o p, S), x) ELSE Kept(a \o p, S)
    BY <2>1, OneMoreKept
  <2> DEFINE ka == Kept(a, S)
             kp == Kept(p, S)
  <2>5. x \in S => ka \o Append(kp, x) = Append(ka \o kp, x)
    <3> HIDE DEF ka, kp
    <3>1. ka \in Seq(T \cap S) /\ kp \in Seq(T \cap S)
      BY <1>1, <2>2 DEF ka, kp
    <3> QED
      BY <3>1
  <2>6. Kept(a \o p, S) = ka \o kp
    BY <1>3
  <2>7. Kept(a \o Append(p, x), S) = ka \o Kept(Append(p, x), S)
    <3> HIDE DEF ka, kp
    <3>1. CASE x \in S
      BY <2>1, <2>3, <2>4, <2>5, <2>6, <3>1 DEF kp
    <3>2. CASE x \notin S
      BY <2>1, <2>3, <2>4, <2>6, <3>2 DEF kp
    <3> QED
      BY <3>1, <3>2
  <2> QED
    BY <2>7
<1>4. Seq(T) \subseteq P
  <2> HIDE DEF P
  <2> QED
    BY <1>2, <1>3, OfSequences
<1> QED
  BY <1>4

-----------------------------------------------------------------------------
(* LogParser finds all that it is given, in its order, whatever it is.      *)

(* Whatever is written but events without a logger.  That a literal is a    *)
(* string is more than the provers know.                                    *)
Clean == (STRING \cup {EndOfLine}) \ {"nameless"}
Parsers == [items : Seq(Clean), buffer : Seq(Clean), partial : Seq(Clean), error : BOOLEAN]

LEMMA LeastIs ==
    ASSUME NEW B, B \subseteq Nat, B # {}
    PROVE  Min(B) \in B
<1>1. PICK m \in B : \A y \in B : ~ (y < m)
  BY LeastOf
<1>2. \E x \in B : \A y \in B : x =< y
  BY <1>1
<1> QED
  BY <1>2 DEF Min

LEMMA EndIsInside ==
    ASSUME NEW b \in Seq(Clean)
    PROVE  EndOfEvent(b) \in 0..Len(b)
<1> DEFINE Depth(i) == Cardinality({j \in 1..i : Begins(b[j])}) - Cardinality({j \in 1..i : b[j] = "end"})
           ends == {i \in DOMAIN b : Depth(i) = 0 /\ \A j \in 1..i : b[j] # "broken"}
<1>1. EndOfEvent(b) = IF b # <<>> /\ Begins(Head(b)) /\ ends # {} THEN Min(ends) ELSE 0
  BY DEF EndOfEvent
<1>2. ends \subseteq 1..Len(b) /\ Len(b) \in Nat
  <2>1. ends \subseteq DOMAIN b
    OBVIOUS
  <2> HIDE DEF ends
  <2> QED
    BY <2>1
<1> HIDE DEF ends
<1>3. ends \subseteq Nat
  BY <1>2
<1>4. ASSUME ends # {} PROVE Min(ends) \in 0..Len(b)
  <2>1. Min(ends) \in ends
    BY <1>3, <1>4, LeastIs
  <2>2. Min(ends) \in 1..Len(b)
    BY <1>2, <2>1, Zenon
  <2> QED
    BY <1>2, <2>2
<1>5. 0 \in 0..Len(b)
  BY <1>2
<1> HIDE DEF Depth
<1> QED
  BY <1>1, <1>4, <1>5, Zenon

LEMMA CutInTwo ==
    ASSUME NEW a, NEW b, NEW n, a \in Seq(Clean), b \in Seq(Clean), n \in 1..Len(b)
    PROVE  /\ SubSeq(b, n + 1, Len(b)) \in Seq(Clean) /\ a \o SubSeq(b, 1, n) \in Seq(Clean)
           /\ (a \o SubSeq(b, 1, n)) \o SubSeq(b, n + 1, Len(b)) = a \o b
           /\ Len(SubSeq(b, n + 1, Len(b))) = Len(b) - n
<1> DEFINE front == SubSeq(b, 1, n)
           rest == SubSeq(b, n + 1, Len(b))
<1>1. Len(b) \in Nat /\ n \in Nat /\ 1 <= n /\ n <= Len(b) /\ \A i \in 1..Len(b) : b[i] \in Clean
  OBVIOUS
<1>2. \A i \in 1..n : b[i] \in Clean
  BY <1>1
<1>3. \A i \in (n + 1)..Len(b) : b[i] \in Clean
  BY <1>1
<1>4. front \in Seq(Clean)
  BY <1>1, <1>2, SubSeqProperties
<1>5. rest \in Seq(Clean) /\ Len(rest) = IF n + 1 <= Len(b) THEN Len(b) - (n + 1) + 1 ELSE 0
  BY <1>1, <1>3, SubSeqProperties
<1>6. front \o rest = b
  <2>1. 1 \in 1..(Len(b) + 1) /\ n \in (1 - 1)..Len(b) /\ Len(b) \in n..Len(b)
    BY <1>1
  <2>2. SubSeq(b, 1, n) \o SubSeq(b, n + 1, Len(b)) = SubSeq(b, 1, Len(b))
    BY <2>1, ConcatAdjacentSubSeq
  <2> QED
    BY <2>2, SubSeqFull
<1>7. a \o front \in Seq(Clean) /\ (a \o front) \o rest = a \o (front \o rest)
  <2>1. front \in Seq(Clean) /\ rest \in Seq(Clean)
    BY <1>4, <1>5
  <2> HIDE DEF front, rest
  <2> QED
    BY <2>1
<1>8. Len(rest) = Len(b) - n
  BY <1>1, <1>5
<1> HIDE DEF front, rest
<1> QED
  BY <1>5, <1>6, <1>7, <1>8 DEF front, rest

(* What a parser has after n steps with the buffer w.                       *)
Parsed(p, w, n) ==
    /\ p \in Parsers /\ ~p.error /\ p.items \o p.buffer = w
    /\ p.partial \in {<<>>, p.buffer} /\ (p.partial = <<>> => Len(p.buffer) <= Len(w) - n)

LEMMA ParseNextKeeps ==
    ASSUME NEW p \in Parsers, NEW w \in Seq(Clean), NEW n \in 0..Len(w), n + 1 \in 0..Len(w),
           Parsed(p, w, n), HasNext(p)
    PROVE  Parsed(ParseNext(p), w, n + 1)
<1> DEFINE b == p.buffer
           last == EndOfEvent(b)
           begins == {i \in DOMAIN b : Begins(b[i])}
           Taken(k) == [p EXCEPT !.items = @ \o SubSeq(b, 1, k), !.buffer = SubSeq(b, k + 1, Len(b))]
<1>1. b \in Seq(Clean) /\ b # <<>> /\ p.items \in Seq(Clean) /\ p.partial = <<>> /\ ~p.error
  BY DEF Parsers, HasNext
<1>2. last \in 0..Len(b) /\ Head(b) # "nameless" /\ Len(b) \in Nat \ {0} /\ Len(w) \in Nat
  BY <1>1, EndIsInside DEF Clean
<1>3. begins \subseteq 1..Len(b)
  BY <1>1
<1>4. ASSUME NEW k \in 1..Len(b) PROVE Parsed(Taken(k), w, n + 1)
  <2> DEFINE front == SubSeq(b, 1, k)
             rest == SubSeq(b, k + 1, Len(b))
  <2>1. /\ rest \in Seq(Clean) /\ p.items \o front \in Seq(Clean)
        /\ (p.items \o front) \o rest = p.items \o b /\ Len(rest) = Len(b) - k
    <3> DEFINE a == p.items
    <3>1. a \in Seq(Clean) /\ b \in Seq(Clean) /\ k \in 1..Len(b)
      BY <1>1
    <3> HIDE DEF a, b
    <3>2. rest \in Seq(Clean) /\ Len(rest) = Len(b) - k
      BY <3>1, CutInTwo
    <3>3. a \o front \in Seq(Clean)
      BY <3>1, CutInTwo
    <3>4. (a \o front) \o rest = a \o b
      BY <3>1, CutInTwo
    <3> QED
      BY <3>2, <3>3, <3>4 DEF a
  <2>2. p.items \o b = w /\ Len(b) <= Len(w) - n
    BY <1>1 DEF Parsed
  <2>3. /\ Taken(k).items = p.items \o front /\ Taken(k).buffer = rest
        /\ Taken(k).partial = p.partial /\ Taken(k).error = p.error
    BY DEF Parsers
  <2>4. Taken(k) \in Parsers
    BY <2>1 DEF Parsers
  <2> HIDE DEF front, rest, b, Taken
  <2>5. Len(rest) <= Len(w) - (n + 1)
    BY <1>2, <2>1, <2>2
  <2> QED
    BY <1>1, <2>1, <2>2, <2>3, <2>4, <2>5 DEF Parsed
<1>5. CASE last > 0
  <2>1. ParseNext(p) = Taken(last)
    BY <1>2, <1>5 DEF ParseNext
  <2>2. last \in 1..Len(b)
    BY <1>2, <1>5
  <2> HIDE DEF last, Taken, b
  <2> QED
    BY <1>4, <2>1, <2>2
<1>6. CASE last = 0 /\ begins = {}
  <2>1. ParseNext(p) = Taken(Len(b))
    BY <1>2, <1>6 DEF ParseNext
  <2>2. Len(b) \in 1..Len(b)
    BY <1>2
  <2> HIDE DEF last, Taken, b
  <2> QED
    BY <1>4, <2>1, <2>2
<1>7. CASE last = 0 /\ 1 \in begins
  <2> DEFINE q == [p EXCEPT !.partial = b]
  <2>1. ParseNext(p) = q
    BY <1>2, <1>7 DEF ParseNext
  <2>2. /\ q \in Parsers /\ q.items = p.items /\ q.buffer = p.buffer
        /\ q.partial = p.buffer /\ q.error = p.error
    BY <1>1 DEF Parsers
  <2> HIDE DEF q
  <2>3. Parsed(q, w, n + 1)
    BY <1>1, <2>2 DEF Parsed
  <2> HIDE DEF last, begins, b
  <2> QED
    BY <2>1, <2>3
<1>8. CASE last = 0 /\ begins # {} /\ 1 \notin begins
  <2>1. ParseNext(p) = Taken(Min(begins) - 1)
    BY <1>2, <1>8 DEF ParseNext
  <2> HIDE DEF last, Taken, b, begins
  <2>2. begins \subseteq Nat /\ begins # {}
    BY <1>3, <1>8
  <2>4. Min(begins) \in begins
    BY <2>2, LeastIs
  <2>5. Min(begins) \in 1..Len(b) /\ Min(begins) # 1
    BY <1>3, <1>8, <2>4
  <2>3. Min(begins) - 1 \in 1..Len(b)
    BY <1>2, <2>5
  <2> QED
    BY <1>4, <2>1, <2>3
<1> HIDE DEF last, begins, b
<1> QED
  BY <1>2, <1>5, <1>6, <1>7, <1>8

Unparsed(b) == [items |-> <<>>, buffer |-> b, partial |-> <<>>, error |-> FALSE]
NextOf(p) == IF HasNext(p) THEN ParseNext(p) ELSE p
Parsing(f, b, k) == f = [n \in 0..k |-> IF n = 0 THEN Unparsed(b) ELSE NextOf(f[n - 1])]

LEMMA ParsingExists ==
    ASSUME NEW b, NEW k \in Nat
    PROVE  \E f : Parsing(f, b, k)
<1> DEFINE R == {j \in Nat : \E f : Parsing(f, b, j)}
<1>1. 0 \in R
  <2> DEFINE g == [n \in 0..0 |-> Unparsed(b)]
  <2>1. Parsing(g, b, 0)
    BY DEF Parsing
  <2> QED
    BY <2>1
<1>2. ASSUME NEW j \in 0..k, j \in R PROVE j + 1 \in R
  <2>1. PICK g : Parsing(g, b, j)
    BY <1>2
  <2> DEFINE e == NextOf(g[j])
             f == [n \in 0..(j + 1) |-> IF n = j + 1 THEN e ELSE g[n]]
  <2>2. \A n \in 0..j : g[n] = IF n = 0 THEN Unparsed(b) ELSE NextOf(g[n - 1])
    BY <2>1 DEF Parsing
  <2>3. ASSUME NEW n \in 0..(j + 1)
        PROVE  f[n] = IF n = 0 THEN Unparsed(b) ELSE NextOf(f[n - 1])
    <3>1. CASE n = j + 1
      <4>1. n # 0 /\ n - 1 = j /\ j \in 0..(j + 1) /\ j # j + 1
        BY <3>1
      <4> QED
        BY <3>1, <4>1
    <3>2. CASE n # j + 1
      <4>1. n \in 0..j /\ (n # 0 => n - 1 \in 0..(j + 1) /\ n - 1 # j + 1)
        BY <3>2
      <4> QED
        BY <2>2, <3>2, <4>1
    <3> QED
      BY <3>1, <3>2
  <2>4. Parsing(f, b, j + 1)
    BY <2>3 DEF Parsing
  <2> QED
    BY <2>4
<1>3. 0..k \subseteq R
  <2> HIDE DEF R
  <2> QED
    BY <1>1, <1>2, UpTo
<1> QED
  BY <1>3

(* Nothing of what is parsed is lost but the beginning of an event.         *)
LEMMA AllIsParsed ==
    ASSUME NEW w \in Seq(Clean)
    PROVE  LET found == ParseAvailable(w)
           IN  /\ found.items \in Seq(Clean) /\ found.partial \in Seq(Clean) /\ ~found.error
               /\ found.buffer = found.partial /\ found.items \o found.partial = w
<1> DEFINE k == Len(w)
           f == CHOOSE g : Parsing(g, w, k)
<1>1. k \in Nat
  OBVIOUS
<1>2. Parsing(f, w, k)
  <2>1. \E g : Parsing(g, w, k)
    BY <1>1, ParsingExists
  <2> QED
    BY <2>1
<1>3. ParseAvailable(w) = f[k]
  BY DEF ParseAvailable, Parsing, Unparsed, NextOf
<1> HIDE DEF f
<1>4. \A n \in 0..k : f[n] = IF n = 0 THEN Unparsed(w) ELSE NextOf(f[n - 1])
  BY <1>2 DEF Parsing
<1> DEFINE R == {n \in Nat : Parsed(f[n], w, n)}
<1>5. 0 \in R
  <2>1. f[0] = Unparsed(w)
    BY <1>1, <1>4
  <2>2. <<>> \in Seq(Clean) /\ <<>> \o w = w
    BY ConcatEmptySeq
  <2>3. Parsed(Unparsed(w), w, 0)
    BY <1>1, <2>2 DEF Parsed, Unparsed, Parsers
  <2> QED
    BY <2>1, <2>3
<1>6. ASSUME NEW n \in 0..k, n + 1 \in 0..k, n \in R PROVE n + 1 \in R
  <2>1. n + 1 # 0 /\ (n + 1) - 1 = n /\ n + 1 \in Nat /\ n \in Nat
    OBVIOUS
  <2>2. f[n + 1] = NextOf(f[n])
    BY <1>4, <1>6, <2>1
  <2> DEFINE p == f[n]
  <2>3. p \in Parsers /\ Parsed(p, w, n)
    BY <1>6 DEF Parsed
  <2> HIDE DEF p
  <2>4. CASE HasNext(p)
    <3>1. Parsed(ParseNext(p), w, n + 1)
      BY <1>6, <2>3, <2>4, ParseNextKeeps
    <3> QED
      BY <2>1, <2>2, <2>4, <3>1 DEF NextOf, p
  <2>5. CASE ~HasNext(p)
    <3>1. p.partial = <<>> => p.buffer = <<>>
      BY <2>3, <2>5 DEF HasNext, Parsed
    <3>2. p.partial = <<>> => Len(p.buffer) <= Len(w) - (n + 1)
      <4>1. Len(<<>>) = 0 /\ n + 1 <= k
        BY <1>6
      <4> QED
        BY <1>1, <3>1, <4>1
    <3>3. Parsed(p, w, n + 1)
      BY <2>3, <3>2 DEF Parsed
    <3> QED
      BY <2>1, <2>2, <2>5, <3>3 DEF NextOf, p
  <2> QED
    BY <2>4, <2>5
<1>7. k \in R
  <2> HIDE DEF R
  <2>1. 0..k \subseteq R
    BY <1>1, <1>5, <1>6, UpTo
  <2> QED
    BY <1>1, <2>1
<1> DEFINE p == f[k]
<1>8. Parsed(p, w, k)
  BY <1>7
<1> HIDE DEF p
<1>9. p.partial = <<>> => p.buffer = <<>>
  <2>1. p.buffer \in Seq(Clean) /\ (p.partial = <<>> => Len(p.buffer) <= 0)
    BY <1>1, <1>8 DEF Parsed, Parsers
  <2>2. p.buffer # <<>> => Len(p.buffer) \in Nat \ {0}
    BY <2>1, EmptySeq
  <2> QED
    BY <2>1, <2>2
<1> QED
  BY <1>3, <1>8, <1>9 DEF Parsed, Parsers, p
-----------------------------------------------------------------------------
(* What is written and what is shown.                                       *)

Words == STRING \ {EndOfLine}
CleanWords == Clean \ {EndOfLine}

OutputTyped ==
    /\ DOMAIN buffer = Streams /\ DOMAIN partial = Streams
    /\ DOMAIN shown = Streams /\ DOMAIN written = Streams
    /\ writing \in [Streams -> Seq(STRING)]
    /\ leftover \in Seq([from : Streams, piece : Words]) /\ mixed \in BOOLEAN

(* A stream whose events can be read: the parser holds the beginning of an  *)
(* event or nothing, and what was written is shown, held or left over.      *)
IsSound(s) ==
    /\ writing[s] \in Seq(Clean) /\ buffer[s] \in Seq(Clean) /\ partial[s] = buffer[s]
    /\ shown[s] \in Seq(Clean) /\ Own(s) \in Seq([from : {s}, piece : CleanWords])
    /\ (shown[s] \o Text(partial[s])) \o Pieces(Own(s)) = written[s]

OutputInv == OutputTyped /\ (~mixed => \A s \in Streams \ lost : IsSound(s))

LEMMA TextIs ==
    /\ \A b \in Seq(Clean) : Text(b) \in Seq(CleanWords)
    /\ \A a, b \in Seq(Clean) : Text(a \o b) = Text(a) \o Text(b)
    /\ \A b \in Seq(CleanWords) : Text(b) = b
    /\ Text(<<EndOfLine>>) = <<>> /\ Text(<<>>) = <<>>
<1> DEFINE S == STRING \ {EndOfLine}
<1>1. Clean \cap S = CleanWords /\ CleanWords \subseteq S /\ {EndOfLine} \cap S = {}
  BY DEF Clean, CleanWords
<1>2. \A q : Text(q) = Kept(q, S)
  BY DEF Text
<1> HIDE DEF S
<1>3. \A b \in Seq(Clean) : Kept(b, S) \in Seq(CleanWords)
  <2>1. \A b \in Seq(Clean) : Kept(b, S) \in Seq(Clean \cap S)
    BY KeptIsOf
  <2> QED
    BY <1>1, <2>1
<1>4. \A a, b \in Seq(Clean) : Kept(a \o b, S) = Kept(a, S) \o Kept(b, S)
  BY KeptOfBoth
<1>5. \A b \in Seq(CleanWords) : Kept(b, S) = b
  BY <1>1, AllIsKept
<1>6. Kept(<<EndOfLine>>, S) = <<>>
  <2>1. <<EndOfLine>> \in Seq({EndOfLine})
    OBVIOUS
  <2> QED
    BY <1>1, <2>1, NoneIsKept
<1>7. Kept(<<>>, S) = <<>>
  BY NothingIsKept
<1> QED
  BY <1>2, <1>3, <1>4, <1>5, <1>6, <1>7

LEMMA PiecesAre ==
    ASSUME NEW F, NEW W, NEW q \in Seq([from : F, piece : W])
    PROVE  Pieces(q) \in Seq(W) /\ Len(Pieces(q)) = Len(q)
<1> DEFINE R == [from : F, piece : W]
<1>1. Len(q) \in Nat /\ DOMAIN q = 1..Len(q) /\ \A i \in 1..Len(q) : q[i] \in R
  <2> HIDE DEF R
  <2>1. q \in Seq(R)
    BY DEF R
  <2> QED
    BY <2>1, LenProperties, ElementOfSeq
<1>2. \A i \in 1..Len(q) : q[i].piece \in W
  BY <1>1
<1>3. Pieces(q) = [i \in 1..Len(q) |-> q[i].piece]
  BY <1>1 DEF Pieces
<1> QED
  BY <1>1, <1>2, <1>3

LEMMA PieceIsAdded ==
    ASSUME NEW R, NEW q, NEW r, q \in Seq(R), r \in R
    PROVE  Pieces(Append(q, r)) = Append(Pieces(q), r.piece)
<1> DEFINE W == {x.piece : x \in R}
           u == Append(q, r)
           v == Append(Pieces(q), r.piece)
<1>1. Len(q) \in Nat /\ DOMAIN q = 1..Len(q)
  BY LenProperties
<1>2. Pieces(q) \in Seq(W) /\ Len(Pieces(q)) = Len(q) /\ r.piece \in W
  <2>1. \A i \in 1..Len(q) : q[i] \in R
    BY ElementOfSeq
  <2>2. r.piece \in W /\ \A i \in 1..Len(q) : q[i].piece \in W
    BY <2>1
  <2>3. Pieces(q) = [i \in 1..Len(q) |-> q[i].piece]
    BY <1>1 DEF Pieces
  <2> HIDE DEF W
  <2> QED
    BY <1>1, <2>2, <2>3
<1>3. /\ Len(u) = Len(q) + 1 /\ DOMAIN u = 1..(Len(q) + 1) /\ u[Len(q) + 1] = r
      /\ \A i \in 1..Len(q) : u[i] = q[i]
  BY <1>1
<1>4. /\ v \in Seq(W) /\ Len(v) = Len(q) + 1 /\ v[Len(q) + 1] = r.piece
      /\ \A i \in 1..Len(q) : v[i] = Pieces(q)[i]
  BY <1>1, <1>2
<1> HIDE DEF u, v, W
<1>5. Pieces(u) = [i \in 1..(Len(q) + 1) |-> u[i].piece]
  BY <1>3 DEF Pieces
<1>6. ASSUME NEW i \in 1..(Len(q) + 1) PROVE u[i].piece = v[i]
  <2>1. CASE i = Len(q) + 1
    BY <1>3, <1>4, <2>1
  <2>2. CASE i # Len(q) + 1
    <3>1. i \in 1..Len(q)
      BY <1>1, <2>2
    <3>2. Pieces(q)[i] = q[i].piece
      BY <1>1, <3>1 DEF Pieces
    <3> QED
      BY <1>3, <1>4, <3>1, <3>2
  <2> QED
    BY <2>1, <2>2
<1>7. v = [i \in 1..(Len(q) + 1) |-> v[i]]
  BY <1>4
<1>8. Pieces(u) = v
  BY <1>5, <1>6, <1>7
<1> QED
  BY <1>8 DEF u, v

LEMMA OutputInitHolds == OutputInit => OutputInv
<1> SUFFICES ASSUME OutputInit PROVE OutputInv
  OBVIOUS
<1>1. OutputTyped
  <2>1. /\ DOMAIN buffer = Streams /\ DOMAIN partial = Streams
        /\ DOMAIN shown = Streams /\ DOMAIN written = Streams
    BY DEF OutputInit
  <2>2. writing \in [Streams -> Seq(STRING)]
    <3>1. <<>> \in Seq(STRING)
      OBVIOUS
    <3> QED
      BY <3>1 DEF OutputInit
  <2>3. leftover \in Seq([from : Streams, piece : Words]) /\ mixed \in BOOLEAN
    BY EmptySeq DEF OutputInit
  <2> QED
    BY <2>1, <2>2, <2>3 DEF OutputTyped
<1>2. ASSUME NEW s \in Streams PROVE IsSound(s)
  <2>1. Own(s) = <<>>
    BY NothingIsKept DEF OutputInit, Own
  <2>2. Pieces(<<>>) = <<>>
    BY DEF Pieces
  <2>3. (<<>> \o <<>>) \o <<>> = <<>>
    OBVIOUS
  <2> QED
    BY <2>1, <2>2, <2>3, TextIs DEF OutputInit, IsSound
<1> QED
  BY <1>1, <1>2 DEF OutputInv

(* A piece of a line is left over.                                          *)
LEMMA WordIsLeft ==
    ASSUME OutputTyped, NEW s \in Streams, NEW piece \in Words, NEW rest \in Seq(STRING),
           Reprocess(s, piece), writing' = [writing EXCEPT ![s] = rest],
           written' = [written EXCEPT ![s] = @ \o Text(<<piece>>)]
    PROVE  /\ OutputTyped' /\ mixed' = mixed
           /\ \A t \in Streams :
                 IsSound(t) /\ (t = s => piece \in Clean /\ rest \in Seq(Clean)) => IsSound(t)'
<1> DEFINE r == [from |-> s, piece |-> piece]
           T == [from : Streams, piece : Words]
<1>1. piece # EndOfLine /\ r \in T /\ leftover \in Seq(T)
  BY DEF Words, OutputTyped
<1>2. leftover' = Append(leftover, r) /\ UNCHANGED <<buffer, partial, shown, mixed>>
  BY <1>1 DEF Reprocess
<1>3. OutputTyped'
  BY <1>1, <1>2 DEF OutputTyped
<1>4. ASSUME NEW t \in Streams, IsSound(t), t = s => piece \in Clean /\ rest \in Seq(Clean)
      PROVE  IsSound(t)'
  <2> DEFINE S == [from : {t}, piece : STRING]
             o == Own(t)
             R == [from : {t}, piece : CleanWords]
  <2>1. Own(t)' = IF r \in S THEN Append(o, r) ELSE o
    <3> HIDE DEF r, T, S
    <3>1. Kept(Append(leftover, r), S) = IF r \in S THEN Append(Kept(leftover, S), r) ELSE Kept(leftover, S)
      BY <1>1, OneMoreKept
    <3> QED
      BY <1>2, <3>1 DEF Own, S
  <2>2. o \in Seq(R) /\ (shown[t] \o Text(partial[t])) \o Pieces(o) = written[t]
        /\ shown[t] \in Seq(Clean) /\ partial[t] \in Seq(Clean)
    BY <1>4 DEF IsSound
  <2>3. CASE t = s
    <3>1. r \in S /\ r \in R /\ r.piece = piece /\ piece \in CleanWords
      <4>1. piece \in Clean /\ piece # EndOfLine /\ piece \in STRING
        BY <1>4, <2>3 DEF Words
      <4>2. piece \in CleanWords
        BY <4>1 DEF CleanWords
      <4> QED
        BY <2>3, <4>1, <4>2
    <3>2. Own(t)' = Append(o, r)
      BY <2>1, <3>1
    <3>3. Pieces(o) \in Seq(CleanWords) /\ Pieces(Append(o, r)) = Append(Pieces(o), piece)
      <4> HIDE DEF o, r
      <4>1. o \in Seq([from : {t}, piece : CleanWords])
        BY <2>2
      <4>2. Pieces(o) \in Seq(CleanWords)
        BY <4>1, PiecesAre
      <4>3. Pieces(Append(o, r)) = Append(Pieces(o), r.piece)
        <5> HIDE DEF R
        <5> QED
          BY <2>2, <3>1, PieceIsAdded
      <4> QED
        BY <3>1, <4>2, <4>3
    <3>4. Text(<<piece>>) = <<piece>>
      <4>1. <<piece>> \in Seq(CleanWords)
        BY <3>1
      <4> QED
        BY <4>1, TextIs
    <3>5. written'[t] = written[t] \o <<piece>> /\ writing'[t] = rest
      BY <2>3, <3>4 DEF OutputTyped
    <3> DEFINE x == shown[t] \o Text(partial[t])
               y == Pieces(o)
    <3>6. x \in Seq(Clean) /\ y \in Seq(Clean) /\ piece \in Clean
      BY <2>2, <3>1, <3>3, TextIs DEF CleanWords
    <3>7. x \o Append(y, piece) = (x \o y) \o <<piece>>
      <4> HIDE DEF x, y
      <4> QED
        BY <3>6
    <3>8. Append(o, r) \in Seq(R)
      <4> HIDE DEF o, r, R
      <4> QED
        BY <2>2, <3>1
    <3>9. (shown[t] \o Text(partial[t])) \o Pieces(Own(t)') = written'[t]
      BY <2>2, <3>2, <3>3, <3>5, <3>7
    <3> QED
      BY <1>2, <1>4, <2>3, <3>2, <3>5, <3>8, <3>9 DEF IsSound
  <2>4. CASE t # s
    <3>1. r \notin S
      BY <2>4
    <3>2. Own(t)' = o
      BY <2>1, <3>1
    <3>3. written'[t] = written[t] /\ writing'[t] = writing[t]
      BY <2>4 DEF OutputTyped
    <3> QED
      BY <1>2, <1>4, <3>2, <3>3 DEF IsSound
  <2> QED
    BY <2>3, <2>4
<1> QED
  BY <1>2, <1>3, <1>4

(* A line that is over is parsed, when nothing of the other stream is in it. *)
LEMMA LineIsParsed ==
    ASSUME OutputTyped, NEW s \in Streams, NEW rest \in Seq(STRING),
           Reprocess(s, EndOfLine), writing' = [writing EXCEPT ![s] = rest],
           written' = [written EXCEPT ![s] = @ \o Text(<<EndOfLine>>)]
    PROVE  /\ OutputTyped' /\ (~mixed' => ~mixed)
           /\ ~mixed' => \A t \in Streams :
                 IsSound(t) /\ (t = s => rest \in Seq(Clean)) => IsSound(t)'
<1> DEFINE line == Pieces(leftover)
           w == AppendLine(s, line)
           found == ParseAvailable(w)
<1>1. /\ leftover' = <<>> /\ mixed' = (mixed \/ \E i \in DOMAIN leftover : leftover[i].from # s)
      /\ buffer' = [buffer EXCEPT ![s] = found.buffer]
      /\ partial' = [partial EXCEPT ![s] = found.partial]
      /\ shown' = [shown EXCEPT ![s] = @ \o Text(IF found.error THEN line ELSE found.items)]
  BY DEF Reprocess, ParseXmlLogs
<1> HIDE DEF found
<1>2. OutputTyped'
  <2>1. /\ DOMAIN buffer' = Streams /\ DOMAIN partial' = Streams
        /\ DOMAIN shown' = Streams /\ DOMAIN written' = Streams
    BY <1>1 DEF OutputTyped
  <2>2. writing' \in [Streams -> Seq(STRING)]
    BY DEF OutputTyped
  <2>3. leftover' \in Seq([from : Streams, piece : Words])
    BY <1>1, EmptySeq
  <2>4. mixed' \in BOOLEAN
    BY <1>1 DEF OutputTyped
  <2> QED
    BY <2>1, <2>2, <2>3, <2>4 DEF OutputTyped
<1>3. ~mixed' => ~mixed
  BY <1>1
<1>4. ASSUME ~mixed', NEW t \in Streams, IsSound(t), t = s => rest \in Seq(Clean)
      PROVE  IsSound(t)'
  <2> DEFINE M == [from : {s}, piece : Words]
  <2>1. leftover \in Seq(M)
    <3>1. leftover \in Seq([from : Streams, piece : Words])
      BY DEF OutputTyped
    <3>2. \A i \in 1..Len(leftover) : leftover[i] \in [from : Streams, piece : Words]
      BY <3>1, ElementOfSeq
    <3>3. \A i \in 1..Len(leftover) : leftover[i].from = s
      <4>1. DOMAIN leftover = 1..Len(leftover)
        BY <3>1, LenProperties
      <4> QED
        BY <1>1, <1>4, <4>1
    <3>4. \A i \in 1..Len(leftover) : leftover[i] \in M
      BY <3>2, <3>3
    <3> HIDE DEF M
    <3> QED
      BY <3>1, <3>4
  <2>2. Own(t)' = <<>>
    BY <1>1, NothingIsKept DEF Own
  <2>3. Pieces(<<>>) = <<>>
    BY DEF Pieces
  <2>4. /\ shown[t] \in Seq(Clean) /\ partial[t] \in Seq(Clean) /\ buffer[t] = partial[t]
        /\ Own(t) \in Seq([from : {t}, piece : CleanWords])
        /\ (shown[t] \o Text(partial[t])) \o Pieces(Own(t)) = written[t]
    BY <1>4 DEF IsSound
  <2>5. CASE t = s
    <3>1. Own(t) = leftover
      <4>1. M \subseteq [from : {s}, piece : STRING]
        BY DEF Words
      <4> HIDE DEF M
      <4>2. Kept(leftover, [from : {s}, piece : STRING]) = leftover
        BY <2>1, <4>1, AllIsKept
      <4> QED
        BY <2>5, <4>2 DEF Own
    <3>2. line \in Seq(CleanWords)
      <4>1. leftover \in Seq([from : {t}, piece : CleanWords])
        BY <2>4, <3>1
      <4> QED
        BY <4>1, PiecesAre
    <3> HIDE DEF line
    <3>3. line \in Seq(Clean) /\ Text(line) = line
      BY <3>2, TextIs DEF CleanWords
    <3> DEFINE p == partial[t]
    <3>4. w \in Seq(Clean) /\ Text(w) = Text(p) \o line
      <4>1. w = IF p # <<>> THEN (p \o <<EndOfLine>>) \o line ELSE p \o line
        BY <2>4, <2>5 DEF AppendLine
      <4>2. <<EndOfLine>> \in Seq(Clean) /\ Text(<<EndOfLine>>) = <<>>
        <5>2. EndOfLine \in Clean
          BY DEF Clean, EndOfLine
        <5>3. <<EndOfLine>> \in Seq(Clean)
          BY <5>2
        <5> QED
          BY <5>3, TextIs
      <4>3. p \in Seq(Clean) /\ Text(p) \in Seq(CleanWords)
        BY <2>4, TextIs
      <4> HIDE DEF p, w
      <4>4. CASE p # <<>>
        <5> DEFINE q == p \o <<EndOfLine>>
        <5>1. q \in Seq(Clean)
          BY <4>2, <4>3
        <5>2. Text(q) = Text(p) \o <<>>
          <6> DEFINE e == <<EndOfLine>>
          <6>1. p \in Seq(Clean) /\ e \in Seq(Clean) /\ Text(e) = <<>>
            BY <4>2, <4>3
          <6> HIDE DEF e
          <6>2. Text(p \o e) = Text(p) \o Text(e)
            BY <6>1, TextIs
          <6> QED
            BY <6>1, <6>2 DEF e
        <5>3. Text(p) \o <<>> = Text(p)
          BY <4>3, ConcatEmptySeq
        <5> HIDE DEF q
        <5>4. q \o line \in Seq(Clean)
          BY <3>3, <5>1
        <5>5. Text(q \o line) = Text(q) \o Text(line)
          BY <3>3, <5>1, TextIs
        <5> QED
          BY <3>3, <4>1, <4>4, <5>2, <5>3, <5>4, <5>5 DEF q
      <4>5. CASE p = <<>>
        <5>1. p \o line \in Seq(Clean)
          BY <3>3, <4>3
        <5>2. Text(p \o line) = Text(p) \o Text(line)
          BY <3>3, <4>3, TextIs
        <5> QED
          BY <3>3, <4>1, <4>5, <5>1, <5>2
      <4> QED
        BY <4>4, <4>5
    <3> HIDE DEF w
    <3> DEFINE i == found.items
               q == found.partial
    <3>5. /\ i \in Seq(Clean) /\ q \in Seq(Clean) /\ ~found.error
          /\ found.buffer = q /\ i \o q = w
      BY <3>4, AllIsParsed DEF found
    <3>6. /\ buffer'[t] = q /\ partial'[t] = q /\ shown'[t] = shown[t] \o Text(i)
          /\ writing'[t] = rest /\ written'[t] = written[t] \o <<>>
      BY <1>1, <2>5, <3>5, TextIs DEF OutputTyped
    <3> DEFINE x == shown[t]
    <3>7. /\ x \in Seq(Clean) /\ Text(i) \in Seq(Clean) /\ Text(q) \in Seq(Clean) /\ Text(p) \in Seq(Clean)
          /\ Text(w) = Text(i) \o Text(q)
      <4>1. Text(i) \in Seq(CleanWords) /\ Text(q) \in Seq(CleanWords) /\ Text(p) \in Seq(CleanWords)
        BY <2>4, <3>5, TextIs
      <4>2. \A z \in Seq(CleanWords) : z \in Seq(Clean)
        BY DEF CleanWords
      <4>3. Text(i \o q) = Text(i) \o Text(q)
        BY <3>5, TextIs
      <4> QED
        BY <2>4, <3>5, <4>1, <4>2, <4>3
    <3>8. written[t] = x \o Text(w)
      <4>1. written[t] = (x \o Text(p)) \o line
        BY <2>4, <2>5, <3>1 DEF line
      <4> DEFINE tp == Text(p)
      <4>2. tp \in Seq(Clean) /\ x \in Seq(Clean) /\ line \in Seq(Clean)
        BY <3>3, <3>7
      <4>3. (x \o tp) \o line = x \o (tp \o line)
        <5> HIDE DEF x, tp
        <5> QED
          BY <4>2
      <4> QED
        BY <3>4, <4>1, <4>3
    <3>9. shown'[t] \in Seq(Clean) /\ written'[t] = (shown'[t] \o Text(partial'[t])) \o <<>>
      <4> DEFINE ti == Text(i)
                 tq == Text(q)
      <4>1. x \in Seq(Clean) /\ ti \in Seq(Clean) /\ tq \in Seq(Clean)
        BY <3>7
      <4>2. x \o ti \in Seq(Clean) /\ x \o (ti \o tq) = (x \o ti) \o tq
        <5> HIDE DEF x, ti, tq
        <5> QED
          BY <4>1
      <4> QED
        BY <3>6, <3>7, <3>8, <4>2
    <3> QED
      BY <1>4, <2>2, <2>3, <2>5, <3>5, <3>6, <3>9, EmptySeq DEF IsSound
  <2>6. CASE t # s
    <3>1. Own(t) = <<>>
      <4>1. M \cap [from : {t}, piece : STRING] = {}
        BY <2>6
      <4> HIDE DEF M
      <4>2. Kept(leftover, [from : {t}, piece : STRING]) = <<>>
        BY <2>1, <4>1, NoneIsKept
      <4> QED
        BY <4>2 DEF Own
    <3>2. /\ buffer'[t] = buffer[t] /\ partial'[t] = partial[t] /\ shown'[t] = shown[t]
          /\ writing'[t] = writing[t] /\ written'[t] = written[t]
      BY <1>1, <2>6 DEF OutputTyped
    <3> QED
      BY <1>4, <2>2, <3>1, <3>2 DEF IsSound
  <2> QED
    BY <2>5, <2>6
<1> QED
  BY <1>2, <1>3, <1>4

LEMMA OutputStepKeeps ==
    ASSUME OutputInv, [OutputNext]_outputVars
    PROVE  OutputInv'
<1> USE OutputAssumption
<1>1. OutputTyped /\ (~mixed => \A s \in Streams \ lost : IsSound(s))
  BY DEF OutputInv
<1>2. ASSUME NEW s \in Streams, ReadyRead(s) PROVE OutputInv'
  <2>1. ASSUME NEW m \in Seq(STRING), m # <<>>, Reprocess(s, Head(m)), lost \subseteq lost',
               writing' = [writing EXCEPT ![s] = Tail(m)],
               written' = [written EXCEPT ![s] = @ \o Text(<<Head(m)>>)],
               ~mixed /\ s \notin lost' => m \in Seq(Clean)
        PROVE  OutputInv'
    <3> DEFINE piece == Head(m)
               rest == Tail(m)
    <3>1. piece \in STRING /\ rest \in Seq(STRING)
      BY <2>1
    <3>2. ~mixed /\ s \notin lost' => piece \in Clean /\ rest \in Seq(Clean)
      BY <2>1
    <3> HIDE DEF piece, rest
    <3>3. /\ Reprocess(s, piece) /\ writing' = [writing EXCEPT ![s] = rest]
          /\ written' = [written EXCEPT ![s] = @ \o Text(<<piece>>)]
      BY <2>1 DEF piece, rest
    <3>4. CASE piece = EndOfLine
      <4>1. /\ OutputTyped' /\ (~mixed' => ~mixed)
            /\ ~mixed' => \A t \in Streams :
                  IsSound(t) /\ (t = s => rest \in Seq(Clean)) => IsSound(t)'
        BY <1>1, <3>1, <3>3, <3>4, LineIsParsed
      <4> QED
        BY <1>1, <2>1, <3>2, <4>1 DEF OutputInv
    <3>5. CASE piece # EndOfLine
      <4>1. piece \in Words
        BY <3>1, <3>5 DEF Words
      <4>2. /\ OutputTyped' /\ mixed' = mixed
            /\ \A t \in Streams :
                  IsSound(t) /\ (t = s => piece \in Clean /\ rest \in Seq(Clean)) => IsSound(t)'
        BY <1>1, <3>1, <3>3, <4>1, WordIsLeft
      <4> QED
        BY <1>1, <2>1, <3>2, <4>2 DEF OutputInv
    <3> QED
      BY <3>4, <3>5
  <2>2. CASE writing[s] # <<>>
    <3> DEFINE m == writing[s]
    <3>1. m \in Seq(STRING) /\ m # <<>>
      BY <1>1, <2>2 DEF OutputTyped
    <3>2. /\ Reprocess(s, Head(m)) /\ lost' = lost /\ writing' = [writing EXCEPT ![s] = Tail(m)]
          /\ written' = [written EXCEPT ![s] = @ \o Text(<<Head(m)>>)]
      BY <1>2, <2>2 DEF ReadyRead
    <3>3. ~mixed /\ s \notin lost' => m \in Seq(Clean)
      BY <1>1, <3>2 DEF IsSound
    <3> HIDE DEF m
    <3> QED
      BY <2>1, <3>1, <3>2, <3>3
  <2>3. CASE writing[s] = <<>>
    <3>1. PICK m \in Messages :
             /\ writing' = [writing EXCEPT ![s] = Tail(m)] /\ Reprocess(s, Head(m))
             /\ lost' = IF ToSet(m) \cap {"nameless", "broken"} # {} THEN lost \cup {s} ELSE lost
             /\ written' = [written EXCEPT ![s] = @ \o Text(<<Head(m)>>)]
      BY <1>2, <2>3 DEF ReadyRead
    <3>2. m \in Seq(STRING) /\ m # <<>> /\ lost \subseteq lost'
      BY <3>1
    <3>3. s \notin lost' => m \in Seq(Clean)
      <4>1. s \notin lost' => "nameless" \notin ToSet(m)
        BY <3>1
      <4>2. "nameless" \notin ToSet(m) => \A i \in 1..Len(m) : m[i] \in Clean
        BY <3>2 DEF ToSet, Clean
      <4> QED
        BY <3>2, <4>1, <4>2
    <3> QED
      BY <2>1, <3>1, <3>2, <3>3
  <2> QED
    BY <2>2, <2>3
<1>3. ASSUME ProcessEnds PROVE OutputInv'
  <2>1. OutputTyped'
    <3>1. <<>> \in Seq(STRING)
      OBVIOUS
    <3>2. /\ writing' \in [Streams -> Seq(STRING)]
          /\ DOMAIN buffer' = Streams /\ DOMAIN partial' = Streams
          /\ DOMAIN shown' = Streams /\ DOMAIN written' = Streams /\ mixed' \in BOOLEAN
      BY <1>1, <1>3, <3>1 DEF ProcessEnds, OutputTyped
    <3>3. leftover' \in Seq([from : Streams, piece : Words])
      BY <1>3, EmptySeq DEF ProcessEnds
    <3> QED
      BY <3>2, <3>3 DEF OutputTyped
  <2>2. ASSUME NEW s \in Streams, s \notin lost', ~mixed' PROVE IsSound(s)'
    <3>1. IsSound(s) /\ partial[s] = <<>>
      BY <1>1, <1>3, <2>2 DEF ProcessEnds
    <3>2. Own(s)' = <<>>
      BY <1>3, NothingIsKept DEF ProcessEnds, Own
    <3>3. /\ writing'[s] = <<>> /\ buffer'[s] = buffer[s] /\ partial'[s] = partial[s] /\ shown'[s] = shown[s]
          /\ written'[s] = SubSeq(written[s], 1, Len(written[s]) - Len(Own(s)))
      BY <1>3 DEF ProcessEnds
    <3> DEFINE x == shown[s]
               y == Pieces(Own(s))
    <3>4. /\ x \in Seq(Clean) /\ y \in Seq(Clean) /\ Len(y) = Len(Own(s))
          /\ written[s] = x \o y /\ x = x \o <<>>
      <4>1. x \in Seq(Clean) /\ Own(s) \in Seq([from : {s}, piece : CleanWords])
        BY <3>1 DEF IsSound
      <4>2. y \in Seq(CleanWords) /\ Len(y) = Len(Own(s))
        BY <4>1, PiecesAre
      <4>3. x \o <<>> = x
        BY <4>1, ConcatEmptySeq
      <4>4. (x \o <<>>) \o y = written[s]
        BY <3>1, TextIs DEF IsSound
      <4> QED
        BY <4>1, <4>2, <4>3, <4>4 DEF CleanWords
    <3>5. SubSeq(x \o y, 1, Len(x \o y) - Len(y)) = x
      <4> HIDE DEF x, y
      <4>4. x \in Seq(Clean) /\ y \in Seq(Clean)
        BY <3>4
      <4>3. Len(x) \in Nat /\ Len(y) \in Nat /\ Len(x \o y) = Len(x) + Len(y)
        BY <4>4, ConcatProperties
      <4>1. Len(x \o y) - Len(y) = Len(x)
        BY <4>3
      <4>2. SubSeq(x \o y, 1, Len(x)) = x
        BY <4>4
      <4> QED
        BY <4>1, <4>2
    <3>6. written'[s] = x
      BY <3>3, <3>4, <3>5
    <3>7. Pieces(<<>>) = <<>> /\ Text(<<>>) = <<>>
      BY TextIs DEF Pieces
    <3>8. (x \o <<>>) \o <<>> = x
      BY <3>4
    <3> QED
      BY <3>1, <3>2, <3>3, <3>6, <3>7, <3>8, EmptySeq DEF IsSound
  <2> QED
    BY <2>1, <2>2 DEF OutputInv
<1>4. ASSUME UNCHANGED outputVars PROVE OutputInv'
  BY <1>1, <1>4 DEF outputVars, OutputInv, OutputTyped, IsSound, Own
<1> QED
  BY <1>2, <1>3, <1>4 DEF OutputNext

(* Everything that is written to a stream is shown once and in its order,   *)
(* or is left over or held: whatever is written, however it is cut, and for *)
(* any number of processes.                                                 *)
THEOREM OutputStaysShown == OutputSpec => []OutputIsShown
<1>1. OutputInit => OutputInv
  BY OutputInitHolds
<1>2. OutputInv /\ [OutputNext]_outputVars => OutputInv'
  BY OutputStepKeeps
<1>3. OutputInv => OutputIsShown
  <2> SUFFICES ASSUME OutputInv, ~mixed, NEW s \in Streams \ lost
               PROVE  shown[s] \o Text(partial[s]) \o Pieces(Own(s)) = written[s]
    BY DEF OutputIsShown
  <2> QED
    BY DEF OutputInv, IsSound
<1> QED
  BY <1>1, <1>2, <1>3, PTL DEF OutputSpec
=============================================================================
