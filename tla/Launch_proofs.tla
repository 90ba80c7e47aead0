---------------------------- MODULE Launch_proofs ----------------------------
(***************************************************************************)
(* Theorems about Launch, for any chain of steps, any accounts and any     *)
(* number of launches and stops by a host that waits until a launch has    *)
(* its LaunchTask before it launches the instance again; and about the     *)
(* list of the accounts, for any accounts, launches and calls of the host. *)
(***************************************************************************)
EXTENDS Launch, Accounts, FiniteSetTheorems, SequenceTheorems, TLAPS

Pending == {"posted", "refresh"}
Phases == {"none", "Running"} \cup Pending \cup Over

(* A controller that is to go on has the instance and the slot to itself;   *)
(* one that has launched and not ended is the one whose LaunchTask runs.    *)
(* With an account that is offline a controller ends before its LaunchTask. *)
ControllerInv ==
    /\ ctl \in [Launches -> Phases]
    /\ \A c \in Launches : ctl[c] \in Pending =>
          /\ ~running /\ slot = c
          /\ \A d \in Launches : ctl[d] \in Pending => d = c
    /\ \A c \in Launches : ctl[c] = "Running" => running /\ owner = c /\ slot = c
    /\ running => /\ owner \in Launches
                  /\ ctl[owner] = "Running" \/ (ctl[owner] = "Failed" /\ "offline" \in Accounts)

(* Only a LaunchTask that runs has a process or the account, and a game     *)
(* that runs and was not killed belongs to one that can still kill it.      *)
LaunchTaskInv ==
    /\ running \in BOOLEAN /\ step \in 1..Len(Steps)
    /\ ~running => ~claimed
    /\ proc # "none" <=> running /\ Steps[step] \in Processes
    /\ Steps[step] = "game" /\ proc = "running" /\ ~killed => lt # "Aborted"

(* A launch that was stopped has its killed process still, or has failed.   *)
StoppedInv ==
    \A c \in stopped \cap Launches :
        \/ ctl[c] \in {"Failed", "AbortedByUser"}
        \/ owner = c /\ running /\ killed /\ proc # "none"

LaunchInv ==
    /\ ControllerInv
    /\ LaunchTaskInv
    /\ StoppedInv /\ stopped \subseteq Launches
    /\ strays = 0

LEMMA StepsExist == Len(Steps) \in Nat \ {0}
BY LaunchAssumption

(* Where a chain of steps comes to rest.                                    *)
LEMMA RestsAtStep ==
    ASSUME NEW i \in 1..(Len(Steps) + 1), NEW rest \in Rests(i)
    PROVE  rest.step \in 1..Len(Steps) /\ rest.how \in {"in", "Failed", "Succeeded"}
<1> DEFINE Passes(k) == Steps[k] \notin Processes \cup {"ask"}
           Reached == {j \in i..Len(Steps) : \A k \in i..(j - 1) : Passes(k)}
<1>1. \A j \in Reached : j \in 1..Len(Steps)
  BY StepsExist
<1>2. Len(Steps) \in 1..Len(Steps)
  BY StepsExist
<1>3. \/ \E j \in Reached : rest = [step |-> j, how |-> "in"] \/ rest = [step |-> j, how |-> "Failed"]
      \/ rest = [step |-> Len(Steps), how |-> "Succeeded"]
  BY DEF Rests
<1> QED
  BY <1>1, <1>2, <1>3

LEMMA LaunchInitHolds == Init => LaunchInv
<1> SUFFICES ASSUME Init PROVE LaunchInv
  OBVIOUS
<1>1. /\ ctl = [c \in Launches |-> "none"] /\ running = FALSE /\ step = 1 /\ proc = "none" /\ ~claimed
      /\ strays = 0 /\ stopped = {}
  BY DEF Init
<1>2. ctl \in [Launches -> Phases] /\ \A c \in Launches : ctl[c] = "none"
  BY <1>1 DEF Phases
<1>3. ControllerInv
  BY <1>1, <1>2 DEF ControllerInv, Pending
<1>4. 1 \in 1..Len(Steps)
  BY StepsExist
<1>5. LaunchTaskInv
  BY <1>1, <1>4 DEF LaunchTaskInv
<1> QED
  BY <1>1, <1>3, <1>5 DEF LaunchInv, StoppedInv

(* A LaunchTask whose chain has come to rest is in order, whoever ran it.   *)
LEMMA SettleInOrder ==
    ASSUME NEW c, NEW i, NEW rest, NEW before, Settle(c, i, rest, before), rest.step \in 1..Len(Steps)
    PROVE  LaunchTaskInv'
<1>1. /\ running' = (rest.how = "in") /\ step' = rest.step
      /\ proc' = IF running' /\ Steps[rest.step] \in Processes THEN "starting" ELSE "none"
      /\ ~running' => ~claimed'
  BY DEF Settle, Held
<1> QED
  BY <1>1 DEF LaunchTaskInv

(* The steps of the LaunchTask that runs come to rest, or it ends and tells *)
(* its controller.                                                          *)
LEMMA SettleKeeps ==
    ASSUME LaunchInv, running, NEW i, NEW rest, NEW before, Settle(owner, i, rest, before),
           before.ctl = ctl[owner],
           rest.step \in 1..Len(Steps), rest.how \in {"in", "Failed", "Succeeded"},
           rest.how = "Failed" \/ ~killed \/ proc = "none",
           UNCHANGED <<owner, strays, stopped>>
    PROVE  LaunchInv'
<1>1. LaunchTaskInv'
  BY SettleInOrder
<1>2. /\ ctl \in [Launches -> Phases] /\ owner \in Launches
      /\ ctl[owner] = "Running" \/ (ctl[owner] = "Failed" /\ "offline" \in Accounts)
      /\ \A c \in Launches : ctl[c] \notin Pending
      /\ \A c \in Launches : ctl[c] = "Running" => c = owner /\ slot = owner
  BY DEF LaunchInv, ControllerInv
<1>3. /\ running' = (rest.how = "in") /\ slot' = Slot(ctl)
      /\ ctl' = [ctl EXCEPT ![owner] = IF ctl[owner] = "Running" /\ ~running' THEN rest.how ELSE ctl[owner]]
  BY DEF Settle
<1>4. ctl' \in [Launches -> Phases]
  BY <1>2, <1>3 DEF Phases, Over
<1>5. /\ \A c \in Launches : c # owner => ctl'[c] = ctl[c]
      /\ ctl'[owner] = IF ctl[owner] = "Running" /\ ~running' THEN rest.how ELSE ctl[owner]
  BY <1>2, <1>3
<1>6. \A c \in Launches : ctl'[c] \notin Pending
  BY <1>2, <1>3, <1>5 DEF Pending
<1>7. \A c \in Launches : ctl'[c] = "Running" => running' /\ owner' = c /\ slot' = c
  <2> SUFFICES ASSUME NEW c \in Launches, ctl'[c] = "Running" PROVE running' /\ owner' = c /\ slot' = c
    OBVIOUS
  <2>1. c = owner /\ slot = owner /\ running'
    BY <1>2, <1>3, <1>5
  <2>2. \A d \in Launches : ctl'[d] = ctl[d]
    BY <1>5, <2>1
  <2>3. slot' = slot
    BY <1>3, <2>2 DEF Slot
  <2> QED
    BY <2>1, <2>3
<1>8. running' => /\ owner' \in Launches
                  /\ ctl'[owner'] = "Running" \/ (ctl'[owner'] = "Failed" /\ "offline" \in Accounts)
  BY <1>2, <1>5
<1>9. StoppedInv'
  <2> SUFFICES ASSUME NEW c \in stopped \cap Launches PROVE ctl'[c] \in {"Failed", "AbortedByUser"}
    BY DEF StoppedInv
  <2>1. \/ ctl[c] \in {"Failed", "AbortedByUser"}
        \/ c = owner /\ rest.how = "Failed"
    BY DEF LaunchInv, StoppedInv
  <2> QED
    BY <1>2, <1>3, <1>5, <2>1
<1> QED
  BY <1>1, <1>4, <1>6, <1>7, <1>8, <1>9 DEF LaunchInv, ControllerInv

LEMMA StepSucceedsKeeps ==
    ASSUME LaunchInv, running, StepSucceeds, ~killed \/ proc = "none", UNCHANGED <<owner, strays, stopped>>
    PROVE  LaunchInv'
<1>1. step + 1 \in 1..(Len(Steps) + 1)
  BY StepsExist DEF LaunchInv, LaunchTaskInv
<1>2. PICK rest \in Rests(step + 1) : Settle(owner, step + 1, rest, Now(owner))
  BY DEF StepSucceeds, RunFrom
<1>3. rest.step \in 1..Len(Steps) /\ rest.how \in {"in", "Failed", "Succeeded"}
  BY <1>1, RestsAtStep
<1>4. Now(owner).ctl = ctl[owner]
  BY DEF Now
<1> QED
  BY <1>2, <1>3, <1>4, SettleKeeps

LEMMA StepFailsKeeps ==
    ASSUME LaunchInv, running, StepFails, UNCHANGED <<owner, strays, stopped>>
    PROVE  LaunchInv'
<1> DEFINE rest == [step |-> step, how |-> "Failed"]
<1>1. rest.step \in 1..Len(Steps) /\ rest.how = "Failed"
  BY DEF LaunchInv, LaunchTaskInv
<1>2. Settle(owner, step + 1, rest, Now(owner))
  BY DEF StepFails
<1>3. Now(owner).ctl = ctl[owner]
  BY DEF Now
<1> HIDE DEF rest
<1> QED
  BY <1>1, <1>2, <1>3, SettleKeeps

(* A controller that was to go on and is alone with its instance ends, or   *)
(* creates its LaunchTask.                                                  *)
LEMMA ConcludeKeeps ==
    ASSUME LaunchInv, NEW c \in Launches, ctl[c] \in Pending, NEW phase \in Over,
           Conclude(c, phase), UNCHANGED stopped
    PROVE  LaunchInv'
<1>1. ctl \in [Launches -> Phases] /\ ~running /\ \A d \in Launches : ctl[d] \in Pending => d = c
  BY DEF LaunchInv, ControllerInv
<1>2. ctl' = [ctl EXCEPT ![c] = phase] /\ UNCHANGED <<owner, running, lt, step, claimed, proc, killed, strays>>
  BY DEF Conclude, launchTask
<1>3. ctl' \in [Launches -> Phases] /\ ctl'[c] = phase /\ \A d \in Launches : d # c => ctl'[d] = ctl[d]
  BY <1>1, <1>2 DEF Phases
<1>4. \A d \in Launches : ctl'[d] \notin Pending /\ ctl'[d] # "Running"
  BY <1>1, <1>3 DEF Pending, Over, LaunchInv, ControllerInv
<1>5. LaunchTaskInv'
  BY <1>2 DEF LaunchInv, LaunchTaskInv
<1>6. StoppedInv'
  <2> SUFFICES ASSUME NEW d \in stopped \cap Launches PROVE ctl'[d] \in {"Failed", "AbortedByUser"}
    BY DEF StoppedInv
  <2>1. ctl[d] \in {"Failed", "AbortedByUser"}
    BY <1>1 DEF LaunchInv, StoppedInv
  <2> QED
    BY <1>3, <2>1 DEF Pending
<1> QED
  BY <1>1, <1>2, <1>3, <1>4, <1>5, <1>6 DEF LaunchInv, ControllerInv

LEMMA LaunchInstanceKeeps ==
    ASSUME LaunchInv, NEW c \in Launches, ctl[c] \in Pending, NEW phase,
           phase = "Running" \/ (phase = "Failed" /\ "offline" \in Accounts),
           LaunchInstance(c, phase), UNCHANGED stopped
    PROVE  LaunchInv'
<1> DEFINE before == [lt |-> "Running", claimed |-> FALSE, ctl |-> phase]
<1>1. PICK rest \in Rests(1) : Settle(c, 1, rest, before)
  BY DEF LaunchInstance, RunFrom
<1>2. rest.step \in 1..Len(Steps) /\ rest.how \in {"in", "Failed", "Succeeded"}
  BY RestsAtStep, StepsExist
<1>3. before.ctl = phase
  OBVIOUS
<1> HIDE DEF before
<1>4. LaunchTaskInv'
  BY <1>1, <1>2, SettleInOrder
<1>5. /\ ctl \in [Launches -> Phases] /\ ~running /\ slot = c
      /\ \A d \in Launches : ctl[d] \in Pending => d = c
      /\ \A d \in Launches : ctl[d] # "Running"
  BY DEF LaunchInv, ControllerInv
<1>6. /\ running' = (rest.how = "in") /\ slot' = Slot(ctl) /\ owner' = c /\ strays' = strays
      /\ ctl' = [ctl EXCEPT ![c] = IF phase = "Running" /\ ~running' THEN rest.how ELSE phase]
  BY <1>1, <1>3, <1>5 DEF Settle, LaunchInstance, InProgress
<1>7. /\ ctl'[c] = (IF phase = "Running" /\ ~running' THEN rest.how ELSE phase)
      /\ \A d \in Launches : d # c => ctl'[d] = ctl[d]
      /\ ctl' \in [Launches -> Phases]
  BY <1>2, <1>5, <1>6 DEF Phases, Over
<1>8. \A d \in Launches : ctl'[d] \notin Pending
  BY <1>2, <1>5, <1>6, <1>7 DEF Pending
<1>9. \A d \in Launches : ctl'[d] = "Running" => running' /\ owner' = d /\ slot' = d
  <2> SUFFICES ASSUME NEW d \in Launches, ctl'[d] = "Running" PROVE running' /\ owner' = d /\ slot' = d
    OBVIOUS
  <2>1. d = c /\ running'
    BY <1>2, <1>5, <1>6, <1>7
  <2>2. slot' = slot
    BY <1>6, <1>7, <2>1 DEF Slot, Over
  <2> QED
    BY <1>5, <1>6, <2>1, <2>2
<1>10. StoppedInv'
  <2> SUFFICES ASSUME NEW d \in stopped \cap Launches PROVE ctl'[d] \in {"Failed", "AbortedByUser"}
    BY DEF StoppedInv
  <2>1. ctl[d] \in {"Failed", "AbortedByUser"}
    BY <1>5 DEF LaunchInv, StoppedInv
  <2> QED
    BY <1>7, <2>1 DEF Pending
<1>11. running' => /\ owner' \in Launches
                   /\ ctl'[owner'] = "Running" \/ (ctl'[owner'] = "Failed" /\ "offline" \in Accounts)
  BY <1>6, <1>7
<1> QED
  BY <1>4, <1>6, <1>7, <1>8, <1>9, <1>10, <1>11 DEF LaunchInv, ControllerInv

LEMMA LaunchCallKeeps ==
    ASSUME LaunchInv, ~Hurried, NEW c \in Launches, LaunchCall(c) PROVE LaunchInv'
<1>1. /\ ctl[c] = "none" /\ ~running /\ ctl' = [ctl EXCEPT ![c] = "posted"] /\ slot' = c
      /\ \A d \in Launches : ctl[d] \notin Pending
      /\ UNCHANGED <<owner, running, lt, step, claimed, proc, killed, strays, stopped>>
  BY DEF LaunchCall, MayLaunch, In, Pending, launchTask
<1>2. ctl \in [Launches -> Phases] /\ \A d \in Launches : ctl[d] # "Running"
  BY <1>1 DEF LaunchInv, ControllerInv
<1>3. ctl'[c] = "posted" /\ ctl' \in [Launches -> Phases] /\ \A d \in Launches : d # c => ctl'[d] = ctl[d]
  BY <1>1, <1>2 DEF Phases, Pending
<1>4. ControllerInv'
  BY <1>1, <1>2, <1>3 DEF ControllerInv
<1>5. LaunchTaskInv'
  BY <1>1 DEF LaunchInv, LaunchTaskInv
<1>6. StoppedInv'
  BY <1>1, <1>3 DEF LaunchInv, StoppedInv
<1> QED
  BY <1>1, <1>4, <1>5, <1>6 DEF LaunchInv

LEMMA AbortKeeps ==
    ASSUME LaunchInv, NEW c \in Launches, Abort(c), UNCHANGED <<account, owner, strays>>
    PROVE  LaunchInv'
<1>1. owner = c /\ running
  BY DEF Abort
<1>2. CASE /\ InProgress(Processes) /\ killed' = TRUE /\ lt' = "Aborted" /\ stopped' = stopped \cup {c}
           /\ UNCHANGED <<ctl, slot, running, step, claimed, proc>>
  <2>1. proc # "none"
    BY <1>2 DEF InProgress, LaunchInv, LaunchTaskInv
  <2>2. ControllerInv'
    BY <1>2 DEF LaunchInv, ControllerInv
  <2>3. LaunchTaskInv'
    BY <1>2 DEF LaunchInv, LaunchTaskInv
  <2>4. StoppedInv'
    BY <1>1, <1>2, <2>1 DEF LaunchInv, StoppedInv
  <2> QED
    BY <1>2, <2>2, <2>3, <2>4 DEF LaunchInv
<1>3. CASE /\ InProgress({"wrap"}) /\ lt' = "Aborted"
           /\ UNCHANGED <<ctl, slot, running, step, claimed, proc, killed, stopped>>
  <2>1. Steps[step] # "game"
    BY <1>3 DEF InProgress
  <2> QED
    BY <1>3, <2>1 DEF LaunchInv, ControllerInv, LaunchTaskInv, StoppedInv
<1>4. CASE /\ InProgress({"ask", "wrap"})
           /\ Settle(c, step + 1, [step |-> step, how |-> "Failed"], [Now(c) EXCEPT !.lt = "Aborted"])
           /\ UNCHANGED stopped
  <2> DEFINE rest == [step |-> step, how |-> "Failed"]
             before == [Now(c) EXCEPT !.lt = "Aborted"]
  <2>1. rest.step \in 1..Len(Steps) /\ rest.how = "Failed" /\ before.ctl = ctl[c]
    BY DEF LaunchInv, LaunchTaskInv, Now
  <2>2. Settle(owner, step + 1, rest, before)
    BY <1>1, <1>4
  <2> HIDE DEF rest, before
  <2> QED
    BY <1>1, <1>4, <2>1, <2>2, SettleKeeps
<1> QED
  BY <1>2, <1>3, <1>4 DEF Abort

LEMMA StopKeeps == LaunchInv /\ Stop => LaunchInv'
<1> SUFFICES ASSUME LaunchInv, Stop PROVE LaunchInv'
  OBVIOUS
<1>1. slot = owner /\ running /\ Abort(slot)
  BY DEF Stop, Abort
<1>2. slot \in Launches
  BY <1>1 DEF LaunchInv, ControllerInv
<1> QED
  BY <1>1, <1>2, AbortKeeps DEF Stop

LEMMA CancelKeeps ==
    ASSUME LaunchInv, NEW c \in Launches, CancelTask(c) PROVE LaunchInv'
BY AbortKeeps DEF CancelTask

LEMMA StartKeeps ==
    ASSUME LaunchInv, NEW c \in Launches, Start(c) PROVE LaunchInv'
<1>1. ctl[c] \in Pending /\ ctl[c] = "posted" /\ UNCHANGED stopped
  BY DEF Start, Pending
<1>2. CASE Conclude(c, "Failed") \/ Conclude(c, "AbortedByUser")
  BY <1>1, <1>2, ConcludeKeeps DEF Over
<1>3. CASE ctl' = [ctl EXCEPT ![c] = "refresh"] /\ UNCHANGED <<slot, owner, launchTask, strays>>
  <2>1. /\ UNCHANGED <<slot, owner, running, lt, step, claimed, proc, killed, strays>>
        /\ ctl \in [Launches -> Phases] /\ ~running
    BY <1>1, <1>3 DEF launchTask, LaunchInv, ControllerInv
  <2>2. ctl'[c] = "refresh" /\ ctl' \in [Launches -> Phases] /\ \A d \in Launches : d # c => ctl'[d] = ctl[d]
    BY <1>3, <2>1 DEF Phases, Pending
  <2>3. ControllerInv'
    BY <1>1, <2>1, <2>2 DEF LaunchInv, ControllerInv
  <2>4. LaunchTaskInv'
    BY <2>1 DEF LaunchInv, LaunchTaskInv
  <2>5. StoppedInv'
    BY <1>1, <2>1, <2>2 DEF LaunchInv, StoppedInv
  <2> QED
    BY <1>1, <2>1, <2>3, <2>4, <2>5 DEF LaunchInv
<1>4. ASSUME NEW who \in Accounts, LaunchInstance(c, IF who = "offline" THEN "Failed" ELSE "Running")
      PROVE  LaunchInv'
  <2> DEFINE phase == IF who = "offline" THEN "Failed" ELSE "Running"
  <2>1. phase = "Running" \/ (phase = "Failed" /\ "offline" \in Accounts)
    OBVIOUS
  <2>2. LaunchInstance(c, phase)
    BY <1>4
  <2> HIDE DEF phase
  <2> QED
    BY <1>1, <2>1, <2>2, LaunchInstanceKeeps
<1> QED
  BY <1>2, <1>3, <1>4 DEF Start

LEMMA ResumeKeeps ==
    ASSUME LaunchInv, NEW c \in Launches, Resume(c) PROVE LaunchInv'
<1>1. ctl[c] \in Pending /\ UNCHANGED stopped /\ (LaunchInstance(c, "Running") \/ Conclude(c, "AbortedByUser"))
  BY DEF Resume, Pending
<1> QED
  BY <1>1, ConcludeKeeps, LaunchInstanceKeeps DEF Over

(* What the account does by itself is no business of these invariants.      *)
LEMMA RefreshesKeep == LaunchInv /\ (RefreshStarts \/ RefreshEnds \/ UNCHANGED vars) => LaunchInv'
<1> SUFFICES ASSUME LaunchInv, RefreshStarts \/ RefreshEnds \/ UNCHANGED vars PROVE LaunchInv'
  OBVIOUS
<1>1. UNCHANGED <<ctl, slot, owner, running, lt, step, claimed, proc, killed, strays, stopped>>
  BY DEF RefreshStarts, RefreshEnds, vars, launchTask
<1> QED
  BY <1>1 DEF LaunchInv, ControllerInv, LaunchTaskInv, StoppedInv

LEMMA StepEndsKeeps == LaunchInv /\ StepEnds => LaunchInv'
<1> SUFFICES ASSUME LaunchInv, StepEnds PROVE LaunchInv'
  OBVIOUS
<1>1. InProgress({"ask", "wrap", "wait"}) /\ (StepSucceeds \/ StepFails) /\ UNCHANGED <<owner, strays, stopped>>
  BY DEF StepEnds, InProgress
<1>2. running /\ proc = "none"
  BY <1>1 DEF InProgress, LaunchInv, LaunchTaskInv, Processes
<1> QED
  BY <1>1, <1>2, StepSucceedsKeeps, StepFailsKeeps

LEMMA ProcessStartsKeeps == LaunchInv /\ ProcessStarts => LaunchInv'
<1> SUFFICES ASSUME LaunchInv, ProcessStarts PROVE LaunchInv'
  OBVIOUS
<1>1. /\ proc = "starting" /\ proc' = "running" /\ lt' = (IF Steps[step] = "game" THEN "Waiting" ELSE lt)
      /\ UNCHANGED <<ctl, slot, owner, running, step, claimed, killed, strays, stopped>>
  BY DEF ProcessStarts
<1>2. ControllerInv' /\ stopped' \subseteq Launches /\ strays' = 0
  BY <1>1 DEF LaunchInv, ControllerInv
<1>3. LaunchTaskInv'
  BY <1>1 DEF LaunchInv, LaunchTaskInv
<1>4. StoppedInv'
  BY <1>1 DEF LaunchInv, StoppedInv
<1> QED
  BY <1>2, <1>3, <1>4 DEF LaunchInv

LEMMA ProcessEndsKeeps == LaunchInv /\ (ProcessFailsToStart \/ ProcessExits) => LaunchInv'
<1> SUFFICES ASSUME LaunchInv, ProcessFailsToStart \/ ProcessExits PROVE LaunchInv'
  OBVIOUS
<1>1. /\ proc # "none" /\ UNCHANGED <<owner, strays, stopped>>
      /\ (~killed /\ StepSucceeds) \/ StepFails
  BY DEF ProcessFailsToStart, ProcessExits
<1>2. running
  BY <1>1 DEF LaunchInv, LaunchTaskInv
<1> QED
  BY <1>1, <1>2, StepSucceedsKeeps, StepFailsKeeps

LEMMA LaunchStepKeeps == ~Hurried /\ LaunchInv /\ [Next]_vars => LaunchInv'
BY LaunchCallKeeps, StopKeeps, CancelKeeps, StartKeeps, ResumeKeeps, RefreshesKeep, StepEndsKeeps,
   ProcessStartsKeeps, ProcessEndsKeeps DEF Next

(* An instance that may be launched again has no game of an earlier launch, *)
(* no process and no claim on its account, whatever its steps, however the  *)
(* launches before ended and wherever they were stopped.                    *)
THEOREM InstanceComesToRest == ASSUME ~Hurried PROVE Spec => []AtRest
<1>1. LaunchInv => AtRest
  BY DEF LaunchInv, LaunchTaskInv, AtRest
<1>2. LaunchInv /\ [Next]_vars => LaunchInv'
  BY LaunchStepKeeps
<1> QED
  BY <1>1, <1>2, LaunchInitHolds, PTL DEF Spec

(* A launch whose process a stop has killed is never reported a success,    *)
(* whatever the exit code of the process and the steps behind it.           *)
THEOREM StoppedNeverSucceeds == ASSUME ~Hurried PROVE Spec => []StopSticks
<1>1. LaunchInv => StopSticks
  BY DEF LaunchInv, ControllerInv, StoppedInv, StopSticks
<1>2. LaunchInv /\ [Next]_vars => LaunchInv'
  BY LaunchStepKeeps
<1> QED
  BY <1>1, <1>2, LaunchInitHolds, PTL DEF Spec

(* As long as no account is offline, a stop finds every game that runs: the *)
(* slot leads to the controller whose LaunchTask has it.                    *)
THEOREM GamesCanBeStopped ==
    ASSUME ~Hurried, "offline" \notin Accounts PROVE Spec => []StopReachesTheGame
<1>1. ASSUME LaunchInv PROVE StopReachesTheGame
  <2> SUFFICES ASSUME InProgress({"game"}), proc = "running", ~killed
               PROVE  slot # 0 /\ slot = owner /\ lt # "Aborted"
    BY DEF StopReachesTheGame
  <2>1. running /\ Steps[step] = "game"
    BY DEF InProgress
  <2>2. owner \in Launches /\ ctl[owner] = "Running"
    BY <1>1, <2>1 DEF LaunchInv, ControllerInv
  <2>3. slot = owner /\ lt # "Aborted"
    BY <1>1, <2>1, <2>2 DEF LaunchInv, ControllerInv, LaunchTaskInv
  <2> QED
    BY <2>2, <2>3 DEF Launches
<1>2. LaunchInv /\ [Next]_vars => LaunchInv'
  BY LaunchStepKeeps
<1> QED
  BY <1>1, <1>2, LaunchInitHolds, PTL DEF Spec
-----------------------------------------------------------------------------
(* The list of the accounts. *)

(* Every listed account is one of the accounts, and at most one thing keeps *)
(* the rounds going.                                                        *)
Refreshing == {a \in Ids : flow[a] = "running"}

ListTyped ==
    /\ list \in Seq(Ids)
    /\ flow \in [Ids -> {"none", "created", "running"}]
    /\ next \in BOOLEAN /\ hourly \in BOOLEAN

OneKeepsTheRound ==
    \/ hourly /\ ~next /\ Refreshing = {}
    \/ ~hourly /\ next /\ Refreshing = {}
    \/ ~hourly /\ ~next /\ \E a \in Ids : Refreshing = {a}

ListInv == ListTyped /\ OneKeepsTheRound

LEMMA OneOfThree == OneKeepsTheRound => RoundGoesOn
<1>1. CASE Refreshing = {}
  BY <1>1, FS_EmptySet DEF OneKeepsTheRound, RoundGoesOn, Refreshing
<1>2. ASSUME NEW a \in Ids, Refreshing = {a}, ~hourly, ~next PROVE RoundGoesOn
  <2>1. Cardinality(Refreshing) = 1
    BY <1>2, FS_Singleton
  <2> QED
    BY <1>2, <2>1 DEF RoundGoesOn, Refreshing
<1> QED
  BY <1>1, <1>2 DEF OneKeepsTheRound

LEMMA ListInitHolds == ListInit => ListInv
BY ListAssumption DEF ListInit, ListInv, ListTyped, OneKeepsTheRound, Refreshing

(* What begins a refresh: the account is on the list, and no game uses it.  *)
LEMMA TryNextKeeps ==
    ASSUME ListTyped, Refreshing = {}, NEW q, TryNext(q),
           UNCHANGED <<list, uses>>
    PROVE  /\ ListTyped' /\ OneKeepsTheRound'
           /\ \A a \in Ids : flow[a] # "running" /\ flow'[a] = "running" => uses[a] = 0
<1> DEFINE due == {i \in DOMAIN q : Refreshable(q[i])}
<1>1. CASE due = {}
  BY <1>1 DEF TryNext, ListTyped, OneKeepsTheRound, Refreshing
<1>2. ASSUME NEW i \in due, q[i] \notin MSA,
             hourly' = FALSE, next' = TRUE, UNCHANGED flow
      PROVE  ListTyped' /\ OneKeepsTheRound'
  BY <1>2 DEF ListTyped, OneKeepsTheRound, Refreshing
<1>3. ASSUME NEW i \in due, hourly' = FALSE, next' = FALSE,
             flow' = [flow EXCEPT ![q[i]] = "running"]
      PROVE  /\ ListTyped' /\ OneKeepsTheRound'
             /\ \A a \in Ids : flow[a] # "running" /\ flow'[a] = "running" => uses[a] = 0
  <2>1. q[i] \in Ids /\ uses[q[i]] = 0
    BY <1>3 DEF Refreshable, ShouldRefresh, Listed, ToSet, ListTyped
  <2>2. \A a \in Ids : flow'[a] = IF a = q[i] THEN "running" ELSE flow[a]
    BY <1>3, <2>1 DEF ListTyped
  <2>3. Refreshing' = {q[i]}
    BY <2>1, <2>2 DEF Refreshing
  <2> QED
    BY <1>3, <2>1, <2>2, <2>3 DEF ListTyped, OneKeepsTheRound
<1> QED
  BY <1>1, <1>2, <1>3 DEF TryNext

(* A refresh that concludes leaves the round to the timer.                  *)
LEMMA FlowConcludesKeeps ==
    ASSUME ListInv, NEW a \in Ids, FlowConcludes(a)
    PROVE  ListInv'
<1>1. flow[a] = "running" /\ flow' = [flow EXCEPT ![a] = "none"] /\ next' = TRUE
      /\ UNCHANGED <<list, hourly>>
  BY DEF FlowConcludes, FlowEnds
<1>2. Refreshing = {a} /\ ~hourly
  BY <1>1 DEF ListInv, OneKeepsTheRound, Refreshing
<1>3. Refreshing' = {}
  BY <1>1, <1>2 DEF ListInv, ListTyped, Refreshing
<1> QED
  BY <1>1, <1>2, <1>3 DEF ListInv, ListTyped, OneKeepsTheRound

(* The flow that a launch creates is not started.                           *)
LEMMA BeginKeeps ==
    ASSUME ListInv, NEW l \in Controllers, NEW a \in Ids, Begin(l, a)
    PROVE  ListInv' /\ Refreshing' = Refreshing
<1>1. flow' = flow \/ flow' = [flow EXCEPT ![a] = IF @ = "none" THEN "created" ELSE @]
  BY DEF Begin
<1>2. UNCHANGED <<list, next, hourly>>
  BY DEF Begin, timerVars
<1>3. flow' \in [Ids -> {"none", "created", "running"}] /\ Refreshing' = Refreshing
  BY <1>1 DEF ListInv, ListTyped, Refreshing
<1> QED
  BY <1>2, <1>3 DEF ListInv, ListTyped, OneKeepsTheRound

(* The host changes the list and neither a flow nor a timer.                *)
LEMMA HostKeeps ==
    ASSUME ListInv, NEW a \in Ids,
           AddAccount(a) \/ RemoveAccount(a) \/ SetDefaultAccount(a)
    PROVE  ListInv' /\ UNCHANGED flow
<1>1. UNCHANGED <<flow, next, hourly>>
  BY DEF AddAccount, RemoveAccount, SetDefaultAccount, accountVars, timerVars
<1>2. list' \in Seq(Ids)
  <2>1. CASE AddAccount(a)
    BY <2>1 DEF AddAccount, ListInv, ListTyped
  <2>2. CASE RemoveAccount(a)
    <3>1. PICK i \in 1..Len(list) : list' = SubSeq(list, 1, i - 1) \o SubSeq(list, i + 1, Len(list))
      <4>1. PICK i \in DOMAIN list : list' = RemoveAt(list, i)
        BY <2>2 DEF RemoveAccount
      <4>2. i \in 1..Len(list)
        BY LenProperties DEF ListInv, ListTyped
      <4> QED
        BY <4>1, <4>2 DEF RemoveAt
    <3>2. SubSeq(list, 1, i - 1) \in Seq(Ids) /\ SubSeq(list, i + 1, Len(list)) \in Seq(Ids)
      <4>1. /\ \A k \in 1..(i - 1) : list[k] \in Ids
            /\ \A k \in (i + 1)..Len(list) : list[k] \in Ids
        BY DEF ListInv, ListTyped
      <4> QED
        BY <4>1, SubSeqProperties DEF ListInv, ListTyped
    <3> QED
      BY <3>1, <3>2
  <2>3. CASE SetDefaultAccount(a)
    BY <2>3 DEF SetDefaultAccount, ListInv, ListTyped
  <2> QED
    BY <2>1, <2>2, <2>3
<1> QED
  BY <1>1, <1>2 DEF ListInv, ListTyped, OneKeepsTheRound, Refreshing

(* Everything else leaves the list, the flows and the timers alone.         *)
LEMMA ListStepKeeps ==
    ASSUME ListInv, [ListNext]_listVars
    PROVE  /\ ListInv'
           /\ \A a \in Ids : flow[a] # "running" /\ flow'[a] = "running" => uses[a] = 0
<1> DEFINE Rest == \A a \in Ids : flow[a] # "running" /\ flow'[a] = "running" => uses[a] = 0
<1>1. ASSUME FillQueue \/ NextTimeout PROVE ListInv' /\ Rest
  <2>1. Refreshing = {} /\ UNCHANGED <<list, uses>>
    BY <1>1 DEF FillQueue, NextTimeout, ListInv, ListTyped, OneKeepsTheRound
  <2>2. PICK q : TryNext(q)
    BY <1>1 DEF FillQueue, NextTimeout
  <2> QED
    BY <2>1, <2>2, TryNextKeeps DEF ListInv
<1>2. ASSUME NEW a \in Ids, FlowConcludes(a) PROVE ListInv' /\ Rest
  BY <1>2, FlowConcludesKeeps DEF FlowConcludes, FlowEnds, ListInv, ListTyped
<1>3. ASSUME NEW l \in Controllers, NEW a \in Ids, Begin(l, a) PROVE ListInv' /\ Rest
  BY <1>3, BeginKeeps DEF Refreshing
<1>4. ASSUME NEW a \in Ids, AddAccount(a) \/ RemoveAccount(a) \/ SetDefaultAccount(a)
      PROVE  ListInv' /\ Rest
  BY <1>4, HostKeeps
<1>5. ASSUME UNCHANGED <<list, flow, next, hourly>> PROVE ListInv' /\ Rest
  BY <1>5 DEF ListInv, ListTyped, OneKeepsTheRound, Refreshing
<1>6. ASSUME \/ LoopReturns \/ UNCHANGED listVars
             \/ \E a \in Ids : Age(a)
             \/ \E l \in Controllers : Claim(l) \/ GameEnds(l)
      PROVE  UNCHANGED <<list, flow, next, hourly>>
  BY <1>6 DEF LoopReturns, Age, Claim, GameEnds, listVars, accountVars, timerVars
<1> QED
  BY <1>1, <1>2, <1>3, <1>4, <1>5, <1>6 DEF ListNext

(* The rounds of refreshes go on and are never run twice: at any time       *)
(* exactly one of the two timers is active or one refresh is running, for   *)
(* any accounts, launches and calls of the host.                            *)
THEOREM RoundsGoOn == ListSpec => []RoundGoesOn
<1>1. ListInit => ListInv
  BY ListInitHolds
<1>2. ListInv /\ [ListNext]_listVars => ListInv'
  BY ListStepKeeps
<1>3. ListInv => RoundGoesOn
  BY OneOfThree DEF ListInv
<1> QED
  BY <1>1, <1>2, <1>3, PTL DEF ListSpec

(* No refresh of an account begins while a game uses it.                    *)
THEOREM UsedAccountsStay == ListSpec => UsedAccountsRest
<1> DEFINE Rest == \A a \in Ids : flow[a] # "running" /\ flow'[a] = "running" => uses[a] = 0
<1>1. ListInit => ListInv
  BY ListInitHolds
<1>2. ListInv /\ [ListNext]_listVars => ListInv' /\ [Rest]_listVars
  BY ListStepKeeps
<1> QED
  BY <1>1, <1>2, PTL DEF ListSpec, UsedAccountsRest
=============================================================================
