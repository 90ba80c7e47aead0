----------------------------- MODULE DeviceLogin ----------------------------
(* A login with a code that the user enters in a browser: the first step    *)
(* asks for the code and polls until the user has approved it, six requests *)
(* follow (AuthFlow, MSADeviceCodeStep).  Time is counted in poll intervals *)
(* of the usual length.                                                     *)
EXTENDS Naturals, Sequences

CONSTANTS Expires,     \* may a code expire before the step has noticed that it will?
          Lifetime,    \* how long a code lives
          MaxCodes,    \* bound: codes the server gives out
          MaxCancels   \* bound: calls of cancel_task

VARIABLES
    flow,        \* Task::m_state of the flow, "queued" before its posted start
    step,        \* m_currentStep, as an index of LoginSteps; 0 is none
    request,     \* m_request of the step: what it asks, and what was answered
    pollTimer,   \* m_pool_timer
    expiry,      \* m_expiration_timer
    left,        \* its remainingTime()
    interval,    \* the time between two polls
    aborted,     \* m_is_aborted
    codes,       \* codes shown to the user so far
    cancels

timerVars == <<pollTimer, expiry, left, interval>>
loginVars == <<flow, step, request, timerVars, aborted, codes, cancels>>

LoginSteps == <<"MSADeviceCode", "XboxUser", "XboxAuthorization", "LauncherLogin",
                "Entitlements", "MinecraftProfile", "GetSkin">>
NeverFails == {"Entitlements", "GetSkin"}

Asking(what) == [asks |-> what, answer |-> "none"]
Flying == request.answer = "none" /\ request.asks # "nothing"
Answered(answer) == [request EXCEPT !.answer = answer]

LoginInit ==
    /\ flow = "queued" /\ step = 0 /\ request = Asking("nothing")
    /\ pollTimer = FALSE /\ expiry = FALSE /\ left = 0 /\ interval = 1
    /\ aborted = FALSE /\ codes = 0 /\ cancels = 0

-----------------------------------------------------------------------------
(* A flow that has ended stays as it ended.                                 *)
End(verdict) == flow' = IF flow = "Running" THEN verdict ELSE flow

(* What a step says when it is done; m_request is that of the next step.    *)
StepFails(answer) ==
    /\ End("Failed")
    /\ request' = Answered(answer)
    /\ UNCHANGED step

StepWorks(answer) ==
    IF flow = "Running" /\ step < Len(LoginSteps)
    THEN step' = step + 1 /\ request' = Asking("step") /\ UNCHANGED flow
    ELSE End("Succeeded") /\ request' = Answered(answer) /\ UNCHANGED step

(* The next poll, unless the code would not live to see it: then another    *)
(* code is asked for.                                                       *)
StartPollTimer(answer, stopped, wait) ==
    /\ interval' = wait
    /\ CASE stopped -> request' = Answered(answer) /\ UNCHANGED pollTimer
         [] ~stopped /\ (~expiry' \/ left' < wait) -> request' = Asking("code") /\ UNCHANGED pollTimer
         [] OTHER -> request' = Answered(answer) /\ pollTimer' = TRUE

StartFlow ==
    /\ flow = "queued" /\ flow' = "Running"
    /\ step' = 1 /\ request' = Asking("code")
    /\ UNCHANGED <<timerVars, aborted, codes, cancels>>

(* The server gives a code, or refuses.                                     *)
DeviceAuthorizationFinished ==
    /\ Flying /\ request.asks = "code"
    /\ \/ /\ StepFails("refused")
          /\ UNCHANGED <<timerVars, codes>>
       \/ /\ codes < MaxCodes /\ codes' = codes + 1
          /\ expiry' = TRUE /\ left' = Lifetime
          /\ StartPollTimer("code", aborted, 1)
          /\ UNCHANGED <<flow, step>>
    /\ UNCHANGED <<aborted, cancels>>

AuthenticateUser ==
    /\ pollTimer /\ pollTimer' = FALSE
    /\ left' = left - interval
    /\ request' = Asking("token")
    /\ UNCHANGED <<flow, step, expiry, interval, aborted, codes, cancels>>

(* Mutated form of KeepPolling: a lost poll ends the polling.               *)
KeepPollingUnlessLost(answer) ==
    /\ IF answer = "lost" THEN request' = Answered(answer) /\ UNCHANGED <<pollTimer, interval>>
       ELSE StartPollTimer(answer, aborted,
           CASE answer = "timeout" -> 2 * interval [] answer = "slow_down" -> interval + 1 [] OTHER -> interval)
    /\ UNCHANGED <<flow, step>>

(* The user has not approved yet, or the answer did not come through.       *)
KeepPolling(answer) ==
    /\ StartPollTimer(answer, aborted,
           CASE answer = "timeout" -> 2 * interval [] answer = "slow_down" -> interval + 1 [] OTHER -> interval)
    /\ UNCHANGED <<flow, step>>

(* A poll takes some of the time that the code has left.                    *)
AuthenticationFinished ==
    /\ Flying /\ request.asks = "token"
    /\ left' \in {t \in {left - 1, left} : t \in Nat}
    /\ \/ /\ UNCHANGED expiry
          /\ \E answer \in {"pending", "slow_down", "timeout", "lost"} : KeepPolling(answer)
       \/ StepFails("denied") /\ UNCHANGED <<pollTimer, expiry, interval>>
       \/ expiry' = FALSE /\ StepWorks("granted") /\ UNCHANGED <<pollTimer, interval>>
    /\ UNCHANGED <<aborted, codes, cancels>>

StepRequestDone ==
    /\ Flying /\ request.asks = "step"
    /\ StepWorks("ok") \/ (LoginSteps[step] \notin NeverFails /\ StepFails("error"))
    /\ UNCHANGED <<timerVars, aborted, codes, cancels>>

-----------------------------------------------------------------------------
(* The first step is stopped.  Aborting a poll concludes it, once more if   *)
(* it was answered; and the end of a poll, with no time left and before     *)
(* m_is_aborted is set, asks for another code.  The job that asks for a     *)
(* code tries again when its request is aborted.                            *)
AbortStep ==
    /\ aborted' = TRUE
    /\ expiry' = FALSE /\ pollTimer' = FALSE
    /\ IF request.asks = "token" /\ request.answer # "denied"
       THEN LET wait == CASE request.answer = "timeout" -> 2 * interval
                          [] request.answer = "slow_down" -> interval + 1
                          [] OTHER -> interval
            IN interval' = wait /\ request' = Asking("code")
       ELSE UNCHANGED <<interval, request>>
    /\ UNCHANGED <<left, step, codes>>

(* The code's time is over while a poll is under way or about to be made.   *)
CodeExpires ==
    /\ Expires /\ expiry
    /\ Flying \/ left <= interval
    /\ AbortStep
    /\ UNCHANGED <<flow, cancels>>

(* The steps that follow the first cannot be stopped.                       *)
CancelLogin ==
    /\ cancels < MaxCancels /\ cancels' = cancels + 1
    /\ End("AbortedByUser")
    /\ IF step = 1 THEN AbortStep ELSE UNCHANGED <<step, request, timerVars, aborted, codes>>

LoginNext ==
    \/ StartFlow \/ DeviceAuthorizationFinished \/ AuthenticateUser \/ AuthenticationFinished
    \/ StepRequestDone \/ CodeExpires \/ CancelLogin

LoginSpec == LoginInit /\ [][LoginNext]_loginVars

-----------------------------------------------------------------------------
(* "After the user approves, the task succeeds and the account is added":   *)
(* as long as a login has not ended, a poll is due or something is asked of *)
(* the server, and never both, whatever was answered before.                *)
LoginGoesOn == flow = "Running" => pollTimer # Flying
=============================================================================
