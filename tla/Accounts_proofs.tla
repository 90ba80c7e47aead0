-------------------------- MODULE Accounts_proofs ---------------------------
(***************************************************************************)
(* Theorems about AccountSession and DeviceLogin, for any client ids and   *)
(* any number of grants, restarts, codes and cancels.                      *)
(***************************************************************************)
EXTENDS AccountSession, DeviceLogin, TLAPS

Tokens == [login : Nat, grant : Nat]
Saved == [client : Clients, refresh : Tokens, msa : Tokens, user : Tokens, mojangservices : Tokens,
          yggdrasil : Tokens, dated : Tokens, profile : BOOLEAN]

SessionTyped ==
    /\ data \in Saved /\ entry \in Saved /\ unwritten \in BOOLEAN
    /\ client \in Clients /\ current \in 0..Len(Steps)
    /\ current # 0 => accountState = "Working"
    /\ grants \in Nat /\ ended \in SUBSET (1..grants)

(* The tokens of a refresh that are as new as its first one, by how far it  *)
(* has come: behind the k-th step the first k are.                          *)
Renewed(k) ==
    /\ k > 0 => data.refresh # NoToken
    /\ k > 1 => data.msa = data.refresh
    /\ k > 2 => data.user = data.msa
    /\ k > 3 => data.mojangservices = data.msa
    /\ k > 4 => data.yggdrasil = data.msa /\ data.dated = data.msa

(* A token that renews others, in memory or in the file, is of a login that *)
(* was made and has not ended.                                              *)
Alive(d) == d.refresh # NoToken => d.refresh.login \in (1..grants) \ ended

(* With OnlineIsGranted, which speaks of the end of a refresh only, goes    *)
(* what holds in the middle of one, and of what the file brings back.       *)
SessionInv ==
    /\ SessionTyped
    /\ Renewed(current)
    /\ accountState = "Online" => Renewed(Len(Steps))
    /\ Alive(data) /\ Alive(entry)
    /\ accountState = "Online" => entry = data \/ unwritten

LEMMA LenSteps == Len(Steps) = 7
BY DEF Steps

(* The index of each step.                                                  *)
LEMMA StepIndex ==
    ASSUME NEW k \in 0..Len(Steps), NEW named, k # 0 /\ Steps[k] = named
    PROVE  /\ named = "MSA" => k = 1
           /\ named = "XboxUser" => k = 2
           /\ named = "XboxAuthorization" => k = 3
           /\ named = "LauncherLogin" => k = 4
           /\ named = "Entitlements" => k = 5
           /\ named = "MinecraftProfile" => k = 6
           /\ named = "GetSkin" => k = 7
<1>1. k \in {1, 2, 3, 4, 5, 6, 7}
  BY LenSteps
<1> QED
  BY <1>1 DEF Steps

LEMMA SessionInitHolds == SessionInit => SessionInv
<1> SUFFICES ASSUME SessionInit PROVE SessionInv
  OBVIOUS
<1> DEFINE t == [login |-> 1, grant |-> 1]
<1>1. t \in Tokens /\ t # NoToken /\ t.login = 1
  BY DEF Tokens, NoToken
<1>2. SessionTyped
  <2>1. client \in Clients /\ data = FromGrant(t) /\ entry = data
    BY DEF SessionInit
  <2> HIDE DEF t
  <2>2. FromGrant(t) \in Saved
    BY <1>1, <2>1 DEF FromGrant, Saved
  <2>3. data \in Saved /\ entry \in Saved /\ client \in Clients
    BY <2>1, <2>2
  <2>4. /\ unwritten \in BOOLEAN /\ current = 0 /\ grants \in Nat
        /\ ended \in SUBSET (1..grants)
    BY DEF SessionInit
  <2> QED
    BY <2>3, <2>4, LenSteps DEF SessionTyped
<1>3. Renewed(7) /\ Renewed(0) /\ Alive(data) /\ Alive(entry)
  BY <1>1 DEF SessionInit, FromGrant, Renewed, Alive
<1> QED
  BY <1>2, <1>3, LenSteps DEF SessionInv, SessionInit

(* A failure that changes none of the tokens that renew others ends the     *)
(* refresh and leaves the account offline.                                  *)
LEMMA FailureKeeps ==
    ASSUME SessionInv, NEW state, state # "Online", NEW d \in Saved, d.refresh = data.refresh,
           Fails(state, d), UNCHANGED <<client, grants, ended>>
    PROVE  SessionInv'
<1>1. SessionTyped'
  BY LenSteps DEF SessionInv, SessionTyped, Fails
<1>2. Renewed(current)'
  BY DEF Renewed, Fails
<1>3. Alive(data)' /\ Alive(entry)'
  BY DEF SessionInv, Alive, Fails
<1> QED
  BY <1>1, <1>2, <1>3 DEF SessionInv, Fails

LEMMA UsualFailureKeeps ==
    ASSUME SessionInv, FailsAsUsual, UNCHANGED <<client, grants, ended>>
    PROVE  SessionInv'
<1>1. data \in Saved
  BY DEF SessionInv, SessionTyped
<1>2. PICK state \in {"Errored", "Offline"} : Fails(state, data)
  BY DEF FailsAsUsual
<1> QED
  BY <1>1, <1>2, FailureKeeps

(* A step that is done has renewed its token and left the others alone.     *)
LEMMA GoingOnKeeps ==
    ASSUME SessionInv, current \in 1..6, NEW d \in Saved, d.refresh # NoToken,
           current = 1 => d.msa = d.refresh,
           current > 1 => d.refresh = data.refresh /\ d.msa = data.msa,
           current = 2 => d.user = d.msa,
           current > 2 => d.user = data.user,
           current = 3 => d.mojangservices = d.msa,
           current > 3 => d.mojangservices = data.mojangservices,
           current = 4 => d.yggdrasil = d.msa /\ d.dated = d.msa,
           current > 4 => d.yggdrasil = data.yggdrasil /\ d.dated = data.dated,
           d.refresh.login = data.refresh.login,
           Goes(d), client' = client, ended' = ended, grants' \in Nat, grants' >= grants
    PROVE  SessionInv'
<1>1. SessionTyped'
  BY LenSteps DEF SessionInv, SessionTyped, Goes
<1>2. current' = current + 1 /\ data' = d /\ Renewed(current)
  BY DEF SessionInv, Goes
<1>3. Renewed(current)'
  BY <1>2 DEF Renewed
<1>4. grants \in Nat /\ data.refresh # NoToken
  BY <1>2 DEF Renewed, SessionInv, SessionTyped
<1>5. Alive(data)' /\ Alive(entry)'
  BY <1>2, <1>4 DEF SessionInv, Alive, Goes
<1>6. accountState' # "Online"
  BY DEF SessionInv, SessionTyped, Goes
<1> QED
  BY <1>1, <1>3, <1>5, <1>6 DEF SessionInv

(* The refresh token is there while a refresh runs.                         *)
LEMMA RenewsWithToken ==
    ASSUME SessionInv, current # 0
    PROVE  data.refresh \in Tokens /\ data.refresh # NoToken /\ current > 0
BY LenSteps DEF SessionInv, SessionTyped, Renewed, Saved

LEMMA RefreshKeeps == SessionInv /\ Refresh => SessionInv'
<1> SUFFICES ASSUME SessionInv, Refresh PROVE SessionInv'
  OBVIOUS
<1>1. CASE data.client # client \/ data.refresh = NoToken
  <2>1. Fails("Disabled", data) /\ data \in Saved /\ UNCHANGED <<client, grants, ended>>
    BY <1>1 DEF Refresh, SessionInv, SessionTyped
  <2> QED
    BY <2>1, FailureKeeps
<1>2. CASE ~(data.client # client \/ data.refresh = NoToken)
  <2>1. /\ current' = 1 /\ accountState' = "Working" /\ data.refresh # NoToken
        /\ UNCHANGED <<data, entry, unwritten, client, grants, ended>>
    BY <1>2 DEF Refresh
  <2> QED
    BY <2>1, LenSteps DEF SessionInv, SessionTyped, Renewed, Alive
<1> QED
  BY <1>1, <1>2

LEMMA MSAGrantedKeeps == SessionInv /\ MSAGranted => SessionInv'
<1> SUFFICES ASSUME SessionInv, MSAGranted PROVE SessionInv'
  OBVIOUS
<1> DEFINE t == [login |-> data.refresh.login, grant |-> grants']
           d == [data EXCEPT !.client = client, !.msa = t, !.refresh = t]
<1>1. current = 1
  BY StepIndex DEF MSAGranted, At, SessionInv, SessionTyped
<1>2. data \in Saved /\ client \in Clients /\ grants \in Nat /\ grants' = grants + 1 /\ Goes(d)
  BY DEF MSAGranted, SessionInv, SessionTyped
<1>3. data.refresh.login \in 1..grants
  BY <1>1, RenewsWithToken DEF SessionInv, Alive
<1>4. t \in Tokens /\ t # NoToken /\ t.login = data.refresh.login
  BY <1>2, <1>3 DEF Tokens, NoToken
<1> HIDE DEF t
<1>5. d \in Saved /\ d.refresh = t /\ d.msa = t
  BY <1>2, <1>4 DEF Saved
<1> HIDE DEF d
<1> QED
  BY <1>1, <1>2, <1>4, <1>5, GoingOnKeeps DEF MSAGranted

LEMMA MSAFailsKeeps == SessionInv /\ MSAFails => SessionInv'
<1> SUFFICES ASSUME SessionInv, MSAFails PROVE SessionInv'
  OBVIOUS
<1>1. CASE FailsAsUsual /\ UNCHANGED ended
  BY <1>1, UsualFailureKeeps DEF MSAFails
<1>2. CASE ~(FailsAsUsual /\ UNCHANGED ended)
  <2>1. PICK written \in BOOLEAN :
            /\ current' = 0 /\ accountState' = "Expired"
            /\ data' = Forgotten(data) /\ SaveList(written, data')
            /\ ended' = IF written THEN ended \cup {data.refresh.login} ELSE ended
    BY <1>2 DEF MSAFails
  <2>2. data \in Saved /\ entry \in Saved /\ grants \in Nat /\ ended \in SUBSET (1..grants)
    BY DEF SessionInv, SessionTyped
  <2>3. current # 0 /\ UNCHANGED <<client, grants>>
    BY DEF MSAFails, At
  <2>4. data.refresh.login \in 1..grants
    BY <2>3, RenewsWithToken DEF SessionInv, Alive
  <2>5. data' \in Saved /\ data'.refresh = NoToken
    BY <2>1, <2>2 DEF Forgotten, Saved, NoToken, Tokens
  <2>6. SessionTyped'
    <3>1. entry' \in Saved /\ unwritten' \in BOOLEAN
      BY <2>1, <2>2, <2>5 DEF SaveList
    <3>2. client' \in Clients /\ grants' \in Nat
      BY <2>3 DEF SessionInv, SessionTyped
    <3>3. ended' \in SUBSET (1..grants')
      BY <2>1, <2>2, <2>3, <2>4
    <3>4. current' \in 0..Len(Steps)
      BY <2>1, LenSteps
    <3> QED
      BY <2>1, <2>5, <3>1, <3>2, <3>3, <3>4 DEF SessionTyped
  <2>7. Alive(data)' /\ Alive(entry)'
    BY <2>1, <2>3, <2>5 DEF SaveList, SessionInv, Alive
  <2>8. Renewed(current)' /\ accountState' # "Online"
    BY <2>1 DEF Renewed
  <2> QED
    BY <2>6, <2>7, <2>8 DEF SessionInv
<1> QED
  BY <1>1, <1>2

LEMMA XboxUserKeeps == SessionInv /\ XboxUserDone => SessionInv'
<1> SUFFICES ASSUME SessionInv, XboxUserDone PROVE SessionInv'
  OBVIOUS
<1> DEFINE d == [data EXCEPT !.user = data.msa]
<1>1. current = 2 /\ data \in Saved /\ UNCHANGED <<client, grants, ended>> /\ grants \in Nat
  BY StepIndex DEF XboxUserDone, At, SessionInv, SessionTyped
<1>2. CASE FailsAsUsual
  BY <1>1, <1>2, UsualFailureKeeps
<1>3. CASE Goes(d)
  <2>1. d \in Saved /\ d.refresh = data.refresh /\ d.msa = data.msa /\ d.user = data.msa
    BY <1>1 DEF Saved
  <2>2. data.refresh # NoToken
    BY <1>1, RenewsWithToken
  <2> HIDE DEF d
  <2> QED
    BY <1>1, <1>3, <2>1, <2>2, GoingOnKeeps
<1> QED
  BY <1>2, <1>3 DEF XboxUserDone

LEMMA XboxAuthorizationKeeps == SessionInv /\ XboxAuthorizationDone => SessionInv'
<1> SUFFICES ASSUME SessionInv, XboxAuthorizationDone PROVE SessionInv'
  OBVIOUS
<1> DEFINE d == [data EXCEPT !.mojangservices = data.user]
<1>1. current = 3 /\ data \in Saved /\ UNCHANGED <<client, grants, ended>> /\ grants \in Nat
  BY StepIndex DEF XboxAuthorizationDone, At, SessionInv, SessionTyped
<1>2. CASE FailsAsUsual
  BY <1>1, <1>2, UsualFailureKeeps
<1>3. CASE Goes(d)
  <2>1. /\ d \in Saved /\ d.refresh = data.refresh /\ d.msa = data.msa /\ d.user = data.user
        /\ d.mojangservices = data.user
    BY <1>1 DEF Saved
  <2>2. data.refresh # NoToken /\ data.user = data.msa
    BY <1>1, RenewsWithToken DEF SessionInv, Renewed
  <2> HIDE DEF d
  <2> QED
    BY <1>1, <1>3, <2>1, <2>2, GoingOnKeeps
<1> QED
  BY <1>2, <1>3 DEF XboxAuthorizationDone

LEMMA LauncherLoginKeeps == SessionInv /\ LauncherLoginDone => SessionInv'
<1> SUFFICES ASSUME SessionInv, LauncherLoginDone PROVE SessionInv'
  OBVIOUS
<1> DEFINE t == data.mojangservices
           d == [data EXCEPT !.yggdrasil = t, !.dated = t]
           broken == [data EXCEPT !.dated = t]
<1>1. current = 4 /\ data \in Saved /\ UNCHANGED <<client, grants, ended>> /\ grants \in Nat
  BY StepIndex DEF LauncherLoginDone, At, SessionInv, SessionTyped
<1>2. CASE FailsAsUsual
  BY <1>1, <1>2, UsualFailureKeeps
<1>3. CASE Fails("Errored", broken)
  <2>1. broken \in Saved /\ broken.refresh = data.refresh
    BY <1>1 DEF Saved
  <2> HIDE DEF broken
  <2> QED
    BY <1>1, <1>3, <2>1, FailureKeeps
<1>4. CASE Goes(d)
  <2>1. /\ d \in Saved /\ d.refresh = data.refresh /\ d.msa = data.msa /\ d.user = data.user
        /\ d.mojangservices = t /\ d.yggdrasil = t /\ d.dated = t
    BY <1>1 DEF Saved
  <2>2. data.refresh # NoToken /\ t = data.msa
    BY <1>1, RenewsWithToken DEF SessionInv, Renewed
  <2> HIDE DEF d
  <2> QED
    BY <1>1, <1>4, <2>1, <2>2, GoingOnKeeps
<1> QED
  BY <1>2, <1>3, <1>4 DEF LauncherLoginDone

LEMMA EntitlementsKeeps == SessionInv /\ EntitlementsDone => SessionInv'
<1> SUFFICES ASSUME SessionInv, EntitlementsDone PROVE SessionInv'
  OBVIOUS
<1>1. current = 5 /\ data \in Saved /\ UNCHANGED <<client, grants, ended>> /\ grants \in Nat
  BY StepIndex DEF EntitlementsDone, At, SessionInv, SessionTyped
<1>2. data.refresh # NoToken /\ Goes(data)
  BY <1>1, RenewsWithToken DEF EntitlementsDone
<1> QED
  BY <1>1, <1>2, GoingOnKeeps

LEMMA MinecraftProfileKeeps == SessionInv /\ MinecraftProfileDone => SessionInv'
<1> SUFFICES ASSUME SessionInv, MinecraftProfileDone PROVE SessionInv'
  OBVIOUS
<1> DEFINE d(found) == [data EXCEPT !.profile = found]
<1>1. current = 6 /\ data \in Saved /\ UNCHANGED <<client, grants, ended>> /\ grants \in Nat
  BY StepIndex DEF MinecraftProfileDone, At, SessionInv, SessionTyped
<1>2. ASSUME NEW found \in BOOLEAN
      PROVE  /\ d(found) \in Saved /\ d(found).refresh = data.refresh /\ d(found).msa = data.msa
             /\ d(found).user = data.user /\ d(found).mojangservices = data.mojangservices
             /\ d(found).yggdrasil = data.yggdrasil /\ d(found).dated = data.dated
  BY <1>1 DEF Saved
<1>3. data.refresh # NoToken
  BY <1>1, RenewsWithToken
<1>4. CASE FailsAsUsual
  BY <1>1, <1>4, UsualFailureKeeps
<1>5. CASE Fails("Errored", d(FALSE))
  <2> HIDE DEF d
  <2> QED
    BY <1>1, <1>2, <1>5, FailureKeeps
<1>6. ASSUME NEW found \in BOOLEAN, Goes(d(found)) PROVE SessionInv'
  <2> HIDE DEF d
  <2> QED
    BY <1>1, <1>2, <1>3, <1>6, GoingOnKeeps
<1> QED
  BY <1>4, <1>5, <1>6 DEF MinecraftProfileDone

LEMMA GetSkinKeeps == SessionInv /\ GetSkinDone => SessionInv'
<1> SUFFICES ASSUME SessionInv, GetSkinDone PROVE SessionInv'
  OBVIOUS
<1>1. current = 7
  BY StepIndex DEF GetSkinDone, At, SessionInv, SessionTyped
<1>2. PICK written \in BOOLEAN : SaveList(written, data)
  BY DEF GetSkinDone
<1>3. /\ current' = 0 /\ accountState' = "Online" /\ data \in Saved /\ entry \in Saved
      /\ UNCHANGED <<data, client, grants, ended>>
  BY DEF GetSkinDone, SessionInv, SessionTyped
<1>4. entry' \in Saved /\ unwritten' \in BOOLEAN /\ (entry' = data' \/ unwritten')
  BY <1>2, <1>3 DEF SaveList
<1>5. SessionTyped'
  BY <1>3, <1>4, LenSteps DEF SessionInv, SessionTyped
<1>6. Renewed(7)' /\ Renewed(current)'
  BY <1>1, <1>3 DEF SessionInv, Renewed
<1>7. Alive(data)' /\ Alive(entry)'
  BY <1>2, <1>3 DEF SaveList, SessionInv, Alive
<1> QED
  BY <1>4, <1>5, <1>6, <1>7, LenSteps DEF SessionInv

LEMMA LogInKeeps == SessionInv /\ LogIn => SessionInv'
<1> SUFFICES ASSUME SessionInv, LogIn PROVE SessionInv'
  OBVIOUS
<1> DEFINE t == [login |-> grants', grant |-> grants']
<1>1. PICK written \in BOOLEAN : SaveList(written, data')
  BY DEF LogIn
<1>2. /\ current = 0 /\ grants \in Nat /\ grants' = grants + 1 /\ data' = FromGrant(t)
      /\ accountState' = "Online" /\ UNCHANGED <<current, client, ended>>
      /\ client \in Clients /\ entry \in Saved /\ ended \in SUBSET (1..grants)
  BY DEF LogIn, SessionInv, SessionTyped
<1>3. t \in Tokens /\ t # NoToken /\ t.login = grants'
  BY <1>2 DEF Tokens, NoToken
<1> HIDE DEF t
<1>4. FromGrant(t) \in Saved
  BY <1>2, <1>3 DEF FromGrant, Saved
<1>5. entry' \in Saved /\ unwritten' \in BOOLEAN /\ (entry' = data' \/ unwritten')
  BY <1>1, <1>2, <1>4 DEF SaveList
<1>6. grants' \in Nat /\ ended' \in SUBSET (1..grants') /\ grants' \in (1..grants') \ ended'
  BY <1>2
<1>7. SessionTyped'
  BY <1>2, <1>4, <1>5, <1>6 DEF SessionTyped
<1>8. Renewed(7)' /\ Renewed(current)'
  BY <1>2, <1>3 DEF Renewed, FromGrant
<1>9. Alive(data)'
  BY <1>2, <1>3, <1>6 DEF Alive, FromGrant
<1>10. Alive(entry)'
  <2>1. CASE written
    BY <1>1, <1>9, <2>1 DEF SaveList, Alive
  <2>2. CASE ~written
    BY <1>1, <1>2, <2>2 DEF SaveList, Alive, SessionInv
  <2> QED
    BY <2>1, <2>2
<1> QED
  BY <1>5, <1>7, <1>8, <1>9, <1>10, LenSteps DEF SessionInv

LEMMA ListChangesKeeps == SessionInv /\ ListChanges => SessionInv'
<1> SUFFICES ASSUME SessionInv, ListChanges PROVE SessionInv'
  OBVIOUS
<1>1. PICK written \in BOOLEAN : SaveList(written, data)
  BY DEF ListChanges
<1>2. UNCHANGED <<data, accountState, current, client, grants, ended>> /\ data \in Saved /\ entry \in Saved
  BY DEF ListChanges, SessionInv, SessionTyped
<1>3. entry' \in Saved /\ unwritten' \in BOOLEAN /\ (entry' = data' \/ unwritten')
  BY <1>1, <1>2 DEF SaveList
<1>4. SessionTyped'
  BY <1>2, <1>3 DEF SessionInv, SessionTyped
<1>5. Alive(data)' /\ Alive(entry)'
  BY <1>1, <1>2 DEF SaveList, SessionInv, Alive
<1> QED
  BY <1>2, <1>3, <1>4, <1>5 DEF SessionInv, Renewed

LEMMA RestartKeeps == SessionInv /\ Restart => SessionInv'
<1> SUFFICES ASSUME SessionInv, Restart PROVE SessionInv'
  OBVIOUS
<1>1. /\ data' = entry /\ entry' = entry /\ unwritten' = FALSE /\ client' \in Clients /\ current' = 0
      /\ accountState' = "Unchecked" /\ UNCHANGED <<grants, ended>>
  BY DEF Restart
<1>2. SessionTyped'
  <2>1. entry \in Saved /\ grants \in Nat /\ ended \in SUBSET (1..grants)
    BY DEF SessionInv, SessionTyped
  <2>2. /\ data' \in Saved /\ entry' \in Saved /\ unwritten' \in BOOLEAN
        /\ grants' \in Nat /\ ended' \in SUBSET (1..grants')
    BY <1>1, <2>1
  <2>3. current' \in 0..Len(Steps)
    BY <1>1, LenSteps
  <2> QED
    BY <1>1, <2>2, <2>3 DEF SessionTyped
<1>3. Renewed(current)' /\ Alive(data)' /\ Alive(entry)'
  BY <1>1 DEF SessionInv, Renewed, Alive
<1> QED
  BY <1>1, <1>2, <1>3 DEF SessionInv

LEMMA SessionStepKeeps == SessionInv /\ [SessionNext]_sessionVars => SessionInv'
<1>1. SessionInv /\ UNCHANGED sessionVars => SessionInv'
  BY DEF sessionVars, SessionInv, SessionTyped, Renewed, Alive
<1> QED
  BY <1>1, RefreshKeeps, MSAGrantedKeeps, MSAFailsKeeps, XboxUserKeeps, XboxAuthorizationKeeps,
     LauncherLoginKeeps, EntitlementsKeeps, MinecraftProfileKeeps, GetSkinKeeps, LogInKeeps,
     ListChangesKeeps, RestartKeeps DEF SessionNext

LEMMA OnlineFollows == SessionInv => OnlineIsGranted
BY LenSteps DEF SessionInv, SessionTyped, Renewed, Alive, OnlineIsGranted

(* However often an account is refreshed, loses its login, logs in again or *)
(* is read back, by whatever client and whether or not its list could be    *)
(* saved: while it is Online its tokens and their dates are of one grant,   *)
(* of a login that has not ended, and in the file.                          *)
THEOREM OnlineStaysGranted == SessionSpec => []OnlineIsGranted
<1> QED
  BY SessionInitHolds, SessionStepKeeps, OnlineFollows, PTL DEF SessionSpec


-----------------------------------------------------------------------------
(* DeviceLogin                                                              *)

Requests == [asks : {"nothing", "code", "token", "step"},
             answer : {"none", "refused", "code", "pending", "slow_down", "timeout", "lost", "denied",
                       "granted", "ok", "error"}]

(* With LoginGoesOn: only a flow that has ended was told to stop, and one   *)
(* that has not begun has not asked for anything.                           *)
LoginInv ==
    /\ flow \in {"queued", "Running", "Succeeded", "Failed", "AbortedByUser"}
    /\ pollTimer \in BOOLEAN /\ aborted \in BOOLEAN /\ request \in Requests
    /\ flow \in {"queued", "Running"} => ~aborted
    /\ flow = "queued" => step = 0 /\ ~pollTimer /\ request.asks = "nothing"
    /\ LoginGoesOn

LEMMA LoginInitHolds == LoginInit => LoginInv
<1> SUFFICES ASSUME LoginInit PROVE LoginInv
  OBVIOUS
<1>1. Asking("nothing") \in Requests /\ Asking("nothing").asks = "nothing"
  BY DEF Requests, Asking
<1> QED
  BY <1>1 DEF LoginInit, LoginInv, LoginGoesOn

(* A flow that has ended does not go on, and what it does then keeps only   *)
(* the types.                                                               *)
LEMMA EndedKeeps ==
    ASSUME LoginInv, flow' \in {"Succeeded", "Failed", "AbortedByUser"},
           pollTimer' \in BOOLEAN, aborted' \in BOOLEAN, request' \in Requests
    PROVE  LoginInv'
BY DEF LoginInv, LoginGoesOn

LEMMA Endings ==
    ASSUME LoginInv, NEW verdict \in {"Succeeded", "Failed", "AbortedByUser"}, End(verdict)
    PROVE  flow' \in {"queued", "Running", "Succeeded", "Failed", "AbortedByUser"} /\ flow' # "Running"
BY DEF LoginInv, End

(* An answer to what was asked.                                             *)
LEMMA AnsweredIs ==
    ASSUME LoginInv,
           NEW answer \in {"refused", "code", "pending", "slow_down", "timeout", "lost", "denied",
                           "granted", "ok", "error"}
    PROVE  /\ Answered(answer) \in Requests /\ Answered(answer).answer # "none"
BY DEF LoginInv, Answered, Requests

LEMMA AskingIs ==
    ASSUME NEW what \in {"code", "token", "step"}
    PROVE  Asking(what) \in Requests /\ Asking(what).asks = what /\ Asking(what).answer = "none"
BY DEF Asking, Requests

(* While something is asked of the server the flow has begun.               *)
LEMMA FlyingIsBegun ==
    ASSUME LoginInv, Flying \/ pollTimer
    PROVE  flow # "queued" /\ (flow = "Running" => pollTimer # Flying)
BY DEF LoginInv, LoginGoesOn, Flying

(* What a step says when it is done.                                        *)
LEMMA StepSaysKeeps ==
    ASSUME LoginInv, Flying,
           NEW answer \in {"refused", "denied", "granted", "ok", "error"},
           StepFails(answer) \/ StepWorks(answer),
           UNCHANGED <<pollTimer, aborted>>
    PROVE  LoginInv'
<1>1. /\ flow # "queued" /\ (flow = "Running" => ~pollTimer)
      /\ pollTimer' \in BOOLEAN /\ aborted' \in BOOLEAN
  BY FlyingIsBegun DEF LoginInv
<1>2. CASE request' = Answered(answer) /\ (End("Failed") \/ End("Succeeded"))
  <2>1. request' \in Requests
    BY <1>2, AnsweredIs
  <2>2. flow' \in {"Succeeded", "Failed", "AbortedByUser"}
    BY <1>1, <1>2 DEF End, LoginInv
  <2> QED
    BY <1>1, <2>1, <2>2, EndedKeeps
<1>3. CASE request' = Asking("step") /\ flow = "Running" /\ UNCHANGED flow
  BY <1>1, <1>3, AskingIs DEF LoginInv, LoginGoesOn, Flying
<1> QED
  BY <1>2, <1>3 DEF StepFails, StepWorks

(* The next poll is due, or another code is asked for.                      *)
LEMMA PollTimerKeeps ==
    ASSUME LoginInv, Flying, NEW wait,
           NEW answer \in {"code", "pending", "slow_down", "timeout", "lost"},
           StartPollTimer(answer, aborted, wait),
           UNCHANGED <<flow, step, aborted>>
    PROVE  LoginInv'
<1>1. /\ flow # "queued" /\ (flow = "Running" => ~pollTimer /\ ~aborted)
      /\ pollTimer \in BOOLEAN /\ aborted \in BOOLEAN /\ UNCHANGED <<flow, step, aborted>>
  BY FlyingIsBegun DEF LoginInv
<1>2. \/ aborted /\ request' = Answered(answer) /\ pollTimer' = pollTimer
      \/ request' = Asking("code") /\ pollTimer' = pollTimer
      \/ request' = Answered(answer) /\ pollTimer' = TRUE
  BY <1>1 DEF StartPollTimer
<1>3. /\ Answered(answer) \in Requests /\ Answered(answer).answer # "none"
      /\ Asking("code") \in Requests /\ Asking("code").asks = "code" /\ Asking("code").answer = "none"
  BY AnsweredIs, AskingIs
<1> QED
  BY <1>1, <1>2, <1>3 DEF LoginInv, LoginGoesOn, Flying

LEMMA CodeAnsweredKeeps == LoginInv /\ DeviceAuthorizationFinished => LoginInv'
<1> SUFFICES ASSUME LoginInv, DeviceAuthorizationFinished PROVE LoginInv'
  OBVIOUS
<1>1. Flying /\ UNCHANGED aborted
  BY DEF DeviceAuthorizationFinished
<1>2. CASE StepFails("refused") /\ UNCHANGED timerVars
  BY <1>1, <1>2, StepSaysKeeps DEF timerVars
<1>3. CASE StartPollTimer("code", aborted, 1) /\ UNCHANGED <<flow, step>>
  BY <1>1, <1>3, PollTimerKeeps
<1> QED
  BY <1>2, <1>3 DEF DeviceAuthorizationFinished

LEMMA PollAnsweredKeeps == LoginInv /\ AuthenticationFinished => LoginInv'
<1> SUFFICES ASSUME LoginInv, AuthenticationFinished PROVE LoginInv'
  OBVIOUS
<1>1. Flying /\ UNCHANGED aborted
  BY DEF AuthenticationFinished
<1>2. ASSUME NEW answer \in {"pending", "slow_down", "timeout", "lost"}, KeepPolling(answer)
      PROVE  LoginInv'
  BY <1>1, <1>2, PollTimerKeeps DEF KeepPolling
<1>3. CASE StepFails("denied") /\ UNCHANGED pollTimer
  BY <1>1, <1>3, StepSaysKeeps
<1>4. CASE StepWorks("granted") /\ UNCHANGED pollTimer
  BY <1>1, <1>4, StepSaysKeeps
<1> QED
  BY <1>2, <1>3, <1>4 DEF AuthenticationFinished

LEMMA StepAnsweredKeeps == LoginInv /\ StepRequestDone => LoginInv'
<1> SUFFICES ASSUME LoginInv, StepRequestDone PROVE LoginInv'
  OBVIOUS
<1>1. Flying /\ UNCHANGED <<pollTimer, aborted>>
  BY DEF StepRequestDone, timerVars
<1> QED
  BY <1>1, StepSaysKeeps DEF StepRequestDone

LEMMA CancelKeeps == LoginInv /\ CancelLogin => LoginInv'
<1> SUFFICES ASSUME LoginInv, CancelLogin PROVE LoginInv'
  OBVIOUS
<1>1. End("AbortedByUser")
  BY DEF CancelLogin
<1>2. CASE step = 1
  <2>1. AbortStep /\ flow # "queued"
    BY <1>2 DEF CancelLogin, LoginInv
  <2>2. flow' \in {"Succeeded", "Failed", "AbortedByUser"}
    BY <1>1, <2>1 DEF End, LoginInv
  <2>3. pollTimer' \in BOOLEAN /\ aborted' \in BOOLEAN
    BY <2>1 DEF AbortStep
  <2>4. request' \in Requests
    BY <2>1, AskingIs DEF AbortStep, LoginInv
  <2> QED
    BY <2>2, <2>3, <2>4, EndedKeeps
<1>3. CASE step # 1
  <2>1. UNCHANGED <<step, request, pollTimer, aborted>>
    BY <1>3 DEF CancelLogin, timerVars
  <2> QED
    BY <1>1, <2>1 DEF End, LoginInv, LoginGoesOn
<1> QED
  BY <1>2, <1>3

LEMMA LoginStepKeeps ==
    ASSUME Expires = FALSE
    PROVE  LoginInv /\ [LoginNext]_loginVars => LoginInv'
<1> SUFFICES ASSUME LoginInv, [LoginNext]_loginVars PROVE LoginInv'
  OBVIOUS
<1>1. CASE StartFlow
  BY <1>1, AskingIs DEF StartFlow, timerVars, LoginInv, LoginGoesOn, Flying
<1>2. CASE AuthenticateUser
  BY <1>2, FlyingIsBegun, AskingIs DEF AuthenticateUser, LoginInv, LoginGoesOn, Flying
<1>3. CASE UNCHANGED loginVars
  BY <1>3 DEF loginVars, timerVars, LoginInv, LoginGoesOn, Flying
<1> QED
  BY <1>1, <1>2, <1>3, CodeAnsweredKeeps, PollAnsweredKeeps, StepAnsweredKeeps, CancelKeeps
  DEF LoginNext, CodeExpires

(* Whatever the server answers, is slow to answer, or does not answer, and  *)
(* whenever the login is canceled: until it has ended either a poll is due  *)
(* or something is asked, and not both.  The code must not expire while a   *)
(* poll is under way, for that stops the first step but not the flow.       *)
THEOREM LoginKeepsGoing ==
    ASSUME Expires = FALSE
    PROVE  LoginSpec => []LoginGoesOn
<1>1. LoginInv /\ [LoginNext]_loginVars => LoginInv'
  BY LoginStepKeeps
<1>2. LoginInv => LoginGoesOn
  BY DEF LoginInv
<1> QED
  BY LoginInitHolds, <1>1, <1>2, PTL DEF LoginSpec
=============================================================================
