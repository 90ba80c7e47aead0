--------------------------- MODULE AccountSession ---------------------------
(* One account with a Microsoft login over refreshes, logins and restarts:  *)
(* the flow that renews its tokens, each got in exchange for the one before *)
(* (AuthFlow and its steps), what MinecraftAccount makes of its end, and    *)
(* the entry of the account in accounts.json.  A token is known by the      *)
(* login and the grant of Microsoft's that it goes back to.                 *)
EXTENDS Naturals, Sequences

CONSTANTS Clients,      \* client ids the program was built with
          MaxGrants,    \* bound: tokens that Microsoft grants
          MaxRestarts   \* bound: restarts of the program

VARIABLES
    data,         \* AccountData: what is saved of it
    validity,     \* AccountData::validity_
    accountState, \* AccountData::accountState
    current,      \* m_currentStep of the refresh, as an index of Steps; 0 is none
    entry,        \* the account in the file
    unwritten,    \* history: has the last save failed?
    client,       \* getMSAClientID()
    grants,       \* tokens granted so far
    ended,        \* history: logins the server declared ended, as the file tells
    restarts

sessionVars == <<data, validity, accountState, current, entry, unwritten, client, grants, ended, restarts>>

Steps == <<"MSA", "XboxUser", "XboxAuthorization", "LauncherLogin", "Entitlements", "MinecraftProfile", "GetSkin">>
NoToken == [login |-> 0, grant |-> 0]

(* All tokens of one grant; dated is the one that the dates of the access   *)
(* token belong to.                                                         *)
FromGrant(t) ==
    [client |-> client, refresh |-> t, msa |-> t, user |-> t, mojangservices |-> t, yggdrasil |-> t, dated |-> t,
     profile |-> TRUE]

SessionInit ==
    /\ client \in Clients /\ grants = 1
    /\ data = FromGrant([login |-> 1, grant |-> 1]) /\ entry = data /\ unwritten = FALSE
    /\ validity = "Certain" /\ accountState = "Online" /\ current = 0
    /\ ended = {} /\ restarts = 0

(* AccountList::saveList: the file is replaced, or stays.                   *)
SaveList(written, d) ==
    /\ entry' = IF written THEN d ELSE entry
    /\ unwritten' = ~written

-----------------------------------------------------------------------------
(* The steps of a refresh *)

At(step) == current # 0 /\ Steps[current] = step

Goes(d) ==
    /\ current' = current + 1 /\ data' = d
    /\ UNCHANGED <<validity, accountState, entry, unwritten>>

(* A failure that the user may get over (AuthFlow::changeState, and         *)
(* MinecraftAccount::authFailed, which does nothing): nothing is saved.     *)
Fails(state, d) ==
    /\ current' = 0 /\ accountState' = state /\ data' = d
    /\ UNCHANGED <<validity, entry, unwritten>>

(* The answers that every step but MSA treats alike.                        *)
FailsAsUsual == \E state \in {"Errored", "Offline"} : Fails(state, data)

(* The flow begins, for an account whose tokens may be renewed.             *)
Refresh ==
    /\ current = 0 /\ validity # "None"
    /\ IF data.client # client \/ data.refresh = NoToken
       THEN Fails("Disabled", data)
       ELSE /\ current' = 1 /\ accountState' = "Working"
            /\ UNCHANGED <<data, validity, entry, unwritten>>
    /\ UNCHANGED <<client, grants, ended, restarts>>

MSAGranted ==
    /\ At("MSA") /\ grants < MaxGrants /\ grants' = grants + 1
    /\ LET t == [login |-> data.refresh.login, grant |-> grants']
       IN  Goes([data EXCEPT !.client = client, !.msa = t, !.refresh = t])
    /\ UNCHANGED <<client, ended, restarts>>

(* Mutated form of Forgotten: the token that renews the others is kept.     *)
ForgottenForNow(d) == [d EXCEPT !.msa = NoToken]

(* What authFailed clears when the login has ended.                         *)
Forgotten(d) == [d EXCEPT !.msa = NoToken, !.refresh = NoToken]

MSAFails ==
    /\ At("MSA")
    /\ \/ FailsAsUsual /\ UNCHANGED ended
       \/ \E written \in BOOLEAN :
            /\ current' = 0 /\ accountState' = "Expired" /\ validity' = "None"
            /\ data' = Forgotten(data) /\ SaveList(written, data')
            /\ ended' = IF written THEN ended \cup {data.refresh.login} ELSE ended
    /\ UNCHANGED <<client, grants, restarts>>

(* Each token is got with the one before; the user hash of the second has   *)
(* to be that of the first.                                                 *)
XboxUserDone ==
    /\ At("XboxUser")
    /\ Goes([data EXCEPT !.user = data.msa]) \/ FailsAsUsual
    /\ UNCHANGED <<client, grants, ended, restarts>>

XboxAuthorizationDone ==
    /\ At("XboxAuthorization")
    /\ Goes([data EXCEPT !.mojangservices = data.user]) \/ FailsAsUsual
    /\ UNCHANGED <<client, grants, ended, restarts>>

(* An answer that breaks off after its dates has already changed those.     *)
LauncherLoginDone ==
    LET t == data.mojangservices IN
    /\ At("LauncherLogin")
    /\ \/ Goes([data EXCEPT !.yggdrasil = t, !.dated = t])
       \/ FailsAsUsual \/ Fails("Errored", [data EXCEPT !.dated = t])
    /\ UNCHANGED <<client, grants, ended, restarts>>

EntitlementsDone ==
    /\ At("Entitlements") /\ Goes(data)
    /\ UNCHANGED <<client, grants, ended, restarts>>

(* An account need not have a profile; an answer that cannot be read takes  *)
(* it away.                                                                 *)
MinecraftProfileDone ==
    /\ At("MinecraftProfile")
    /\ \/ \E found \in BOOLEAN : Goes([data EXCEPT !.profile = found])
       \/ FailsAsUsual \/ Fails("Errored", [data EXCEPT !.profile = FALSE])
    /\ UNCHANGED <<client, grants, ended, restarts>>

(* The last step never fails, and the account is saved.                     *)
GetSkinDone ==
    /\ At("GetSkin") /\ current' = 0
    /\ accountState' = "Online" /\ validity' = "Certain"
    /\ \E written \in BOOLEAN : SaveList(written, data)
    /\ UNCHANGED <<data, client, grants, ended, restarts>>

-----------------------------------------------------------------------------
(* A login concludes, and its account takes the place of the one with the   *)
(* same profile.                                                            *)
LogIn ==
    /\ current = 0 /\ data.profile
    /\ grants < MaxGrants /\ grants' = grants + 1
    /\ data' = FromGrant([login |-> grants', grant |-> grants'])
    /\ validity' = "Certain" /\ accountState' = "Online"
    /\ \E written \in BOOLEAN : SaveList(written, data')
    /\ UNCHANGED <<current, client, ended, restarts>>

(* The list is saved for some other reason: an account was claimed or given *)
(* back, added or removed.                                                  *)
ListChanges ==
    /\ \E written \in BOOLEAN : SaveList(written, data)
    /\ UNCHANGED <<data, validity, accountState, current, client, grants, ended, restarts>>

(* The program ends, and maybe another version of it begins: the account is *)
(* as valid as its profile.                                                 *)
Restart ==
    /\ restarts < MaxRestarts /\ restarts' = restarts + 1
    /\ client' \in Clients
    /\ data' = entry /\ unwritten' = FALSE
    /\ validity' = IF entry.profile THEN "Assumed" ELSE "None"
    /\ accountState' = "Unchecked" /\ current' = 0
    /\ UNCHANGED <<entry, grants, ended>>

SessionNext ==
    \/ Refresh \/ MSAGranted \/ MSAFails \/ XboxUserDone \/ XboxAuthorizationDone \/ LauncherLoginDone
    \/ EntitlementsDone \/ MinecraftProfileDone \/ GetSkinDone
    \/ LogIn \/ ListChanges \/ Restart

SessionSpec == SessionInit /\ [][SessionNext]_sessionVars

-----------------------------------------------------------------------------
(* What a launch is given of an account that is Online goes back to one     *)
(* grant, with its dates, of a login that is not known to have ended; and   *)
(* it is what a restart would find, unless the file could not be written:   *)
(* whichever refreshes broke off half-way, and whatever was saved of them.  *)
OnlineIsGranted ==
    accountState = "Online" =>
        /\ {data.user, data.mojangservices, data.yggdrasil, data.dated} = {data.msa}
        /\ data.msa.login \notin ended
        /\ entry = data \/ unwritten
=============================================================================
