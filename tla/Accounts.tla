------------------------------ MODULE Accounts ------------------------------
(***************************************************************************)
(* Accounts: the refresh tokens of AuthService, the browser that holds one *)
(* of them in a cookie shared by its tabs (api/client.ts, AuthContext),    *)
(* and the seller applications whose approval changes a user's role        *)
(* (SellersService, SellerApplicationPage).                                *)
(*                                                                         *)
(* A tab's call is sent with the cookie of that moment, served by the      *)
(* backend in one transaction, and its answer is received later, or lost.  *)
(* The role that requests are judged by is the one in the access token,    *)
(* which is as old as the token.                                           *)
(***************************************************************************)
EXTENDS Naturals, FiniteSets

CONSTANTS
    Users,          \* e-mail addresses
    Tabs,           \* tabs of one browser
    Tokens,         \* refresh tokens (a bound on how many are issued)
    Applications,   \* ids of applications, in the order of createdAt
    MaxIncidents,   \* reloads, losses, expiries, sign-ins and sign-outs (a bound)
    MaxLosses,      \* answers that do not arrive (a bound)
    None            \* no token, no user, null

UserRole == {"CUSTOMER", "SELLER", "ADMIN"}
ApplicationStatus == {"PENDING", "APPROVED", "REJECTED"}
Refreshes == {"restore", "retry", "activate", "click"}
Calls == Refreshes \cup {"login", "logout"}

Claims == [user : Users, role : UserRole]
AccessTokens == [claims : Claims, valid : BOOLEAN]

ASSUME AccountsShape ==
    /\ None \notin Users \cup Tokens \cup Claims \cup AccessTokens \cup ApplicationStatus
    /\ Applications \subseteq Nat
    /\ MaxIncidents \in Nat /\ MaxLosses \in Nat

VARIABLES
    role,           \* users.role; "Absent" before the registration
    token,          \* the RefreshToken rows
    cookie,         \* the refresh cookie of the browser
    access,         \* a tab's access token: its claims, and whether it still verifies
    shown,          \* the user AuthContext shows
    initializing,   \* AuthContext.isInitializing
    call,           \* the calls a tab has in flight
    application,    \* the SellerApplication rows
    profiles,       \* the users that have a SellerProfile
    seen,           \* the status of the latest application, as a tab's page last read it
    activated,      \* the page's activated ref
    incidents, losses

accountsVars == <<role, token, cookie, access, shown, initializing, call, application,
          profiles, seen, activated, incidents, losses>>

database == <<role, token, application, profiles>>
page == <<seen, activated>>
browser == <<cookie, access, shown, initializing, call, seen, activated>>

Unissued == [status |-> "unissued", user |-> None, parent |-> None]
Idle == [stage |-> "idle", token |-> None, claims |-> None]
NoApplication == [status |-> "Absent", user |-> None]

AccountsTypeOK ==
    /\ role \in [Users -> UserRole \cup {"Absent"}]
    /\ token \in [Tokens -> [status : {"unissued", "live", "expired", "revoked"},
                             user : Users \cup {None}, parent : Tokens \cup {None}]]
    /\ cookie \in Tokens \cup {None}
    /\ access \in [Tabs -> AccessTokens \cup {None}]
    /\ shown \in [Tabs -> Claims \cup {None}]
    /\ initializing \in [Tabs -> BOOLEAN]
    /\ call \in [Tabs -> [Calls -> [stage : {"idle", "sent", "answered"},
                                    token : Tokens \cup {None},
                                    claims : Claims \cup {None}]]]
    /\ application \in [Applications -> [status : ApplicationStatus \cup {"Absent"},
                                         user : Users \cup {None}]]
    /\ profiles \subseteq Users
    /\ seen \in [Tabs -> ApplicationStatus \cup {None}]
    /\ activated \in [Tabs -> BOOLEAN]
    /\ incidents \in 0..MaxIncidents
    /\ losses \in 0..MaxLosses

AccountsInit ==
    /\ role = [u \in Users |-> "Absent"]
    /\ token = [t \in Tokens |-> Unissued]
    /\ cookie = None
    /\ access = [tab \in Tabs |-> None]
    /\ shown = [tab \in Tabs |-> None]
    /\ initializing = [tab \in Tabs |-> FALSE]
    /\ call = [tab \in Tabs |-> [kind \in Calls |-> Idle]]
    /\ application = [a \in Applications |-> NoApplication]
    /\ profiles = {}
    /\ seen = [tab \in Tabs |-> None]
    /\ activated = [tab \in Tabs |-> FALSE]
    /\ incidents = 0
    /\ losses = 0

Incident == incidents < MaxIncidents /\ incidents' = incidents + 1

---------------------------------------------------------------------------
(* The backend's side of a call.                                           *)

IsLive(t) == t # None /\ token[t].status = "live"

InFlight(tab, kind) == call[tab][kind].stage # "idle"

Answer(tab, kind, t, claims) ==
    call' = [call EXCEPT ![tab][kind] =
                [stage |-> "answered", token |-> t, claims |-> claims]]

\* issueTokens: a new row, a child of the token it replaces, and an access
\* token with the user's role at this moment.
IssueTokens(tab, kind, u, parent, rest) ==
    LET t == CHOOSE s \in Tokens : token[s] = Unissued
    IN  /\ \E s \in Tokens : token[s] = Unissued
        /\ token' = [rest EXCEPT ![t] =
                        [status |-> "live", user |-> u, parent |-> parent]]
        /\ Answer(tab, kind, t, [user |-> u, role |-> role'[u]])

\* register: only an address without a user; the unique index on email
\* decides between two of them.
ServeRegister(tab, u) ==
    /\ call[tab]["login"].stage = "sent"
    /\ role[u] = "Absent"
    /\ role' = [role EXCEPT ![u] = "CUSTOMER"]
    /\ IssueTokens(tab, "login", u, None, token)
    /\ UNCHANGED <<cookie, access, shown, initializing, application, profiles, page, incidents, losses>>

ServeLogin(tab, u) ==
    /\ call[tab]["login"].stage = "sent"
    /\ role[u] # "Absent"
    /\ UNCHANGED role
    /\ IssueTokens(tab, "login", u, None, token)
    /\ UNCHANGED <<cookie, access, shown, initializing, application, profiles, page, incidents, losses>>

RefuseLogin(tab) ==
    /\ call[tab]["login"].stage = "sent"
    /\ Answer(tab, "login", None, None)
    /\ UNCHANGED <<cookie, access, shown, initializing, database, page, incidents, losses>>

\* findOrCreateFromGoogleProfile: the user is created, and linked afterwards.
GoogleCreate(u) ==
    /\ role[u] = "Absent"
    /\ Incident
    /\ role' = [role EXCEPT ![u] = "CUSTOMER"]
    /\ UNCHANGED <<token, application, profiles, browser, losses>>

\* Mutant: the replaced token stays live.
ServeRefresh_NotRevoked(tab, kind) ==
    LET t == call[tab][kind].token
    IN  /\ kind \in Refreshes
        /\ call[tab][kind].stage = "sent"
        /\ IsLive(t)
        /\ UNCHANGED role
        /\ IssueTokens(tab, kind, token[t].user, t, token)
        /\ UNCHANGED <<cookie, access, shown, initializing, application, profiles, page, incidents, losses>>

\* refresh: the row is locked, checked, revoked and replaced in one transaction.
ServeRefresh(tab, kind) ==
    LET t == call[tab][kind].token
    IN  /\ kind \in Refreshes
        /\ call[tab][kind].stage = "sent"
        /\ IsLive(t)
        /\ UNCHANGED role
        /\ IssueTokens(tab, kind, token[t].user, t,
                       [token EXCEPT ![t].status = "revoked"])
        /\ UNCHANGED <<cookie, access, shown, initializing, application, profiles, page, incidents, losses>>

\* A missing, expired or revoked token.  When it is revoked, the user's other
\* tokens are revoked too, in the transaction that the exception then undoes.
RefuseRefresh(tab, kind) ==
    LET t == call[tab][kind].token
    IN  /\ kind \in Refreshes
        /\ call[tab][kind].stage = "sent"
        /\ ~IsLive(t)
        /\ Answer(tab, kind, None, None)
        /\ UNCHANGED <<cookie, access, shown, initializing, database, page, incidents, losses>>

ServeLogout(tab) ==
    LET t == call[tab]["logout"].token
    IN  /\ call[tab]["logout"].stage = "sent"
        /\ token' = IF t = None THEN token ELSE [token EXCEPT ![t].status = "revoked"]
        /\ Answer(tab, "logout", None, None)
        /\ UNCHANGED <<role, cookie, access, shown, initializing, application, profiles, page, incidents, losses>>

ExpireToken(t) ==
    /\ token[t].status = "live"
    /\ Incident
    /\ token' = [token EXCEPT ![t].status = "expired"]
    /\ UNCHANGED <<role, application, profiles, browser, losses>>

\* seed:admin, whether or not the account exists.
SyncSeedAdmin(u) ==
    /\ role[u] # "ADMIN"
    /\ Incident
    /\ role' = [role EXCEPT ![u] = "ADMIN"]
    /\ UNCHANGED <<token, application, profiles, browser, losses>>


---------------------------------------------------------------------------
(* The browser's side.                                                     *)

\* Only a verified access token gets past JwtAuthGuard.
Authenticated(tab) == access[tab] # None /\ access[tab].valid

\* ProtectedRoute: a page for signed-in users is there once the restoration is over.
Inside(tab) == shown[tab] # None /\ ~initializing[tab]

\* Every request carries the cookie of the moment it is sent.
Send(tab, kind) ==
    /\ ~InFlight(tab, kind)
    /\ call' = [call EXCEPT ![tab][kind] =
                    [stage |-> "sent", token |-> cookie, claims |-> None]]

\* A page load: the access token, kept in memory, is gone, and AuthProvider
\* tries to restore the session.  Answers to the page before it are lost.
Load(tab) ==
    /\ Incident
    /\ losses' = losses + (IF \E kind \in Calls : InFlight(tab, kind) THEN 1 ELSE 0)
    /\ losses' <= MaxLosses
    /\ access' = [access EXCEPT ![tab] = None]
    /\ shown' = [shown EXCEPT ![tab] = None]
    /\ initializing' = [initializing EXCEPT ![tab] = TRUE]
    /\ call' = [call EXCEPT ![tab] =
                    [kind \in Calls |-> IF kind = "restore"
                                       THEN [stage |-> "sent", token |-> cookie, claims |-> None]
                                       ELSE Idle]]
    /\ seen' = [seen EXCEPT ![tab] = None]
    /\ activated' = [activated EXCEPT ![tab] = FALSE]
    /\ UNCHANGED <<database, cookie>>

\* Google redirects the tab to the callback, whose answer sets the cookie and
\* redirects to a page that restores the session.
GoogleCallback(tab, u) ==
    LET t == CHOOSE s \in Tokens : token[s] = Unissued
    IN  /\ role[u] # "Absent"
        /\ Incident
        /\ \A kind \in Calls : ~InFlight(tab, kind)
        /\ \E s \in Tokens : token[s] = Unissued
        /\ token' = [token EXCEPT ![t] = [status |-> "live", user |-> u, parent |-> None]]
        /\ cookie' = t
        /\ access' = [access EXCEPT ![tab] = None]
        /\ shown' = [shown EXCEPT ![tab] = None]
        /\ initializing' = [initializing EXCEPT ![tab] = TRUE]
        /\ call' = [call EXCEPT ![tab]["restore"] =
                        [stage |-> "sent", token |-> t, claims |-> None]]
        /\ seen' = [seen EXCEPT ![tab] = None]
        /\ activated' = [activated EXCEPT ![tab] = FALSE]
        /\ UNCHANGED <<role, application, profiles, losses>>

ExpireAccess(tab) ==
    /\ access[tab] # None
    /\ access[tab].valid
    /\ Incident
    /\ access' = [access EXCEPT ![tab].valid = FALSE]
    /\ UNCHANGED <<database, cookie, shown, initializing, call, page, losses>>

\* A 401 of a request of a signed-in page: refreshAccessToken, of which one
\* at a time is in flight.
SendRetry(tab) ==
    /\ shown[tab] # None
    /\ ~Authenticated(tab)
    /\ Send(tab, "retry")
    /\ UNCHANGED <<database, cookie, access, shown, initializing, page, incidents, losses>>

SendLogin(tab) ==
    /\ Incident
    /\ Send(tab, "login")
    /\ UNCHANGED <<database, cookie, access, shown, initializing, page, losses>>

SendLogout(tab) ==
    /\ shown[tab] # None
    /\ Incident
    /\ Send(tab, "logout")
    /\ UNCHANGED <<database, cookie, access, shown, initializing, page, losses>>

\* Mutant: AuthContext does not listen to the token.
SetAccessToken_Unheard(tab, claims) ==
    /\ access' = [access EXCEPT ![tab] =
                    IF claims = None THEN None ELSE [claims |-> claims, valid |-> TRUE]]
    /\ UNCHANGED shown

\* setAccessToken: its listener signs the tab out when the token becomes null,
\* unless nothing changes or AuthContext is still initializing.
SetAccessToken(tab, claims) ==
    /\ access' = [access EXCEPT ![tab] =
                    IF claims = None THEN None ELSE [claims |-> claims, valid |-> TRUE]]
    /\ shown' = IF claims = None /\ access[tab] # None /\ ~initializing[tab]
                THEN [shown EXCEPT ![tab] = None]
                ELSE shown

SignIn(tab, claims) ==
    /\ access' = [access EXCEPT ![tab] =
                    IF claims = None THEN None ELSE [claims |-> claims, valid |-> TRUE]]
    /\ shown' = [shown EXCEPT ![tab] = claims]

\* What a tab does with an answer, or with none: claims = None stands for a 401.
Settle(tab, kind, claims) ==
    /\ CASE kind \in {"restore", "logout"} -> SignIn(tab, claims)
         [] kind = "retry" -> SetAccessToken(tab, claims)
         [] OTHER -> IF claims = None THEN SetAccessToken(tab, None) ELSE SignIn(tab, claims)
    /\ initializing' = IF kind = "restore"
                       THEN [initializing EXCEPT ![tab] = FALSE] ELSE initializing
    /\ activated' = [activated EXCEPT ![tab] =
                        @ /\ shown'[tab] # None /\ ~(kind = "activate" /\ claims = None)]
    /\ call' = [call EXCEPT ![tab][kind] = Idle]
    /\ UNCHANGED seen

\* An answer sets the cookie, or with a logout clears it, and reaches the page.
Receive(tab, kind) ==
    LET answer == call[tab][kind]
    IN  /\ answer.stage = "answered"
        /\ cookie' = IF kind = "logout" THEN None
                     ELSE IF answer.token # None THEN answer.token ELSE cookie
        /\ Settle(tab, kind, answer.claims)
        /\ UNCHANGED <<database, incidents, losses>>

\* A call fails without an answer, served or not: only the restoration, the
\* logout and the interceptor's refresh act on that.
Lose(tab, kind) ==
    /\ InFlight(tab, kind)
    /\ losses < MaxLosses
    /\ losses' = losses + 1
    /\ Incident
    /\ IF kind \in {"restore", "retry", "logout"}
       THEN Settle(tab, kind, None)
       ELSE /\ call' = [call EXCEPT ![tab][kind] = Idle]
            /\ activated' = IF kind = "activate"
                            THEN [activated EXCEPT ![tab] = FALSE] ELSE activated
            /\ UNCHANGED <<access, shown, initializing, seen>>
    /\ UNCHANGED <<database, cookie>>

---------------------------------------------------------------------------
(* Seller applications.                                                    *)

ApplicationsOf(u) == {a \in Applications : application[a].user = u}

\* The status of the user's application with the greatest createdAt.
LatestStatus(u) ==
    IF ApplicationsOf(u) = {} THEN None
    ELSE application[CHOOSE a \in ApplicationsOf(u) : \A b \in ApplicationsOf(u) : b <= a].status

\* applyForSeller judges by the role in the access token.  The partial unique
\* index closes the gap between its check for a PENDING row and the insert.
ApplyForSeller(tab, a) ==
    LET u == access[tab].claims.user
    IN  /\ Authenticated(tab)
        /\ access[tab].claims.role = "CUSTOMER"
        /\ application[a] = NoApplication
        /\ \A b \in Applications : b < a => application[b] # NoApplication
        /\ \A b \in ApplicationsOf(u) : application[b].status # "PENDING"
        /\ application' = [application EXCEPT ![a] = [status |-> "PENDING", user |-> u]]
        /\ UNCHANGED <<role, token, profiles, browser, incidents, losses>>

\* Mutant: an existing seller profile is no obstacle.
ApproveApplication_Again(a) ==
    LET u == application[a].user
    IN  /\ application[a].status = "PENDING"
        /\ application' = [application EXCEPT ![a].status = "APPROVED"]
        /\ profiles' = profiles \cup {u}
        /\ role' = [role EXCEPT ![u] = "SELLER"]
        /\ UNCHANGED <<token, browser, incidents, losses>>

ApproveApplication(a) ==
    LET u == application[a].user
    IN  /\ application[a].status = "PENDING"
        /\ u \notin profiles
        /\ application' = [application EXCEPT ![a].status = "APPROVED"]
        /\ profiles' = profiles \cup {u}
        /\ role' = [role EXCEPT ![u] = "SELLER"]
        /\ UNCHANGED <<token, browser, incidents, losses>>

RejectApplication(a) ==
    /\ application[a].status = "PENDING"
    /\ application' = [application EXCEPT ![a].status = "REJECTED"]
    /\ UNCHANGED <<role, token, profiles, browser, incidents, losses>>

\* Mutant: the page does not poll.
ReadApplications_Once(tab) ==
    /\ Inside(tab)
    /\ Authenticated(tab)
    /\ seen[tab] = None
    /\ seen' = [seen EXCEPT ![tab] = LatestStatus(access[tab].claims.user)]
    /\ UNCHANGED <<database, cookie, access, shown, initializing, call, activated, incidents, losses>>

\* The application page reads the applications when it is opened or its
\* query invalidated, and every fifteen seconds while the latest is PENDING.
ReadApplications(tab) ==
    /\ Inside(tab)
    /\ Authenticated(tab)
    /\ seen' = [seen EXCEPT ![tab] = LatestStatus(access[tab].claims.user)]
    /\ UNCHANGED <<database, cookie, access, shown, initializing, call, activated, incidents, losses>>

\* The page's effect: an approved customer's tab asks for a session with the new role.
Activate(tab) ==
    /\ seen[tab] = "APPROVED"
    /\ Inside(tab)
    /\ shown[tab].role = "CUSTOMER"
    /\ ~activated[tab]
    /\ activated' = [activated EXCEPT ![tab] = TRUE]
    /\ Send(tab, "activate")
    /\ UNCHANGED <<database, cookie, access, shown, initializing, seen, incidents, losses>>

\* The page's button asks for it too, whatever the effect is doing.
ClickActivate(tab) ==
    /\ seen[tab] = "APPROVED"
    /\ Inside(tab)
    /\ shown[tab].role = "CUSTOMER"
    /\ Incident
    /\ Send(tab, "click")
    /\ UNCHANGED <<database, cookie, access, shown, initializing, page, losses>>

---------------------------------------------------------------------------
Serve(tab, kind) ==
    \/ /\ kind = "login"
       /\ RefuseLogin(tab) \/ \E u \in Users : ServeRegister(tab, u) \/ ServeLogin(tab, u)
    \/ ServeRefresh(tab, kind) \/ RefuseRefresh(tab, kind)
    \/ kind = "logout" /\ ServeLogout(tab)

Browse(tab) ==
    \/ Load(tab) \/ ExpireAccess(tab)
    \/ \E u \in Users : GoogleCallback(tab, u)
    \/ SendRetry(tab) \/ SendLogin(tab) \/ SendLogout(tab)
    \/ \E kind \in Calls : Receive(tab, kind) \/ Lose(tab, kind)
    \/ ReadApplications(tab) \/ Activate(tab) \/ ClickActivate(tab)
    \/ \E a \in Applications : ApplyForSeller(tab, a)

AccountsNext ==
    \/ \E tab \in Tabs : Browse(tab) \/ \E kind \in Calls : Serve(tab, kind)
    \/ \E t \in Tokens : ExpireToken(t)
    \/ \E u \in Users : GoogleCreate(u) \/ SyncSeedAdmin(u)
    \/ \E a \in Applications : ApproveApplication(a) \/ RejectApplication(a)

AccountsSpec == AccountsInit /\ [][AccountsNext]_accountsVars

---------------------------------------------------------------------------
(* The refresh of AuthService locks the row it replaces: a token has one   *)
(* successor at most, and a token that has one is no longer live, so each  *)
(* sign-in is continued by one live token, however many tabs and retries   *)
(* present the same cookie.                                                *)
RotatedOnce ==
    /\ \A s, t \in Tokens :
          token[s].parent # None /\ token[s].parent = token[t].parent => s = t
    /\ \A t \in Tokens : token[t].parent # None => token[token[t].parent].status = "revoked"

(* Whatever restorations, retries, sign-ins and sign-outs overlap, a page  *)
(* that finished initializing and shows a user holds an access token, and  *)
(* as long as nobody else signs in with this browser, one of that user:    *)
(* AuthContext and api/client.ts set the two independently. After another  *)
(* account's sign-in in another tab, or before it in this one, a retry     *)
(* leaves a page that shows one user and acts for the other.               *)
OthersSignedIn(u) == \E t \in Tokens : token[t].user \notin {None, u}

ShownHoldsToken ==
    \A tab \in Tabs :
        shown[tab] # None /\ ~initializing[tab] =>
            /\ access[tab] # None
            /\ access[tab].claims.user # shown[tab].user => OthersSignedIn(shown[tab].user)

(* One application of a user at most is PENDING and one at most is ever    *)
(* APPROVED, exactly the approved users have a seller profile, and every   *)
(* SELLER has one, although the role an application is judged by is stale. *)
ApplicationsSound ==
    /\ \A a, b \in Applications :
          /\ application[a].user = application[b].user
          /\ application[a].status = application[b].status
          /\ application[a].status \in {"PENDING", "APPROVED"}
          => a = b
    /\ \A u \in Users :
          u \in profiles <=> \E a \in ApplicationsOf(u) : application[a].status = "APPROVED"
    /\ \A u \in Users : role[u] = "SELLER" => u \in profiles

(* README.md, "reuse detection revokes the whole session": a refresh with  *)
(* a revoked token leaves none of its user's tokens live.                  *)
ReuseRevokesAll ==
    [][\A tab \in Tabs, kind \in Refreshes :
          LET t == call[tab][kind].token
          IN  /\ RefuseRefresh(tab, kind)
              /\ t # None
              /\ token[t].status = "revoked"
              => \A s \in Tokens : token[s].user = token[t].user => token'[s].status # "live"]_accountsVars

(* The backend answers, the answers arrive, and a page's queries, effects  *)
(* and retries run as long as it is open.                                  *)
AccountsFairness ==
    /\ \A tab \in Tabs, kind \in {"restore", "retry", "activate"} :
          WF_accountsVars(Serve(tab, kind) \/ Receive(tab, kind))
    /\ \A tab \in Tabs : /\ WF_accountsVars(SendRetry(tab))
                         /\ WF_accountsVars(seen[tab] = "PENDING" /\ ReadApplications(tab))
                         /\ WF_accountsVars(Activate(tab))

AccountsFairSpec == AccountsSpec /\ AccountsFairness

(* A customer whose page waits for the review of an application gets the   *)
(* seller's session on that page once it is approved, or is signed out     *)
(* there, unless an answer is lost, the user moves on, or another account  *)
(* signs in with the browser: then the page reads the other's application. *)
SellerActivated ==
    \A tab \in Tabs, u \in Users :
        /\ seen[tab] = "PENDING"
        /\ shown[tab] = [user |-> u, role |-> "CUSTOMER"]
        /\ LatestStatus(u) = "APPROVED"
        ~>
        \/ shown[tab] # [user |-> u, role |-> "CUSTOMER"]
        \/ LatestStatus(u) # "APPROVED"
        \/ seen[tab] = None
        \/ OthersSignedIn(u)
        \/ losses > 0
=============================================================================
