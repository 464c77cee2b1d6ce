--------------------------- MODULE AccountsProofs ---------------------------
(***************************************************************************)
(* The sessions and the applications of Accounts, for any number of users, *)
(* tabs, tokens and applications.                                          *)
(***************************************************************************)
EXTENDS Accounts, TLAPS

TokenRows == [status : {"unissued", "live", "expired", "revoked"},
              user : Users \cup {None}, parent : Tokens \cup {None}]

CallRows == [stage : {"idle", "sent", "answered"}, token : Tokens \cup {None},
             claims : Claims \cup {None}]

---------------------------------------------------------------------------
(* The tokens.                                                             *)

\* The cookie and the calls name tokens, and a live token is a registered
\* user's.
TokensSound ==
    /\ role \in [Users -> UserRole \cup {"Absent"}]
    /\ token \in [Tokens -> TokenRows]
    /\ cookie \in Tokens \cup {None}
    /\ call \in [Tabs -> [Calls -> CallRows]]
    /\ \A t \in Tokens :
        /\ token[t].status = "live" => token[t].user # None
        /\ token[t].user # None => role[token[t].user] # "Absent"

\* What a step may do to the rows: nothing; issue a token, as the child of a live
\* one, which it revokes, or of none; end a token.
Issues(t, u) ==
    /\ token[t] = Unissued
    /\ token' = [token EXCEPT ![t] = [status |-> "live", user |-> u, parent |-> None]]

Replaces(t, p) ==
    /\ token[t] = Unissued
    /\ token[p].status = "live"
    /\ token' = [[token EXCEPT ![p].status = "revoked"]
                    EXCEPT ![t] = [status |-> "live", user |-> token[p].user, parent |-> p]]

Ends(t) ==
    \/ token' = [token EXCEPT ![t].status = "revoked"]
    \/ token[t].status = "live" /\ token' = [token EXCEPT ![t].status = "expired"]

TokenStep ==
    \/ UNCHANGED token
    \/ \E t \in Tokens, u \in Users : Issues(t, u) /\ role'[u] # "Absent"
    \/ \E t, p \in Tokens : Replaces(t, p)
    \/ \E t \in Tokens : Ends(t)

\* Nobody's registration is undone.
RoleStep ==
    /\ role' \in [Users -> UserRole \cup {"Absent"}]
    /\ \A u \in Users : role[u] # "Absent" => role'[u] # "Absent"

\* The cookie and the calls of any step name tokens again; an answer's claims are
\* those of a token's user.
CallStep ==
    /\ cookie' \in Tokens \cup {None}
    /\ call' \in [Tabs -> [Calls -> CallRows]]

LEMMA UnissuedExists ==
  ASSUME \E s \in Tokens : token[s] = Unissued
  PROVE  LET t == CHOOSE s \in Tokens : token[s] = Unissued
         IN  t \in Tokens /\ token[t] = Unissued
  OBVIOUS

\* issueTokens: the row it writes is a new one, and the answer has its id and the
\* claims of its user.
LEMMA TokenIssued ==
  ASSUME NEW tab \in Tabs, NEW kind \in Calls, NEW u \in Users, NEW parent, NEW rest,
         role'[u] \in UserRole, TokensSound,
         IssueTokens(tab, kind, u, parent, rest)
  PROVE  \E t \in Tokens :
            /\ token[t] = Unissued
            /\ token' = [rest EXCEPT ![t] = [status |-> "live", user |-> u, parent |-> parent]]
            /\ Answer(tab, kind, t, [user |-> u, role |-> role'[u]])
            /\ call' \in [Tabs -> [Calls -> CallRows]]
  <1> DEFINE t == CHOOSE s \in Tokens : token[s] = Unissued
  <1>1. t \in Tokens /\ token[t] = Unissued
    BY UnissuedExists DEF IssueTokens
  <1>2. /\ token' = [rest EXCEPT ![t] = [status |-> "live", user |-> u, parent |-> parent]]
        /\ Answer(tab, kind, t, [user |-> u, role |-> role'[u]])
    BY DEF IssueTokens
  <1>3. [stage |-> "answered", token |-> t, claims |-> [user |-> u, role |-> role'[u]]] \in CallRows
    BY <1>1 DEF CallRows, Claims
  <1>4. call' \in [Tabs -> [Calls -> CallRows]]
    BY <1>2, <1>3 DEF Answer, TokensSound
  <1> QED
    BY <1>1, <1>2, <1>4

LEMMA StepServe ==
  ASSUME TokensSound, NEW tab \in Tabs, NEW kind \in Calls, Serve(tab, kind)
  PROVE  TokenStep /\ RoleStep /\ CallStep
  <1>a. TokensSound
    OBVIOUS
  <1> USE DEF TokensSound
  <1>0. "login" \in Calls /\ "logout" \in Calls /\ Idle \in CallRows
    BY DEF Calls, CallRows, Idle
  <1>1. ASSUME NEW k \in Calls, Answer(tab, k, None, None)
        PROVE  call' \in [Tabs -> [Calls -> CallRows]]
    BY <1>1 DEF Answer, CallRows
  <1>2. CASE kind = "login" /\ RefuseLogin(tab)
    BY <1>0, <1>1, <1>2 DEF RefuseLogin, database, TokenStep, RoleStep, CallStep
  <1>3. ASSUME NEW u \in Users, ServeRegister(tab, u) \/ ServeLogin(tab, u)
        PROVE  TokenStep /\ RoleStep /\ CallStep
    <2>1. role'[u] \in UserRole /\ IssueTokens(tab, "login", u, None, token) /\ cookie' = cookie
      BY <1>3 DEF ServeRegister, ServeLogin, UserRole
    <2>2. RoleStep
      BY <1>3 DEF ServeRegister, ServeLogin, RoleStep, UserRole
    <2>3. PICK t \in Tokens :
              /\ token[t] = Unissued
              /\ token' = [token EXCEPT ![t] = [status |-> "live", user |-> u, parent |-> None]]
              /\ call' \in [Tabs -> [Calls -> CallRows]]
      <3> HIDE DEF TokensSound
      <3> QED
        BY <2>1, <1>0, TokenIssued DEF IssueTokens, Answer
    <2>4. role'[u] # "Absent"
      BY <2>1 DEF UserRole
    <2> QED
      BY <2>1, <2>2, <2>3, <2>4 DEF TokenStep, CallStep, Issues
  <1>4. CASE ServeRefresh(tab, kind)
    <2> DEFINE p == call[tab][kind].token
               u == token[p].user
               rest == [token EXCEPT ![p].status = "revoked"]
    <2>1. p \in Tokens /\ token[p].status = "live" /\ role' = role /\ cookie' = cookie
      BY <1>4 DEF ServeRefresh, IsLive, CallRows
    <2>2. u \in Users /\ role'[u] \in UserRole
      BY <2>1 DEF TokenRows
    <2>3. IssueTokens(tab, kind, u, p, rest)
      BY <1>4 DEF ServeRefresh
    <2>4. PICK t \in Tokens :
              /\ token[t] = Unissued
              /\ token' = [rest EXCEPT ![t] = [status |-> "live", user |-> u, parent |-> p]]
              /\ call' \in [Tabs -> [Calls -> CallRows]]
      <3> HIDE DEF p, u, rest, TokensSound
      <3> QED
        BY <2>2, <2>3, TokenIssued DEF IssueTokens, Answer
    <2> QED
      BY <2>1, <2>4 DEF TokenStep, RoleStep, CallStep, Replaces
  <1>5. CASE RefuseRefresh(tab, kind)
    BY <1>1, <1>5 DEF RefuseRefresh, database, TokenStep, RoleStep, CallStep
  <1>6. CASE ServeLogout(tab)
    <2>1. call[tab]["logout"].token \in Tokens \cup {None}
      BY <1>0 DEF CallRows
    <2>2. TokenStep
      BY <1>6, <2>1 DEF ServeLogout, TokenStep, Ends
    <2> QED
      BY <1>0, <1>1, <1>6, <2>2 DEF ServeLogout, RoleStep, CallStep
  <1> QED
    BY <1>2, <1>3, <1>4, <1>5, <1>6 DEF Serve

LEMMA StepBrowse ==
  ASSUME TokensSound, NEW tab \in Tabs, Browse(tab)
  PROVE  TokenStep /\ RoleStep /\ CallStep
  <1> USE DEF TokensSound
  <1>0. /\ "restore" \in Calls /\ "retry" \in Calls /\ "activate" \in Calls
        /\ "click" \in Calls /\ "login" \in Calls /\ "logout" \in Calls
        /\ Idle \in CallRows
    BY DEF Calls, Refreshes, CallRows, Idle
  <1>1. ASSUME NEW k \in Calls, Send(tab, k)
        PROVE  call' \in [Tabs -> [Calls -> CallRows]]
    BY <1>1 DEF Send, CallRows
  <1>2. ASSUME NEW k \in Calls, NEW claims, Settle(tab, k, claims)
        PROVE  call' \in [Tabs -> [Calls -> CallRows]]
    BY <1>0, <1>2 DEF Settle
  <1>3. CASE Load(tab)
    <2>1. \A k \in Calls : [stage |-> "sent", token |-> cookie, claims |-> None] \in CallRows
      BY DEF CallRows
    <2>2. call' \in [Tabs -> [Calls -> CallRows]]
      BY <1>0, <1>3, <2>1 DEF Load
    <2> QED
      BY <1>3, <2>2 DEF Load, database, TokenStep, RoleStep, CallStep
  <1>4. ASSUME NEW u \in Users, GoogleCallback(tab, u) PROVE TokenStep /\ RoleStep /\ CallStep
    <2> DEFINE t == CHOOSE s \in Tokens : token[s] = Unissued
    <2>1. t \in Tokens /\ token[t] = Unissued
      BY <1>4, UnissuedExists DEF GoogleCallback
    <2>2. /\ token' = [token EXCEPT ![t] = [status |-> "live", user |-> u, parent |-> None]]
          /\ cookie' = t /\ role' = role /\ role[u] # "Absent"
          /\ call' = [call EXCEPT ![tab]["restore"] =
                        [stage |-> "sent", token |-> t, claims |-> None]]
      BY <1>4 DEF GoogleCallback
    <2>3. call' \in [Tabs -> [Calls -> CallRows]]
      BY <1>0, <2>1, <2>2 DEF CallRows
    <2> QED
      BY <2>1, <2>2, <2>3 DEF TokenStep, RoleStep, CallStep, Issues
  <1>5. CASE ExpireAccess(tab) \/ ReadApplications(tab)
    BY <1>5 DEF ExpireAccess, ReadApplications, database, TokenStep, RoleStep, CallStep
  <1>6. CASE \/ SendRetry(tab) \/ SendLogin(tab) \/ SendLogout(tab)
             \/ Activate(tab) \/ ClickActivate(tab)
    BY <1>0, <1>1, <1>6 DEF SendRetry, SendLogin, SendLogout, Activate, ClickActivate, database,
                            TokenStep, RoleStep, CallStep
  <1>7. ASSUME NEW k \in Calls, Receive(tab, k) PROVE TokenStep /\ RoleStep /\ CallStep
    <2>1. cookie' \in Tokens \cup {None}
      BY <1>7 DEF Receive, CallRows
    <2> QED
      BY <1>2, <1>7, <2>1 DEF Receive, database, TokenStep, RoleStep, CallStep
  <1>8. ASSUME NEW k \in Calls, Lose(tab, k) PROVE TokenStep /\ RoleStep /\ CallStep
    <2>1. call' \in [Tabs -> [Calls -> CallRows]]
      BY <1>0, <1>2, <1>8 DEF Lose
    <2> QED
      BY <1>8, <2>1 DEF Lose, database, TokenStep, RoleStep, CallStep
  <1>9. ASSUME NEW a \in Applications, ApplyForSeller(tab, a)
        PROVE  TokenStep /\ RoleStep /\ CallStep
    BY <1>9 DEF ApplyForSeller, browser, TokenStep, RoleStep, CallStep
  <1> QED
    BY <1>3, <1>4, <1>5, <1>6, <1>7, <1>8, <1>9 DEF Browse

LEMMA StepAny ==
  ASSUME TokensSound, [AccountsNext]_accountsVars
  PROVE  TokenStep /\ RoleStep /\ CallStep
  <1> USE DEF TokensSound
  <1>1. CASE UNCHANGED accountsVars
    BY <1>1 DEF accountsVars, TokenStep, RoleStep, CallStep
  <1>2. ASSUME NEW t \in Tokens, ExpireToken(t) PROVE TokenStep /\ RoleStep /\ CallStep
    BY <1>2 DEF ExpireToken, browser, TokenStep, Ends, RoleStep, CallStep
  <1>3. ASSUME NEW u \in Users, GoogleCreate(u) \/ SyncSeedAdmin(u)
        PROVE  TokenStep /\ RoleStep /\ CallStep
    BY <1>3 DEF GoogleCreate, SyncSeedAdmin, browser, UserRole, TokenStep, RoleStep, CallStep
  <1>4. ASSUME NEW a \in Applications, ApproveApplication(a) \/ RejectApplication(a)
        PROVE  TokenStep /\ RoleStep /\ CallStep
    BY <1>4 DEF ApproveApplication, RejectApplication, browser, UserRole, TokenStep, RoleStep,
                CallStep
  <1> QED
    BY <1>1, <1>2, <1>3, <1>4, StepBrowse, StepServe DEF AccountsNext

LEMMA TokensSoundHolds == AccountsInit => TokensSound
  <1> SUFFICES ASSUME AccountsInit PROVE TokensSound
    OBVIOUS
  <1>1. Unissued \in TokenRows /\ Idle \in CallRows
    BY DEF Unissued, TokenRows, Idle, CallRows
  <1> QED
    BY <1>1 DEF AccountsInit, TokensSound, Unissued

LEMMA TokensSoundStep ==
  ASSUME TokensSound, [AccountsNext]_accountsVars
  PROVE  TokensSound'
  <1>0. TokenStep /\ RoleStep /\ CallStep
    BY StepAny
  <1> USE DEF TokensSound
  <1> SUFFICES /\ token' \in [Tokens -> TokenRows]
               /\ \A t \in Tokens :
                    /\ token'[t].status = "live" => token'[t].user # None
                    /\ token'[t].user # None => role'[token'[t].user] # "Absent"
    BY <1>0 DEF RoleStep, CallStep
  <1>1. \A t \in Tokens : token[t].user # None => role'[token[t].user] # "Absent"
    BY <1>0 DEF RoleStep, TokenRows
  <1>2. CASE UNCHANGED token
    BY <1>1, <1>2
  <1>3. ASSUME NEW t \in Tokens, NEW u \in Users, Issues(t, u), role'[u] # "Absent"
        PROVE  /\ token' \in [Tokens -> TokenRows]
               /\ \A s \in Tokens :
                    /\ token'[s].status = "live" => token'[s].user # None
                    /\ token'[s].user # None => role'[token'[s].user] # "Absent"
    <2>1. [status |-> "live", user |-> u, parent |-> None] \in TokenRows
      BY DEF TokenRows
    <2>2. u # None
      BY AccountsShape
    <2> QED
      BY <1>1, <1>3, <2>1, <2>2 DEF Issues
  <1>4. ASSUME NEW t \in Tokens, NEW p \in Tokens, Replaces(t, p)
        PROVE  /\ token' \in [Tokens -> TokenRows]
               /\ \A s \in Tokens :
                    /\ token'[s].status = "live" => token'[s].user # None
                    /\ token'[s].user # None => role'[token'[s].user] # "Absent"
    <2> DEFINE rest == [token EXCEPT ![p].status = "revoked"]
    <2>1. /\ rest \in [Tokens -> TokenRows]
          /\ \A s \in Tokens : /\ rest[s].user = token[s].user
                               /\ rest[s].status = "live" => token[s].status = "live"
      BY DEF TokenRows
    <2>2. token[p].user \in Users /\ token[p].user # None
      BY <1>4 DEF Replaces, TokenRows
    <2>3. [status |-> "live", user |-> token[p].user, parent |-> p] \in TokenRows
      BY <2>2 DEF TokenRows
    <2>4. token' = [rest EXCEPT ![t] = [status |-> "live", user |-> token[p].user, parent |-> p]]
      BY <1>4 DEF Replaces
    <2> HIDE DEF rest
    <2> QED
      BY <1>1, <2>1, <2>2, <2>3, <2>4
  <1>5. ASSUME NEW t \in Tokens, Ends(t)
        PROVE  /\ token' \in [Tokens -> TokenRows]
               /\ \A s \in Tokens :
                    /\ token'[s].status = "live" => token'[s].user # None
                    /\ token'[s].user # None => role'[token'[s].user] # "Absent"
    <2>1. token' \in [Tokens -> TokenRows]
      BY <1>5 DEF Ends, TokenRows
    <2>2. \A s \in Tokens : /\ token'[s].user = token[s].user
                            /\ token'[s].status = "live" => token[s].status = "live"
      BY <1>5 DEF Ends, TokenRows
    <2> QED
      BY <1>1, <2>1, <2>2
  <1> QED
    BY <1>0, <1>2, <1>3, <1>4, <1>5 DEF TokenStep

---------------------------------------------------------------------------
(* One successor of a token.                                               *)

LEMMA RotatedOnceHolds == AccountsInit => RotatedOnce
  BY DEF AccountsInit, RotatedOnce, Unissued

LEMMA RotatedOnceStep ==
  ASSUME TokensSound, RotatedOnce, TokenStep
  PROVE  RotatedOnce'
  <1> USE DEF TokensSound
  <1>0. None \notin Tokens
    BY AccountsShape
  <1>1. CASE UNCHANGED token
    BY <1>1 DEF RotatedOnce
  <1>2. ASSUME NEW t \in Tokens, NEW u \in Users, Issues(t, u) PROVE RotatedOnce'
    <2>1. token[t].status = "unissued" /\ token'[t].parent = None
      BY <1>2 DEF Issues, Unissued
    <2>2. \A s \in Tokens \ {t} : token'[s] = token[s]
      BY <1>2 DEF Issues
    <2>3. \A s \in Tokens : token[s].parent # None =>
            token[s].parent \in Tokens \ {t} /\ token[token[s].parent].status = "revoked"
      BY <2>1 DEF RotatedOnce, TokenRows
    <2> QED
      BY <2>1, <2>2, <2>3 DEF RotatedOnce
  <1>3. ASSUME NEW t \in Tokens, NEW p \in Tokens, Replaces(t, p) PROVE RotatedOnce'
    <2>1. /\ token[t].status = "unissued" /\ token[p].status = "live" /\ t # p
          /\ token'[t].parent = p /\ token'[p].status = "revoked"
          /\ token'[p].parent = token[p].parent
          /\ \A s \in Tokens \ {t, p} : token'[s] = token[s]
      BY <1>3 DEF Replaces, Unissued, TokenRows
    <2>2. \A s \in Tokens : token[s].parent # None =>
            /\ token[s].parent \in Tokens \ {t, p}
            /\ token[token[s].parent].status = "revoked"
      BY <2>1 DEF RotatedOnce, TokenRows
    <2>3. \A s \in Tokens \ {t} : token'[s].parent = token[s].parent
      BY <2>1
    <2>4. \A s \in Tokens \ {t} : token'[s].parent # None =>
            /\ token'[s].parent \in Tokens \ {t, p}
            /\ token'[token'[s].parent].status = "revoked"
      BY <2>1, <2>2, <2>3
    <2>5. \A s, r \in Tokens \ {t} :
            token'[s].parent # None /\ token'[s].parent = token'[r].parent => s = r
      BY <2>3 DEF RotatedOnce
    <2> QED
      BY <2>1, <2>4, <2>5 DEF RotatedOnce
  <1>4. ASSUME NEW t \in Tokens, Ends(t) PROVE RotatedOnce'
    <2>1. \A s \in Tokens : /\ token'[s].parent = token[s].parent
                            /\ token[s].status = "revoked" => token'[s].status = "revoked"
      BY <1>4 DEF Ends, TokenRows
    <2>2. \A s \in Tokens : token[s].parent # None => token[s].parent \in Tokens
      BY DEF TokenRows
    <2> QED
      BY <2>1, <2>2 DEF RotatedOnce
  <1> QED
    BY <1>1, <1>2, <1>3, <1>4 DEF TokenStep

\* A refresh token is replaced at most once, and revoked when it is, for any
\* number of tabs, calls and users (refresh, issueTokens).
THEOREM RotatedOnceCorrect == AccountsSpec => []RotatedOnce
  <1>1. TokensSound /\ RotatedOnce /\ [AccountsNext]_accountsVars => (TokensSound /\ RotatedOnce)'
    BY TokensSoundStep, RotatedOnceStep, StepAny
  <1> QED
    BY TokensSoundHolds, RotatedOnceHolds, <1>1, PTL DEF AccountsSpec

---------------------------------------------------------------------------
(* Who is shown, and whose token is held.                                  *)

SignedIn(u) == \E t \in Tokens : token[t].user = u

\* An access token, and an answer on its way to become one, is of a user who has
\* signed in with this browser.
SessionsSound ==
    /\ access \in [Tabs -> AccessTokens \cup {None}]
    /\ shown \in [Tabs -> Claims \cup {None}]
    /\ initializing \in [Tabs -> BOOLEAN]
    /\ \A tab \in Tabs :
        /\ access[tab] # None => SignedIn(access[tab].claims.user)
        /\ \A kind \in Calls :
            call[tab][kind].claims # None => SignedIn(call[tab][kind].claims.user)

ShownInv == TokensSound /\ SessionsSound /\ ShownHoldsToken

\* No step forgets whose a token is.
LEMMA SignedInStays ==
  ASSUME TokensSound, TokenStep, NEW u \in Users, SignedIn(u)
  PROVE  SignedIn(u)'
  <1> USE DEF TokensSound
  <1>1. None \notin Users
    BY AccountsShape
  <1>2. PICK s \in Tokens : token[s].user = u
    BY DEF SignedIn
  <1>3. token[s] # Unissued
    BY <1>1, <1>2 DEF Unissued
  <1>4. CASE UNCHANGED token
    BY <1>2, <1>4 DEF SignedIn
  <1>5. ASSUME NEW t \in Tokens, NEW v \in Users, Issues(t, v) PROVE SignedIn(u)'
    BY <1>2, <1>3, <1>5 DEF Issues, SignedIn
  <1>6. ASSUME NEW t \in Tokens, NEW p \in Tokens, Replaces(t, p) PROVE SignedIn(u)'
    <2>1. t # s /\ token'[s].user = token[s].user
      BY <1>3, <1>6 DEF Replaces, TokenRows
    <2> QED
      BY <1>2, <2>1 DEF SignedIn
  <1>7. ASSUME NEW t \in Tokens, Ends(t) PROVE SignedIn(u)'
    <2>1. token'[s].user = token[s].user
      BY <1>7 DEF Ends, TokenRows
    <2> QED
      BY <1>2, <2>1 DEF SignedIn
  <1> QED
    BY <1>4, <1>5, <1>6, <1>7 DEF TokenStep

\* What the pages hold and show does not change, and neither do the answers on
\* their way but for those of a user who has signed in.
AnswersOnly ==
    /\ UNCHANGED <<access, shown, initializing>>
    /\ \A tab \in Tabs, kind \in Calls :
        \/ call'[tab][kind].claims \in {None, call[tab][kind].claims}
        \/ SignedIn(call[tab][kind].claims.user)'

LEMMA OthersStaySignedIn ==
  ASSUME TokensSound, TokenStep, NEW u, OthersSignedIn(u)
  PROVE  OthersSignedIn(u)'
  <1>1. PICK t \in Tokens : token[t].user \notin {None, u}
    BY DEF OthersSignedIn
  <1> DEFINE v == token[t].user
  <1>2. v \in Users
    BY <1>1 DEF TokensSound, TokenRows
  <1>3. SignedIn(v)
    BY DEF SignedIn
  <1> HIDE DEF v
  <1>4. \E s \in Tokens : token'[s].user = v
    <2>1. ASSUME NEW w \in Users, SignedIn(w) PROVE \E s \in Tokens : token'[s].user = w
      BY <2>1, SignedInStays DEF SignedIn
    <2> QED
      BY <1>2, <1>3, <2>1
  <1>5. v # None /\ v # u
    BY <1>1 DEF v
  <1> QED
    BY <1>4, <1>5 DEF OthersSignedIn

LEMMA AnswersOnlySound ==
  ASSUME ShownInv, TokenStep, AnswersOnly
  PROVE  SessionsSound' /\ ShownHoldsToken'
  <1> USE DEF ShownInv
  <1>1. \A u \in Users : SignedIn(u) => SignedIn(u)'
    BY SignedInStays
  <1>2. \A u : OthersSignedIn(u) => OthersSignedIn(u)'
    BY OthersStaySignedIn
  <1>3. ShownHoldsToken'
    BY <1>2 DEF AnswersOnly, ShownHoldsToken
  <1>4. ASSUME NEW tab \in Tabs, access[tab] # None PROVE SignedIn(access[tab].claims.user)'
    BY <1>1, <1>4 DEF SessionsSound, AccessTokens, Claims, AnswersOnly, SignedIn
  <1>5. ASSUME NEW tab \in Tabs, NEW kind \in Calls, call'[tab][kind].claims # None
        PROVE  SignedIn(call[tab][kind].claims.user)'
    <2> DEFINE c == call[tab][kind].claims
    <2>1. CASE call'[tab][kind].claims = c
      <3>1. c \in Claims /\ SignedIn(c.user)
        BY <1>5, <2>1 DEF SessionsSound, TokensSound, CallRows
      <3>2. c.user \in Users
        BY <3>1 DEF Claims
      <3>3. \E t \in Tokens : token'[t].user = c.user
        BY <1>1, <3>1, <3>2 DEF SignedIn
      <3> QED
        BY <2>1, <3>3 DEF SignedIn
    <2> QED
      BY <1>5, <2>1 DEF AnswersOnly
  <1> QED
    BY <1>3, <1>4, <1>5 DEF SessionsSound, AnswersOnly

\* A served call is answered with nothing, or for the user whose token it issues.
LEMMA ServeAnswers ==
  ASSUME TokensSound, NEW tab \in Tabs, NEW kind \in Calls, Serve(tab, kind)
  PROVE  AnswersOnly
  <1> USE DEF TokensSound
  <1>0. "login" \in Calls /\ "logout" \in Calls
    BY DEF Calls
  <1>1. ASSUME NEW k \in Calls, Answer(tab, k, None, None),
               UNCHANGED <<access, shown, initializing>>
        PROVE  AnswersOnly
    <2>1. \A b \in Tabs, l \in Calls : call'[b][l].claims \in {None, call[b][l].claims}
      BY <1>1 DEF Answer, CallRows
    <2> QED
      BY <1>1, <2>1 DEF AnswersOnly
  <1>2. ASSUME NEW k \in Calls, NEW u \in Users, NEW t \in Tokens, NEW claims,
               token'[t].user = u, claims.user = u,
               Answer(tab, k, t, claims),
               UNCHANGED <<access, shown, initializing>>
        PROVE  AnswersOnly
    <2>1. call'[tab][k].claims.user = token'[t].user
      BY <1>2 DEF Answer, CallRows
    <2>2. \A b \in Tabs, l \in Calls :
            <<b, l>> # <<tab, k>> => call'[b][l].claims = call[b][l].claims
      BY <1>2 DEF Answer, CallRows
    <2>3. SignedIn(call[tab][k].claims.user)'
      BY <2>1 DEF SignedIn
    <2> QED
      BY <1>2, <2>2, <2>3 DEF AnswersOnly
  <1>3. CASE kind = "login" /\ RefuseLogin(tab)
    BY <1>0, <1>1, <1>3 DEF RefuseLogin
  <1>4. ASSUME NEW u \in Users, ServeRegister(tab, u) \/ ServeLogin(tab, u)
        PROVE  AnswersOnly
    <2> DEFINE t == CHOOSE s \in Tokens : token[s] = Unissued
    <2>1. t \in Tokens
      BY <1>4, UnissuedExists DEF ServeRegister, ServeLogin, IssueTokens
    <2>2. /\ token' = [token EXCEPT ![t] = [status |-> "live", user |-> u, parent |-> None]]
          /\ Answer(tab, "login", t, [user |-> u, role |-> role'[u]])
          /\ UNCHANGED <<access, shown, initializing>>
      BY <1>4 DEF ServeRegister, ServeLogin, IssueTokens
    <2>3. token'[t].user = u
      BY <2>1, <2>2
    <2> HIDE DEF t
    <2> QED
      BY <1>0, <1>2, <2>1, <2>2, <2>3
  <1>5. CASE ServeRefresh(tab, kind)
    <2> DEFINE t == CHOOSE s \in Tokens : token[s] = Unissued
               p == call[tab][kind].token
               u == token[p].user
               rest == [token EXCEPT ![p].status = "revoked"]
    <2>1. t \in Tokens
      BY <1>5, UnissuedExists DEF ServeRefresh, IssueTokens
    <2>2. /\ token' = [rest EXCEPT ![t] = [status |-> "live", user |-> u, parent |-> p]]
          /\ Answer(tab, kind, t, [user |-> u, role |-> role'[u]])
          /\ UNCHANGED <<access, shown, initializing>>
      BY <1>5 DEF ServeRefresh, IssueTokens
    <2>3. p \in Tokens /\ token[p].status = "live"
      BY <1>5 DEF ServeRefresh, IsLive, CallRows
    <2>4. u \in Users /\ token'[t].user = u
      BY <2>1, <2>2, <2>3 DEF TokenRows
    <2> HIDE DEF t, u
    <2> QED
      BY <1>2, <2>1, <2>2, <2>4
  <1>6. CASE RefuseRefresh(tab, kind)
    BY <1>1, <1>6 DEF RefuseRefresh
  <1>7. CASE ServeLogout(tab)
    BY <1>0, <1>1, <1>7 DEF ServeLogout
  <1> QED
    BY <1>3, <1>4, <1>5, <1>6, <1>7 DEF Serve

LEMMA FreshAccess ==
  \A c \in Claims : [claims |-> c, valid |-> TRUE] \in AccessTokens
  BY DEF AccessTokens

\* However a tab settles a call, it holds a token if it shows a user.
LEMMA SettleSound ==
  ASSUME ShownInv, NEW tab \in Tabs, NEW kind \in Calls, NEW claims \in Claims \cup {None},
         claims # None => SignedIn(claims.user),
         Settle(tab, kind, claims), UNCHANGED token
  PROVE  SessionsSound' /\ ShownHoldsToken'
  <1> USE DEF ShownInv
  <1> DEFINE held == IF claims = None THEN None ELSE [claims |-> claims, valid |-> TRUE]
  <1>0. /\ None \notin Users /\ None \notin AccessTokens
        /\ held \in AccessTokens \cup {None}
        /\ claims # None => held # None /\ held.claims = claims /\ claims.user \in Users
        /\ claims = None => held = None
    <2>1. None \notin Users /\ None \notin AccessTokens
      BY AccountsShape
    <2>2. CASE claims = None
      BY <2>1, <2>2
    <2>3. CASE claims # None
      <3>0. claims \in Claims
        BY <2>3
      <3>1. held = [claims |-> claims, valid |-> TRUE]
        BY <2>3
      <3>2. held \in AccessTokens
        BY <3>0, <3>1, FreshAccess
      <3>3. claims.user \in Users
        BY <3>0 DEF Claims
      <3> HIDE DEF held
      <3>4. held # None
        BY <2>1, <3>2
      <3> QED
        BY <2>1, <2>3, <3>1, <3>2, <3>3, <3>4
    <2> QED
      BY <2>2, <2>3
  <1>1. /\ access' = [access EXCEPT ![tab] = held]
        /\ call' = [call EXCEPT ![tab][kind] = Idle]
        /\ initializing' = IF kind = "restore" THEN [initializing EXCEPT ![tab] = FALSE]
                           ELSE initializing
    BY DEF Settle, SignIn, SetAccessToken
  <1>2. \/ shown' = [shown EXCEPT ![tab] = claims]
        \/ /\ kind # "restore"
           /\ shown' = IF claims = None /\ access[tab] # None /\ ~initializing[tab]
                       THEN [shown EXCEPT ![tab] = None] ELSE shown
    BY DEF Settle, SignIn, SetAccessToken
  <1> HIDE DEF held
  <1>3. SessionsSound'
    <2>1. /\ access' \in [Tabs -> AccessTokens \cup {None}]
          /\ shown' \in [Tabs -> Claims \cup {None}]
          /\ initializing' \in [Tabs -> BOOLEAN]
      BY <1>0, <1>1, <1>2 DEF SessionsSound
    <2>2. ASSUME NEW b \in Tabs, access'[b] # None PROVE SignedIn(access[b].claims.user)'
      BY <1>0, <1>1, <2>2 DEF SessionsSound, SignedIn
    <2>3. ASSUME NEW b \in Tabs, NEW k \in Calls, call'[b][k].claims # None
          PROVE  SignedIn(call[b][k].claims.user)'
      <3>1. call'[b][k] = call[b][k]
        BY <1>1, <2>3 DEF TokensSound, Idle
      <3> QED
        BY <2>3, <3>1 DEF SessionsSound, SignedIn
    <2> QED
      BY <2>1, <2>2, <2>3 DEF SessionsSound
  <1>4. ASSUME NEW b \in Tabs, shown'[b] # None, ~initializing'[b]
        PROVE  /\ access'[b] # None
               /\ access'[b].claims.user # shown'[b].user => OthersSignedIn(shown[b].user)'
    <2>1. CASE b # tab
      BY <1>1, <1>2, <1>4, <2>1 DEF SessionsSound, ShownHoldsToken, OthersSignedIn
    <2>2. CASE b = tab /\ shown'[tab] = claims
      BY <1>0, <1>1, <1>4, <2>2 DEF SessionsSound
    <2>3. CASE b = tab /\ shown'[tab] # claims
      <3>1. /\ kind # "restore" /\ initializing' = initializing
            /\ shown' = IF claims = None /\ access[tab] # None /\ ~initializing[tab]
                        THEN [shown EXCEPT ![tab] = None] ELSE shown
        BY <1>1, <1>2, <2>3 DEF SessionsSound
      <3>2. claims # None
        BY <1>4, <2>3, <3>1 DEF SessionsSound, ShownHoldsToken
      <3>3. shown' = shown /\ access'[tab].claims = claims /\ access'[tab] # None
        BY <1>0, <1>1, <3>1, <3>2 DEF SessionsSound
      <3>4. claims.user # shown[tab].user => OthersSignedIn(shown[tab].user)
        BY <1>0, <3>2 DEF SignedIn, OthersSignedIn
      <3> QED
        BY <2>3, <3>3, <3>4 DEF OthersSignedIn
    <2> QED
      BY <2>1, <2>2, <2>3
  <1> QED
    BY <1>3, <1>4 DEF ShownHoldsToken

\* A page that is loaded shows nobody until its session is restored.
LEMMA LoadedSound ==
  ASSUME ShownInv, TokenStep, NEW tab \in Tabs,
         access' = [access EXCEPT ![tab] = None],
         shown' = [shown EXCEPT ![tab] = None],
         initializing' = [initializing EXCEPT ![tab] = TRUE],
         \A b \in Tabs, k \in Calls : call'[b][k].claims \in {None, call[b][k].claims}
  PROVE  SessionsSound' /\ ShownHoldsToken'
  <1> USE DEF ShownInv
  <1>1. /\ access' \in [Tabs -> AccessTokens \cup {None}]
        /\ shown' \in [Tabs -> Claims \cup {None}]
        /\ initializing' \in [Tabs -> BOOLEAN]
    BY DEF SessionsSound
  <1>2. \A u \in Users : SignedIn(u) => \E s \in Tokens : token'[s].user = u
    BY SignedInStays DEF SignedIn
  <1>3. ASSUME NEW b \in Tabs, access'[b] # None PROVE SignedIn(access[b].claims.user)'
    <2>1. b # tab /\ access'[b] = access[b] /\ access[b] \in AccessTokens
      BY <1>3 DEF SessionsSound
    <2>2. access[b].claims.user \in Users /\ SignedIn(access[b].claims.user)
      BY <1>3, <2>1 DEF SessionsSound, AccessTokens, Claims
    <2>3. \E s \in Tokens : token'[s].user = access[b].claims.user
      BY <1>2, <2>2 DEF SignedIn
    <2> QED
      BY <2>1, <2>3 DEF SignedIn
  <1>4. ASSUME NEW b \in Tabs, NEW k \in Calls, call'[b][k].claims # None
        PROVE  SignedIn(call[b][k].claims.user)'
    <2> DEFINE c == call[b][k].claims
    <2>1. call'[b][k].claims = c /\ c \in Claims /\ SignedIn(c.user)
      BY <1>4 DEF SessionsSound, TokensSound, CallRows
    <2>2. c.user \in Users
      BY <2>1 DEF Claims
    <2>3. \E s \in Tokens : token'[s].user = c.user
      BY <1>2, <2>1, <2>2 DEF SignedIn
    <2> QED
      BY <2>1, <2>3 DEF SignedIn
  <1>5. \A u : OthersSignedIn(u) => OthersSignedIn(u)'
    BY OthersStaySignedIn
  <1>6. ASSUME NEW b \in Tabs, shown'[b] # None, ~initializing'[b]
        PROVE  /\ access'[b] # None
               /\ access'[b].claims.user # shown'[b].user => OthersSignedIn(shown[b].user)'
    <2>1. b # tab /\ access'[b] = access[b] /\ shown'[b] = shown[b] /\ ~initializing[b]
      BY <1>6 DEF SessionsSound
    <2> DEFINE u == shown[b].user
    <2>2. access[b] # None /\ (access[b].claims.user # u => OthersSignedIn(u))
      BY <1>6, <2>1 DEF ShownHoldsToken
    <2>3. OthersSignedIn(u) => \E s \in Tokens : token'[s].user \notin {None, u}
      BY <1>5 DEF OthersSignedIn
    <2> QED
      BY <2>1, <2>2, <2>3 DEF OthersSignedIn
  <1> QED
    BY <1>1, <1>3, <1>4, <1>6 DEF SessionsSound, ShownHoldsToken

LEMMA BrowseSound ==
  ASSUME ShownInv, NEW tab \in Tabs, Browse(tab)
  PROVE  SessionsSound' /\ ShownHoldsToken'
  <1> USE DEF ShownInv
  <1>0. /\ "restore" \in Calls /\ "retry" \in Calls /\ "activate" \in Calls
        /\ "click" \in Calls /\ "login" \in Calls /\ "logout" \in Calls
        /\ Idle.claims = None
    BY DEF Calls, Refreshes, Idle
  <1>1. TokenStep
    BY StepBrowse
  <1>2. ASSUME NEW k \in Calls, Send(tab, k), UNCHANGED <<access, shown, initializing>>
        PROVE  SessionsSound' /\ ShownHoldsToken'
    <2>1. \A b \in Tabs, l \in Calls : call'[b][l].claims \in {None, call[b][l].claims}
      BY <1>2 DEF Send, TokensSound, CallRows
    <2> QED
      BY <1>1, <1>2, <2>1, AnswersOnlySound DEF AnswersOnly
  <1>3. CASE Load(tab)
    <2>1. \A b \in Tabs, l \in Calls : call'[b][l].claims \in {None, call[b][l].claims}
      BY <1>0, <1>3 DEF Load, TokensSound, CallRows
    <2> QED
      BY <1>0, <1>1, <1>3, <2>1, LoadedSound DEF Load
  <1>4. ASSUME NEW u \in Users, GoogleCallback(tab, u) PROVE SessionsSound' /\ ShownHoldsToken'
    <2>1. \A b \in Tabs, l \in Calls : call'[b][l].claims \in {None, call[b][l].claims}
      BY <1>0, <1>4 DEF GoogleCallback, TokensSound, CallRows
    <2> QED
      BY <1>0, <1>1, <1>4, <2>1, LoadedSound DEF GoogleCallback
  <1>5. CASE ExpireAccess(tab)
    <2>1. /\ access[tab] \in AccessTokens
          /\ access' = [access EXCEPT ![tab].valid = FALSE]
          /\ UNCHANGED <<token, call, shown, initializing>>
      BY <1>5 DEF ExpireAccess, SessionsSound, database
    <2>2. /\ access'[tab] \in AccessTokens /\ access'[tab].claims = access[tab].claims
          /\ access' = [access EXCEPT ![tab] = access'[tab]]
      BY <2>1 DEF SessionsSound, AccessTokens
    <2>3. \A b \in Tabs : /\ access'[b] # None <=> access[b] # None
                          /\ access[b] # None => access'[b].claims = access[b].claims
      BY <2>1, <2>2, AccountsShape DEF SessionsSound
    <2>4. access' \in [Tabs -> AccessTokens \cup {None}]
      BY <2>2 DEF SessionsSound
    <2>5. SessionsSound'
      BY <2>1, <2>3, <2>4 DEF SessionsSound, SignedIn
    <2>6. ShownHoldsToken'
      BY <2>1, <2>3 DEF ShownHoldsToken, OthersSignedIn
    <2> QED
      BY <2>5, <2>6
  <1>6. CASE ReadApplications(tab) \/ \E a \in Applications : ApplyForSeller(tab, a)
    <2>1. UNCHANGED <<access, shown, initializing, call>>
      BY <1>6 DEF ReadApplications, ApplyForSeller, browser
    <2> QED
      BY <1>1, <2>1, AnswersOnlySound DEF AnswersOnly
  <1>7. CASE \/ SendRetry(tab) \/ SendLogin(tab) \/ SendLogout(tab)
             \/ Activate(tab) \/ ClickActivate(tab)
    BY <1>0, <1>2, <1>7 DEF SendRetry, SendLogin, SendLogout, Activate, ClickActivate
  <1>8. ASSUME NEW k \in Calls, Receive(tab, k) PROVE SessionsSound' /\ ShownHoldsToken'
    <2> DEFINE claims == call[tab][k].claims
    <2>1. /\ claims \in Claims \cup {None}
          /\ claims # None => SignedIn(claims.user)
      BY DEF SessionsSound, TokensSound, CallRows
    <2>2. Settle(tab, k, claims) /\ UNCHANGED token
      BY <1>8 DEF Receive, database
    <2> HIDE DEF claims
    <2> QED
      BY <2>1, <2>2, SettleSound DEF SignedIn, Settle
  <1>9. ASSUME NEW k \in Calls, Lose(tab, k) PROVE SessionsSound' /\ ShownHoldsToken'
    <2>1. CASE k \in {"restore", "retry", "logout"}
      BY <1>9, <2>1, SettleSound DEF Lose, database
    <2>2. CASE k \notin {"restore", "retry", "logout"}
      <3>1. \A b \in Tabs, l \in Calls : call'[b][l].claims \in {None, call[b][l].claims}
        <4>1. call' = [call EXCEPT ![tab][k] = Idle]
          BY <1>9, <2>2 DEF Lose
        <4> QED
          BY <1>0, <4>1 DEF TokensSound
      <3>2. UNCHANGED <<access, shown, initializing>>
        BY <1>9, <2>2 DEF Lose
      <3> QED
        BY <1>1, <3>1, <3>2, AnswersOnlySound DEF AnswersOnly
    <2> QED
      BY <2>1, <2>2
  <1> QED
    BY <1>3, <1>4, <1>5, <1>6, <1>7, <1>8, <1>9 DEF Browse

LEMMA ShownInvHolds == AccountsInit => ShownInv
  <1> SUFFICES ASSUME AccountsInit PROVE SessionsSound /\ ShownHoldsToken
    BY TokensSoundHolds DEF ShownInv
  <1>1. SessionsSound
    BY DEF AccountsInit, SessionsSound, Idle
  <1>2. ShownHoldsToken
    BY DEF AccountsInit, ShownHoldsToken
  <1> QED
    BY <1>1, <1>2

LEMMA ShownInvStep ==
  ASSUME ShownInv, [AccountsNext]_accountsVars
  PROVE  ShownInv'
  <1> USE DEF ShownInv
  <1>1. TokensSound' /\ TokenStep
    BY TokensSoundStep, StepAny
  <1>2. ASSUME NEW tab \in Tabs, Browse(tab) PROVE SessionsSound' /\ ShownHoldsToken'
    BY <1>2, BrowseSound
  <1>3. ASSUME NEW tab \in Tabs, NEW kind \in Calls, Serve(tab, kind) PROVE AnswersOnly
    BY <1>3, ServeAnswers
  <1>4. CASE \/ \E t \in Tokens : ExpireToken(t)
             \/ \E u \in Users : GoogleCreate(u) \/ SyncSeedAdmin(u)
             \/ \E a \in Applications : ApproveApplication(a) \/ RejectApplication(a)
             \/ UNCHANGED accountsVars
    <2>1. UNCHANGED <<access, shown, initializing, call>>
      BY <1>4 DEF ExpireToken, GoogleCreate, SyncSeedAdmin, ApproveApplication,
                  RejectApplication, browser, accountsVars
    <2> QED
      BY <1>1, <2>1, AnswersOnlySound DEF AnswersOnly
  <1> QED
    BY <1>1, <1>2, <1>3, <1>4, AnswersOnlySound DEF AccountsNext

\* A page that shows a user holds an access token, that user's unless another
\* account has signed in with the browser, for any number of users, tabs and
\* calls (AuthContext, api/client.ts).
THEOREM ShownHoldsTokenCorrect == AccountsSpec => []ShownHoldsToken
  <1>1. ShownInv /\ [AccountsNext]_accountsVars => ShownInv'
    BY ShownInvStep
  <1>2. ShownInv => ShownHoldsToken
    BY DEF ShownInv
  <1> QED
    BY ShownInvHolds, <1>1, <1>2, PTL DEF AccountsSpec

---------------------------------------------------------------------------
(* The applications.                                                       *)

ApplicationRows == [status : ApplicationStatus \cup {"Absent"}, user : Users \cup {None}]

\* An application is somebody's, and so is a profile.
ApplicationRowsSound ==
    /\ application \in [Applications -> ApplicationRows]
    /\ \A a \in Applications : application[a].status # "Absent" => application[a].user \in Users
    /\ profiles \subseteq Users

ApplicationsInv == ShownInv /\ ApplicationRowsSound /\ ApplicationsSound

\* The steps of sessions leave the applications alone and make nobody a seller.
SessionStep ==
    /\ UNCHANGED <<application, profiles>>
    /\ \A u \in Users : role'[u] = "SELLER" => role[u] = "SELLER"

LEMMA ApplicationsInvHolds == AccountsInit => ApplicationsInv
  <1> SUFFICES ASSUME AccountsInit PROVE ApplicationRowsSound /\ ApplicationsSound
    BY ShownInvHolds DEF ApplicationsInv
  <1>1. ApplicationRowsSound
    BY DEF AccountsInit, ApplicationRowsSound, ApplicationRows, NoApplication
  <1>2. \A a \in Applications : application[a].status = "Absent"
    BY DEF AccountsInit, NoApplication
  <1> QED
    BY <1>1, <1>2 DEF AccountsInit, ApplicationsSound, ApplicationsOf

LEMMA SessionSteps ==
  ASSUME TokensSound, [AccountsNext]_accountsVars
  PROVE  \/ SessionStep
         \/ UNCHANGED role /\ \E tab \in Tabs, a \in Applications : ApplyForSeller(tab, a)
         \/ \E a \in Applications : ApproveApplication(a)
         \/ UNCHANGED role /\ \E a \in Applications : RejectApplication(a)
  <1> USE DEF TokensSound
  <1>1. ASSUME NEW tab \in Tabs, Browse(tab)
        PROVE  \/ SessionStep
               \/ UNCHANGED role /\ \E a \in Applications : ApplyForSeller(tab, a)
    <2>1. ASSUME NEW a \in Applications, ApplyForSeller(tab, a) PROVE UNCHANGED role
      BY <2>1 DEF ApplyForSeller
    <2>2. CASE \/ Load(tab) \/ ExpireAccess(tab) \/ SendRetry(tab) \/ SendLogin(tab)
               \/ SendLogout(tab) \/ ReadApplications(tab) \/ Activate(tab) \/ ClickActivate(tab)
               \/ \E u \in Users : GoogleCallback(tab, u)
               \/ \E k \in Calls : Receive(tab, k) \/ Lose(tab, k)
      <3>1. UNCHANGED <<role, application, profiles>>
        BY <2>2 DEF Load, ExpireAccess, SendRetry, SendLogin, SendLogout, ReadApplications,
                    Activate, ClickActivate, GoogleCallback, Receive, Lose, database
      <3> QED
        BY <3>1 DEF SessionStep
    <2> QED
      BY <1>1, <2>1, <2>2 DEF Browse
  <1>2. ASSUME NEW tab \in Tabs, NEW kind \in Calls, Serve(tab, kind) PROVE SessionStep
    <2>1. UNCHANGED <<application, profiles>>
      BY <1>2 DEF Serve, RefuseLogin, ServeRegister, ServeLogin, ServeRefresh, RefuseRefresh,
                  ServeLogout, database
    <2>2. role' = role \/ \E u \in Users : role' = [role EXCEPT ![u] = "CUSTOMER"]
      BY <1>2 DEF Serve, RefuseLogin, ServeRegister, ServeLogin, ServeRefresh, RefuseRefresh,
                  ServeLogout, database
    <2> QED
      BY <2>1, <2>2 DEF SessionStep
  <1>3. CASE \/ \E t \in Tokens : ExpireToken(t)
             \/ \E u \in Users : GoogleCreate(u) \/ SyncSeedAdmin(u)
             \/ UNCHANGED accountsVars
    BY <1>3 DEF ExpireToken, GoogleCreate, SyncSeedAdmin, accountsVars, SessionStep
  <1>4. ASSUME NEW a \in Applications, RejectApplication(a) PROVE UNCHANGED role
    BY <1>4 DEF RejectApplication
  <1> QED
    BY <1>1, <1>2, <1>3, <1>4 DEF AccountsNext

LEMMA ApplySound ==
  ASSUME ApplicationsInv, UNCHANGED role, NEW tab \in Tabs, NEW a \in Applications,
         ApplyForSeller(tab, a)
  PROVE  ApplicationRowsSound' /\ ApplicationsSound'
  <1> USE DEF ApplicationsInv
  <1> DEFINE u == access[tab].claims.user
  <1>1. u \in Users
    BY DEF ApplyForSeller, Authenticated, ShownInv, SessionsSound, AccessTokens, Claims
  <1>2. /\ application' = [application EXCEPT ![a] = [status |-> "PENDING", user |-> u]]
        /\ UNCHANGED profiles
        /\ application[a].status = "Absent"
        /\ \A b \in Applications : application[b].user = u => application[b].status # "PENDING"
    BY DEF ApplyForSeller, ApplicationsOf, NoApplication
  <1> HIDE DEF u
  <1>3. [status |-> "PENDING", user |-> u] \in ApplicationRows
    BY <1>1 DEF ApplicationRows, ApplicationStatus
  <1>4. ApplicationRowsSound'
    BY <1>1, <1>2, <1>3 DEF ApplicationRowsSound
  <1>5. \A v \in Users : (\E b \in Applications : application'[b].user = v
                                                  /\ application'[b].status = "APPROVED")
                     <=> (\E b \in Applications : application[b].user = v
                                                  /\ application[b].status = "APPROVED")
    BY <1>2 DEF ApplicationRowsSound
  <1>6. \A b, c \in Applications :
            /\ application'[b].user = application'[c].user
            /\ application'[b].status = application'[c].status
            /\ application'[b].status \in {"PENDING", "APPROVED"}
            => b = c
    BY <1>2 DEF ApplicationRowsSound, ApplicationsSound
  <1> QED
    BY <1>2, <1>4, <1>5, <1>6 DEF ApplicationsSound, ApplicationsOf

LEMMA ApproveSound ==
  ASSUME ApplicationsInv, NEW a \in Applications, ApproveApplication(a)
  PROVE  ApplicationRowsSound' /\ ApplicationsSound'
  <1> USE DEF ApplicationsInv
  <1> DEFINE u == application[a].user
  <1>1. /\ u \in Users /\ u \notin profiles
        /\ application[a].status = "PENDING"
        /\ application' = [application EXCEPT ![a].status = "APPROVED"]
        /\ profiles' = profiles \cup {u}
        /\ role' = [role EXCEPT ![u] = "SELLER"]
    BY DEF ApproveApplication, ApplicationRowsSound
  <1>2. /\ application'[a].status = "APPROVED" /\ application'[a].user = u
        /\ \A b \in Applications \ {a} : application'[b] = application[b]
        /\ application' \in [Applications -> ApplicationRows]
    BY <1>1 DEF ApplicationRowsSound, ApplicationRows, ApplicationStatus
  <1>3. \A b \in Applications : application[b].user = u => application[b].status # "APPROVED"
    BY <1>1 DEF ApplicationsSound, ApplicationsOf
  <1>4. \A v \in Users \ {u} : role'[v] = role[v]
    BY <1>1 DEF ShownInv, TokensSound
  <1> HIDE DEF u
  <1>5. ApplicationRowsSound'
    BY <1>1, <1>2 DEF ApplicationRowsSound
  <1>6. \A b, c \in Applications :
            /\ application'[b].user = application'[c].user
            /\ application'[b].status = application'[c].status
            /\ application'[b].status \in {"PENDING", "APPROVED"}
            => b = c
    BY <1>2, <1>3 DEF ApplicationsSound
  <1>7. \A v \in Users : v \in profiles' <=>
            \E b \in Applications : application'[b].user = v /\ application'[b].status = "APPROVED"
    BY <1>1, <1>2 DEF ApplicationsSound, ApplicationsOf
  <1>8. \A v \in Users : role'[v] = "SELLER" => v \in profiles'
    BY <1>1, <1>4 DEF ApplicationsSound
  <1> QED
    BY <1>5, <1>6, <1>7, <1>8 DEF ApplicationsSound, ApplicationsOf

LEMMA RejectSound ==
  ASSUME ApplicationsInv, UNCHANGED role, NEW a \in Applications, RejectApplication(a)
  PROVE  ApplicationRowsSound' /\ ApplicationsSound'
  <1> USE DEF ApplicationsInv
  <1>1. /\ application[a].status = "PENDING"
        /\ application' = [application EXCEPT ![a].status = "REJECTED"]
        /\ UNCHANGED profiles
    BY DEF RejectApplication
  <1>2. /\ application'[a].status = "REJECTED" /\ application'[a].user = application[a].user
        /\ \A b \in Applications \ {a} : application'[b] = application[b]
        /\ application' \in [Applications -> ApplicationRows]
    BY <1>1 DEF ApplicationRowsSound, ApplicationRows, ApplicationStatus
  <1>3. ApplicationRowsSound'
    BY <1>1, <1>2 DEF ApplicationRowsSound
  <1>4. \A v \in Users : (\E b \in Applications : application'[b].user = v
                                                  /\ application'[b].status = "APPROVED")
                     <=> (\E b \in Applications : application[b].user = v
                                                  /\ application[b].status = "APPROVED")
    BY <1>1, <1>2
  <1>5. \A b, c \in Applications :
            /\ application'[b].user = application'[c].user
            /\ application'[b].status = application'[c].status
            /\ application'[b].status \in {"PENDING", "APPROVED"}
            => b = c
    BY <1>2 DEF ApplicationsSound
  <1> QED
    BY <1>1, <1>3, <1>4, <1>5 DEF ApplicationsSound, ApplicationsOf

\* One application of a user is pending and one is ever approved, and the sellers
\* have a profile, for any number of users, tabs and applications (sellers.service).
THEOREM ApplicationsCorrect == AccountsSpec => []ApplicationsSound
  <1>1. ASSUME ApplicationsInv, [AccountsNext]_accountsVars PROVE ApplicationsInv'
    <2>1. ShownInv' /\ TokensSound
      BY <1>1, ShownInvStep DEF ApplicationsInv, ShownInv
    <2>2. CASE SessionStep
      BY <1>1, <2>1, <2>2 DEF SessionStep, ApplicationsInv, ApplicationRowsSound,
                              ApplicationsSound, ApplicationsOf
    <2> QED
      BY <1>1, <2>1, <2>2, SessionSteps, ApplySound, ApproveSound, RejectSound
      DEF ApplicationsInv
  <1>2. ApplicationsInv => ApplicationsSound
    BY DEF ApplicationsInv
  <1> QED
    BY ApplicationsInvHolds, <1>1, <1>2, PTL DEF AccountsSpec
=============================================================================
