------------------------------- MODULE Sessions -------------------------------
(***************************************************************************)
(* Accounts, their sessions and the reset of a forgotten password          *)
(* (auth_handler.go, password_reset_handler.go, jwt_middleware.go).        *)
(*                                                                         *)
(* An access token carries the token_version its handler read; raising the *)
(* version of the account ends every session.  Handlers read a row first   *)
(* and write it later, with other requests in between: login, change of    *)
(* password, verification of a code and reset are each two steps.  One     *)
(* unit of time is five minutes.                                           *)
(***************************************************************************)
EXTENDS Integers, Sequences, FiniteSets

CONSTANTS
    Users, Admins,
    Passwords,
    Requests,          \* request goroutines
    MaxResetAttempts, MaxResetRequests,
    MaxTime, MaxVersion  \* bounds: the last time, the last token_version

VARIABLES
    now,
    account,   \* users and admins: is_active, password_hash, token_version
    access,    \* access tokens in the hands of clients
    refresh,   \* accounts with a refresh token in the hands of a client
    resets,    \* password_resets of an account, oldest first
    request,   \* requests in progress
    endings,   \* history: how often the sessions of an account were ended
    raced,     \* history: accounts two requests wrote from the same reading
    reverted   \* history: accounts saved over a row nobody had read

sessionVars == <<now, account, access, refresh, resets, request, endings, raced, reverted>>

Accounts == Users \cup Admins
ResetCodeTTL == 2
ResetTokenTTL == 3
ResetRateWindow == 3
Idle == [step |-> "idle"]
Account == [exists : BOOLEAN, active : BOOLEAN, password : Passwords, version : 1..MaxVersion]
Claims == [user : Accounts, version : 1..(MaxVersion + 1), since : Nat]
PasswordReset == [created : Nat, expires : Nat, attempts : Nat, verified : BOOLEAN, consumed : BOOLEAN,
                  missed : Nat, spent : Nat, missedThen : Nat]
Request ==
    {Idle}
    \cup [step : {"login", "change"}, user : Accounts, version : 1..MaxVersion, since : Nat]
    \cup [step : {"edit", "support"}, user : Users, row : Account]
    \cup [step : {"issue"}, user : Accounts]
    \cup [step : {"verify"}, user : Accounts, row : Nat, attempts : Nat, consumed : BOOLEAN]
    \cup [step : {"reset"}, user : Accounts, row : Nat, consumed : BOOLEAN]

TypeOK ==
    /\ now \in 0..MaxTime
    /\ account \in [Accounts -> Account]
    /\ access \subseteq Claims /\ refresh \subseteq Accounts
    /\ resets \in [Accounts -> Seq(PasswordReset)]
    /\ request \in [Requests -> Request]
    /\ endings \in [Accounts -> Nat] /\ raced \subseteq Accounts /\ reverted \subseteq Accounts

Init ==
    /\ now = 0
    /\ account \in [Accounts -> [exists : BOOLEAN, active : {TRUE}, password : Passwords, version : {1}]]
    /\ access = {} /\ refresh = {}
    /\ resets = [a \in Accounts |-> <<>>]
    /\ request = [q \in Requests |-> Idle]
    /\ endings = [a \in Accounts |-> 0]
    /\ raced = {} /\ reverted = {}

-----------------------------------------------------------------------------
(* Sessions *)

GenerateAccessToken(a, version, since) == [user |-> a, version |-> version, since |-> since]

\* A handler that has read the account and checked the password, if it does.
\* `change` says which password a change or a reset will set.
Read(q, step, a) ==
    /\ request[q] = Idle
    /\ request' = [request EXCEPT ![q] = [step |-> step, user |-> a, version |-> account[a].version,
                                          since |-> endings[a]]]

StartLogin(q, a, password) ==
    /\ account[a].exists /\ account[a].active /\ account[a].password = password
    /\ Read(q, "login", a)
    /\ UNCHANGED <<now, account, access, refresh, resets, endings, raced, reverted>>

\* Login and AdminLogin: the token has the version read, an admin's always 1.
FinishLogin(q) ==
    /\ request[q].step = "login"
    /\ LET r == request[q]
       IN  /\ access' = access \cup {GenerateAccessToken(r.user, IF r.user \in Admins THEN 1 ELSE r.version, r.since)}
           /\ refresh' = refresh \cup {r.user}
    /\ request' = [request EXCEPT ![q] = Idle]
    /\ UNCHANGED <<now, account, resets, endings, raced, reverted>>

NewAccount(password) == [exists |-> TRUE, active |-> TRUE, password |-> password, version |-> 1]

\* Self-signup creates an active student with version 1 and logs in.
Register(u, password) ==
    /\ u \in Users /\ ~account[u].exists
    /\ account' = [account EXCEPT ![u] = NewAccount(password)]
    /\ access' = access \cup {GenerateAccessToken(u, 1, endings[u])}
    /\ refresh' = refresh \cup {u}
    /\ UNCHANGED <<now, resets, request, endings, raced, reverted>>

\* A refresh token names the account only; the new token has its version of now.
RefreshToken(a) ==
    /\ a \in refresh /\ account[a].exists /\ account[a].active
    /\ access' = access \cup {GenerateAccessToken(a, account[a].version, endings[a])}
    /\ UNCHANGED <<now, account, refresh, resets, request, endings, raced, reverted>>

\* Authenticate, beyond the signature and the expiry of the token.
Authenticate(t) ==
    IF t.user \in Admins
    THEN account[t.user].exists /\ account[t.user].active /\ t.version = 1
    ELSE account[t.user].exists /\ account[t.user].version = t.version

\* Mutant: the password changes and the version does not.
KeepSessions(a, row) ==
    /\ account' = [account EXCEPT ![a] = row]
    /\ endings' = [endings EXCEPT ![a] = @ + 1]

\* What the row of the account becomes, and the count of endings with it.
EndSessions(a, row) ==
    /\ row.version < MaxVersion /\ endings[a] < MaxVersion - 1   \* bounds
    /\ account' = [account EXCEPT ![a] = [row EXCEPT !.version = @ + 1]]
    /\ endings' = [endings EXCEPT ![a] = @ + 1]

StartChange(q, u, password) ==
    /\ \E t \in access : t.user = u /\ Authenticate(t)
    /\ u \in Users /\ account[u].active /\ account[u].password = password
    /\ Read(q, "change", u)
    /\ UNCHANGED <<now, account, access, refresh, resets, endings, raced, reverted>>

\* The new token has the version read, plus one when the others are logged out.
ChangePassword(q, password, logoutOthers) ==
    /\ request[q].step = "change"
    /\ LET r == request[q]
           row == [account[r.user] EXCEPT !.password = password]
       IN  /\ IF logoutOthers THEN EndSessions(r.user, row)
              ELSE account' = [account EXCEPT ![r.user] = row] /\ UNCHANGED endings
           /\ access' = access \cup {GenerateAccessToken(r.user, IF logoutOthers THEN r.version + 1 ELSE r.version,
                                                         r.since + (IF logoutOthers THEN 1 ELSE 0))}
           /\ refresh' = refresh \cup {r.user}
           /\ raced' = IF account[r.user].version = r.version THEN raced ELSE raced \cup {r.user}
    /\ request' = [request EXCEPT ![q] = Idle]
    /\ UNCHANGED <<now, resets, reverted>>

LogoutAll(u) ==
    /\ \E t \in access : t.user = u /\ Authenticate(t)
    /\ u \in Users
    /\ EndSessions(u, account[u])
    /\ UNCHANGED <<now, access, refresh, resets, request, raced, reverted>>

\* The version is raised and read back in one transaction.
LogoutOthers(u) ==
    /\ \E t \in access : t.user = u /\ Authenticate(t)
    /\ u \in Users
    /\ EndSessions(u, account[u])
    /\ access' = access \cup {GenerateAccessToken(u, account[u].version + 1, endings[u] + 1)}
    /\ UNCHANGED <<now, refresh, resets, request, raced, reverted>>

\* UpdateMyUser and AdminResetPassword load the row, change a name or the
\* password in it, and save every column of it.
StartSave(q, u, step) ==
    /\ request[q] = Idle /\ account[u].exists
    /\ step = "edit" => \E t \in access : t.user = u /\ Authenticate(t)
    /\ request' = [request EXCEPT ![q] = [step |-> step, user |-> u, row |-> account[u]]]
    /\ UNCHANGED <<now, account, access, refresh, resets, endings, raced, reverted>>

FinishSave(q, password) ==
    /\ request[q].step \in {"edit", "support"}
    /\ LET r == request[q]
       IN  /\ IF r.step = "support" THEN EndSessions(r.user, [r.row EXCEPT !.password = password])
              ELSE account' = [account EXCEPT ![r.user] = r.row] /\ UNCHANGED endings
           /\ reverted' = IF account[r.user] = r.row THEN reverted ELSE reverted \cup {r.user}
    /\ request' = [request EXCEPT ![q] = Idle]
    /\ UNCHANGED <<now, access, refresh, resets, raced>>

\* A super admin creates an admin, or sets the password of one.
CreateAdmin(a, password) ==
    /\ ~account[a].exists
    /\ account' = [account EXCEPT ![a] = NewAccount(password)]
    /\ UNCHANGED <<now, access, refresh, resets, request, endings, raced, reverted>>

SetAdminPassword(a, password) ==
    /\ account[a].exists
    /\ account' = [account EXCEPT ![a].password = password]
    /\ UNCHANGED <<now, access, refresh, resets, request, endings, raced, reverted>>

\* An admin switches an account off or on.
SetActive(a, active) ==
    /\ account[a].exists /\ account[a].active # active
    /\ account' = [account EXCEPT ![a].active = active]
    /\ UNCHANGED <<now, access, refresh, resets, request, endings, raced, reverted>>

-----------------------------------------------------------------------------
(* Forgotten passwords *)

Recent(a) == {i \in DOMAIN resets[a] : resets[a][i].created + ResetRateWindow > now}

\* Mutant: a row that was used or superseded is taken for open.
Unexpired(a) == {i \in DOMAIN resets[a] : resets[a][i].expires > now}

\* Where the code of VerifyResetCode is looked for: the newest row still open.
Open(a) == {i \in DOMAIN resets[a] : ~resets[a][i].consumed /\ resets[a][i].expires > now}
Newest(S) == CHOOSE i \in S : \A j \in S : j <= i

\* ForgotPassword: silently nothing above the limit or without the account.
ForgotPassword(q, a) ==
    /\ request[q] = Idle
    /\ Cardinality(Recent(a)) < MaxResetRequests
    /\ account[a].exists /\ account[a].active
    /\ request' = [request EXCEPT ![q] = [step |-> "issue", user |-> a]]
    /\ resets' = [resets EXCEPT ![a] = [i \in DOMAIN @ |-> [@[i] EXCEPT !.consumed = TRUE]]]
    /\ UNCHANGED <<now, account, access, refresh, endings, raced, reverted>>

\* issueResetCode has superseded the open rows and now inserts its own; an
\* admin's IssueCode does the same without the limit.
IssueCode(q) ==
    /\ request[q].step = "issue"
    /\ LET a == request[q].user
       IN  /\ resets' = [resets EXCEPT ![a] = Append(@, [created |-> now, expires |-> now + ResetCodeTTL, attempts |-> 0,
                             verified |-> FALSE, consumed |-> FALSE, missed |-> 0, spent |-> 0, missedThen |-> 0])]
           /\ raced' = IF \E i \in DOMAIN resets[a] : ~resets[a][i].consumed THEN raced \cup {a} ELSE raced
    /\ request' = [request EXCEPT ![q] = Idle]
    /\ UNCHANGED <<now, account, access, refresh, endings, reverted>>

StartVerify(q, a) ==
    /\ request[q] = Idle
    /\ Open(a) # {}
    /\ LET i == Newest(Open(a))
       IN  /\ resets[a][i].attempts < MaxResetAttempts
           /\ request' = [request EXCEPT ![q] = [step |-> "verify", user |-> a, row |-> i,
                                                 attempts |-> resets[a][i].attempts, consumed |-> resets[a][i].consumed]]
    /\ UNCHANGED <<now, account, access, refresh, resets, endings, raced, reverted>>

\* A wrong code is one more attempt than were read.
WrongCode(q) ==
    /\ request[q].step = "verify"
    /\ LET r == request[q]
           p == resets[r.user][r.row]
       IN  /\ resets' = [resets EXCEPT ![r.user][r.row] =
                           [p EXCEPT !.attempts = r.attempts + 1, !.missed = p.missed + 1]]
           /\ raced' = IF p.attempts = r.attempts THEN raced ELSE raced \cup {r.user}
    /\ request' = [request EXCEPT ![q] = Idle]
    /\ UNCHANGED <<now, account, access, refresh, endings, reverted>>

\* The right code is exchanged for a reset token, which lives a little longer.
VerifyResetCode(q) ==
    /\ request[q].step = "verify"
    /\ LET r == request[q]
           p == resets[r.user][r.row]
       IN  /\ resets' = [resets EXCEPT ![r.user][r.row] =
                           [p EXCEPT !.verified = TRUE, !.expires = now + ResetTokenTTL, !.missedThen = p.missed]]
           /\ raced' = IF p.attempts = r.attempts /\ p.consumed = r.consumed
                       THEN raced ELSE raced \cup {r.user}
    /\ request' = [request EXCEPT ![q] = Idle]
    /\ UNCHANGED <<now, account, access, refresh, endings, reverted>>

StartReset(q, a, i) ==
    /\ request[q] = Idle
    /\ i \in Open(a) /\ resets[a][i].verified
    /\ request' = [request EXCEPT ![q] = [step |-> "reset", user |-> a, row |-> i, consumed |-> resets[a][i].consumed]]
    /\ UNCHANGED <<now, account, access, refresh, resets, endings, raced, reverted>>

\* The password, the version and the token burnt in one transaction; admins
\* have no version.
ResetPassword(q, password) ==
    /\ request[q].step = "reset"
    /\ LET r == request[q]
           p == resets[r.user][r.row]
           row == [account[r.user] EXCEPT !.password = password]
       IN  /\ account[r.user].exists
           /\ IF r.user \in Admins THEN account' = [account EXCEPT ![r.user] = row] /\ UNCHANGED endings
              ELSE EndSessions(r.user, row)
           /\ resets' = [resets EXCEPT ![r.user][r.row] = [p EXCEPT !.consumed = TRUE, !.spent = p.spent + 1]]
           /\ raced' = IF p.consumed = r.consumed THEN raced ELSE raced \cup {r.user}
    /\ request' = [request EXCEPT ![q] = Idle]
    /\ UNCHANGED <<now, access, refresh, reverted>>

\* A request fails or its instance stops.
Drop(q) ==
    /\ request[q] # Idle
    /\ request' = [request EXCEPT ![q] = Idle]
    /\ UNCHANGED <<now, account, access, refresh, resets, endings, raced, reverted>>

Tick ==
    /\ now < MaxTime
    /\ now' = now + 1
    /\ UNCHANGED <<account, access, refresh, resets, request, endings, raced, reverted>>

\* The stage the admin page shows for a row, and the rows its filters select.
resetRowStatus(p) ==
    CASE p.consumed /\ p.verified -> "used"
      [] p.consumed /\ ~p.verified -> "superseded"
      [] ~p.consumed /\ p.attempts >= MaxResetAttempts -> "exhausted"
      [] ~p.consumed /\ p.attempts < MaxResetAttempts /\ p.verified -> "verified"
      [] OTHER -> IF p.expires <= now THEN "expired" ELSE "pending"

Listed(p, status) ==
    CASE status = "used" -> p.consumed /\ p.verified
      [] status = "superseded" -> p.consumed /\ ~p.verified
      [] status = "exhausted" -> ~p.consumed /\ p.attempts >= MaxResetAttempts
      [] status = "verified" -> ~p.consumed /\ p.verified
      [] status = "expired" -> ~p.consumed /\ ~p.verified /\ p.attempts < MaxResetAttempts /\ p.expires <= now
      [] status = "pending" -> ~p.consumed /\ ~p.verified /\ p.attempts < MaxResetAttempts /\ p.expires > now
Statuses == {"used", "superseded", "exhausted", "verified", "expired", "pending"}

-----------------------------------------------------------------------------
SessionStep ==
    \/ \E u \in Users : LogoutAll(u) \/ LogoutOthers(u)
    \/ \E a \in Accounts : RefreshToken(a) \/ \E b \in BOOLEAN : SetActive(a, b)
    \/ \E p \in Passwords :
        \/ \E a \in Accounts : Register(a, p)
        \/ \E q \in Requests, a \in Accounts : StartLogin(q, a, p) \/ StartChange(q, a, p)
        \/ \E q \in Requests, b \in BOOLEAN : ChangePassword(q, p, b)
        \/ \E a \in Admins : CreateAdmin(a, p) \/ SetAdminPassword(a, p)
        \/ \E q \in Requests : FinishSave(q, p)
    \/ \E q \in Requests : FinishLogin(q) \/ \E u \in Users, step \in {"edit", "support"} : StartSave(q, u, step)

ResetStep ==
    \/ Tick
    \/ \E q \in Requests, a \in Accounts :
        \/ ForgotPassword(q, a) \/ StartVerify(q, a)
        \/ \E i \in DOMAIN resets[a] : StartReset(q, a, i)
    \/ \E q \in Requests : IssueCode(q) \/ WrongCode(q) \/ VerifyResetCode(q)
    \/ \E q \in Requests, p \in Passwords : ResetPassword(q, p)

Next == SessionStep \/ ResetStep \/ \E q \in Requests : Drop(q)

Spec == Init /\ [][Next]_sessionVars

-----------------------------------------------------------------------------
(* Properties *)

(* "Bumping TokenVersion invalidates every access token already issued"       *)
(* (password_reset_handler.go:282): a token that is accepted was issued from  *)
(* a reading of the account made since its sessions were last ended, whatever *)
(* login, refresh, change and reset overlap, unless the whole row was saved   *)
(* over one that was not read; and no token has a version that a later logout *)
(* would bring to life.                                                       *)
EndedSessionsStayOut ==
    \A t \in access : t.user \in Users \ reverted =>
        /\ t.version <= account[t.user].version
        /\ Authenticate(t) => t.since = endings[t.user]

(* The same of every account (password_reset_handler.go:282): an edit of the  *)
(* profile that read the row before the sessions were ended brings back the   *)
(* old version, and the old tokens with it.                                   *)
BumpEndsSessions ==
    \A t \in access : t.user \in Users /\ Authenticate(t) => t.since = endings[t.user]

(* "Single-use reset token" and "once MaxResetAttempts is reached the row is  *)
(* dead" (password_reset_handler.go:143,182): unless two requests wrote from  *)
(* the same reading, a row sets one password, counts every wrong code, is     *)
(* exchanged before the last attempt only, and is the only one open; the      *)
(* filters of the admin page select the rows of that stage, but for an        *)
(* exchanged row that went on collecting wrong codes.                         *)
ResetsAreSingleUse ==
    \A a \in Accounts \ raced : \A i \in DOMAIN resets[a] :
        LET p == resets[a][i]
        IN  /\ p.spent <= 1 /\ (p.spent = 1 => p.consumed /\ p.verified)
            /\ p.attempts = p.missed
            /\ p.verified => p.missedThen < MaxResetAttempts
            /\ ~p.consumed => i = Len(resets[a])
            /\ \A s \in Statuses : ~(p.verified /\ p.attempts >= MaxResetAttempts) =>
                  (Listed(p, s) <=> resetRowStatus(p) = s)

(* What the properties rest on, an invariant each step preserves.             *)

\* A version is a count of endings; tokens and readings have those of then.
VersionsCount(u) ==
    /\ account[u].version = endings[u] + 1
    /\ \A t \in access : t.user = u => t.version = t.since + 1 /\ t.since <= endings[u]
    /\ \A q \in Requests : (request[q].step \in {"login", "change"} /\ request[q].user = u) =>
           request[q].version = request[q].since + 1 /\ request[q].since <= endings[u]

\* Who has signed up stays, whichever reading of the row is saved.
SignedUp(u) ==
    /\ account[u].exists \/ (account[u].version = 1 /\ endings[u] = 0)
    /\ \A q \in Requests : (request[q] # Idle /\ request[q].user = u) =>
           /\ request[q].step = "change" => account[u].exists
           /\ request[q].step \in {"edit", "support"} => request[q].row.exists

SessionInv ==
    /\ \A u \in Users \ reverted : VersionsCount(u)
    /\ \A u \in Users : SignedUp(u)

\* What ResetsAreSingleUse says of row i of a.
SingleUse(a, i) ==
    LET p == resets[a][i]
    IN  /\ p.spent <= 1 /\ (p.spent = 1 => p.consumed /\ p.verified)
        /\ p.attempts = p.missed
        /\ p.verified => p.missedThen < MaxResetAttempts
        /\ ~p.consumed => i = Len(resets[a])

\* A request read an open row; a reset needs one that was exchanged.
ReadOpenRow(q) ==
    LET r == request[q]
    IN  /\ r.row \in DOMAIN resets[r.user]
        /\ ~r.consumed
        /\ r.step = "verify" => r.attempts < MaxResetAttempts
        /\ r.step = "reset" => resets[r.user][r.row].verified

ResetInv ==
    /\ \A a \in Accounts \ raced : \A i \in DOMAIN resets[a] : SingleUse(a, i)
    /\ \A q \in Requests : request[q].step \in {"verify", "reset"} => ReadOpenRow(q)
=============================================================================
