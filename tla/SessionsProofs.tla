---------------------------- MODULE SessionsProofs ----------------------------
(***************************************************************************)
(* Proofs about Sessions, for any users, admins, passwords and requests:   *)
(* types, that ended sessions stay out, and that a reset code and its      *)
(* token are used once.  Then about Devices, which adds installs to them:  *)
(* it implements Sessions, and topics follow the owner of an install.      *)
(* Last about Chat, the conversations people have and the sockets they     *)
(* hear them on, which shares no state with the two: an instance of its    *)
(* own, whose raced is chatRaced here.                                     *)
(***************************************************************************)
EXTENDS Devices, SumTheorems, SequenceTheorems, FiniteSetTheorems, TLAPS

CONSTANTS None, Conversations, MaxMessages, Sockets, SendBuffer                    \* of Chat
VARIABLES conversation, message, hidden, aged, client, worker, doubled, chatRaced  \* of Chat

Talk == INSTANCE Chat WITH raced <- chatRaced

\* What is assumed of the constants: users and admins are two tables.
Constants ==
    /\ Users \cap Admins = {}
    /\ MaxResetAttempts \in Nat
    /\ MaxTime \in Nat
    /\ MaxVersion \in Nat \ {0}

-----------------------------------------------------------------------------
(* Requests *)

\* A request in progress is of the kind its step says.
LEMMA RequestTyped ==
  ASSUME TypeOK, NEW q \in Requests
  PROVE  /\ request[q] \in Request
         /\ request[q].step \in {"login", "change"} =>
                request[q] \in [step : {"login", "change"}, user : Accounts, version : 1..MaxVersion, since : Nat]
         /\ request[q].step \in {"edit", "support"} =>
                request[q] \in [step : {"edit", "support"}, user : Users, row : Account]
         /\ request[q].step = "issue" => request[q] \in [step : {"issue"}, user : Accounts]
         /\ request[q].step = "verify" =>
                request[q] \in [step : {"verify"}, user : Accounts, row : Nat, attempts : Nat, consumed : BOOLEAN]
         /\ request[q].step = "reset" =>
                request[q] \in [step : {"reset"}, user : Accounts, row : Nat, consumed : BOOLEAN]
<1> DEFINE r == request[q]
<1>1. r \in Request
  BY DEF TypeOK
<1>2. r = Idle => r.step = "idle"
  BY DEF Idle
<1> HIDE DEF r
<1>3. /\ r.step \in {"login", "change"} =>
              r \in [step : {"login", "change"}, user : Accounts, version : 1..MaxVersion, since : Nat]
      /\ r.step \in {"edit", "support"} => r \in [step : {"edit", "support"}, user : Users, row : Account]
      /\ r.step = "issue" => r \in [step : {"issue"}, user : Accounts]
      /\ r.step = "verify" =>
              r \in [step : {"verify"}, user : Accounts, row : Nat, attempts : Nat, consumed : BOOLEAN]
      /\ r.step = "reset" => r \in [step : {"reset"}, user : Accounts, row : Nat, consumed : BOOLEAN]
  BY <1>1, <1>2 DEF Request
<1> QED
  BY <1>1, <1>3 DEF r

\* A request takes a step: it goes on, or is over.
LEMMA RequestSet ==
  ASSUME TypeOK, NEW q \in Requests, NEW r \in Request, request' = [request EXCEPT ![q] = r]
  PROVE  request' \in [Requests -> Request]
BY DEF TypeOK

LEMMA RequestOver ==
  ASSUME TypeOK, NEW q \in Requests, request' = [request EXCEPT ![q] = Idle]
  PROVE  request' \in [Requests -> Request]
BY RequestSet DEF Request

-----------------------------------------------------------------------------
(* Types *)

LEMMA EndSessionsTyped ==
  ASSUME TypeOK, Constants, NEW a \in Accounts, NEW row \in Account, EndSessions(a, row)
  PROVE  /\ account' \in [Accounts -> Account] /\ endings' \in [Accounts -> Nat]
         /\ row.version + 1 \in 1..MaxVersion
<1>1. row.version \in 1..MaxVersion /\ row.version < MaxVersion /\ MaxVersion \in Nat
  BY DEF EndSessions, Account, Constants
<1>2. row.version + 1 \in 1..MaxVersion
  BY <1>1
<1>3. [row EXCEPT !.version = @ + 1] \in Account
  BY <1>2 DEF Account
<1>4. account' \in [Accounts -> Account]
  BY <1>3 DEF TypeOK, EndSessions
<1>5. endings' \in [Accounts -> Nat]
  BY DEF TypeOK, EndSessions
<1> QED
  BY <1>2, <1>4, <1>5

LEMMA ReadTyped ==
  ASSUME TypeOK, NEW q \in Requests, NEW a \in Accounts, NEW step \in {"login", "change"}, Read(q, step, a)
  PROVE  request' \in [Requests -> Request]
<1> DEFINE r == [step |-> step, user |-> a, version |-> account[a].version, since |-> endings[a]]
<1>1. account[a].version \in 1..MaxVersion /\ endings[a] \in Nat
  BY DEF TypeOK, Account
<1>2. r \in Request
  BY <1>1 DEF Request
<1>3. request' = [request EXCEPT ![q] = r]
  BY DEF Read
<1> HIDE DEF r
<1> QED
  BY <1>2, <1>3, RequestSet

LEMMA TokenTyped ==
  ASSUME NEW a \in Accounts, NEW version \in 1..(MaxVersion + 1), NEW since \in Nat
  PROVE  GenerateAccessToken(a, version, since) \in Claims
BY DEF GenerateAccessToken, Claims

\* What is on an account's row, in the range of a token's version.
LEMMA VersionTyped ==
  ASSUME TypeOK, Constants, NEW a \in Accounts
  PROVE  /\ account[a] \in Account /\ endings[a] \in Nat
         /\ account[a].version \in 1..(MaxVersion + 1)
         /\ 1 \in 1..(MaxVersion + 1)
         /\ 1..MaxVersion \subseteq 1..(MaxVersion + 1)
<1>1. account[a] \in Account /\ endings[a] \in Nat /\ MaxVersion \in Nat \ {0}
  BY DEF TypeOK, Constants
<1>2. account[a].version \in 1..MaxVersion
  BY <1>1 DEF Account
<1> QED
  BY <1>1, <1>2

LEMMA LoginTyped ==
  ASSUME TypeOK, Constants, NEW q \in Requests,
         \/ FinishLogin(q)
         \/ \E a \in Accounts, p \in Passwords : StartLogin(q, a, p) \/ StartChange(q, a, p)
  PROVE  TypeOK'
<1>1. CASE FinishLogin(q)
  <2> DEFINE r == request[q]
             version == IF r.user \in Admins THEN 1 ELSE r.version
  <2>1. r \in [step : {"login", "change"}, user : Accounts, version : 1..MaxVersion, since : Nat]
    BY <1>1, RequestTyped DEF FinishLogin
  <2>2. r.user \in Accounts /\ r.since \in Nat /\ r.version \in 1..MaxVersion
    BY <2>1
  <2>3. version \in 1..(MaxVersion + 1)
    BY <2>2, VersionTyped
  <2>4. access' = access \cup {GenerateAccessToken(r.user, version, r.since)} /\ refresh' = refresh \cup {r.user}
    BY <1>1 DEF FinishLogin
  <2>5. request' \in [Requests -> Request]
    BY <1>1, RequestOver DEF FinishLogin
  <2> HIDE DEF r, version
  <2>6. access' \subseteq Claims /\ refresh' \subseteq Accounts
    BY <2>2, <2>3, <2>4, TokenTyped DEF TypeOK
  <2> QED
    BY <1>1, <2>5, <2>6 DEF FinishLogin, TypeOK
<1>2. ASSUME NEW a \in Accounts, NEW p \in Passwords, StartLogin(q, a, p) \/ StartChange(q, a, p)
      PROVE  TypeOK'
  <2>1. request' \in [Requests -> Request]
    BY <1>2, ReadTyped DEF StartLogin, StartChange
  <2> QED
    BY <1>2, <2>1 DEF StartLogin, StartChange, TypeOK
<1> QED
  BY <1>1, <1>2

LEMMA AccountTyped ==
  ASSUME TypeOK, Constants, NEW a \in Accounts, NEW p \in Passwords,
         \/ Register(a, p) \/ RefreshToken(a) \/ \E b \in BOOLEAN : SetActive(a, b)
         \/ CreateAdmin(a, p) \/ SetAdminPassword(a, p)
  PROVE  TypeOK'
<1>1. /\ account[a] \in Account /\ endings[a] \in Nat
      /\ account[a].version \in 1..(MaxVersion + 1) /\ 1 \in 1..(MaxVersion + 1) /\ 1 \in 1..MaxVersion
  BY VersionTyped DEF Constants
<1>2. NewAccount(p) \in Account
  BY <1>1 DEF NewAccount, Account
<1>3. CASE Register(a, p)
  <2>1. account' \in [Accounts -> Account]
    BY <1>2, <1>3 DEF Register, TypeOK
  <2>2. access' \subseteq Claims
    BY <1>1, <1>3, TokenTyped DEF Register, TypeOK
  <2> QED
    BY <1>3, <2>1, <2>2 DEF Register, TypeOK
<1>4. CASE RefreshToken(a)
  <2>1. access' \subseteq Claims
    BY <1>1, <1>4, TokenTyped DEF RefreshToken, TypeOK
  <2> QED
    BY <1>4, <2>1 DEF RefreshToken, TypeOK
<1>5. ASSUME NEW b \in BOOLEAN, SetActive(a, b)
      PROVE  TypeOK'
  <2>1. [account[a] EXCEPT !.active = b] \in Account
    BY <1>1 DEF Account
  <2>2. account' \in [Accounts -> Account]
    BY <1>5, <2>1 DEF SetActive, TypeOK
  <2> QED
    BY <1>5, <2>2 DEF SetActive, TypeOK
<1>6. CASE CreateAdmin(a, p)
  <2>1. account' \in [Accounts -> Account]
    BY <1>2, <1>6 DEF CreateAdmin, TypeOK
  <2> QED
    BY <1>6, <2>1 DEF CreateAdmin, TypeOK
<1>7. CASE SetAdminPassword(a, p)
  <2>1. [account[a] EXCEPT !.password = p] \in Account
    BY <1>1 DEF Account
  <2>2. account' \in [Accounts -> Account]
    BY <1>7, <2>1 DEF SetAdminPassword, TypeOK
  <2> QED
    BY <1>7, <2>2 DEF SetAdminPassword, TypeOK
<1> QED
  BY <1>3, <1>4, <1>5, <1>6, <1>7

LEMMA LogoutTyped ==
  ASSUME TypeOK, Constants, NEW u \in Users, LogoutAll(u) \/ LogoutOthers(u)
  PROVE  TypeOK'
<1>1. u \in Accounts
  BY DEF Accounts
<1>2. account[u] \in Account /\ endings[u] \in Nat /\ EndSessions(u, account[u])
  BY <1>1, VersionTyped DEF LogoutAll, LogoutOthers
<1>3. account' \in [Accounts -> Account] /\ endings' \in [Accounts -> Nat] /\ account[u].version + 1 \in 1..MaxVersion
  BY <1>1, <1>2, EndSessionsTyped
<1>4. account[u].version + 1 \in 1..(MaxVersion + 1) /\ endings[u] + 1 \in Nat
  BY <1>1, <1>2, <1>3, VersionTyped
<1>5. access' \subseteq Claims
  BY <1>1, <1>4, TokenTyped DEF LogoutAll, LogoutOthers, TypeOK
<1> QED
  BY <1>3, <1>5 DEF LogoutAll, LogoutOthers, TypeOK

LEMMA ChangeTyped ==
  ASSUME TypeOK, Constants, NEW q \in Requests, NEW p \in Passwords, NEW b \in BOOLEAN, ChangePassword(q, p, b)
  PROVE  TypeOK'
<1> DEFINE r == request[q]
           row == [account[r.user] EXCEPT !.password = p]
           version == IF b THEN r.version + 1 ELSE r.version
           since == r.since + (IF b THEN 1 ELSE 0)
<1>1. r \in [step : {"login", "change"}, user : Accounts, version : 1..MaxVersion, since : Nat]
  BY RequestTyped DEF ChangePassword
<1>2. r.user \in Accounts /\ r.version \in 1..MaxVersion /\ r.since \in Nat
  BY <1>1
<1>3. MaxVersion \in Nat
  BY DEF Constants
<1>4. version \in 1..(MaxVersion + 1) /\ since \in Nat
  BY <1>2, <1>3
<1>5. account[r.user] \in Account
  BY <1>2, VersionTyped
<1>6. row \in Account
  BY <1>5 DEF Account
<1>7. /\ IF b THEN EndSessions(r.user, row) ELSE account' = [account EXCEPT ![r.user] = row] /\ UNCHANGED endings
      /\ access' = access \cup {GenerateAccessToken(r.user, version, since)}
      /\ refresh' = refresh \cup {r.user}
      /\ raced' = raced \/ raced' = raced \cup {r.user}
  BY DEF ChangePassword
<1>8. request' \in [Requests -> Request]
  BY RequestOver DEF ChangePassword
<1>9. UNCHANGED <<now, resets, reverted>>
  BY DEF ChangePassword
<1> HIDE DEF r, row, version, since
<1>10. account' \in [Accounts -> Account] /\ endings' \in [Accounts -> Nat]
  BY <1>2, <1>6, <1>7, EndSessionsTyped DEF TypeOK
<1>11. access' \subseteq Claims /\ refresh' \subseteq Accounts /\ raced' \subseteq Accounts
  BY <1>2, <1>4, <1>7, TokenTyped DEF TypeOK
<1> QED
  BY <1>8, <1>9, <1>10, <1>11 DEF TypeOK

LEMMA SaveTyped ==
  ASSUME TypeOK, Constants, NEW q \in Requests,
         \/ \E p \in Passwords : FinishSave(q, p)
         \/ \E u \in Users, step \in {"edit", "support"} : StartSave(q, u, step)
  PROVE  TypeOK'
<1>1. ASSUME NEW p \in Passwords, FinishSave(q, p)
      PROVE  TypeOK'
  <2> DEFINE r == request[q]
             row == [r.row EXCEPT !.password = p]
  <2>1. r \in [step : {"edit", "support"}, user : Users, row : Account]
    BY <1>1, RequestTyped DEF FinishSave
  <2>2. r.user \in Accounts /\ r.row \in Account
    BY <2>1 DEF Accounts
  <2>3. row \in Account
    BY <2>2 DEF Account
  <2>4. \/ EndSessions(r.user, row)
        \/ account' = [account EXCEPT ![r.user] = r.row] /\ UNCHANGED endings
    BY <1>1 DEF FinishSave
  <2>5. reverted' = reverted \/ reverted' = reverted \cup {r.user}
    BY <1>1 DEF FinishSave
  <2>6. request' \in [Requests -> Request]
    BY <1>1, RequestOver DEF FinishSave
  <2> HIDE DEF r, row
  <2>7. account' \in [Accounts -> Account] /\ endings' \in [Accounts -> Nat]
    BY <2>2, <2>3, <2>4, EndSessionsTyped DEF TypeOK
  <2>8. reverted' \subseteq Accounts
    BY <2>2, <2>5 DEF TypeOK
  <2> QED
    BY <1>1, <2>6, <2>7, <2>8 DEF FinishSave, TypeOK
<1>2. ASSUME NEW u \in Users, NEW step \in {"edit", "support"}, StartSave(q, u, step)
      PROVE  TypeOK'
  <2> DEFINE r == [step |-> step, user |-> u, row |-> account[u]]
  <2>1. account[u] \in Account
    BY VersionTyped DEF Accounts
  <2>2. r \in Request
    BY <2>1 DEF Request
  <2>3. request' = [request EXCEPT ![q] = r]
    BY <1>2 DEF StartSave
  <2> HIDE DEF r
  <2>4. request' \in [Requests -> Request]
    BY <2>2, <2>3, RequestSet
  <2> QED
    BY <1>2, <2>4 DEF StartSave, TypeOK
<1> QED
  BY <1>1, <1>2

\* A row of password_resets is added, or one is changed.
LEMMA ResetsSet ==
  ASSUME TypeOK, NEW a \in Accounts, NEW s \in Seq(PasswordReset), resets' = [resets EXCEPT ![a] = s]
  PROVE  resets' \in [Accounts -> Seq(PasswordReset)]
BY DEF TypeOK

LEMMA RowSet ==
  ASSUME NEW S, NEW s \in Seq(S), NEW i, NEW x, i \in DOMAIN s => x \in S
  PROVE  [s EXCEPT ![i] = x] \in Seq(S) /\ DOMAIN [s EXCEPT ![i] = x] = DOMAIN s
<1>1. s \in [1..Len(s) -> S] /\ Len(s) \in Nat /\ DOMAIN s = 1..Len(s)
  BY LenProperties
<1>2. CASE i \in DOMAIN s
  BY <1>1, <1>2, ExceptSeq
<1>3. CASE i \notin DOMAIN s
  <2>1. [s EXCEPT ![i] = x] = [j \in DOMAIN s |-> IF j = i THEN x ELSE s[j]]
    OBVIOUS
  <2>2. [s EXCEPT ![i] = x] = [j \in 1..Len(s) |-> s[j]]
    BY <1>1, <1>3, <2>1
  <2>3. [s EXCEPT ![i] = x] = s
    BY <1>1, <2>2
  <2> QED
    BY <2>3
<1> QED
  BY <1>2, <1>3

LEMMA RowChanged ==
  ASSUME TypeOK, NEW a \in Accounts, NEW i, NEW x, i \in DOMAIN resets[a] => x \in PasswordReset,
         resets' = [resets EXCEPT ![a][i] = x]
  PROVE  /\ resets' \in [Accounts -> Seq(PasswordReset)]
         /\ \A b \in Accounts : /\ DOMAIN resets'[b] = DOMAIN resets[b]
                                /\ Len(resets'[b]) = Len(resets[b])
                                /\ b # a => resets'[b] = resets[b]
         /\ \A j \in DOMAIN resets[a] : resets'[a][j] = IF j = i THEN x ELSE resets[a][j]
<1> DEFINE s == [resets[a] EXCEPT ![i] = x]
<1>1. resets[a] \in Seq(PasswordReset)
  BY DEF TypeOK
<1>2. s \in Seq(PasswordReset) /\ DOMAIN s = DOMAIN resets[a]
  BY <1>1, RowSet
<1>3. Len(s) = Len(resets[a])
  BY <1>1, <1>2, LenProperties
<1>4. \A j \in DOMAIN resets[a] : s[j] = IF j = i THEN x ELSE resets[a][j]
  OBVIOUS
<1>5. resets' = [resets EXCEPT ![a] = s]
  OBVIOUS
<1> HIDE DEF s
<1>6. resets' \in [Accounts -> Seq(PasswordReset)]
  BY <1>2, <1>5, ResetsSet
<1>7. resets'[a] = s /\ \A b \in Accounts \ {a} : resets'[b] = resets[b]
  BY <1>5 DEF TypeOK
<1> QED
  BY <1>2, <1>3, <1>4, <1>6, <1>7

\* What a request leaves of the row it read.
LEMMA WrongCodeRow ==
  ASSUME TypeOK, NEW q \in Requests, WrongCode(q)
  PROVE  LET r == request[q]
             p == resets[r.user][r.row]
             x == [p EXCEPT !.attempts = r.attempts + 1, !.missed = p.missed + 1]
         IN  /\ r \in [step : {"verify"}, user : Accounts, row : Nat, attempts : Nat, consumed : BOOLEAN]
             /\ r.row \in DOMAIN resets[r.user] => p \in PasswordReset /\ x \in PasswordReset
             /\ resets' = [resets EXCEPT ![r.user][r.row] = x]
<1> DEFINE r == request[q]
           p == resets[r.user][r.row]
           x == [p EXCEPT !.attempts = r.attempts + 1, !.missed = p.missed + 1]
<1>1. r \in [step : {"verify"}, user : Accounts, row : Nat, attempts : Nat, consumed : BOOLEAN]
  BY RequestTyped DEF WrongCode
<1>2. resets' = [resets EXCEPT ![r.user][r.row] = x]
  BY DEF WrongCode
<1>3. resets[r.user] \in Seq(PasswordReset)
  BY <1>1 DEF TypeOK
<1> HIDE DEF r
<1>4. r.row \in DOMAIN resets[r.user] => p \in PasswordReset
  BY <1>3
<1>a. r.row \in DOMAIN resets[r.user] => p.missed + 1 \in Nat /\ r.attempts + 1 \in Nat
  <2> HIDE DEF p
  <2> QED
    BY <1>1, <1>4 DEF PasswordReset
<1>5. r.row \in DOMAIN resets[r.user] => x \in PasswordReset
  BY <1>4, <1>a DEF PasswordReset
<1> HIDE DEF p, x
<1> QED
  BY <1>1, <1>2, <1>4, <1>5 DEF r, p, x

LEMMA VerifiedRow ==
  ASSUME TypeOK, Constants, NEW q \in Requests, VerifyResetCode(q)
  PROVE  LET r == request[q]
             p == resets[r.user][r.row]
             x == [p EXCEPT !.verified = TRUE, !.expires = now + ResetTokenTTL, !.missedThen = p.missed]
         IN  /\ r \in [step : {"verify"}, user : Accounts, row : Nat, attempts : Nat, consumed : BOOLEAN]
             /\ r.row \in DOMAIN resets[r.user] => p \in PasswordReset /\ x \in PasswordReset
             /\ resets' = [resets EXCEPT ![r.user][r.row] = x]
<1> DEFINE r == request[q]
           p == resets[r.user][r.row]
           x == [p EXCEPT !.verified = TRUE, !.expires = now + ResetTokenTTL, !.missedThen = p.missed]
<1>1. r \in [step : {"verify"}, user : Accounts, row : Nat, attempts : Nat, consumed : BOOLEAN]
  BY RequestTyped DEF VerifyResetCode
<1>2. resets' = [resets EXCEPT ![r.user][r.row] = x]
  BY DEF VerifyResetCode
<1>3. resets[r.user] \in Seq(PasswordReset)
  BY <1>1 DEF TypeOK
<1> HIDE DEF r
<1>4. r.row \in DOMAIN resets[r.user] => p \in PasswordReset
  BY <1>3
<1>5. now + ResetTokenTTL \in Nat
  BY DEF TypeOK, Constants, ResetTokenTTL
<1>6. r.row \in DOMAIN resets[r.user] => x \in PasswordReset
  BY <1>4, <1>5 DEF PasswordReset
<1> HIDE DEF p, x
<1> QED
  BY <1>1, <1>2, <1>4, <1>6 DEF r, p, x

LEMMA BurntRow ==
  ASSUME TypeOK, NEW q \in Requests, NEW password, ResetPassword(q, password)
  PROVE  LET r == request[q]
             p == resets[r.user][r.row]
             x == [p EXCEPT !.consumed = TRUE, !.spent = p.spent + 1]
         IN  /\ r \in [step : {"reset"}, user : Accounts, row : Nat, consumed : BOOLEAN]
             /\ r.row \in DOMAIN resets[r.user] => p \in PasswordReset /\ x \in PasswordReset
             /\ resets' = [resets EXCEPT ![r.user][r.row] = x]
<1> DEFINE r == request[q]
           p == resets[r.user][r.row]
           x == [p EXCEPT !.consumed = TRUE, !.spent = p.spent + 1]
<1>1. r \in [step : {"reset"}, user : Accounts, row : Nat, consumed : BOOLEAN]
  BY RequestTyped DEF ResetPassword
<1>2. resets' = [resets EXCEPT ![r.user][r.row] = x]
  BY DEF ResetPassword
<1>3. resets[r.user] \in Seq(PasswordReset)
  BY <1>1 DEF TypeOK
<1> HIDE DEF r
<1>4. r.row \in DOMAIN resets[r.user] => p \in PasswordReset
  BY <1>3
<1>a. r.row \in DOMAIN resets[r.user] => p.spent + 1 \in Nat
  <2> HIDE DEF p
  <2> QED
    BY <1>4 DEF PasswordReset
<1>5. r.row \in DOMAIN resets[r.user] => x \in PasswordReset
  BY <1>4, <1>a DEF PasswordReset
<1> HIDE DEF p, x
<1> QED
  BY <1>1, <1>2, <1>4, <1>5 DEF r, p, x

\* A superseded row is as it was, but consumed; the code issued last is open.
LEMMA Superseded ==
  ASSUME TypeOK, NEW q \in Requests, NEW a \in Accounts, ForgotPassword(q, a)
  PROVE  /\ resets' \in [Accounts -> Seq(PasswordReset)]
         /\ \A b \in Accounts : /\ DOMAIN resets'[b] = DOMAIN resets[b]
                                /\ Len(resets'[b]) = Len(resets[b])
                                /\ b # a => resets'[b] = resets[b]
         /\ \A i \in DOMAIN resets[a] : resets'[a][i] = [resets[a][i] EXCEPT !.consumed = TRUE]
<1> DEFINE s == [i \in DOMAIN resets[a] |-> [resets[a][i] EXCEPT !.consumed = TRUE]]
<1>1. resets[a] \in Seq(PasswordReset)
  BY DEF TypeOK
<1>2. Len(resets[a]) \in Nat /\ DOMAIN resets[a] = 1..Len(resets[a])
  BY <1>1, LenProperties
<1>3. \A i \in DOMAIN resets[a] : resets[a][i] \in PasswordReset
  BY <1>1
<1>4. \A i \in DOMAIN resets[a] : [resets[a][i] EXCEPT !.consumed = TRUE] \in PasswordReset
  BY <1>3 DEF PasswordReset
<1>5. s \in [1..Len(resets[a]) -> PasswordReset]
  BY <1>2, <1>4
<1>6. s \in Seq(PasswordReset) /\ Len(s) = Len(resets[a]) /\ DOMAIN s = DOMAIN resets[a]
  <2> HIDE DEF s
  <2> QED
    BY <1>2, <1>5
<1>7. resets' = [resets EXCEPT ![a] = s]
  BY DEF ForgotPassword
<1>8. \A i \in DOMAIN resets[a] : s[i] = [resets[a][i] EXCEPT !.consumed = TRUE]
  OBVIOUS
<1> HIDE DEF s
<1>9. resets'[a] = s /\ \A b \in Accounts \ {a} : resets'[b] = resets[b]
  BY <1>7 DEF TypeOK
<1> QED
  BY <1>6, <1>7, <1>8, <1>9, ResetsSet

LEMMA IssuedRow ==
  ASSUME TypeOK, Constants, NEW q \in Requests, IssueCode(q)
  PROVE  LET a == request[q].user
             p == [created |-> now, expires |-> now + ResetCodeTTL, attempts |-> 0,
                   verified |-> FALSE, consumed |-> FALSE, missed |-> 0, spent |-> 0, missedThen |-> 0]
         IN  /\ a \in Accounts /\ p \in PasswordReset
             /\ resets' \in [Accounts -> Seq(PasswordReset)]
             /\ \A b \in Accounts \ {a} : resets'[b] = resets[b]
             /\ Len(resets[a]) \in Nat
             /\ DOMAIN resets[a] = 1..Len(resets[a])
             /\ Len(resets'[a]) = Len(resets[a]) + 1
             /\ DOMAIN resets'[a] = 1..(Len(resets[a]) + 1)
             /\ \A i \in DOMAIN resets[a] : resets'[a][i] = resets[a][i]
             /\ resets'[a][Len(resets[a]) + 1] = p
<1> DEFINE a == request[q].user
           p == [created |-> now, expires |-> now + ResetCodeTTL, attempts |-> 0,
                 verified |-> FALSE, consumed |-> FALSE, missed |-> 0, spent |-> 0, missedThen |-> 0]
<1>1. a \in Accounts
  <2>1. request[q] \in [step : {"issue"}, user : Accounts]
    BY RequestTyped DEF IssueCode
  <2> QED
    BY <2>1
<1>2. resets[a] \in Seq(PasswordReset)
  BY <1>1 DEF TypeOK
<1>3. now \in Nat /\ now + ResetCodeTTL \in Nat
  BY DEF TypeOK, Constants, ResetCodeTTL
<1>4. p \in PasswordReset
  BY <1>3 DEF PasswordReset
<1>5. resets' = [resets EXCEPT ![a] = Append(resets[a], p)]
  BY DEF IssueCode
<1> HIDE DEF a, p
<1>6. Append(resets[a], p) \in Seq(PasswordReset)
  BY <1>2, <1>4
<1>7. resets' \in [Accounts -> Seq(PasswordReset)]
  BY <1>1, <1>5, <1>6, ResetsSet
<1>8. resets'[a] = Append(resets[a], p) /\ \A b \in Accounts \ {a} : resets'[b] = resets[b]
  BY <1>1, <1>5 DEF TypeOK
<1>9. /\ Len(resets[a]) \in Nat
      /\ DOMAIN resets[a] = 1..Len(resets[a])
  BY <1>2, LenProperties
<1>10. /\ Len(resets'[a]) = Len(resets[a]) + 1
       /\ DOMAIN resets'[a] = 1..(Len(resets[a]) + 1)
       /\ \A i \in DOMAIN resets[a] : resets'[a][i] = resets[a][i]
       /\ resets'[a][Len(resets[a]) + 1] = p
  BY <1>2, <1>4, <1>8, <1>9
<1> QED
  BY <1>1, <1>4, <1>7, <1>8, <1>9, <1>10 DEF a, p

LEMMA ReadRowTyped ==
  ASSUME TypeOK, NEW q \in Requests, NEW a \in Accounts, NEW i \in DOMAIN resets[a],
         \/ request' = [request EXCEPT ![q] = [step |-> "verify", user |-> a, row |-> i,
                                               attempts |-> resets[a][i].attempts,
                                               consumed |-> resets[a][i].consumed]]
         \/ request' = [request EXCEPT ![q] = [step |-> "reset", user |-> a, row |-> i,
                                               consumed |-> resets[a][i].consumed]]
  PROVE  request' \in [Requests -> Request]
<1> DEFINE r == [step |-> "verify", user |-> a, row |-> i, attempts |-> resets[a][i].attempts,
                 consumed |-> resets[a][i].consumed]
           t == [step |-> "reset", user |-> a, row |-> i, consumed |-> resets[a][i].consumed]
<1>1. resets[a] \in Seq(PasswordReset)
  BY DEF TypeOK
<1>2. i \in Nat /\ resets[a][i] \in PasswordReset
  BY <1>1, LenProperties
<1>3. resets[a][i].attempts \in Nat /\ resets[a][i].consumed \in BOOLEAN
  BY <1>2 DEF PasswordReset
<1>4. r \in Request /\ t \in Request
  BY <1>2, <1>3 DEF Request
<1>5. request' = [request EXCEPT ![q] = r] \/ request' = [request EXCEPT ![q] = t]
  OBVIOUS
<1> HIDE DEF r, t
<1> QED
  BY <1>4, <1>5, RequestSet

\* The newest of the open rows is one of them.
LEMMA NewestIsOpen ==
  ASSUME TypeOK, NEW a \in Accounts, Open(a) # {}
  PROVE  Newest(Open(a)) \in Open(a)
<1>1. resets[a] \in Seq(PasswordReset)
  BY DEF TypeOK
<1>2. Len(resets[a]) \in Nat /\ DOMAIN resets[a] = 1..Len(resets[a])
  BY <1>1, LenProperties
<1>3. Open(a) \subseteq 1..Len(resets[a])
  BY <1>2 DEF Open
<1>4. IsFiniteSet(1..Len(resets[a]))
  <2>1. \A n \in Nat : IsFiniteSet(1..n)
    BY FS_Interval
  <2> QED
    BY <1>2, <2>1
<1>5. IsFiniteSet(Open(a))
  BY <1>3, <1>4, FS_Subset
<1>6. \E i \in Open(a) : \A j \in Open(a) : j <= i
  <2> DEFINE f == [i \in Open(a) |-> i]
  <2>1. \A i \in Open(a) : f[i] \in Nat /\ f[i] = i
    BY <1>2, <1>3
  <2> HIDE DEF f
  <2>2. \E i \in Open(a) : \A j \in Open(a) : f[j] <= f[i]
    BY <1>5, <2>1, MaxExists
  <2> QED
    BY <2>1, <2>2
<1> QED
  BY <1>6 DEF Newest

LEMMA ResetTyped ==
  ASSUME TypeOK, Constants, ResetStep
  PROVE  TypeOK'
<1>1. CASE Tick
  BY <1>1 DEF Tick, TypeOK, Constants
<1>2. ASSUME NEW q \in Requests, NEW a \in Accounts, ForgotPassword(q, a)
      PROVE  TypeOK'
  <2>1. resets' \in [Accounts -> Seq(PasswordReset)]
    BY <1>2, Superseded
  <2>2. request' \in [Requests -> Request]
    <3> DEFINE r == [step |-> "issue", user |-> a]
    <3>1. r \in Request /\ request' = [request EXCEPT ![q] = r]
      BY <1>2 DEF ForgotPassword, Request
    <3> HIDE DEF r
    <3> QED
      BY <3>1, RequestSet
  <2> QED
    BY <1>2, <2>1, <2>2 DEF ForgotPassword, TypeOK
<1>3. ASSUME NEW q \in Requests, NEW a \in Accounts, StartVerify(q, a)
      PROVE  TypeOK'
  <2>1. Newest(Open(a)) \in DOMAIN resets[a]
    BY <1>3, NewestIsOpen DEF StartVerify, Open
  <2>2. request' \in [Requests -> Request]
    BY <1>3, <2>1, ReadRowTyped DEF StartVerify
  <2> QED
    BY <1>3, <2>2 DEF StartVerify, TypeOK
<1>4. ASSUME NEW q \in Requests, NEW a \in Accounts, NEW i \in DOMAIN resets[a], StartReset(q, a, i)
      PROVE  TypeOK'
  <2>1. request' \in [Requests -> Request]
    BY <1>4, ReadRowTyped DEF StartReset
  <2> QED
    BY <1>4, <2>1 DEF StartReset, TypeOK
<1>5. ASSUME NEW q \in Requests, IssueCode(q)
      PROVE  TypeOK'
  <2>1. resets' \in [Accounts -> Seq(PasswordReset)] /\ request[q].user \in Accounts
    BY <1>5, IssuedRow
  <2>2. request' \in [Requests -> Request]
    BY <1>5, RequestOver DEF IssueCode
  <2>3. raced' \subseteq Accounts
    BY <1>5, <2>1 DEF IssueCode, TypeOK
  <2> QED
    BY <1>5, <2>1, <2>2, <2>3 DEF IssueCode, TypeOK
<1>6. ASSUME NEW q \in Requests, WrongCode(q) \/ VerifyResetCode(q)
      PROVE  TypeOK'
  <2>1. request[q].user \in Accounts
    BY <1>6, RequestTyped DEF WrongCode, VerifyResetCode
  <2>2. resets' \in [Accounts -> Seq(PasswordReset)]
    <3>1. PICK x : /\ resets' = [resets EXCEPT ![request[q].user][request[q].row] = x]
                   /\ request[q].row \in DOMAIN resets[request[q].user] => x \in PasswordReset
      BY <1>6, WrongCodeRow, VerifiedRow
    <3> QED
      BY <2>1, <3>1, RowChanged
  <2>3. request' \in [Requests -> Request]
    BY <1>6, RequestOver DEF WrongCode, VerifyResetCode
  <2>4. raced' \subseteq Accounts
    BY <1>6, <2>1 DEF WrongCode, VerifyResetCode, TypeOK
  <2>5. UNCHANGED <<now, account, access, refresh, endings, reverted>>
    BY <1>6 DEF WrongCode, VerifyResetCode
  <2> QED
    BY <2>2, <2>3, <2>4, <2>5 DEF TypeOK
<1>7. ASSUME NEW q \in Requests, NEW p \in Passwords, ResetPassword(q, p)
      PROVE  TypeOK'
  <2>1. request[q].user \in Accounts
    BY <1>7, RequestTyped DEF ResetPassword
  <2>2. resets' \in [Accounts -> Seq(PasswordReset)]
    <3>1. PICK x : /\ resets' = [resets EXCEPT ![request[q].user][request[q].row] = x]
                   /\ request[q].row \in DOMAIN resets[request[q].user] => x \in PasswordReset
      BY <1>7, BurntRow
    <3> QED
      BY <2>1, <3>1, RowChanged
  <2>3. request' \in [Requests -> Request]
    BY <1>7, RequestOver DEF ResetPassword
  <2> DEFINE a == request[q].user
             row == [account[a] EXCEPT !.password = p]
  <2>4. row \in Account
    <3>1. account[a] \in Account
      BY <2>1, VersionTyped
    <3> QED
      BY <3>1 DEF Account
  <2>5. /\ EndSessions(a, row) \/ (account' = [account EXCEPT ![a] = row] /\ UNCHANGED endings)
        /\ raced' = raced \/ raced' = raced \cup {a}
        /\ UNCHANGED <<now, access, refresh, reverted>>
    BY <1>7 DEF ResetPassword
  <2> HIDE DEF row
  <2>6. account' \in [Accounts -> Account] /\ endings' \in [Accounts -> Nat]
    BY <2>1, <2>4, <2>5, EndSessionsTyped DEF TypeOK
  <2> QED
    BY <2>1, <2>2, <2>3, <2>5, <2>6 DEF TypeOK
<1> QED
  BY <1>1, <1>2, <1>3, <1>4, <1>5, <1>6, <1>7 DEF ResetStep

\* No step leaves the types.
LEMMA TypeStep ==
  ASSUME TypeOK, Constants, Next
  PROVE  TypeOK'
<1>1. ASSUME NEW q \in Requests, Drop(q)
      PROVE  TypeOK'
  <2>1. request' \in [Requests -> Request]
    BY <1>1, RequestOver DEF Drop
  <2> QED
    BY <1>1, <2>1 DEF Drop, TypeOK
<1>2. CASE ResetStep
  BY <1>2, ResetTyped
<1>3. CASE SessionStep
  <2>1. ASSUME NEW a \in Accounts, RefreshToken(a) \/ \E b \in BOOLEAN : SetActive(a, b)
        PROVE  TypeOK'
    <3>1. PICK p \in Passwords : TRUE
      <4>1. account[a].password \in Passwords
        BY DEF TypeOK, Account
      <4> QED
        BY <4>1
    <3> QED
      BY <2>1, <3>1, AccountTyped
  <2>2. ASSUME NEW p \in Passwords, NEW a \in Accounts, Register(a, p) \/ CreateAdmin(a, p) \/ SetAdminPassword(a, p)
        PROVE  TypeOK'
    BY <2>2, AccountTyped
  <2>3. ASSUME NEW q \in Requests, NEW p \in Passwords,
               \/ FinishLogin(q) \/ FinishSave(q, p)
               \/ \E a \in Accounts : StartLogin(q, a, p) \/ StartChange(q, a, p)
        PROVE  TypeOK'
    BY <2>3, LoginTyped, SaveTyped
  <2>4. ASSUME NEW q \in Requests, FinishLogin(q) \/ \E u \in Users, step \in {"edit", "support"} : StartSave(q, u, step)
        PROVE  TypeOK'
    BY <2>4, LoginTyped, SaveTyped
  <2>5. ASSUME NEW q \in Requests, NEW p \in Passwords, NEW b \in BOOLEAN, ChangePassword(q, p, b)
        PROVE  TypeOK'
    BY <2>5, ChangeTyped
  <2>6. Admins \subseteq Accounts
    BY DEF Accounts
  <2> QED
    BY <1>3, <2>1, <2>2, <2>3, <2>4, <2>5, <2>6, LogoutTyped DEF SessionStep
<1> QED
  BY <1>1, <1>2, <1>3 DEF Next

LEMMA TypeInit ==
  ASSUME Constants, Init
  PROVE  TypeOK
<1>1. /\ now \in 0..MaxTime /\ access \subseteq Claims /\ refresh \subseteq Accounts
      /\ raced \subseteq Accounts /\ reverted \subseteq Accounts /\ endings \in [Accounts -> Nat]
  BY DEF Init, Constants
<1>2. resets \in [Accounts -> Seq(PasswordReset)] /\ request \in [Requests -> Request]
  BY DEF Init, Request
<1>3. [exists : BOOLEAN, active : {TRUE}, password : Passwords, version : {1}] \subseteq Account
  <2>1. {1} \subseteq 1..MaxVersion
    BY DEF Constants
  <2> QED
    BY <2>1 DEF Account
<1>4. account \in [Accounts -> Account]
  BY <1>3 DEF Init
<1> QED
  BY <1>1, <1>2, <1>4 DEF TypeOK

(* The types of every variable hold in every state of every behaviour.        *)
THEOREM TypeCorrect ==
  ASSUME Constants
  PROVE  Spec => []TypeOK
<1>1. Init => TypeOK
  BY TypeInit
<1>2. TypeOK /\ [Next]_sessionVars => TypeOK'
  <2>1. ASSUME TypeOK, UNCHANGED sessionVars
        PROVE  TypeOK'
    BY <2>1 DEF TypeOK, sessionVars
  <2> QED
    BY <2>1, TypeStep
<1> QED
  BY <1>1, <1>2, PTL DEF Spec

-----------------------------------------------------------------------------
(* Sessions *)

\* A token or a reading of an account whose sessions were ended n times.
Counted(x, n) == x.version = x.since + 1 /\ x.since <= n

LEMMA VersionsKept ==
  ASSUME TypeOK, TypeOK', NEW u \in Users, VersionsCount(u),
         account'[u].version = endings'[u] + 1,
         endings[u] <= endings'[u],
         \A t \in access' \ access : t.user = u => Counted(t, endings'[u]),
         \A q \in Requests :
            \/ request'[q] = request[q]
            \/ request'[q].step \in {"login", "change"} /\ request'[q].user = u => Counted(request'[q], endings'[u])
  PROVE  VersionsCount(u)'
<1>1. u \in Accounts
  BY DEF Accounts
<1>2. endings[u] \in Nat /\ endings'[u] \in Nat
  BY <1>1 DEF TypeOK
<1>3. ASSUME NEW t \in access', t.user = u
      PROVE  t.version = t.since + 1 /\ t.since <= endings'[u]
  <2>1. CASE t \in access
    <3>1. t.version = t.since + 1 /\ t.since <= endings[u]
      BY <1>3, <2>1 DEF VersionsCount
    <3>2. t.since \in Nat
      BY <2>1 DEF TypeOK, Claims
    <3> QED
      BY <1>2, <3>1, <3>2
  <2> QED
    BY <1>3, <2>1 DEF Counted
<1>4. ASSUME NEW q \in Requests, request'[q].step \in {"login", "change"}, request'[q].user = u
      PROVE  request'[q].version = request'[q].since + 1 /\ request'[q].since <= endings'[u]
  <2>1. CASE request'[q] = request[q]
    <3>1. request[q].version = request[q].since + 1 /\ request[q].since <= endings[u]
      BY <1>4, <2>1 DEF VersionsCount
    <3>2. request[q].since \in Nat
      <4>1. request[q] \in [step : {"login", "change"}, user : Accounts, version : 1..MaxVersion, since : Nat]
        BY <1>4, <2>1, RequestTyped
      <4> QED
        BY <4>1
    <3> QED
      BY <1>2, <2>1, <3>1, <3>2
  <2> QED
    BY <1>4, <2>1 DEF Counted
<1> QED
  BY <1>3, <1>4 DEF VersionsCount

LEMMA SignedUpKept ==
  ASSUME NEW u \in Users, SignedUp(u),
         account[u].exists => account'[u].exists,
         ~account'[u].exists => account'[u].version = account[u].version /\ endings'[u] = endings[u],
         \A q \in Requests :
            \/ request'[q] = request[q]
            \/ request'[q] = Idle
            \/ request'[q].step \notin {"change", "edit", "support"}
            \/ request'[q].step = "change" /\ (request'[q].user = u => account[u].exists)
            \/ request'[q].step \in {"edit", "support"} /\ request'[q].row.exists
  PROVE  SignedUp(u)'
<1>1. account'[u].exists \/ (account'[u].version = 1 /\ endings'[u] = 0)
  BY DEF SignedUp
<1>2. ASSUME NEW q \in Requests, request'[q] # Idle, request'[q].user = u
      PROVE  /\ request'[q].step = "change" => account'[u].exists
             /\ request'[q].step \in {"edit", "support"} => request'[q].row.exists
  <2>1. CASE request'[q] = request[q]
    BY <1>2, <2>1 DEF SignedUp
  <2>2. CASE request'[q] # request[q]
    BY <1>2, <2>2
  <2> QED
    BY <2>1, <2>2
<1> QED
  BY <1>1, <1>2 DEF SignedUp

\* A step that touches neither accounts nor tokens, and reads no account.
LEMMA QuietStep ==
  ASSUME TypeOK, TypeOK', SessionInv, NEW q \in Requests, UNCHANGED <<account, access, endings, reverted>>,
         \A o \in Requests \ {q} : request'[o] = request[o],
         request'[q].step \notin {"login", "change", "edit", "support"}
  PROVE  SessionInv'
<1>1. \A o \in Requests : request'[o] = request[o] \/ request'[o].step \notin {"login", "change", "edit", "support"}
  OBVIOUS
<1>2. ASSUME NEW u \in Users
      PROVE  SignedUp(u)'
  BY <1>1, SignedUpKept DEF SessionInv
<1>3. ASSUME NEW u \in Users \ reverted
      PROVE  VersionsCount(u)'
  <2>1. VersionsCount(u)
    BY DEF SessionInv
  <2>2. account'[u].version = endings'[u] + 1 /\ endings[u] <= endings'[u]
    <3>1. endings[u] \in Nat
      BY DEF TypeOK, Accounts
    <3> QED
      BY <2>1, <3>1 DEF VersionsCount
  <2> QED
    BY <1>1, <2>1, <2>2, VersionsKept
<1> QED
  BY <1>2, <1>3 DEF SessionInv

LEMMA LoginInv ==
  ASSUME TypeOK, TypeOK', SessionInv, Constants, NEW q \in Requests,
         \/ FinishLogin(q)
         \/ \E a \in Accounts, p \in Passwords : StartLogin(q, a, p) \/ StartChange(q, a, p)
  PROVE  SessionInv'
<1>1. UNCHANGED <<account, endings, reverted>>
  BY DEF FinishLogin, StartLogin, StartChange
<1>2. \A u \in Users : account'[u].version = account[u].version /\ endings[u] <= endings'[u]
  BY <1>1 DEF TypeOK, Accounts
<1>3. CASE FinishLogin(q)
  <2> DEFINE r == request[q]
             t == GenerateAccessToken(r.user, IF r.user \in Admins THEN 1 ELSE r.version, r.since)
  <2>1. /\ access' = access \cup {t}
        /\ \A o \in Requests : request'[o] = request[o] \/ request'[o] = Idle
        /\ r.step = "login"
    BY <1>3 DEF FinishLogin, TypeOK
  <2>2. ASSUME NEW u \in Users \ reverted, t.user = u
        PROVE  Counted(t, endings'[u])
    <3>1. r.user = u /\ u \notin Admins
      BY <2>2 DEF GenerateAccessToken, Constants
    <3>2. r.version = r.since + 1 /\ r.since <= endings[u]
      BY <2>1, <3>1 DEF SessionInv, VersionsCount
    <3> QED
      BY <1>1, <3>1, <3>2 DEF GenerateAccessToken, Counted
  <2> HIDE DEF t
  <2>3. ASSUME NEW u \in Users \ reverted
        PROVE  VersionsCount(u)'
    <3>1. VersionsCount(u)
      BY DEF SessionInv
    <3>2. account'[u].version = endings'[u] + 1
      BY <1>1, <3>1 DEF VersionsCount
    <3>3. \A o \in Requests : request'[o] = request[o] \/ request'[o].step \notin {"login", "change"}
      BY <2>1 DEF Idle
    <3> QED
      BY <1>2, <2>1, <2>2, <3>1, <3>2, <3>3, VersionsKept
  <2>4. ASSUME NEW u \in Users
        PROVE  SignedUp(u)'
    BY <1>1, <2>1, SignedUpKept DEF SessionInv
  <2> QED
    BY <1>1, <2>3, <2>4 DEF SessionInv
<1>4. ASSUME NEW a \in Accounts, NEW p \in Passwords, NEW step \in {"login", "change"},
             Read(q, step, a), step = "change" => account[a].exists, UNCHANGED access
      PROVE  SessionInv'
  <2> DEFINE r == [step |-> step, user |-> a, version |-> account[a].version, since |-> endings[a]]
  <2>1. request'[q] = r /\ \A o \in Requests \ {q} : request'[o] = request[o]
    BY <1>4 DEF Read, TypeOK
  <2>2. r.step = step /\ r.user = a /\ r.version = account[a].version /\ r.since = endings[a]
    OBVIOUS
  <2> HIDE DEF r
  <2>3. ASSUME NEW u \in Users \ reverted
        PROVE  VersionsCount(u)'
    <3>1. VersionsCount(u)
      BY DEF SessionInv
    <3>2. account'[u].version = endings'[u] + 1
      BY <1>1, <3>1 DEF VersionsCount
    <3>3. a = u => Counted(r, endings'[u])
      BY <1>1, <1>2, <2>2, <3>2 DEF Counted
    <3>4. \A o \in Requests : \/ request'[o] = request[o]
                              \/ request'[o].user = u => Counted(request'[o], endings'[u])
      BY <2>1, <2>2, <3>3
    <3> QED
      BY <1>2, <1>4, <3>1, <3>2, <3>4, VersionsKept
  <2>4. ASSUME NEW u \in Users
        PROVE  SignedUp(u)'
    <3>1. \A o \in Requests :
             \/ request'[o] = request[o]
             \/ request'[o].step \notin {"change", "edit", "support"}
             \/ request'[o].step = "change" /\ (request'[o].user = u => account[u].exists)
      BY <1>4, <2>1, <2>2
    <3> QED
      BY <1>1, <3>1, SignedUpKept DEF SessionInv
  <2> QED
    BY <1>1, <2>3, <2>4 DEF SessionInv
<1>5. ASSUME NEW a \in Accounts, NEW p \in Passwords, StartLogin(q, a, p)
      PROVE  SessionInv'
  BY <1>4, <1>5 DEF StartLogin
<1>6. ASSUME NEW a \in Accounts, NEW p \in Passwords, StartChange(q, a, p)
      PROVE  SessionInv'
  <2>1. a \in Users /\ a \notin Admins
    BY <1>6 DEF StartChange, Constants
  <2>2. account[a].exists
    BY <1>6, <2>1 DEF StartChange, Authenticate
  <2> QED
    BY <1>4, <1>6, <2>2 DEF StartChange
<1> QED
  BY <1>3, <1>5, <1>6

\* Ending the sessions of a raises both counts, and is only a's business.
LEMMA EndSessionsCounts ==
  ASSUME TypeOK, NEW a \in Accounts, NEW row \in Account, EndSessions(a, row)
  PROVE  /\ account'[a].version = row.version + 1 /\ account'[a].exists = row.exists
         /\ endings'[a] = endings[a] + 1
         /\ endings[a] <= endings'[a]
         /\ \A b \in Accounts \ {a} : account'[b] = account[b] /\ endings'[b] = endings[b]
<1>1. account' = [account EXCEPT ![a] = [row EXCEPT !.version = @ + 1]] /\ endings' = [endings EXCEPT ![a] = @ + 1]
  BY DEF EndSessions
<1>2. account'[a] = [row EXCEPT !.version = @ + 1] /\ \A b \in Accounts \ {a} : account'[b] = account[b]
  BY <1>1 DEF TypeOK
<1>3. endings'[a] = endings[a] + 1 /\ \A b \in Accounts \ {a} : endings'[b] = endings[b]
  BY <1>1 DEF TypeOK
<1>4. account'[a].version = row.version + 1 /\ account'[a].exists = row.exists
  BY <1>2 DEF Account
<1>5. endings[a] <= endings'[a]
  BY <1>3 DEF TypeOK
<1> QED
  BY <1>2, <1>3, <1>4, <1>5

LEMMA AccountInv ==
  ASSUME TypeOK, TypeOK', SessionInv, Constants, NEW a \in Accounts, NEW p \in Passwords,
         \/ Register(a, p) \/ RefreshToken(a) \/ \E b \in BOOLEAN : SetActive(a, b)
         \/ a \in Admins /\ (CreateAdmin(a, p) \/ SetAdminPassword(a, p))
  PROVE  SessionInv'
<1>1. UNCHANGED <<endings, reverted, request>>
  BY DEF Register, RefreshToken, SetActive, CreateAdmin, SetAdminPassword
<1>2. ASSUME NEW u \in Users
      PROVE  /\ account'[u].version = account[u].version
             /\ account[u].exists => account'[u].exists
             /\ \A t \in access' \ access :
                    t.user = u => t.version = account'[u].version /\ t.since = endings[u]
             /\ u = a /\ Register(a, p) => account'[u].exists
  <2>1. u \in Accounts /\ u \notin Admins /\ account[u] \in Account
    BY DEF Accounts, TypeOK, Constants
  <2>2. CASE Register(a, p)
    <3>1. SignedUp(u)
      BY DEF SessionInv
    <3>2. /\ account'[a] = NewAccount(p) /\ \A b \in Accounts \ {a} : account'[b] = account[b]
          /\ access' = access \cup {GenerateAccessToken(a, 1, endings[a])}
      BY <2>2 DEF Register, TypeOK
    <3>3. a = u => account[u].version = 1
      BY <2>2, <3>1 DEF SignedUp, Register
    <3> QED
      BY <2>1, <3>2, <3>3 DEF NewAccount, GenerateAccessToken
  <2>3. CASE RefreshToken(a)
    <3>1. account' = account /\ access' = access \cup {GenerateAccessToken(a, account[a].version, endings[a])}
      BY <2>3 DEF RefreshToken
    <3>2. ~Register(a, p)
      BY <2>3 DEF RefreshToken, Register
    <3> QED
      BY <3>1, <3>2 DEF GenerateAccessToken
  <2>4. ASSUME NEW b \in BOOLEAN, SetActive(a, b)
        PROVE  account' = [account EXCEPT ![a].active = b] /\ access' = access /\ ~Register(a, p)
    BY <2>4 DEF SetActive, Register
  <2>5. ASSUME NEW b \in BOOLEAN, account' = [account EXCEPT ![a].active = b]
        PROVE  account'[u].version = account[u].version /\ account'[u].exists = account[u].exists
    BY <2>1, <2>5 DEF TypeOK, Account
  <2>6. CASE a \in Admins /\ (CreateAdmin(a, p) \/ SetAdminPassword(a, p))
    <3>1. account'[u] = account[u] /\ access' = access /\ u # a
      BY <2>1, <2>6 DEF CreateAdmin, SetAdminPassword, TypeOK
    <3> QED
      BY <3>1
  <2> QED
    BY <2>2, <2>3, <2>4, <2>5, <2>6
<1>3. ASSUME NEW u \in Users \ reverted
      PROVE  VersionsCount(u)'
  <2>1. VersionsCount(u)
    BY DEF SessionInv
  <2>2. endings'[u] = endings[u] /\ endings[u] \in Nat
    BY <1>1 DEF TypeOK, Accounts
  <2>3. account'[u].version = endings'[u] + 1 /\ endings[u] <= endings'[u]
    BY <1>2, <2>1, <2>2 DEF VersionsCount
  <2>4. \A t \in access' \ access : t.user = u => Counted(t, endings'[u])
    BY <1>2, <2>2, <2>3 DEF Counted
  <2> QED
    BY <1>1, <2>1, <2>3, <2>4, VersionsKept
<1>4. ASSUME NEW u \in Users
      PROVE  SignedUp(u)'
  BY <1>1, <1>2, SignedUpKept DEF SessionInv
<1> QED
  BY <1>1, <1>3, <1>4 DEF SessionInv

LEMMA LogoutInv ==
  ASSUME TypeOK, TypeOK', SessionInv, Constants, NEW v \in Users, LogoutAll(v) \/ LogoutOthers(v)
  PROVE  SessionInv'
<1>1. v \in Accounts /\ v \notin Admins /\ account[v] \in Account
  BY DEF Accounts, TypeOK, Constants
<1>2. /\ account[v].exists /\ EndSessions(v, account[v])
      /\ UNCHANGED <<request, reverted>>
  BY <1>1 DEF LogoutAll, LogoutOthers, Authenticate
<1>3. /\ account'[v].version = account[v].version + 1 /\ account'[v].exists
      /\ endings'[v] = endings[v] + 1
      /\ endings[v] <= endings'[v]
      /\ \A b \in Accounts \ {v} : account'[b] = account[b] /\ endings'[b] = endings[b]
  BY <1>1, <1>2, EndSessionsCounts
<1>4. \/ access' = access
      \/ access' = access \cup {GenerateAccessToken(v, account[v].version + 1, endings[v] + 1)}
  BY DEF LogoutAll, LogoutOthers
<1>5. ASSUME NEW u \in Users \ reverted
      PROVE  VersionsCount(u)'
  <2>1. VersionsCount(u)
    BY DEF SessionInv
  <2>2. u \in Accounts /\ endings[u] \in Nat
    BY DEF Accounts, TypeOK
  <2>3. account'[u].version = endings'[u] + 1 /\ endings[u] <= endings'[u]
    BY <1>3, <2>1, <2>2 DEF VersionsCount
  <2>4. \A t \in access' \ access : t.user = u => Counted(t, endings'[u])
    <3>1. ASSUME NEW t \in access' \ access, t.user = u
          PROVE  u = v /\ t.version = account[v].version + 1 /\ t.since = endings[v] + 1
      BY <1>4, <3>1 DEF GenerateAccessToken
    <3>2. endings[u] + 1 <= endings[u] + 1
      BY <2>2
    <3> QED
      BY <1>3, <2>3, <3>1, <3>2 DEF Counted
  <2> QED
    BY <1>2, <2>1, <2>3, <2>4, VersionsKept
<1>6. ASSUME NEW u \in Users
      PROVE  SignedUp(u)'
  <2>1. u \in Accounts /\ SignedUp(u)
    BY DEF Accounts, SessionInv
  <2> QED
    BY <1>2, <1>3, <2>1, SignedUpKept
<1> QED
  BY <1>2, <1>5, <1>6 DEF SessionInv

LEMMA ChangeInv ==
  ASSUME TypeOK, TypeOK', SessionInv, NEW q \in Requests, NEW p \in Passwords, NEW b \in BOOLEAN,
         ChangePassword(q, p, b)
  PROVE  SessionInv'
<1> DEFINE r == request[q]
           a == r.user
           row == [account[a] EXCEPT !.password = p]
           n == IF b THEN 1 ELSE 0
           t == GenerateAccessToken(a, IF b THEN r.version + 1 ELSE r.version, r.since + n)
<1>1. r \in [step : {"login", "change"}, user : Accounts, version : 1..MaxVersion, since : Nat] /\ r.step = "change"
  BY RequestTyped DEF ChangePassword
<1>2. a \in Accounts /\ r.version \in Int /\ r.since \in Nat
  BY <1>1
<1>3. account[a] \in Account /\ endings[a] \in Nat
  BY <1>2 DEF TypeOK
<1>4. row \in Account /\ row.version = account[a].version /\ row.exists = account[a].exists
  BY <1>3 DEF Account
<1>5. /\ IF b THEN EndSessions(a, row) ELSE account' = [account EXCEPT ![a] = row] /\ UNCHANGED endings
      /\ access' = access \cup {t}
      /\ \A o \in Requests : request'[o] = request[o] \/ request'[o] = Idle
      /\ UNCHANGED reverted
  BY DEF ChangePassword, TypeOK
<1>6. /\ t.user = a /\ t.since = r.since + n
      /\ r.version = r.since + 1 => t.version = t.since + 1
  BY <1>2 DEF GenerateAccessToken
<1>7. r.since \in Nat /\ n \in Nat
  BY <1>2
<1> HIDE DEF row, t
<1>8. /\ account'[a].version = account[a].version + n /\ account'[a].exists = account[a].exists
      /\ endings'[a] = endings[a] + n
      /\ \A c \in Accounts \ {a} : account'[c] = account[c] /\ endings'[c] = endings[c]
  <2>1. CASE b
    BY <1>2, <1>4, <1>5, <2>1, EndSessionsCounts
  <2>2. CASE ~b
    <3>1. account[a].version \in Nat
      BY <1>3 DEF Account
    <3> QED
      BY <1>2, <1>3, <1>4, <1>5, <2>2, <3>1 DEF TypeOK
  <2> QED
    BY <2>1, <2>2
<1> HIDE DEF n
<1>9. ASSUME NEW u \in Users \ reverted
      PROVE  VersionsCount(u)'
  <2>1. VersionsCount(u)
    BY DEF SessionInv
  <2>2. u \in Accounts /\ endings[u] \in Nat
    BY DEF Accounts, TypeOK
  <2>3. account'[u].version = endings'[u] + 1 /\ endings[u] <= endings'[u]
    BY <1>7, <1>8, <2>1, <2>2 DEF VersionsCount
  <2>4. ASSUME NEW x \in access' \ access, x.user = u
        PROVE  Counted(x, endings'[u])
    <3>1. x = t /\ u = a
      BY <1>5, <1>6, <2>4
    <3>2. r.version = r.since + 1 /\ r.since <= endings[u]
      BY <1>1, <2>1, <3>1 DEF VersionsCount
    <3>3. r.since + n <= endings'[u]
      BY <1>7, <1>8, <2>2, <3>1, <3>2
    <3> QED
      BY <1>6, <3>1, <3>2, <3>3 DEF Counted
  <2>5. \A o \in Requests : request'[o] = request[o] \/ request'[o].step \notin {"login", "change"}
    BY <1>5 DEF Idle
  <2> QED
    BY <2>1, <2>3, <2>4, <2>5, VersionsKept
<1>10. ASSUME NEW u \in Users
       PROVE  SignedUp(u)'
  <2>1. u \in Accounts /\ SignedUp(u)
    BY DEF Accounts, SessionInv
  <2>2. a = u => account[u].exists
    BY <1>1, <2>1 DEF SignedUp, Idle
  <2> QED
    BY <1>5, <1>8, <2>1, <2>2, SignedUpKept
<1> QED
  BY <1>5, <1>9, <1>10 DEF SessionInv

LEMMA SaveInv ==
  ASSUME TypeOK, TypeOK', SessionInv, NEW q \in Requests, NEW p \in Passwords, FinishSave(q, p)
  PROVE  SessionInv'
<1> DEFINE r == request[q]
           a == r.user
           row == [r.row EXCEPT !.password = p]
           n == IF r.step = "support" THEN 1 ELSE 0
<1>1. r \in [step : {"edit", "support"}, user : Users, row : Account]
  BY RequestTyped DEF FinishSave
<1>2. a \in Users /\ a \in Accounts /\ r.row \in Account /\ r # Idle /\ r.step \in {"edit", "support"}
  BY <1>1 DEF Accounts, Idle
<1>3. row \in Account /\ row.version = r.row.version /\ row.exists = r.row.exists
  BY <1>2 DEF Account
<1>4. r.row.exists
  BY <1>2 DEF SessionInv, SignedUp
<1>5. /\ IF r.step = "support" THEN EndSessions(a, row)
         ELSE account' = [account EXCEPT ![a] = r.row] /\ UNCHANGED endings
      /\ reverted' = IF account[a] = r.row THEN reverted ELSE reverted \cup {a}
      /\ \A o \in Requests : request'[o] = request[o] \/ request'[o] = Idle
      /\ UNCHANGED access
  BY DEF FinishSave, TypeOK
<1>6. n \in Nat /\ endings[a] \in Nat /\ r.row.version \in Nat
  BY <1>2 DEF TypeOK, Account
<1> HIDE DEF row, r
<1>7. /\ account'[a].version = r.row.version + n /\ account'[a].exists
      /\ endings'[a] = endings[a] + n
      /\ \A c \in Accounts \ {a} : account'[c] = account[c] /\ endings'[c] = endings[c]
  <2>1. CASE r.step = "support"
    <3>1. /\ account'[a].version = row.version + 1 /\ account'[a].exists = row.exists
          /\ endings'[a] = endings[a] + 1
          /\ \A c \in Accounts \ {a} : account'[c] = account[c] /\ endings'[c] = endings[c]
      BY <1>2, <1>3, <1>5, <2>1, EndSessionsCounts
    <3>2. account'[a].exists
      BY <1>3, <1>4, <3>1, Zenon
    <3> QED
      BY <1>3, <2>1, <3>1, <3>2
  <2>2. CASE r.step # "support"
    BY <1>2, <1>4, <1>5, <1>6, <2>2 DEF TypeOK
  <2> QED
    BY <2>1, <2>2
<1> HIDE DEF n
<1>8. ASSUME NEW u \in Users \ reverted'
      PROVE  VersionsCount(u)'
  <2>1. u \notin reverted /\ (u = a => r.row = account[a])
    BY <1>5
  <2>2. VersionsCount(u)
    BY <2>1 DEF SessionInv
  <2>3. u \in Accounts /\ endings[u] \in Nat
    BY DEF Accounts, TypeOK
  <2>4. account'[u].version = endings'[u] + 1 /\ endings[u] <= endings'[u]
    BY <1>6, <1>7, <2>1, <2>2, <2>3 DEF VersionsCount
  <2>5. \A o \in Requests : request'[o] = request[o] \/ request'[o].step \notin {"login", "change"}
    BY <1>5 DEF Idle
  <2> QED
    BY <1>5, <2>2, <2>4, <2>5, VersionsKept
<1>9. ASSUME NEW u \in Users
      PROVE  SignedUp(u)'
  <2>1. u \in Accounts /\ SignedUp(u)
    BY DEF Accounts, SessionInv
  <2> QED
    BY <1>5, <1>7, <2>1, SignedUpKept
<1> QED
  BY <1>8, <1>9 DEF SessionInv

LEMMA StartSaveInv ==
  ASSUME TypeOK, TypeOK', SessionInv, NEW q \in Requests, NEW v \in Users, NEW step \in {"edit", "support"},
         StartSave(q, v, step)
  PROVE  SessionInv'
<1> DEFINE r == [step |-> step, user |-> v, row |-> account[v]]
<1>1. /\ request'[q] = r /\ \A o \in Requests \ {q} : request'[o] = request[o]
      /\ account[v].exists
      /\ UNCHANGED <<account, access, endings, reverted>>
  BY DEF StartSave, TypeOK
<1>2. r.step \in {"edit", "support"} /\ r.row.exists
  BY <1>1
<1> HIDE DEF r
<1>3. ASSUME NEW u \in Users \ reverted
      PROVE  VersionsCount(u)'
  <2>1. VersionsCount(u)
    BY DEF SessionInv
  <2>2. account'[u].version = endings'[u] + 1 /\ endings[u] <= endings'[u]
    <3>1. endings[u] \in Nat
      BY DEF TypeOK, Accounts
    <3> QED
      BY <1>1, <2>1, <3>1 DEF VersionsCount
  <2>3. \A o \in Requests : request'[o] = request[o] \/ request'[o].step \notin {"login", "change"}
    BY <1>1, <1>2
  <2> QED
    BY <1>1, <2>1, <2>2, <2>3, VersionsKept
<1>4. ASSUME NEW u \in Users
      PROVE  SignedUp(u)'
  BY <1>1, <1>2, SignedUpKept DEF SessionInv
<1> QED
  BY <1>1, <1>3, <1>4 DEF SessionInv

LEMMA ResetPasswordInv ==
  ASSUME TypeOK, TypeOK', SessionInv, Constants, NEW q \in Requests, NEW p \in Passwords, ResetPassword(q, p)
  PROVE  SessionInv'
<1> DEFINE a == request[q].user
           row == [account[a] EXCEPT !.password = p]
           n == IF a \in Admins THEN 0 ELSE 1
<1>1. a \in Accounts
  BY RequestTyped DEF ResetPassword
<1>2. account[a] \in Account /\ endings[a] \in Nat
  BY <1>1 DEF TypeOK
<1>3. row \in Account /\ row.version = account[a].version /\ row.exists = account[a].exists
  BY <1>2 DEF Account
<1>4. /\ IF a \in Admins THEN account' = [account EXCEPT ![a] = row] /\ UNCHANGED endings ELSE EndSessions(a, row)
      /\ account[a].exists
      /\ \A o \in Requests : request'[o] = request[o] \/ request'[o] = Idle
      /\ UNCHANGED <<access, reverted>>
  BY DEF ResetPassword, TypeOK
<1>5. n \in Nat /\ account[a].version \in Nat
  BY <1>2 DEF Account
<1> HIDE DEF row, a
<1>6. /\ account'[a].version = account[a].version + n /\ account'[a].exists
      /\ endings'[a] = endings[a] + n
      /\ \A c \in Accounts \ {a} : account'[c] = account[c] /\ endings'[c] = endings[c]
  <2>1. CASE a \notin Admins
    <3>1. /\ account'[a].version = row.version + 1 /\ account'[a].exists = row.exists
          /\ endings'[a] = endings[a] + 1
          /\ \A c \in Accounts \ {a} : account'[c] = account[c] /\ endings'[c] = endings[c]
      BY <1>1, <1>3, <1>4, <2>1, EndSessionsCounts
    <3>2. account'[a].exists
      BY <1>3, <1>4, <3>1, Zenon
    <3> QED
      BY <1>3, <2>1, <3>1, <3>2
  <2>2. CASE a \in Admins
    <3>1. account'[a] = row /\ endings'[a] = endings[a]
          /\ \A c \in Accounts \ {a} : account'[c] = account[c] /\ endings'[c] = endings[c]
      BY <1>1, <1>4, <2>2 DEF TypeOK
    <3>2. account'[a].exists
      BY <1>3, <1>4, <3>1, Zenon
    <3> QED
      BY <1>2, <1>3, <1>5, <2>2, <3>1, <3>2
  <2> QED
    BY <2>1, <2>2
<1> HIDE DEF n
<1>7. ASSUME NEW u \in Users \ reverted
      PROVE  VersionsCount(u)'
  <2>1. VersionsCount(u)
    BY DEF SessionInv
  <2>2. u \in Accounts /\ endings[u] \in Nat
    BY DEF Accounts, TypeOK
  <2>3. account'[u].version = endings'[u] + 1 /\ endings[u] <= endings'[u]
    BY <1>5, <1>6, <2>1, <2>2 DEF VersionsCount
  <2>4. \A o \in Requests : request'[o] = request[o] \/ request'[o].step \notin {"login", "change"}
    BY <1>4 DEF Idle
  <2> QED
    BY <1>4, <2>1, <2>3, <2>4, VersionsKept
<1>8. ASSUME NEW u \in Users
      PROVE  SignedUp(u)'
  <2>1. u \in Accounts /\ SignedUp(u)
    BY DEF Accounts, SessionInv
  <2> QED
    BY <1>4, <1>6, <2>1, SignedUpKept
<1> QED
  BY <1>4, <1>7, <1>8 DEF SessionInv

\* Steps of a reset but the last, time and failures.
LEMMA OtherStepInv ==
  ASSUME TypeOK, TypeOK', SessionInv,
         \/ Tick
         \/ \E q \in Requests : IssueCode(q) \/ WrongCode(q) \/ VerifyResetCode(q) \/ Drop(q)
         \/ \E q \in Requests, a \in Accounts :
               ForgotPassword(q, a) \/ StartVerify(q, a) \/ \E i \in DOMAIN resets[a] : StartReset(q, a, i)
  PROVE  SessionInv'
<1>1. CASE Tick
  BY <1>1 DEF Tick, SessionInv, VersionsCount, SignedUp
<1>2. ASSUME NEW q \in Requests, IssueCode(q) \/ WrongCode(q) \/ VerifyResetCode(q) \/ Drop(q)
      PROVE  SessionInv'
  <2>1. request' = [request EXCEPT ![q] = Idle] /\ UNCHANGED <<account, access, endings, reverted>>
    BY <1>2 DEF IssueCode, WrongCode, VerifyResetCode, Drop
  <2>2. request'[q].step = "idle" /\ \A o \in Requests \ {q} : request'[o] = request[o]
    BY <2>1 DEF TypeOK, Idle
  <2> QED
    BY <2>1, <2>2, QuietStep
<1>3. ASSUME NEW q \in Requests, NEW a \in Accounts,
             ForgotPassword(q, a) \/ StartVerify(q, a) \/ \E i \in DOMAIN resets[a] : StartReset(q, a, i)
      PROVE  SessionInv'
  <2>1. UNCHANGED <<account, access, endings, reverted>>
    BY <1>3 DEF ForgotPassword, StartVerify, StartReset
  <2>2. \A o \in Requests \ {q} : request'[o] = request[o]
    BY <1>3 DEF ForgotPassword, StartVerify, StartReset, TypeOK
  <2>3. request'[q].step \in {"issue", "verify", "reset"}
    <3>1. CASE ForgotPassword(q, a)
      BY <3>1 DEF ForgotPassword, TypeOK
    <3>2. CASE StartVerify(q, a)
      BY <3>2 DEF StartVerify, TypeOK
    <3>3. ASSUME NEW i \in DOMAIN resets[a], StartReset(q, a, i)
          PROVE  request'[q].step \in {"issue", "verify", "reset"}
      BY <3>3 DEF StartReset, TypeOK
    <3> QED
      BY <1>3, <3>1, <3>2, <3>3
  <2> QED
    BY <2>1, <2>2, <2>3, QuietStep
<1> QED
  BY <1>1, <1>2, <1>3

LEMMA SessionInvStep ==
  ASSUME TypeOK, SessionInv, Constants, Next
  PROVE  SessionInv'
<1>1. TypeOK'
  BY TypeStep
<1>2. CASE SessionStep
  <2>1. ASSUME NEW u \in Users, LogoutAll(u) \/ LogoutOthers(u)
        PROVE  SessionInv'
    BY <1>1, <2>1, LogoutInv
  <2>2. ASSUME NEW a \in Accounts, RefreshToken(a) \/ \E b \in BOOLEAN : SetActive(a, b)
        PROVE  SessionInv'
    <3>1. PICK p \in Passwords : TRUE
      <4>1. account[a].password \in Passwords
        BY DEF TypeOK, Account
      <4> QED
        BY <4>1
    <3> QED
      BY <1>1, <2>2, <3>1, AccountInv
  <2>3. ASSUME NEW p \in Passwords, NEW a \in Accounts, Register(a, p)
        PROVE  SessionInv'
    BY <1>1, <2>3, AccountInv
  <2>9. ASSUME NEW p \in Passwords, NEW a \in Admins, CreateAdmin(a, p) \/ SetAdminPassword(a, p)
         PROVE  SessionInv'
    <3>1. a \in Accounts
      BY DEF Accounts
    <3> QED
      BY <1>1, <2>9, <3>1, AccountInv
  <2>4. ASSUME NEW q \in Requests, NEW a \in Accounts, NEW p \in Passwords, StartLogin(q, a, p) \/ StartChange(q, a, p)
        PROVE  SessionInv'
    BY <1>1, <2>4, LoginInv
  <2>5. ASSUME NEW q \in Requests, FinishLogin(q)
        PROVE  SessionInv'
    BY <1>1, <2>5, LoginInv
  <2>6. ASSUME NEW q \in Requests, NEW p \in Passwords, NEW b \in BOOLEAN, ChangePassword(q, p, b)
        PROVE  SessionInv'
    BY <1>1, <2>6, ChangeInv
  <2>7. ASSUME NEW q \in Requests, NEW p \in Passwords, FinishSave(q, p)
        PROVE  SessionInv'
    BY <1>1, <2>7, SaveInv
  <2>8. ASSUME NEW q \in Requests, NEW u \in Users, NEW step \in {"edit", "support"}, StartSave(q, u, step)
        PROVE  SessionInv'
    BY <1>1, <2>8, StartSaveInv
  <2> QED
    BY <1>2, <2>1, <2>2, <2>3, <2>9, <2>4, <2>5, <2>6, <2>7, <2>8 DEF SessionStep
<1>3. ASSUME NEW q \in Requests, NEW p \in Passwords, ResetPassword(q, p)
      PROVE  SessionInv'
  BY <1>1, <1>3, ResetPasswordInv
<1> QED
  BY <1>1, <1>2, <1>3, OtherStepInv DEF Next, ResetStep

LEMMA SessionInvInit ==
  ASSUME Init
  PROVE  SessionInv
<1>1. ASSUME NEW u \in Users
      PROVE  account[u].version = 1 /\ endings[u] = 0
  BY DEF Init, Accounts
<1>2. access = {} /\ \A q \in Requests : request[q] = Idle
  BY DEF Init
<1> QED
  BY <1>1, <1>2 DEF SessionInv, VersionsCount, SignedUp, Idle

(* A token that is accepted was issued from a reading of the account made     *)
(* since its sessions were last ended, whatever login, refresh, change of     *)
(* password, logout and reset overlap, unless the whole row was saved over    *)
(* one nobody had read (auth_handler.go, password_reset_handler.go:282).      *)
THEOREM EndedSessionsStayOutHolds ==
  ASSUME Constants
  PROVE  Spec => []EndedSessionsStayOut
<1>1. Init => TypeOK /\ SessionInv
  BY TypeInit, SessionInvInit
<1>2. TypeOK /\ SessionInv /\ [Next]_sessionVars => (TypeOK /\ SessionInv)'
  <2>1. ASSUME TypeOK, SessionInv, UNCHANGED sessionVars
        PROVE  (TypeOK /\ SessionInv)'
    BY <2>1 DEF TypeOK, SessionInv, VersionsCount, SignedUp, sessionVars
  <2> QED
    BY <2>1, TypeStep, SessionInvStep
<1>3. TypeOK /\ SessionInv => EndedSessionsStayOut
  <2>1. ASSUME TypeOK, SessionInv, NEW t \in access, t.user \in Users \ reverted
        PROVE  t.version <= account[t.user].version /\ (Authenticate(t) => t.since = endings[t.user])
    <3>1. account[t.user].version = endings[t.user] + 1 /\ t.version = t.since + 1 /\ t.since <= endings[t.user]
      BY <2>1 DEF SessionInv, VersionsCount
    <3>2. endings[t.user] \in Nat /\ t.since \in Nat
      BY <2>1 DEF TypeOK, Claims, Accounts
    <3>3. t.version <= account[t.user].version
      BY <3>1, <3>2
    <3>4. t.version = account[t.user].version => t.since = endings[t.user]
      BY <3>1, <3>2
    <3>5. Authenticate(t) => t.user \in Admins \/ t.version = account[t.user].version
      BY DEF Authenticate
    <3>6. t.user \notin Admins
      BY <2>1 DEF Constants
    <3> QED
      BY <3>3, <3>4, <3>5, <3>6
  <2> QED
    BY <2>1 DEF EndedSessionsStayOut
<1> QED
  BY <1>1, <1>2, <1>3, PTL DEF Spec

-----------------------------------------------------------------------------
(* Forgotten passwords *)

\* Rows stay, and what was exchanged stays so.
LEMMA ReadersKept ==
  ASSUME TypeOK, NEW q \in Requests, \A o \in Requests : request[o].step \in {"verify", "reset"} => ReadOpenRow(o),
         \A a \in Accounts : \A i \in DOMAIN resets[a] :
            i \in DOMAIN resets'[a] /\ (resets[a][i].verified => resets'[a][i].verified),
         \A o \in Requests \ {q} : request'[o] = request[o],
         request'[q].step \notin {"verify", "reset"}
  PROVE  \A o \in Requests : (request[o].step \in {"verify", "reset"} => ReadOpenRow(o))'
<1>1. ASSUME NEW o \in Requests \ {q}, request[o].step \in {"verify", "reset"}
      PROVE  ReadOpenRow(o)'
  <2>1. request'[o] = request[o] /\ request[o].user \in Accounts
    BY <1>1, RequestTyped
  <2>2. ReadOpenRow(o)
    BY <1>1
  <2>3. request[o].row \in DOMAIN resets'[request[o].user]
    BY <2>1, <2>2 DEF ReadOpenRow
  <2>4. request[o].step = "reset" => resets'[request[o].user][request[o].row].verified
    BY <2>1, <2>2 DEF ReadOpenRow
  <2> QED
    BY <2>1, <2>2, <2>3, <2>4, Zenon DEF ReadOpenRow
<1> QED
  BY <1>1

\* A step that leaves the rows alone and reads none.
LEMMA QuietReset ==
  ASSUME TypeOK, ResetInv, NEW q \in Requests, UNCHANGED <<resets>>, raced \subseteq raced',
         \A o \in Requests \ {q} : request'[o] = request[o],
         request'[q].step \notin {"verify", "reset"}
  PROVE  ResetInv'
<1>1. \A o \in Requests : (request[o].step \in {"verify", "reset"} => ReadOpenRow(o))'
  BY ReadersKept DEF ResetInv
<1>2. \A a \in Accounts \ raced' : \A i \in DOMAIN resets'[a] : SingleUse(a, i)'
  BY DEF ResetInv, SingleUse
<1> QED
  BY <1>1, <1>2 DEF ResetInv

LEMMA ReadInv ==
  ASSUME TypeOK, ResetInv, NEW q \in Requests, NEW a \in Accounts,
         StartVerify(q, a) \/ \E i \in DOMAIN resets[a] : StartReset(q, a, i)
  PROVE  ResetInv'
<1>1. /\ UNCHANGED <<resets, raced>>
      /\ \A o \in Requests \ {q} : request'[o] = request[o]
  BY DEF StartVerify, StartReset, TypeOK
<1>2. ReadOpenRow(q)'
  <2>1. CASE StartVerify(q, a)
    <3> DEFINE i == Newest(Open(a))
    <3>1. i \in Open(a)
      BY <2>1, NewestIsOpen DEF StartVerify
    <3>2. i \in DOMAIN resets[a] /\ ~resets[a][i].consumed
      BY <3>1 DEF Open
    <3>3. /\ request'[q] = [step |-> "verify", user |-> a, row |-> i,
                            attempts |-> resets[a][i].attempts, consumed |-> resets[a][i].consumed]
          /\ resets[a][i].attempts < MaxResetAttempts
      BY <2>1 DEF StartVerify, TypeOK
    <3> HIDE DEF i
    <3>4. /\ request'[q].step = "verify" /\ request'[q].user = a /\ request'[q].row = i
          /\ request'[q].attempts = resets[a][i].attempts
      BY <3>3
    <3>5. ~request'[q].consumed
      <4>1. request'[q].consumed = resets[a][i].consumed
        BY <3>3
      <4> QED
        BY <3>2, <4>1, Zenon
    <3>6. request'[q].row \in DOMAIN resets'[request'[q].user] /\ request'[q].attempts < MaxResetAttempts
      BY <1>1, <3>2, <3>3, <3>4
    <3> QED
      BY <3>4, <3>5, <3>6, Zenon DEF ReadOpenRow
  <2>2. ASSUME NEW i \in DOMAIN resets[a], StartReset(q, a, i)
        PROVE  ReadOpenRow(q)'
    <3>1. ~resets[a][i].consumed /\ resets[a][i].verified
      BY <2>2 DEF StartReset, Open
    <3>2. request'[q] = [step |-> "reset", user |-> a, row |-> i, consumed |-> resets[a][i].consumed]
      BY <2>2 DEF StartReset, TypeOK
    <3>3. request'[q].step = "reset" /\ request'[q].user = a /\ request'[q].row = i
      BY <3>2
    <3>4. ~request'[q].consumed
      <4>1. request'[q].consumed = resets[a][i].consumed
        BY <3>2
      <4> QED
        BY <3>1, <4>1, Zenon
    <3>5. request'[q].row \in DOMAIN resets'[request'[q].user]
      BY <1>1, <3>3
    <3>6. resets'[request'[q].user][request'[q].row].verified
      BY <1>1, <3>1, <3>3, Zenon
    <3> QED
      BY <3>3, <3>4, <3>5, <3>6, Zenon DEF ReadOpenRow
  <2> QED
    BY <2>1, <2>2
<1>3. ASSUME NEW o \in Requests, (request[o].step \in {"verify", "reset"})'
      PROVE  ReadOpenRow(o)'
  <2>1. CASE o = q
    BY <1>2, <2>1
  <2>2. CASE o # q
    <3>1. request'[o] = request[o] /\ resets' = resets
      BY <1>1, <2>2
    <3>2. ReadOpenRow(o)
      BY <1>3, <3>1 DEF ResetInv
    <3> QED
      BY <3>1, <3>2, Zenon DEF ReadOpenRow
  <2> QED
    BY <2>1, <2>2
<1>4. \A b \in Accounts \ raced' : \A i \in DOMAIN resets'[b] : SingleUse(b, i)'
  BY <1>1 DEF ResetInv, SingleUse
<1> QED
  BY <1>3, <1>4 DEF ResetInv

\* One row changes and its request is over.
LEMMA OneRowInv ==
  ASSUME TypeOK, ResetInv, NEW q \in Requests, NEW a \in Accounts, NEW i \in DOMAIN resets[a], NEW x \in PasswordReset,
         resets' = [resets EXCEPT ![a][i] = x],
         request' = [request EXCEPT ![q] = Idle],
         raced \subseteq raced',
         resets[a][i].verified => x.verified,
         a \notin raced' => SingleUse(a, i)'
  PROVE  ResetInv'
<1>1. /\ \A b \in Accounts : /\ DOMAIN resets'[b] = DOMAIN resets[b]
                             /\ Len(resets'[b]) = Len(resets[b])
                             /\ b # a => resets'[b] = resets[b]
      /\ \A j \in DOMAIN resets[a] : resets'[a][j] = IF j = i THEN x ELSE resets[a][j]
  BY RowChanged
<1>2. request'[q].step = "idle" /\ \A o \in Requests \ {q} : request'[o] = request[o]
  BY DEF TypeOK, Idle
<1>3. ASSUME NEW b \in Accounts, NEW j \in DOMAIN resets[b]
      PROVE  j \in DOMAIN resets'[b] /\ (resets[b][j].verified => resets'[b][j].verified)
  <2>1. CASE b = a /\ j = i
    BY <1>1, <2>1
  <2>2. CASE ~(b = a /\ j = i)
    BY <1>1, <1>3, <2>2
  <2> QED
    BY <2>1, <2>2
<1>4. \A o \in Requests : (request[o].step \in {"verify", "reset"} => ReadOpenRow(o))'
  BY <1>2, <1>3, ReadersKept DEF ResetInv
<1>5. ASSUME NEW b \in Accounts \ raced', NEW j \in DOMAIN resets'[b]
      PROVE  SingleUse(b, j)'
  <2>1. CASE b = a /\ j = i
    BY <1>5, <2>1
  <2>2. CASE ~(b = a /\ j = i)
    <3>1. j \in DOMAIN resets[b] /\ resets'[b][j] = resets[b][j] /\ Len(resets'[b]) = Len(resets[b])
      BY <1>1, <1>5, <2>2
    <3>2. SingleUse(b, j)
      BY <1>5, <3>1 DEF ResetInv
    <3> QED
      BY <3>1, <3>2, Zenon DEF SingleUse
  <2> QED
    BY <2>1, <2>2
<1> QED
  BY <1>4, <1>5 DEF ResetInv

LEMMA ForgotInv ==
  ASSUME TypeOK, ResetInv, NEW q \in Requests, NEW a \in Accounts, ForgotPassword(q, a)
  PROVE  ResetInv'
<1>1. /\ \A b \in Accounts : /\ DOMAIN resets'[b] = DOMAIN resets[b]
                             /\ Len(resets'[b]) = Len(resets[b])
                             /\ b # a => resets'[b] = resets[b]
      /\ \A i \in DOMAIN resets[a] : resets'[a][i] = [resets[a][i] EXCEPT !.consumed = TRUE]
  BY Superseded
<1>2. ASSUME NEW i \in DOMAIN resets[a]
      PROVE  /\ resets'[a][i].consumed
             /\ resets'[a][i].verified = resets[a][i].verified
             /\ resets'[a][i].spent = resets[a][i].spent /\ resets'[a][i].attempts = resets[a][i].attempts
             /\ resets'[a][i].missed = resets[a][i].missed /\ resets'[a][i].missedThen = resets[a][i].missedThen
  <2>1. resets[a][i] \in PasswordReset
    BY DEF TypeOK
  <2> QED
    BY <1>1, <2>1 DEF PasswordReset
<1>3. /\ request'[q].step = "issue" /\ \A o \in Requests \ {q} : request'[o] = request[o]
      /\ raced' = raced
  BY DEF ForgotPassword, TypeOK
<1>4. ASSUME NEW b \in Accounts, NEW j \in DOMAIN resets[b]
      PROVE  j \in DOMAIN resets'[b] /\ (resets[b][j].verified => resets'[b][j].verified)
  <2>1. CASE b = a
    <3>1. resets'[a][j].verified = resets[a][j].verified
      BY <1>2, <1>4, <2>1
    <3> QED
      BY <1>1, <1>4, <2>1, <3>1
  <2>2. CASE b # a
    BY <1>1, <1>4, <2>2
  <2> QED
    BY <2>1, <2>2
<1>5. \A o \in Requests : (request[o].step \in {"verify", "reset"} => ReadOpenRow(o))'
  BY <1>3, <1>4, ReadersKept DEF ResetInv
<1>6. ASSUME NEW b \in Accounts \ raced', NEW j \in DOMAIN resets'[b]
      PROVE  SingleUse(b, j)'
  <2>1. j \in DOMAIN resets[b] /\ Len(resets'[b]) = Len(resets[b])
    BY <1>1, <1>6
  <2>2. SingleUse(b, j)
    BY <1>3, <1>6, <2>1 DEF ResetInv
  <2>3. CASE b = a
    <3>1. /\ resets'[b][j].consumed
          /\ resets'[b][j].verified = resets[b][j].verified
          /\ resets'[b][j].spent = resets[b][j].spent /\ resets'[b][j].attempts = resets[b][j].attempts
          /\ resets'[b][j].missed = resets[b][j].missed /\ resets'[b][j].missedThen = resets[b][j].missedThen
      BY <1>2, <2>1, <2>3
    <3>2. /\ resets[b][j].spent <= 1 /\ (resets[b][j].spent = 1 => resets[b][j].verified)
          /\ resets[b][j].attempts = resets[b][j].missed
          /\ resets[b][j].verified => resets[b][j].missedThen < MaxResetAttempts
      BY <2>2, Zenon DEF SingleUse
    <3> QED
      BY <3>1, <3>2, Zenon DEF SingleUse
  <2>4. CASE b # a
    <3>1. resets'[b] = resets[b]
      BY <1>1, <2>4
    <3> QED
      BY <2>2, <3>1, Zenon DEF SingleUse
  <2> QED
    BY <2>3, <2>4
<1> QED
  BY <1>5, <1>6 DEF ResetInv

LEMMA IssueInv ==
  ASSUME TypeOK, Constants, ResetInv, NEW q \in Requests, IssueCode(q)
  PROVE  ResetInv'
<1> DEFINE a == request[q].user
           n == Len(resets[a])
           p == [created |-> now, expires |-> now + ResetCodeTTL, attempts |-> 0,
                 verified |-> FALSE, consumed |-> FALSE, missed |-> 0, spent |-> 0, missedThen |-> 0]
<1>1. /\ a \in Accounts
      /\ \A b \in Accounts \ {a} : resets'[b] = resets[b]
      /\ n \in Nat
      /\ DOMAIN resets[a] = 1..n
      /\ Len(resets'[a]) = n + 1
      /\ DOMAIN resets'[a] = 1..(n + 1)
      /\ \A i \in DOMAIN resets[a] : resets'[a][i] = resets[a][i]
      /\ resets'[a][n + 1] = p
  BY IssuedRow
<1>2. /\ request'[q].step = "idle" /\ \A o \in Requests \ {q} : request'[o] = request[o]
      /\ raced' = IF \E i \in DOMAIN resets[a] : ~resets[a][i].consumed THEN raced \cup {a} ELSE raced
  BY DEF IssueCode, TypeOK, Idle
<1>3. p.spent = 0 /\ p.attempts = 0 /\ p.missed = 0 /\ ~p.verified
  OBVIOUS
<1> HIDE DEF a, n, p
<1>4. DOMAIN resets[a] \subseteq DOMAIN resets'[a]
  BY <1>1
<1>5. \A b \in Accounts : \A i \in DOMAIN resets[b] :
        i \in DOMAIN resets'[b] /\ (resets[b][i].verified => resets'[b][i].verified)
  BY <1>1, <1>4
<1>6. \A o \in Requests : (request[o].step \in {"verify", "reset"} => ReadOpenRow(o))'
  BY <1>2, <1>5, ReadersKept DEF ResetInv
<1>7. ASSUME NEW b \in Accounts \ raced', NEW j \in DOMAIN resets'[b]
      PROVE  SingleUse(b, j)'
  <2>1. b \notin raced
    BY <1>2
  <2>2. CASE b # a
    <3>1. resets'[b] = resets[b]
      BY <1>1, <2>2
    <3>2. SingleUse(b, j)
      BY <1>7, <2>1, <3>1 DEF ResetInv
    <3> QED
      BY <3>1, <3>2, Zenon DEF SingleUse
  <2>3. CASE b = a /\ j \in DOMAIN resets[a]
    <3>1. resets'[b][j] = resets[b][j]
      BY <1>1, <2>3
    <3>2. SingleUse(b, j) /\ resets[b][j].consumed
      BY <1>2, <1>7, <2>1, <2>3 DEF ResetInv
    <3> QED
      BY <3>1, <3>2, Zenon DEF SingleUse
  <2>4. CASE b = a /\ j \notin DOMAIN resets[a]
    <3>1. j = n + 1
      BY <1>1, <1>7, <2>4
    <3>2. resets'[b][j] = p /\ j = Len(resets'[b])
      BY <1>1, <2>4, <3>1
    <3> QED
      BY <1>3, <3>2 DEF SingleUse
  <2> QED
    BY <2>2, <2>3, <2>4
<1> QED
  BY <1>6, <1>7 DEF ResetInv

LEMMA WrongCodeInv ==
  ASSUME TypeOK, ResetInv, NEW q \in Requests, WrongCode(q)
  PROVE  ResetInv'
<1> DEFINE r == request[q]
<1>0. PICK a, i : a = r.user /\ i = r.row
  OBVIOUS
<1> DEFINE p == resets[a][i]
           x == [p EXCEPT !.attempts = r.attempts + 1, !.missed = p.missed + 1]
<1>1. ReadOpenRow(q)
  BY DEF ResetInv, WrongCode
<1>2. i \in DOMAIN resets[a]
  BY <1>0, <1>1 DEF ReadOpenRow
<1>3. a \in Accounts /\ p \in PasswordReset /\ x \in PasswordReset /\ resets' = [resets EXCEPT ![a][i] = x]
  BY <1>0, <1>2, WrongCodeRow
<1>4. request' = [request EXCEPT ![q] = Idle] /\ raced' = IF p.attempts = r.attempts THEN raced ELSE raced \cup {a}
  BY <1>0 DEF WrongCode
<1>5. /\ x.verified = p.verified /\ x.consumed = p.consumed /\ x.spent = p.spent /\ x.missedThen = p.missedThen
      /\ x.attempts = r.attempts + 1 /\ x.missed = p.missed + 1
  BY <1>3 DEF PasswordReset
<1> HIDE DEF x
<1>6. resets'[a][i] = x /\ Len(resets'[a]) = Len(resets[a])
  BY <1>2, <1>3, RowChanged
<1>7. ASSUME a \notin raced'
      PROVE  SingleUse(a, i)'
  <2>1. SingleUse(a, i) /\ p.attempts = r.attempts
    BY <1>2, <1>3, <1>4, <1>7 DEF ResetInv
  <2>2. /\ p.spent <= 1 /\ (p.spent = 1 => p.consumed /\ p.verified)
        /\ p.attempts = p.missed
        /\ p.verified => p.missedThen < MaxResetAttempts
        /\ ~p.consumed => i = Len(resets[a])
    BY <2>1, Zenon DEF SingleUse
  <2>3. x.attempts = x.missed
    BY <1>5, <2>1, <2>2
  <2> QED
    BY <1>5, <1>6, <2>2, <2>3, Zenon DEF SingleUse
<1>8. resets[a][i].verified => x.verified
  BY <1>5
<1>9. raced \subseteq raced'
  BY <1>4
<1> HIDE DEF p, r
<1> QED
  BY <1>2, <1>3, <1>4, <1>7, <1>8, <1>9, OneRowInv

LEMMA VerifyInv ==
  ASSUME TypeOK, Constants, ResetInv, NEW q \in Requests, VerifyResetCode(q)
  PROVE  ResetInv'
<1> DEFINE r == request[q]
<1>0. PICK a, i : a = r.user /\ i = r.row
  OBVIOUS
<1> DEFINE p == resets[a][i]
           x == [p EXCEPT !.verified = TRUE, !.expires = now + ResetTokenTTL, !.missedThen = p.missed]
<1>1. ReadOpenRow(q) /\ r.step = "verify"
  BY DEF ResetInv, VerifyResetCode
<1>2. i \in DOMAIN resets[a] /\ r.attempts < MaxResetAttempts
  BY <1>0, <1>1 DEF ReadOpenRow
<1>3. a \in Accounts /\ p \in PasswordReset /\ x \in PasswordReset /\ resets' = [resets EXCEPT ![a][i] = x]
  BY <1>0, <1>2, VerifiedRow
<1>4. /\ request' = [request EXCEPT ![q] = Idle]
      /\ raced' = IF p.attempts = r.attempts /\ p.consumed = r.consumed THEN raced ELSE raced \cup {a}
  BY <1>0 DEF VerifyResetCode
<1>5. /\ x.verified /\ x.consumed = p.consumed /\ x.spent = p.spent /\ x.missedThen = p.missed
      /\ x.attempts = p.attempts /\ x.missed = p.missed
  BY <1>3 DEF PasswordReset
<1> HIDE DEF x
<1>6. resets'[a][i] = x /\ Len(resets'[a]) = Len(resets[a])
  BY <1>2, <1>3, RowChanged
<1>7. ASSUME a \notin raced'
      PROVE  SingleUse(a, i)'
  <2>1. SingleUse(a, i) /\ p.attempts = r.attempts
    BY <1>2, <1>3, <1>4, <1>7 DEF ResetInv
  <2>2. /\ p.spent <= 1 /\ (p.spent = 1 => p.consumed /\ p.verified)
        /\ p.attempts = p.missed
        /\ ~p.consumed => i = Len(resets[a])
    BY <2>1, Zenon DEF SingleUse
  <2>3. x.missedThen < MaxResetAttempts
    BY <1>2, <1>5, <2>1, <2>2
  <2> QED
    BY <1>5, <1>6, <2>2, <2>3, Zenon DEF SingleUse
<1>8. raced \subseteq raced'
  BY <1>4
<1> HIDE DEF p, r
<1> QED
  BY <1>2, <1>3, <1>4, <1>5, <1>7, <1>8, OneRowInv

LEMMA ResetPasswordOnce ==
  ASSUME TypeOK, ResetInv, NEW q \in Requests, NEW password, ResetPassword(q, password)
  PROVE  ResetInv'
<1> DEFINE r == request[q]
<1>0. PICK a, i : a = r.user /\ i = r.row
  OBVIOUS
<1> DEFINE p == resets[a][i]
           x == [p EXCEPT !.consumed = TRUE, !.spent = p.spent + 1]
<1>1. ReadOpenRow(q) /\ r.step = "reset"
  BY DEF ResetInv, ResetPassword
<1>2. i \in DOMAIN resets[a] /\ ~r.consumed /\ p.verified
  BY <1>0, <1>1, Zenon DEF ReadOpenRow
<1>3. a \in Accounts /\ p \in PasswordReset /\ x \in PasswordReset /\ resets' = [resets EXCEPT ![a][i] = x]
  BY <1>0, <1>2, BurntRow
<1>4. /\ request' = [request EXCEPT ![q] = Idle]
      /\ raced' = IF p.consumed = r.consumed THEN raced ELSE raced \cup {a}
  BY <1>0 DEF ResetPassword
<1>5. /\ x.verified = p.verified /\ x.consumed /\ x.spent = p.spent + 1 /\ x.missedThen = p.missedThen
      /\ x.attempts = p.attempts /\ x.missed = p.missed
  BY <1>3 DEF PasswordReset
<1>6. p.spent \in Nat
  BY <1>3 DEF PasswordReset
<1> HIDE DEF x
<1>7. resets'[a][i] = x /\ Len(resets'[a]) = Len(resets[a])
  BY <1>2, <1>3, RowChanged
<1>8. ASSUME a \notin raced'
      PROVE  SingleUse(a, i)'
  <2>1. SingleUse(a, i) /\ p.consumed = r.consumed
    BY <1>2, <1>3, <1>4, <1>8 DEF ResetInv
  <2>2. /\ p.spent <= 1 /\ (p.spent = 1 => p.consumed /\ p.verified)
        /\ p.attempts = p.missed
        /\ p.verified => p.missedThen < MaxResetAttempts
    BY <2>1, Zenon DEF SingleUse
  <2>3. ~p.consumed
    BY <1>2, <2>1, Zenon
  <2>4. p.spent # 1
    BY <2>2, <2>3, Zenon
  <2>5. x.spent <= 1
    BY <1>5, <1>6, <2>2, <2>4
  <2>6. x.verified /\ x.attempts = x.missed /\ x.missedThen < MaxResetAttempts
    BY <1>2, <1>5, <2>2
  <2> QED
    BY <1>5, <1>7, <2>5, <2>6, Zenon DEF SingleUse
<1>9. raced \subseteq raced' /\ (p.verified => x.verified)
  BY <1>2, <1>4, <1>5
<1> HIDE DEF p, r
<1> QED
  BY <1>2, <1>3, <1>4, <1>8, <1>9, OneRowInv

LEMMA ResetInvStep ==
  ASSUME TypeOK, ResetInv, Constants, Next
  PROVE  ResetInv'
<1>1. CASE Tick
  BY <1>1 DEF Tick, ResetInv, SingleUse, ReadOpenRow
<1>2. ASSUME NEW q \in Requests, Drop(q) \/ FinishLogin(q)
      PROVE  ResetInv'
  <2>1. request'[q].step = "idle" /\ \A o \in Requests \ {q} : request'[o] = request[o]
    BY <1>2 DEF Drop, FinishLogin, TypeOK, Idle
  <2> QED
    BY <1>2, <2>1, QuietReset DEF Drop, FinishLogin
<1>3. ASSUME NEW q \in Requests, NEW p \in Passwords,
             \/ \E b \in BOOLEAN : ChangePassword(q, p, b)
             \/ FinishSave(q, p)
      PROVE  ResetInv'
  <2>1. /\ request'[q].step = "idle" /\ \A o \in Requests \ {q} : request'[o] = request[o]
        /\ UNCHANGED resets /\ raced \subseteq raced'
    BY <1>3 DEF ChangePassword, FinishSave, TypeOK, Idle
  <2> QED
    BY <2>1, QuietReset
<1>4. ASSUME NEW q \in Requests, NEW a \in Accounts,
             \/ \E p \in Passwords : StartLogin(q, a, p) \/ StartChange(q, a, p)
             \/ \E step \in {"edit", "support"} : StartSave(q, a, step)
      PROVE  ResetInv'
  <2>1. /\ request'[q].step \in {"login", "change", "edit", "support"}
        /\ \A o \in Requests \ {q} : request'[o] = request[o]
        /\ UNCHANGED <<resets, raced>>
    BY <1>4 DEF StartLogin, StartChange, StartSave, Read, TypeOK
  <2> QED
    BY <2>1, QuietReset
<1>5. ASSUME UNCHANGED <<resets, raced, request>>
      PROVE  ResetInv'
  BY <1>5 DEF ResetInv, SingleUse, ReadOpenRow
<1>6. CASE SessionStep
  <2>1. ASSUME NEW a \in Accounts, NEW p \in Passwords,
               \/ RefreshToken(a) \/ Register(a, p) \/ \E b \in BOOLEAN : SetActive(a, b)
               \/ CreateAdmin(a, p) \/ SetAdminPassword(a, p)
        PROVE  ResetInv'
    BY <1>5, <2>1 DEF RefreshToken, Register, SetActive, CreateAdmin, SetAdminPassword
  <2>2. ASSUME NEW a \in Accounts, RefreshToken(a) \/ \E b \in BOOLEAN : SetActive(a, b)
        PROVE  ResetInv'
    BY <1>5, <2>2 DEF RefreshToken, SetActive
  <2>3. ASSUME NEW u \in Users, LogoutAll(u) \/ LogoutOthers(u)
        PROVE  ResetInv'
    BY <1>5, <2>3 DEF LogoutAll, LogoutOthers
  <2>4. Users \subseteq Accounts /\ Admins \subseteq Accounts
    BY DEF Accounts
  <2> QED
    BY <1>2, <1>3, <1>4, <1>6, <2>1, <2>2, <2>3, <2>4 DEF SessionStep
<1>7. ASSUME NEW q \in Requests, NEW a \in Accounts, NEW i \in DOMAIN resets[a], StartReset(q, a, i)
      PROVE  ResetInv'
  BY <1>7, ReadInv
<1> QED
  BY <1>1, <1>2, <1>6, <1>7, ReadInv, ForgotInv, IssueInv, WrongCodeInv, VerifyInv, ResetPasswordOnce DEF Next, ResetStep

\* The stage of the admin page is that of its filters.
LEMMA StageIsListed ==
  ASSUME TypeOK, Constants, NEW p \in PasswordReset, NEW s \in Statuses, ~(p.verified /\ p.attempts >= MaxResetAttempts)
  PROVE  Listed(p, s) <=> resetRowStatus(p) = s
<1>1. /\ p.attempts < MaxResetAttempts <=> ~(p.attempts >= MaxResetAttempts)
      /\ p.expires > now <=> ~(p.expires <= now)
  BY DEF TypeOK, Constants, PasswordReset
<1>2. CASE p.consumed /\ p.verified
  BY <1>1, <1>2 DEF Statuses, Listed, resetRowStatus
<1>3. CASE p.consumed /\ ~p.verified
  BY <1>1, <1>3 DEF Statuses, Listed, resetRowStatus
<1>4. CASE ~p.consumed /\ p.attempts >= MaxResetAttempts
  BY <1>1, <1>4 DEF Statuses, Listed, resetRowStatus
<1>5. CASE ~p.consumed /\ p.attempts < MaxResetAttempts /\ p.verified
  BY <1>1, <1>5 DEF Statuses, Listed, resetRowStatus
<1>6. CASE ~p.consumed /\ p.attempts < MaxResetAttempts /\ ~p.verified
  BY <1>1, <1>6 DEF Statuses, Listed, resetRowStatus
<1> QED
  BY <1>1, <1>2, <1>3, <1>4, <1>5, <1>6

(* Unless two requests wrote from the same reading, a row of password_resets  *)
(* sets one password, counts every wrong code, is exchanged before the last   *)
(* attempt only, and is the only one open (password_reset_handler.go).        *)
THEOREM ResetsAreSingleUseHolds ==
  ASSUME Constants
  PROVE  Spec => []ResetsAreSingleUse
<1>1. Init => TypeOK /\ ResetInv
  <2>1. ASSUME Init
        PROVE  ResetInv
    BY <2>1 DEF Init, ResetInv, Idle
  <2> QED
    BY <2>1, TypeInit
<1>2. TypeOK /\ ResetInv /\ [Next]_sessionVars => (TypeOK /\ ResetInv)'
  <2>1. ASSUME TypeOK, ResetInv, UNCHANGED sessionVars
        PROVE  (TypeOK /\ ResetInv)'
    BY <2>1 DEF TypeOK, ResetInv, SingleUse, ReadOpenRow, sessionVars
  <2> QED
    BY <2>1, TypeStep, ResetInvStep
<1>3. TypeOK /\ ResetInv => ResetsAreSingleUse
  <2>1. ASSUME TypeOK, NEW a \in Accounts, NEW i \in DOMAIN resets[a]
        PROVE  resets[a][i] \in PasswordReset
    BY <2>1 DEF TypeOK
  <2> QED
    BY <2>1, StageIsListed DEF ResetInv, SingleUse, ResetsAreSingleUse
<1> QED
  BY <1>1, <1>2, <1>3, PTL DEF Spec

-----------------------------------------------------------------------------
(* Devices *)

\* A goroutine that changes the topics of a token, and where it is with it.
Works(w, t) == task[w] # Idle /\ task[w].step # "push" /\ t \in task[w].tokens
At(w, t, step) == task[w].step = step /\ task[w].token = t

\* What a token's owner asks for, unless the owner was placed elsewhere.
Wanted(t, topics) == topics = desiredTopics(device[t].owner) \/ device[t].owner \in moved

\* A token nothing spoiled is worked on by one goroutine at most, which began
\* for its owner; FCM and the row differ only between the call and the record.
TokenFollows(t) ==
    /\ device[t] = NoDevice => fcm[t] = {} /\ \A w \in Workers : ~Works(w, t)
    /\ device[t] # NoDevice => Live(t)
    /\ \A v, w \in Workers : Works(v, t) /\ Works(w, t) => v = w
    /\ \A w \in Workers : Works(w, t) =>
        /\ task[w].step # "unsubscribe" /\ task[w].user = device[t].owner
        /\ At(w, t, "apply") \/ At(w, t, "persist") => Wanted(t, task[w].desired)
        /\ fcm[t] = IF At(w, t, "persist") THEN task[w].desired ELSE device[t].recorded
    /\ Live(t) /\ (\A w \in Workers : ~Works(w, t)) => fcm[t] = device[t].recorded /\ Wanted(t, fcm[t])

DeviceRow == [state : {"live", "deleted"}, owner : Users, recorded : SUBSET Topics]
DeviceTask ==
    {Idle}
    \cup [step : {"desire"}, user : Users, tokens : SUBSET Tokens]
    \cup {j \in [step : {"apply", "persist"}, user : Users, tokens : SUBSET Tokens, token : Tokens, desired : SUBSET Topics] :
               j.token \in j.tokens}
    \cup [step : {"unsubscribe", "push"}, tokens : SUBSET Tokens]

DevicesTyped ==
    /\ device \in [Tokens -> {NoDevice} \cup DeviceRow]
    /\ fcm \in [Tokens -> SUBSET Topics]
    /\ present \in [Tokens -> Users \cup {Nowhere}]
    /\ mute \in [Users -> [Geographic -> {"none", "muted", "lifted"}]]
    /\ profile \in [Users -> Profiles]
    /\ task \in [Workers -> DeviceTask]
    /\ installed \subseteq Tokens /\ spoiled \subseteq Tokens /\ moved \subseteq Users

DevicesInv == DevicesTyped /\ \A t \in Tokens \ spoiled : TokenFollows(t)

LEMMA DeviceTyped ==
  ASSUME DevicesTyped, NEW t \in Tokens
  PROVE  /\ device[t] # NoDevice => /\ device[t] \in DeviceRow /\ device[t].state \in {"live", "deleted"}
                                    /\ device[t].owner \in Users /\ device[t].recorded \subseteq Topics
         /\ Live(t) => device[t] # NoDevice
BY DEF DevicesTyped, DeviceRow, NoDevice, Live

LEMMA TaskTyped ==
  ASSUME DevicesTyped, NEW w \in Workers
  PROVE  /\ task[w].step \in {"idle", "desire", "apply", "persist", "unsubscribe", "push"}
         /\ task[w].step = "idle" <=> task[w] = Idle
         /\ task[w].step # "idle" => task[w].tokens \subseteq Tokens
         /\ task[w].step \in {"desire", "apply", "persist"} => task[w].user \in Users
         /\ task[w].step \in {"apply", "persist"} =>
                /\ task[w] \in [step : {"apply", "persist"}, user : Users, tokens : SUBSET Tokens, token : Tokens,
                                desired : SUBSET Topics]
                /\ task[w].token \in task[w].tokens /\ task[w].token \in Tokens /\ task[w].desired \subseteq Topics
<1>1. task[w] \in DeviceTask
  BY DEF DevicesTyped
<1> QED
  BY <1>1 DEF DeviceTask, Idle

LEMMA DesiredTyped ==
  ASSUME DevicesTyped, NEW u \in Users
  PROVE  desiredTopics(u) \subseteq Topics
<1>1. profile[u] \in Profiles
  BY DEF DevicesTyped
<1>2. \A c \in Geographic : <<c, profile[u][c]>> \in Topics
  BY <1>1 DEF Topics
<1> QED
  BY <1>2 DEF desiredTopics, Topics

\* A token that a step does not touch.
LEMMA TokenUntouched ==
  ASSUME NEW t \in Tokens, TokenFollows(t), device'[t] = device[t], fcm'[t] = fcm[t],
         Live(t) => \/ device[t].owner \in moved'
                    \/ desiredTopics(device[t].owner)' = desiredTopics(device[t].owner) /\ device[t].owner \notin moved,
         \A w \in Workers : Works(w, t)' <=> Works(w, t),
         \A w \in Workers : Works(w, t) =>
             /\ task'[w].step # "unsubscribe" /\ task'[w].user = task[w].user
             /\ At(w, t, "persist")' <=> At(w, t, "persist")
             /\ At(w, t, "apply")' => At(w, t, "apply")
             /\ At(w, t, "apply")' \/ At(w, t, "persist") => task'[w].desired = task[w].desired
  PROVE  TokenFollows(t)'
<1>1. Live(t)' <=> Live(t)
  BY DEF Live
<1>2. ASSUME Live(t), NEW topics, topics = desiredTopics(device[t].owner) \/ device[t].owner \in moved
      PROVE  topics = desiredTopics(device[t].owner)' \/ device'[t].owner \in moved'
  BY <1>2
<1>3. ASSUME NEW w \in Workers, Works(w, t)
      PROVE  /\ task'[w].step # "unsubscribe" /\ task'[w].user = device'[t].owner
             /\ At(w, t, "apply")' \/ At(w, t, "persist")' => Wanted(t, task[w].desired)' /\ task'[w].desired = task[w].desired
             /\ fcm'[t] = IF At(w, t, "persist")' THEN task'[w].desired ELSE device'[t].recorded
  <2>1. Live(t)
    BY <1>3 DEF TokenFollows
  <2> QED
    BY <1>2, <1>3, <2>1 DEF TokenFollows, Wanted
<1> QED
  BY <1>1, <1>2, <1>3 DEF TokenFollows, Wanted

\* A goroutine starts where none was: what it works on, it works on alone.
LEMMA Spawned ==
  ASSUME DevicesTyped, NEW w \in Workers, NEW j \in DeviceTask, j # Idle, Spawn(w, j)
  PROVE  /\ task' \in [Workers -> DeviceTask]
         /\ \A t \in Tokens : ~Works(w, t) /\ (Works(w, t)' <=> j.step # "push" /\ t \in j.tokens)
         /\ \A v \in Workers \ {w} : task'[v] = task[v]
         /\ j.tokens # {} => task'[w] = j
<1> DEFINE k == IF j.tokens = {} THEN Idle ELSE j
<1>1. task[w] = Idle /\ task' = [task EXCEPT ![w] = k]
  BY DEF Spawn
<1>2. k \in DeviceTask
  BY DEF DeviceTask
<1>3. task'[w] = k /\ \A v \in Workers \ {w} : task'[v] = task[v]
  BY <1>1 DEF DevicesTyped
<1> HIDE DEF k
<1>4. task' \in [Workers -> DeviceTask]
  BY <1>1, <1>2 DEF DevicesTyped
<1>5. \A t \in Tokens : Works(w, t)' <=> j.step # "push" /\ t \in j.tokens
  BY <1>3 DEF Works, k
<1> QED
  BY <1>1, <1>3, <1>4, <1>5 DEF Works, k

\* Rows are deleted and unsubscribed, or a notification is pushed: every token
\* that keeps its row and was not spoiled is left alone.
LEMMA OthersUntouched ==
  ASSUME DevicesInv, DevicesTyped', spoiled \subseteq spoiled', UNCHANGED <<fcm, mute, profile, moved>>,
         \A t \in Tokens \ spoiled' : device'[t] = device[t],
         \A t \in Tokens \ spoiled' : \A w \in Workers : task'[w] = task[w] \/ (~Works(w, t) /\ ~Works(w, t)')
  PROVE  DevicesInv'
<1> SUFFICES ASSUME NEW t \in Tokens \ spoiled'
             PROVE  TokenFollows(t)'
  BY DEF DevicesInv
<1>1. TokenFollows(t) /\ device'[t] = device[t] /\ fcm'[t] = fcm[t]
  BY DEF DevicesInv
<1>2. \A u : desiredTopics(u)' = desiredTopics(u)
  BY DEF desiredTopics
<1>3. \A w \in Workers : task'[w] = task[w] => /\ Works(w, t)' <=> Works(w, t)
                                               /\ At(w, t, "persist")' <=> At(w, t, "persist")
                                               /\ At(w, t, "apply")' <=> At(w, t, "apply")
  BY DEF Works, At
<1>4. \A w \in Workers : Works(w, t)' <=> Works(w, t)
  BY <1>3
<1>5. \A w \in Workers : Works(w, t) =>
          /\ task'[w].step # "unsubscribe" /\ task'[w].user = task[w].user
          /\ At(w, t, "persist")' <=> At(w, t, "persist")
          /\ At(w, t, "apply")' => At(w, t, "apply")
          /\ At(w, t, "apply")' \/ At(w, t, "persist") => task'[w].desired = task[w].desired
  BY <1>1, <1>3 DEF TokenFollows
<1>6. device[t].owner \in moved' \/ (desiredTopics(device[t].owner)' = desiredTopics(device[t].owner) /\ device[t].owner \notin moved)
  BY <1>2
<1> QED
  BY <1>1, <1>4, <1>5, <1>6, TokenUntouched

LEMMA RowsWiped ==
  ASSUME DevicesInv, NEW S \in SUBSET Tokens, \A t \in S : Live(t), Wiped(S)
  PROVE  /\ device' \in [Tokens -> {NoDevice} \cup DeviceRow] /\ present' \in [Tokens -> Users \cup {Nowhere}]
         /\ spoiled' = spoiled \cup S /\ spoiled' \subseteq Tokens
         /\ \A t \in Tokens \ spoiled' : device'[t] = device[t]
         /\ UNCHANGED <<fcm, mute, profile, installed, moved>>
<1> USE DEF DevicesInv
<1>1. device' = [t \in Tokens |-> IF t \in S THEN [device[t] EXCEPT !.state = "deleted"] ELSE device[t]]
  BY DEF Wiped
<1>2. \A t \in Tokens : (IF t \in S THEN [device[t] EXCEPT !.state = "deleted"] ELSE device[t]) \in {NoDevice} \cup DeviceRow
  <2>1. \A t \in S : device[t] \in DeviceRow
    BY DeviceTyped
  <2>2. \A t \in S : [device[t] EXCEPT !.state = "deleted"] \in DeviceRow
    BY <2>1 DEF DeviceRow
  <2>3. \A t \in Tokens : device[t] \in {NoDevice} \cup DeviceRow
    BY DEF DevicesTyped
  <2> QED
    BY <2>2, <2>3
<1>3. device' \in [Tokens -> {NoDevice} \cup DeviceRow]
  BY <1>1, <1>2
<1>4. present' \in [Tokens -> Users \cup {Nowhere}] /\ spoiled' \subseteq Tokens
  BY DEF Wiped, DevicesTyped
<1> QED
  BY <1>1, <1>3, <1>4 DEF Wiped, topicVars

\* LogoutAll and LogoutOthers.
LEMMA DevicesLoggedOut ==
  ASSUME DevicesInv, NEW w \in Workers, NEW S \in SUBSET Tokens, \A t \in S : Live(t),
         Spawn(w, Unsubscribe(S)), Wiped(S)
  PROVE  DevicesInv'
<1> DEFINE j == Unsubscribe(S)
<1>1. j \in DeviceTask /\ j # Idle /\ j.tokens = S
  BY DEF Unsubscribe, DeviceTask, Idle
<1> HIDE DEF j
<1>2. /\ task' \in [Workers -> DeviceTask]
      /\ \A t \in Tokens : ~Works(w, t) /\ (Works(w, t)' <=> j.step # "push" /\ t \in S)
      /\ \A v \in Workers \ {w} : task'[v] = task[v]
  BY <1>1, Spawned DEF DevicesInv, j
<1>3. DevicesTyped'
  BY <1>2, RowsWiped DEF DevicesInv, DevicesTyped
<1>4. \A t \in Tokens \ spoiled' : t \notin S
  BY RowsWiped
<1> QED
  BY <1>2, <1>3, <1>4, RowsWiped, OthersUntouched

LEMMA DevicesPruned ==
  ASSUME DevicesInv, NEW w \in Workers, Prune(w)
  PROVE  DevicesInv'
<1> DEFINE S == {t \in task[w].tokens \ installed : Live(t)}
<1>1. task[w] # Idle /\ task[w].step = "push" /\ Wiped(S) /\ task' = [task EXCEPT ![w] = Idle]
  BY DEF Prune
<1>2. S \in SUBSET Tokens /\ \A t \in S : Live(t)
  BY <1>1, TaskTyped DEF DevicesInv
<1> HIDE DEF S
<1>3. task' \in [Workers -> DeviceTask] /\ task'[w] = Idle /\ \A v \in Workers \ {w} : task'[v] = task[v]
  BY <1>1 DEF DevicesInv, DevicesTyped, DeviceTask
<1>4. \A t \in Tokens : ~Works(w, t) /\ ~Works(w, t)'
  BY <1>1, <1>3 DEF Works
<1>5. DevicesTyped'
  BY <1>1, <1>2, <1>3, RowsWiped DEF DevicesInv, DevicesTyped
<1> QED
  BY <1>1, <1>2, <1>3, <1>4, <1>5, RowsWiped, OthersUntouched

LEMMA PasswordChangedDevices ==
  ASSUME DevicesInv, NEW q \in Requests, NEW p \in Passwords, NEW b \in BOOLEAN, DevicesChangePassword(q, p, b)
  PROVE  DevicesInv'
<1> DEFINE S == IF b THEN Owned(request[q].user) ELSE {}
<1>1. Wiped(S) /\ task' = task
  BY DEF DevicesChangePassword
<1>2. S \in SUBSET Tokens /\ \A t \in S : Live(t)
  BY DEF Owned
<1> HIDE DEF S
<1>3. DevicesTyped'
  BY <1>1, <1>2, RowsWiped DEF DevicesInv, DevicesTyped
<1> QED
  BY <1>1, <1>2, <1>3, RowsWiped, OthersUntouched

LEMMA DeviceRemoved ==
  ASSUME DevicesInv, NEW w \in Workers, NEW u \in Users, NEW t \in Tokens, RemoveDevice(w, u, t)
  PROVE  DevicesInv'
<1>1. /\ device' = [device EXCEPT ![t] = NoDevice] /\ present' = [present EXCEPT ![t] = Nowhere]
      /\ IF Live(t) THEN Spawn(w, Unsubscribe({t})) ELSE UNCHANGED task
      /\ spoiled' = spoiled \cup {t} /\ UNCHANGED <<fcm, mute, profile, installed, moved>>
  BY DEF RemoveDevice, topicVars
<1>2. /\ task' \in [Workers -> DeviceTask]
      /\ \A v \in Workers, x \in Tokens \ {t} : task'[v] = task[v] \/ (~Works(v, x) /\ ~Works(v, x)')
  <2>1. CASE Live(t)
    <3> DEFINE j == Unsubscribe({t})
    <3>1. j \in DeviceTask /\ j # Idle /\ j.tokens = {t}
      BY DEF Unsubscribe, DeviceTask, Idle
    <3>2. Spawn(w, j)
      BY <1>1, <2>1
    <3> HIDE DEF j
    <3> QED
      BY <3>1, <3>2, Spawned DEF DevicesInv
  <2>2. CASE ~Live(t)
    BY <1>1, <2>2 DEF DevicesInv, DevicesTyped
  <2> QED
    BY <2>1, <2>2
<1>3. DevicesTyped'
  BY <1>1, <1>2 DEF DevicesInv, DevicesTyped
<1>4. \A x \in Tokens \ spoiled' : x # t /\ device'[x] = device[x]
  BY <1>1 DEF DevicesInv, DevicesTyped
<1> QED
  BY <1>1, <1>2, <1>3, <1>4, OthersUntouched

LEMMA DevicesPushed ==
  ASSUME DevicesInv, NEW w \in Workers, NEW u \in Users, Push(w, {u})
  PROVE  DevicesInv'
<1> DEFINE S == UNION {Owned(v) : v \in {u}}
           j == [step |-> "push", tokens |-> S]
<1>1. Spawn(w, j) /\ UNCHANGED <<device, fcm, mute, profile, installed, moved, spoiled, present>>
  BY DEF Push, topicVars
<1>2. S \in SUBSET Tokens
  BY DEF Owned
<1> HIDE DEF S
<1>3. j \in DeviceTask /\ j # Idle /\ j.step = "push"
  BY <1>2 DEF DeviceTask, Idle
<1> HIDE DEF j
<1>4. /\ task' \in [Workers -> DeviceTask]
      /\ \A t \in Tokens : ~Works(w, t) /\ ~Works(w, t)'
      /\ \A v \in Workers \ {w} : task'[v] = task[v]
  BY <1>1, <1>3, Spawned DEF DevicesInv
<1>5. DevicesTyped'
  BY <1>1, <1>4 DEF DevicesInv, DevicesTyped
<1> QED
  BY <1>1, <1>4, <1>5, OthersUntouched

\* A token changes hands, or is registered anew: unless a goroutine is at work
\* on it, the one that starts now brings it to its owner.
LEMMA DeviceRegistered ==
  ASSUME DevicesInv, NEW w \in Workers, NEW u \in Users, NEW t \in Tokens, RegisterDevice(w, u, t)
  PROVE  DevicesInv'
<1> DEFINE j == Reconcile(u, {t})
           d == IF device[t] = NoDevice THEN [state |-> "live", owner |-> u, recorded |-> {}]
                ELSE [device[t] EXCEPT !.owner = u]
<1>1. /\ device' = [device EXCEPT ![t] = d] /\ present' = [present EXCEPT ![t] = u] /\ Spawn(w, j)
      /\ spoiled' = spoiled \cup Overlapping({t}) /\ UNCHANGED <<fcm, mute, profile, installed, moved>>
  BY DEF RegisterDevice, topicVars, DevicesInv, DevicesTyped
<1>2. j \in DeviceTask /\ j # Idle /\ j.tokens = {t} /\ j.step = "desire" /\ j.user = u
  BY DEF Reconcile, DeviceTask, Idle
<1>3. /\ d \in DeviceRow /\ d.owner = u
      /\ d.state = (IF device[t] = NoDevice THEN "live" ELSE device[t].state)
      /\ d.recorded = (IF device[t] = NoDevice THEN {} ELSE device[t].recorded)
  <2>1. CASE device[t] = NoDevice
    BY <2>1 DEF DeviceRow
  <2>2. CASE device[t] # NoDevice
    BY <2>2, DeviceTyped DEF DevicesInv, DeviceRow
  <2> QED
    BY <2>1, <2>2
<1> HIDE DEF j, d
<1>4. /\ task' \in [Workers -> DeviceTask] /\ task'[w] = j
      /\ \A x \in Tokens : ~Works(w, x) /\ (Works(w, x)' <=> x = t)
      /\ \A v \in Workers \ {w} : task'[v] = task[v]
  BY <1>1, <1>2, Spawned DEF DevicesInv
<1>5. spoiled' \subseteq Tokens /\ spoiled \subseteq spoiled'
      /\ (t \notin spoiled' => \A v \in Workers : ~Works(v, t))
  BY <1>1 DEF Overlapping, About, Works, DevicesInv, DevicesTyped
<1>6. DevicesTyped'
  BY <1>1, <1>3, <1>4, <1>5 DEF DevicesInv, DevicesTyped
<1>7. device'[t] = d /\ \A x \in Tokens \ {t} : device'[x] = device[x]
  BY <1>1 DEF DevicesInv, DevicesTyped
<1>8. \A v \in Workers \ {w} : \A x \in Tokens : /\ Works(v, x)' <=> Works(v, x)
                                                 /\ At(v, x, "persist")' <=> At(v, x, "persist")
                                                 /\ At(v, x, "apply")' <=> At(v, x, "apply")
  BY <1>4 DEF Works, At
<1>9. ASSUME NEW x \in Tokens \ spoiled'
      PROVE  TokenFollows(x)'
  <2>1. TokenFollows(x)
    BY <1>5 DEF DevicesInv
  <2>2. CASE x = t
    <3>1. \A v \in Workers : Works(v, t)' <=> v = w
      BY <1>4, <1>5, <1>8, <2>2
    <3>2. fcm'[t] = device'[t].recorded /\ device'[t].state = "live" /\ device'[t].owner = u
      BY <1>1, <1>3, <1>5, <1>7, <2>1, <2>2 DEF TokenFollows, Live
    <3>3. device'[t] # NoDevice /\ Live(t)'
      BY <3>2 DEF NoDevice, Live
    <3>4. task'[w].step = "desire" /\ task'[w].user = u
      BY <1>2, <1>4
    <3>5. ~At(w, t, "persist")' /\ ~At(w, t, "apply")'
      BY <3>4 DEF At
    <3> QED
      BY <2>2, <3>1, <3>2, <3>3, <3>4, <3>5 DEF TokenFollows
  <2>3. CASE x # t
    <3>1. \A v \in Workers : Works(v, x)' <=> Works(v, x)
      BY <1>4, <1>8, <2>3
    <3>2. \A v \in Workers : Works(v, x) =>
              /\ task'[v].step # "unsubscribe" /\ task'[v].user = task[v].user
              /\ At(v, x, "persist")' <=> At(v, x, "persist")
              /\ At(v, x, "apply")' => At(v, x, "apply")
              /\ At(v, x, "apply")' \/ At(v, x, "persist") => task'[v].desired = task[v].desired
      BY <1>4, <1>8, <2>1 DEF TokenFollows
    <3>3. desiredTopics(device[x].owner)' = desiredTopics(device[x].owner)
      BY <1>1, <1>7, <2>3 DEF desiredTopics
    <3>4. device'[x] = device[x] /\ fcm'[x] = fcm[x] /\ moved' = moved
      BY <1>1, <1>7, <2>3
    <3> HIDE DEF desiredTopics
    <3> QED
      BY <2>1, <3>1, <3>2, <3>3, <3>4, TokenUntouched
  <2> QED
    BY <2>2, <2>3
<1> QED
  BY <1>6, <1>9 DEF DevicesInv

\* A mute changes what its user's devices should have: all are reconciled.
LEMMA PreferenceUpdated ==
  ASSUME DevicesInv, NEW w \in Workers, NEW u \in Users, NEW c \in Geographic, NEW enabled \in BOOLEAN,
         UpdatePreference(w, u, c, enabled)
  PROVE  DevicesInv'
<1> DEFINE j == Reconcile(u, Owned(u))
<1>1. /\ mute' = [mute EXCEPT ![u][c] = IF enabled THEN "lifted" ELSE "muted"] /\ Spawn(w, j)
      /\ spoiled' = spoiled \cup Overlapping(Owned(u))
      /\ UNCHANGED <<device, fcm, profile, installed, moved, present>>
  BY DEF UpdatePreference
<1>2. Owned(u) \subseteq Tokens /\ \A t \in Tokens : t \in Owned(u) <=> Live(t) /\ device[t].owner = u
  BY DEF Owned
<1>3. j \in DeviceTask /\ j # Idle /\ j.tokens = Owned(u) /\ j.step = "desire" /\ j.user = u
  BY <1>2 DEF Reconcile, DeviceTask, Idle
<1> HIDE DEF j
<1>4. /\ task' \in [Workers -> DeviceTask] /\ (Owned(u) # {} => task'[w] = j)
      /\ \A x \in Tokens : ~Works(w, x) /\ (Works(w, x)' <=> x \in Owned(u))
      /\ \A v \in Workers \ {w} : task'[v] = task[v]
  BY <1>1, <1>3, Spawned DEF DevicesInv
<1>5. spoiled' \subseteq Tokens /\ spoiled \subseteq spoiled'
      /\ \A x \in Owned(u) \ spoiled' : \A v \in Workers : ~Works(v, x)
  BY <1>1, <1>2 DEF Overlapping, About, Works, DevicesInv, DevicesTyped
<1>6. /\ mute' \in [Users -> [Geographic -> {"none", "muted", "lifted"}]]
      /\ \A v \in Users \ {u} : mute'[v] = mute[v]
  BY <1>1 DEF DevicesInv, DevicesTyped
<1>7. DevicesTyped'
  BY <1>1, <1>4, <1>5, <1>6 DEF DevicesInv, DevicesTyped
<1>8. \A v \in Workers \ {w} : \A x \in Tokens : /\ Works(v, x)' <=> Works(v, x)
                                                 /\ At(v, x, "persist")' <=> At(v, x, "persist")
                                                 /\ At(v, x, "apply")' <=> At(v, x, "apply")
  BY <1>4 DEF Works, At
<1>9. ASSUME NEW x \in Tokens \ spoiled'
      PROVE  TokenFollows(x)'
  <2>1. TokenFollows(x)
    BY <1>5 DEF DevicesInv
  <2>2. CASE x \in Owned(u)
    <3>1. \A v \in Workers : Works(v, x)' <=> v = w
      BY <1>4, <1>5, <1>8, <2>2
    <3>2. /\ fcm'[x] = device'[x].recorded /\ Live(x)' /\ device'[x].owner = u /\ device'[x] = device[x]
          /\ device[x] # NoDevice
      BY <1>1, <1>2, <1>5, <2>1, <2>2, DeviceTyped DEF TokenFollows, Live, DevicesInv
    <3>3. task'[w].step = "desire" /\ task'[w].user = u
      BY <1>3, <1>4, <2>2
    <3>4. ~At(w, x, "persist")' /\ ~At(w, x, "apply")'
      BY <3>3 DEF At
    <3> QED
      BY <3>1, <3>2, <3>3, <3>4 DEF TokenFollows
  <2>3. CASE x \notin Owned(u)
    <3>1. \A v \in Workers : Works(v, x)' <=> Works(v, x)
      BY <1>4, <1>8, <2>3
    <3>2. \A v \in Workers : Works(v, x) =>
              /\ task'[v].step # "unsubscribe" /\ task'[v].user = task[v].user
              /\ At(v, x, "persist")' <=> At(v, x, "persist")
              /\ At(v, x, "apply")' => At(v, x, "apply")
              /\ At(v, x, "apply")' \/ At(v, x, "persist") => task'[v].desired = task[v].desired
      BY <1>4, <1>8, <2>1 DEF TokenFollows
    <3>3. Live(x) => desiredTopics(device[x].owner)' = desiredTopics(device[x].owner)
      <4>1. Live(x) => mute'[device[x].owner] = mute[device[x].owner]
        BY <1>2, <1>6, <2>3, DeviceTyped DEF DevicesInv
      <4> QED
        BY <1>1, <4>1 DEF desiredTopics
    <3>4. device'[x] = device[x] /\ fcm'[x] = fcm[x] /\ moved' = moved
      BY <1>1
    <3> QED
      BY <2>1, <3>1, <3>2, <3>3, <3>4, TokenUntouched
  <2> QED
    BY <2>2, <2>3
<1> QED
  BY <1>7, <1>9 DEF DevicesInv

\* Somebody who has a device, and is placed elsewhere, counts as moved.
LEMMA UserPlaced ==
  ASSUME DevicesInv, NEW u \in Users, NEW p \in Profiles, Placed(u, p)
  PROVE  DevicesInv'
<1>1. /\ profile' = [profile EXCEPT ![u] = p]
      /\ moved' = IF Owned(u) = {} /\ \A w \in Workers : task[w] = Idle THEN moved ELSE moved \cup {u}
      /\ UNCHANGED <<device, fcm, mute, installed, task, spoiled, present>>
  BY DEF Placed
<1>2. DevicesTyped'
  BY <1>1 DEF DevicesInv, DevicesTyped
<1>3. ASSUME NEW x \in Tokens \ spoiled
      PROVE  TokenFollows(x)'
  <2>1. TokenFollows(x)
    BY DEF DevicesInv
  <2>2. \A v \in Workers : /\ Works(v, x)' <=> Works(v, x)
                           /\ At(v, x, "persist")' <=> At(v, x, "persist")
                           /\ At(v, x, "apply")' <=> At(v, x, "apply")
    BY <1>1 DEF Works, At
  <2>3. Live(x) => \/ device[x].owner \in moved'
                   \/ desiredTopics(device[x].owner)' = desiredTopics(device[x].owner) /\ device[x].owner \notin moved
    <3>1. CASE device[x].owner = u
      BY <1>1, <3>1 DEF Owned
    <3>2. CASE device[x].owner # u
      <4>1. Live(x) => profile'[device[x].owner] = profile[device[x].owner]
        BY <1>1, <3>2, DeviceTyped DEF DevicesInv, DevicesTyped
      <4>2. Live(x) => desiredTopics(device[x].owner)' = desiredTopics(device[x].owner)
        BY <1>1, <4>1 DEF desiredTopics
      <4> QED
        BY <1>1, <4>2
    <3> QED
      BY <3>1, <3>2
  <2>4. \A v \in Workers : Works(v, x) =>
            /\ task'[v].step # "unsubscribe" /\ task'[v].user = task[v].user
            /\ At(v, x, "persist")' <=> At(v, x, "persist")
            /\ At(v, x, "apply")' => At(v, x, "apply")
            /\ At(v, x, "apply")' \/ At(v, x, "persist") => task'[v].desired = task[v].desired
    BY <1>1, <2>1, <2>2 DEF TokenFollows
  <2> QED
    BY <1>1, <2>1, <2>2, <2>3, <2>4, TokenUntouched
<1> QED
  BY <1>1, <1>2, <1>3 DEF DevicesInv

\* A step of one goroutine, seen from a token it is not at.
LEMMA GoroutineElsewhere ==
  ASSUME NEW x \in Tokens, TokenFollows(x), NEW w \in Workers, device'[x] = device[x], fcm'[x] = fcm[x],
         UNCHANGED <<mute, profile, moved>>, \A v \in Workers \ {w} : task'[v] = task[v],
         Works(w, x)' <=> Works(w, x),
         Works(w, x) => /\ task'[w].step # "unsubscribe" /\ task'[w].user = task[w].user
                        /\ ~At(w, x, "apply") /\ ~At(w, x, "apply")' /\ ~At(w, x, "persist") /\ ~At(w, x, "persist")'
  PROVE  TokenFollows(x)'
<1>1. \A v \in Workers : /\ Works(v, x)' <=> Works(v, x)
                         /\ v # w => /\ At(v, x, "persist")' <=> At(v, x, "persist")
                                     /\ At(v, x, "apply")' <=> At(v, x, "apply")
  BY DEF Works, At
<1>2. \A v \in Workers : Works(v, x) =>
          /\ task'[v].step # "unsubscribe" /\ task'[v].user = task[v].user
          /\ At(v, x, "persist")' <=> At(v, x, "persist")
          /\ At(v, x, "apply")' => At(v, x, "apply")
          /\ At(v, x, "apply")' \/ At(v, x, "persist") => task'[v].desired = task[v].desired
  BY <1>1 DEF TokenFollows
<1>3. device[x].owner \in moved' \/ (desiredTopics(device[x].owner)' = desiredTopics(device[x].owner) /\ device[x].owner \notin moved)
  BY DEF desiredTopics
<1> QED
  BY <1>1, <1>2, <1>3, TokenUntouched

LEMMA DesireKeeps ==
  ASSUME DevicesInv, NEW w \in Workers, Desire(w)
  PROVE  DevicesInv'
<1>1. PICK t \in task[w].tokens :
        task' = [task EXCEPT ![w] = [step |-> "apply", user |-> task[w].user, tokens |-> task[w].tokens, token |-> t,
                                     desired |-> desiredTopics(task[w].user)]]
  BY DEF Desire, DevicesInv, DevicesTyped
<1>2. /\ task[w] # Idle /\ task[w].step = "desire"
      /\ UNCHANGED <<device, fcm, mute, profile, installed, moved, spoiled, present>>
  BY DEF Desire, topicVars
<1> DEFINE j == [step |-> "apply", user |-> task[w].user, tokens |-> task[w].tokens, token |-> t,
                 desired |-> desiredTopics(task[w].user)]
<1>3. task[w].user \in Users /\ task[w].tokens \subseteq Tokens
  BY <1>2, TaskTyped DEF DevicesInv
<1>4. /\ j \in DeviceTask /\ j # Idle /\ j.step = "apply" /\ j.user = task[w].user /\ j.tokens = task[w].tokens
      /\ j.token = t /\ j.desired = desiredTopics(task[w].user)
  BY <1>3, DesiredTyped DEF DevicesInv, DeviceTask, Idle
<1>5. task' = [task EXCEPT ![w] = j]
  BY <1>1
<1> HIDE DEF j
<1>6. task' \in [Workers -> DeviceTask] /\ task'[w] = j /\ \A v \in Workers \ {w} : task'[v] = task[v]
  BY <1>4, <1>5 DEF DevicesInv, DevicesTyped
<1>7. DevicesTyped'
  BY <1>2, <1>6 DEF DevicesInv, DevicesTyped
<1>8. \A x \in Tokens : /\ Works(w, x)' <=> Works(w, x)
                        /\ ~At(w, x, "apply") /\ ~At(w, x, "persist") /\ ~At(w, x, "persist")'
                        /\ At(w, x, "apply")' <=> x = t
  BY <1>2, <1>4, <1>6 DEF Works, At
<1>9. ASSUME NEW x \in Tokens \ spoiled'
      PROVE  TokenFollows(x)'
  <2>1. TokenFollows(x)
    BY <1>2 DEF DevicesInv
  <2>2. CASE x = t
    <3>1. Works(w, t) /\ device[t].owner = task[w].user /\ fcm[t] = device[t].recorded
      BY <1>2, <1>3, <1>8, <2>1, <2>2 DEF TokenFollows, Works
    <3>2. \A v \in Workers \ {w} : ~Works(v, t) /\ ~Works(v, t)'
      BY <1>6, <2>1, <2>2, <3>1 DEF TokenFollows, Works
    <3>3. Live(t)' /\ device[t] # NoDevice
      BY <1>2, <2>1, <2>2, <3>1 DEF TokenFollows, Live
    <3>4. Wanted(t, task[w].desired)'
      <4>1. task'[w].desired = desiredTopics(device[t].owner)
        BY <1>4, <1>6, <3>1
      <4> QED
        BY <1>2, <4>1 DEF Wanted, desiredTopics
    <3> QED
      BY <1>2, <1>4, <1>6, <1>8, <2>2, <3>1, <3>2, <3>3, <3>4 DEF TokenFollows
  <2>3. CASE x # t
    <3>1. Works(w, x) => task'[w].step # "unsubscribe" /\ task'[w].user = task[w].user
      BY <1>4, <1>6
    <3> QED
      BY <1>2, <1>6, <1>8, <2>1, <2>3, <3>1, GoroutineElsewhere
  <2> QED
    BY <2>2, <2>3
<1> QED
  BY <1>7, <1>9 DEF DevicesInv

\* The next token, or the end: the one it was at is done.
LEMMA GoroutineFollows ==
  ASSUME DevicesTyped, NEW w \in Workers, task[w].step \in {"apply", "persist"},
         task' = [task EXCEPT ![w] = IF Following(w).tokens = {} THEN Idle ELSE Following(w)]
  PROVE  /\ task' \in [Workers -> DeviceTask] /\ \A v \in Workers \ {w} : task'[v] = task[v]
         /\ \A x \in Tokens : /\ Works(w, x)' <=> Works(w, x) /\ x # task[w].token
                              /\ Works(w, x)' => task'[w].step = "desire" /\ task'[w].user = task[w].user
<1> DEFINE j == Following(w)
           k == IF j.tokens = {} THEN Idle ELSE j
<1>1. task[w].tokens \subseteq Tokens /\ task[w].user \in Users /\ task[w] # Idle
  BY TaskTyped
<1>2. j \in DeviceTask /\ j.step = "desire" /\ j.user = task[w].user /\ j.tokens = task[w].tokens \ {task[w].token}
  BY <1>1 DEF Following, DeviceTask
<1>3. task' = [task EXCEPT ![w] = k]
  OBVIOUS
<1> HIDE DEF j
<1>4. k \in DeviceTask
  BY <1>2 DEF DeviceTask
<1>5. task'[w] = k
  BY <1>3 DEF DevicesTyped
<1>6. task' \in [Workers -> DeviceTask] /\ \A v \in Workers \ {w} : task'[v] = task[v]
  <2> HIDE DEF k
  <2> QED
    BY <1>3, <1>4 DEF DevicesTyped
<1>7. j # Idle
  BY <1>2 DEF Idle
<1> QED
  BY <1>1, <1>2, <1>5, <1>6, <1>7 DEF Works

LEMMA ApplyKeeps ==
  ASSUME DevicesInv, NEW w \in Workers, NEW failed \in SUBSET Topics, Apply(w, failed)
  PROVE  DevicesInv'
<1> DEFINE t == task[w].token
<1>1. task[w] # Idle /\ task[w].step = "apply" /\ UNCHANGED <<device, mute, profile, installed, moved, present>>
  BY DEF Apply
<1>2. t \in Tokens /\ task[w].tokens \subseteq Tokens /\ task[w].desired \subseteq Topics
  BY <1>1, TaskTyped DEF DevicesInv
<1>3. CASE ~Live(t)
  <2>1. /\ task' = [task EXCEPT ![w] = IF Following(w).tokens = {} THEN Idle ELSE Following(w)]
        /\ UNCHANGED <<fcm, spoiled>>
    BY <1>3 DEF Apply
  <2>2. /\ task' \in [Workers -> DeviceTask] /\ \A v \in Workers \ {w} : task'[v] = task[v]
        /\ \A x \in Tokens : /\ Works(w, x)' <=> Works(w, x) /\ x # t
                             /\ Works(w, x)' => task'[w].step = "desire" /\ task'[w].user = task[w].user
    BY <1>1, <2>1, GoroutineFollows DEF DevicesInv
  <2>3. DevicesTyped'
    BY <1>1, <2>1, <2>2 DEF DevicesInv, DevicesTyped
  <2>4. ASSUME NEW x \in Tokens \ spoiled'
        PROVE  TokenFollows(x)'
    <3>1. TokenFollows(x)
      BY <2>1 DEF DevicesInv
    <3>2. Works(w, x) => x # t
      BY <1>3, <3>1 DEF TokenFollows
    <3>3. Works(w, x)' <=> Works(w, x)
      BY <2>2, <3>2
    <3>4. Works(w, x) => /\ task'[w].step # "unsubscribe" /\ task'[w].user = task[w].user
                         /\ ~At(w, x, "apply") /\ ~At(w, x, "apply")' /\ ~At(w, x, "persist") /\ ~At(w, x, "persist")'
      BY <1>1, <2>2, <3>2, <3>3 DEF At
    <3> QED
      BY <1>1, <2>1, <2>2, <3>1, <3>3, <3>4, GoroutineElsewhere
  <2> QED
    BY <2>3, <2>4 DEF DevicesInv
<1>4. CASE Live(t)
  <2> DEFINE f == Applied(fcm[t], device[t].recorded, task[w].desired, failed)
             j == [task[w] EXCEPT !.step = "persist"]
  <2>1. /\ fcm' = [fcm EXCEPT ![t] = f] /\ task' = [task EXCEPT ![w].step = "persist"]
        /\ spoiled' = IF failed = {} THEN spoiled ELSE spoiled \cup {t}
    BY <1>2, <1>4 DEF Apply, DevicesInv, DevicesTyped
  <2>2. task[w] \in [step : {"apply", "persist"}, user : Users, tokens : SUBSET Tokens, token : Tokens, desired : SUBSET Topics]
    BY <1>1, TaskTyped DEF DevicesInv
  <2>3. /\ j \in DeviceTask /\ j.step = "persist" /\ j.user = task[w].user /\ j.tokens = task[w].tokens
        /\ j.token = t /\ j.desired = task[w].desired
    BY <1>1, <2>2, TaskTyped DEF DeviceTask, DevicesInv
  <2>4. j # Idle
    BY <2>3 DEF Idle
  <2>5. task' = [task EXCEPT ![w] = j]
    BY <2>1
  <2>6. f \subseteq Topics
    BY <1>2 DEF Applied, DevicesInv, DevicesTyped
  <2>7. failed = {} /\ fcm[t] = device[t].recorded => f = task[w].desired
    BY DEF Applied
  <2> HIDE DEF j, f, t
  <2>8. /\ task' \in [Workers -> DeviceTask] /\ task'[w] = j /\ \A v \in Workers \ {w} : task'[v] = task[v]
        /\ fcm' \in [Tokens -> SUBSET Topics] /\ fcm'[t] = f /\ \A x \in Tokens \ {t} : fcm'[x] = fcm[x]
    BY <1>2, <2>1, <2>3, <2>5, <2>6 DEF DevicesInv, DevicesTyped
  <2>9. DevicesTyped'
    BY <1>1, <1>2, <2>1, <2>8 DEF DevicesInv, DevicesTyped
  <2>10. \A x \in Tokens : /\ Works(w, x)' <=> Works(w, x)
                           /\ ~At(w, x, "persist") /\ ~At(w, x, "apply")'
                           /\ At(w, x, "apply") <=> x = t
                           /\ At(w, x, "persist")' <=> x = t
    BY <1>1, <2>3, <2>4, <2>8 DEF Works, At, t
  <2>11. ASSUME NEW x \in Tokens \ spoiled'
         PROVE  TokenFollows(x)'
    <3>1. TokenFollows(x) /\ (x = t => failed = {})
      BY <2>1 DEF DevicesInv
    <3>2. CASE x = t /\ Works(w, x)
      <4>1. /\ device[x].owner = task[w].user /\ fcm[x] = device[x].recorded /\ Wanted(x, task[w].desired)
            /\ device[x] # NoDevice
        BY <2>10, <3>1, <3>2 DEF TokenFollows
      <4>2. \A v \in Workers \ {w} : ~Works(v, x) /\ ~Works(v, x)'
        BY <2>8, <3>1, <3>2 DEF TokenFollows, Works
      <4>3. Live(x)'
        BY <1>1, <1>4, <3>2 DEF Live
      <4>4. fcm'[x] = task'[w].desired
        BY <2>3, <2>7, <2>8, <3>1, <3>2, <4>1
      <4>5. Wanted(x, task[w].desired)'
        <5>1. task'[w].desired = task[w].desired
          BY <2>3, <2>8
        <5> QED
          BY <1>1, <4>1, <5>1 DEF Wanted, desiredTopics
      <4> QED
        BY <1>1, <2>3, <2>8, <2>10, <3>2, <4>1, <4>2, <4>3, <4>4, <4>5 DEF TokenFollows
    <3>3. CASE x # t
      <4>1. Works(w, x) => task'[w].step # "unsubscribe" /\ task'[w].user = task[w].user
        BY <2>3, <2>8
      <4>2. fcm'[x] = fcm[x]
        BY <2>8, <3>3
      <4> QED
        BY <1>1, <2>8, <2>10, <3>1, <3>3, <4>1, <4>2, GoroutineElsewhere
    <3>4. x = t => Works(w, x)
      BY <1>1, TaskTyped DEF Works, t, DevicesInv
    <3> QED
      BY <3>2, <3>3, <3>4
  <2> QED
    BY <2>9, <2>11 DEF DevicesInv
<1> QED
  BY <1>3, <1>4

LEMMA PersistKeeps ==
  ASSUME DevicesInv, NEW w \in Workers, Persist(w)
  PROVE  DevicesInv'
<1> DEFINE t == task[w].token
           d == [device[t] EXCEPT !.recorded = task[w].desired]
<1>1. /\ task[w] # Idle /\ task[w].step = "persist"
      /\ device' = IF Live(t) THEN [device EXCEPT ![t] = d] ELSE device
      /\ task' = [task EXCEPT ![w] = IF Following(w).tokens = {} THEN Idle ELSE Following(w)]
      /\ UNCHANGED <<fcm, mute, profile, installed, moved, spoiled, present>>
  BY DEF Persist, topicVars
<1>2. t \in Tokens /\ t \in task[w].tokens /\ task[w].desired \subseteq Topics
  BY <1>1, TaskTyped DEF DevicesInv
<1>3. Live(t) => d \in DeviceRow /\ d.state = "live" /\ d.owner = device[t].owner /\ d.recorded = task[w].desired
  BY <1>2, DeviceTyped DEF DevicesInv, DeviceRow, Live
<1>4. /\ task' \in [Workers -> DeviceTask] /\ \A v \in Workers \ {w} : task'[v] = task[v]
      /\ \A x \in Tokens : /\ Works(w, x)' <=> Works(w, x) /\ x # t
                           /\ Works(w, x)' => task'[w].step = "desire" /\ task'[w].user = task[w].user
  BY <1>1, GoroutineFollows DEF DevicesInv
<1> HIDE DEF d, t
<1>5. /\ device' \in [Tokens -> {NoDevice} \cup DeviceRow]
      /\ Live(t) => device'[t] = d
      /\ \A x \in Tokens \ {t} : device'[x] = device[x]
  BY <1>1, <1>2, <1>3 DEF DevicesInv, DevicesTyped
<1>6. DevicesTyped'
  BY <1>1, <1>4, <1>5 DEF DevicesInv, DevicesTyped
<1>7. ASSUME NEW x \in Tokens \ spoiled'
      PROVE  TokenFollows(x)'
  <2>1. TokenFollows(x)
    BY <1>1 DEF DevicesInv
  <2>2. CASE x = t
    <3>1. Works(w, x) /\ At(w, x, "persist")
      BY <1>1, <1>2, <2>2 DEF Works, At, t
    <3>2. /\ fcm[x] = task[w].desired /\ Wanted(x, task[w].desired) /\ Live(x)
          /\ \A v \in Workers \ {w} : ~Works(v, x)
      BY <2>1, <3>1 DEF TokenFollows
    <3>3. \A v \in Workers : ~Works(v, x)'
      <4>1. \A v \in Workers \ {w} : Works(v, x)' <=> Works(v, x)
        BY <1>4 DEF Works
      <4> QED
        BY <1>4, <2>2, <3>2, <4>1
    <3>4. device'[x] = d /\ d.state = "live" /\ d.owner = device[x].owner /\ d.recorded = task[w].desired
      BY <1>3, <1>5, <2>2, <3>2
    <3>5. Live(x)' /\ device'[x] # NoDevice /\ fcm'[x] = device'[x].recorded
      BY <1>1, <3>2, <3>4 DEF Live, NoDevice
    <3>6. Wanted(x, fcm[x])'
      <4>1. desiredTopics(device[x].owner)' = desiredTopics(device[x].owner)
        <5>1. device'[x].owner = device[x].owner
          BY <3>4
        <5> QED
          BY <1>1, <5>1 DEF desiredTopics
      <4>2. fcm'[x] = task[w].desired /\ moved' = moved /\ device'[x].owner = device[x].owner
        BY <1>1, <3>2, <3>4
      <4> QED
        BY <3>2, <4>1, <4>2 DEF Wanted
    <3> QED
      BY <3>3, <3>5, <3>6 DEF TokenFollows
  <2>3. CASE x # t
    <3>1. Works(w, x) => /\ task'[w].step # "unsubscribe" /\ task'[w].user = task[w].user
                         /\ ~At(w, x, "apply") /\ ~At(w, x, "apply")' /\ ~At(w, x, "persist") /\ ~At(w, x, "persist")'
      BY <1>1, <1>4, <2>3 DEF At, t
    <3> QED
      BY <1>1, <1>4, <1>5, <2>1, <2>3, <3>1, GoroutineElsewhere
  <2> QED
    BY <2>2, <2>3
<1> QED
  BY <1>6, <1>7 DEF DevicesInv

LEMMA UnsubscribeKeeps ==
  ASSUME DevicesInv, NEW w \in Workers, NEW failed \in SUBSET Topics, UnsubscribeTokens(w, failed)
  PROVE  DevicesInv'
<1> DEFINE topics == UNION {device[t].recorded : t \in {x \in task[w].tokens : Live(x)}} \ failed
<1>1. /\ task[w] # Idle /\ task[w].step = "unsubscribe"
      /\ fcm' = [t \in Tokens |-> IF t \in task[w].tokens THEN fcm[t] \ topics ELSE fcm[t]]
      /\ task' = [task EXCEPT ![w] = Idle]
      /\ UNCHANGED <<device, mute, profile, installed, moved, spoiled, present>>
  BY DEF UnsubscribeTokens
<1> HIDE DEF topics
<1>2. fcm' \in [Tokens -> SUBSET Topics]
  BY <1>1 DEF DevicesInv, DevicesTyped
<1>3. task' \in [Workers -> DeviceTask] /\ task'[w] = Idle /\ \A v \in Workers \ {w} : task'[v] = task[v]
  BY <1>1 DEF DevicesInv, DevicesTyped, DeviceTask
<1>4. DevicesTyped'
  BY <1>1, <1>2, <1>3 DEF DevicesInv, DevicesTyped
<1>5. ASSUME NEW x \in Tokens \ spoiled'
      PROVE  TokenFollows(x)'
  <2>1. TokenFollows(x)
    BY <1>1 DEF DevicesInv
  <2>2. ~Works(w, x) /\ ~Works(w, x)'
    BY <1>1, <1>3, <2>1 DEF TokenFollows, Works
  <2>3. fcm'[x] = fcm[x]
    BY <1>1, <2>2 DEF Works
  <2> QED
    BY <1>1, <1>3, <2>1, <2>2, <2>3, GoroutineElsewhere
<1> QED
  BY <1>4, <1>5 DEF DevicesInv

LEMMA DevicesInvKept ==
  ASSUME DevicesInv, [DevicesNext]_<<sessionVars, deviceVars>>
  PROVE  DevicesInv'
<1>1. ASSUME UNCHANGED <<device, fcm, mute, profile, task, spoiled, moved, present>>, installed' \subseteq Tokens
      PROVE  DevicesInv'
  <2>1. DevicesTyped'
    BY <1>1 DEF DevicesInv, DevicesTyped
  <2> QED
    BY <1>1, <2>1, OthersUntouched
<1>2. installed \subseteq Tokens
  BY DEF DevicesInv, DevicesTyped
<1>3. CASE UNCHANGED <<sessionVars, deviceVars>>
  BY <1>1, <1>2, <1>3 DEF deviceVars
<1>4. CASE LoginStep
  BY <1>1, <1>2, <1>4 DEF LoginStep, deviceVars
<1>5. CASE HandlerStep
  <2>1. ASSUME NEW w \in Workers, NEW u \in Users, DevicesLogoutAll(w, u)
        PROVE  DevicesInv'
    <3>1. Spawn(w, Unsubscribe(Owned(u))) /\ Wiped(Owned(u))
      BY <2>1 DEF DevicesLogoutAll
    <3>2. Owned(u) \in SUBSET Tokens /\ \A t \in Owned(u) : Live(t)
      BY DEF Owned
    <3> QED
      BY <3>1, <3>2, DevicesLoggedOut
  <2>2. ASSUME NEW w \in Workers, NEW u \in Users, NEW kept, DevicesLogoutOthers(w, u, kept)
        PROVE  DevicesInv'
    <3> DEFINE S == Owned(u) \ kept
    <3>1. Spawn(w, Unsubscribe(S)) /\ Wiped(S)
      BY <2>2 DEF DevicesLogoutOthers
    <3>2. S \in SUBSET Tokens /\ \A t \in S : Live(t)
      BY DEF Owned
    <3> HIDE DEF S
    <3> QED
      BY <3>1, <3>2, DevicesLoggedOut
  <2>3. ASSUME NEW t \in Tokens, Uninstall(t)
        PROVE  DevicesInv'
    BY <1>1, <1>2, <2>3 DEF Uninstall
  <2> QED
    BY <1>5, <2>1, <2>2, <2>3, DeviceRegistered, DeviceRemoved, PreferenceUpdated, DevicesPushed, UserPlaced,
       PasswordChangedDevices DEF HandlerStep
<1>6. CASE WorkerStep
  <2>1. \A failed \in {{}} \cup {{t} : t \in Topics} : failed \in SUBSET Topics
    OBVIOUS
  <2> QED
    BY <1>6, <2>1, DesireKeeps, PersistKeeps, DevicesPruned, ApplyKeeps, UnsubscribeKeeps DEF WorkerStep
<1> QED
  BY <1>3, <1>4, <1>5, <1>6 DEF DevicesNext

LEMMA DevicesInvInit == DevicesInit => DevicesInv
<1> SUFFICES ASSUME DevicesInit
             PROVE  DevicesInv
  OBVIOUS
<1>1. DevicesTyped
  BY DEF DevicesInit, DevicesTyped, DeviceTask
<1>2. ASSUME NEW t \in Tokens
      PROVE  TokenFollows(t)
  BY DEF DevicesInit, TokenFollows, Works, Live, NoDevice
<1> QED
  BY <1>1, <1>2 DEF DevicesInv

LEMMA DevicesImply ==
  ASSUME DevicesInv
  PROVE  DevicesTypeOK /\ TopicsFollowOwner
<1>1. ASSUME NEW w \in Workers
      PROVE  task[w] = Idle \/ task[w].tokens \subseteq Tokens
  BY TaskTyped DEF DevicesInv
<1>2. DevicesTypeOK
  BY <1>1 DEF DevicesInv, DevicesTyped, DeviceRow, DevicesTypeOK
<1>3. ASSUME NEW t \in Tokens \ spoiled, Live(t), About(t) = {}
      PROVE  /\ fcm[t] = device[t].recorded
             /\ device[t].owner \notin moved => fcm[t] = desiredTopics(device[t].owner)
  <2>1. TokenFollows(t)
    BY DEF DevicesInv
  <2>2. \A w \in Workers : ~Works(w, t)
    BY <1>3 DEF About, Works
  <2> QED
    BY <1>3, <2>1, <2>2 DEF TokenFollows, Wanted
<1> QED
  BY <1>2, <1>3 DEF TopicsFollowOwner

\* The handlers of devices do to sessions what Sessions says, or nothing
\* (device_handler.go, auth_handler.go): Devices implements Sessions, and what
\* is proved of Sessions holds of it.
THEOREM DevicesImplementSessions ==
  DevicesSpec => Spec
<1>1. DevicesInit => Init
  BY DEF DevicesInit
<1>2. [DevicesNext]_<<sessionVars, deviceVars>> => [Next]_sessionVars
  <2>1. ASSUME LoginStep
        PROVE  Next
    BY <2>1 DEF LoginStep, Next, SessionStep, Accounts
  <2>2. ASSUME WorkerStep
        PROVE  UNCHANGED sessionVars
    BY <2>2 DEF WorkerStep, Desire, Persist, Prune, Apply, UnsubscribeTokens
  <2>3. ASSUME HandlerStep
        PROVE  Next \/ UNCHANGED sessionVars
    <3>1. ASSUME NEW w \in Workers, NEW u \in Users,
                 \/ \E t \in Tokens : RegisterDevice(w, u, t) \/ RemoveDevice(w, u, t)
                 \/ \E c \in Geographic, enabled \in BOOLEAN : UpdatePreference(w, u, c, enabled)
                 \/ Push(w, {u})
          PROVE  UNCHANGED sessionVars
      BY <3>1 DEF RegisterDevice, RemoveDevice, UpdatePreference, Push
    <3>2. ASSUME NEW w \in Workers, NEW u \in Users,
                 \/ DevicesLogoutAll(w, u)
                 \/ \E kept \in {{}} \cup {{t} : t \in Tokens} : DevicesLogoutOthers(w, u, kept)
          PROVE  LogoutAll(u) \/ LogoutOthers(u)
      BY <3>2 DEF DevicesLogoutAll, DevicesLogoutOthers
    <3>3. ASSUME (\E u \in Users, p \in Profiles : Placed(u, p)) \/ (\E t \in Tokens : Uninstall(t))
          PROVE  UNCHANGED sessionVars
      BY <3>3 DEF Placed, Uninstall
    <3>4. ASSUME NEW q \in Requests, NEW p \in Passwords, NEW b \in BOOLEAN, DevicesChangePassword(q, p, b)
          PROVE  ChangePassword(q, p, b)
      BY <3>4 DEF DevicesChangePassword
    <3>5. \/ UNCHANGED sessionVars
          \/ \E u \in Users : LogoutAll(u) \/ LogoutOthers(u)
          \/ \E q \in Requests, p \in Passwords, b \in BOOLEAN : ChangePassword(q, p, b)
      BY <2>3, <3>1, <3>2, <3>3, <3>4 DEF HandlerStep
    <3> QED
      BY <3>5 DEF Next, SessionStep
  <2> QED
    BY <2>1, <2>2, <2>3 DEF DevicesNext
<1> QED
  BY <1>1, <1>2, PTL DEF DevicesSpec, Spec

\* TopicsFollowOwner: a device passed from hand to hand, muted and unmuted,
\* ends with the topics of its owner in FCM and in its row once its goroutines
\* are done, unless one of the recorded accidents spoiled it
\* (device_topic_service.go:18); and the sessions beneath stay typed.
THEOREM TopicsFollowOwnerHolds ==
  ASSUME Constants
  PROVE  DevicesSpec => [](TypeOK /\ DevicesTypeOK /\ TopicsFollowOwner)
<1>1. DevicesInit => DevicesInv
  BY DevicesInvInit
<1>2. DevicesInv /\ [DevicesNext]_<<sessionVars, deviceVars>> => DevicesInv'
  BY DevicesInvKept
<1>3. DevicesInv => DevicesTypeOK /\ TopicsFollowOwner
  BY DevicesImply
<1> QED
  BY <1>1, <1>2, <1>3, TypeCorrect, DevicesImplementSessions, PTL DEF DevicesSpec

-----------------------------------------------------------------------------
(* Conversations and their sockets *)

(* No name stands for nobody, and rows are not None.                          *)
ChatConstants ==
    /\ MaxMessages \in Nat /\ SendBuffer \in Nat
    /\ None \notin Users \cup Sockets \cup Talk!Ids
    /\ None \notin Talk!Conversation \cup Talk!Message \cup Talk!Client

(* A request between two statements, by the statement that comes next.        *)
ChatTask ==
    [step : {"idle"}]
        \cup [step : {"look", "create"}, user : Users, other : Users]
        \cup [step : {"reopen", "join"}, user : Users, other : Users, in : Conversations]
        \cup [step : {"send"}, message : Talk!Ids, in : Conversations, sender : Users]
        \cup [step : {"edit"}, message : Talk!Ids, in : Conversations, room : Conversations, newest : Talk!Ids]
        \cup [step : {"tell"}, event : Talk!Event, in : Conversations]

LEMMA ChatTaskTyped ==
    ASSUME NEW t \in ChatTask
    PROVE  /\ t.step \in {"idle", "look", "create", "reopen", "join", "send", "edit", "tell"}
           /\ t.step = "idle" <=> t = Talk!Idle
           /\ t.step \in {"look", "create", "reopen", "join"} => t.user \in Users /\ t.other \in Users
           /\ t.step \in {"reopen", "join", "send", "edit", "tell"} => t.in \in Conversations
           /\ t.step \in {"send", "edit"} => t.message \in Talk!Ids
           /\ t.step = "send" => t.sender \in Users
           /\ t.step = "edit" => t.newest \in Talk!Ids /\ t.room \in Conversations
           /\ t.step = "tell" => t.event \in Talk!Event
<1>1. CASE t \in [step : {"idle"}]
    BY <1>1 DEF Talk!Idle
<1>2. CASE t \in [step : {"look", "create"}, user : Users, other : Users]
    BY <1>2 DEF Talk!Idle
<1>3. CASE t \in [step : {"reopen", "join"}, user : Users, other : Users, in : Conversations]
    BY <1>3 DEF Talk!Idle
<1>4. CASE t \in [step : {"send"}, message : Talk!Ids, in : Conversations, sender : Users]
    BY <1>4 DEF Talk!Idle
<1>5. CASE t \in [step : {"edit"}, message : Talk!Ids, in : Conversations, room : Conversations, newest : Talk!Ids]
    BY <1>5 DEF Talk!Idle
<1>6. CASE t \in [step : {"tell"}, event : Talk!Event, in : Conversations]
    BY <1>6 DEF Talk!Idle
<1> QED BY <1>1, <1>2, <1>3, <1>4, <1>5, <1>6 DEF ChatTask

LEMMA ChatWorkerTyped ==
    ASSUME Talk!ChatTypeOK, NEW w \in Workers
    PROVE  worker[w] \in ChatTask
BY DEF Talk!ChatTypeOK, ChatTask

LEMMA ChatTypedInitially == ASSUME ChatConstants PROVE Talk!ChatInit => Talk!ChatTypeOK
<1> SUFFICES ASSUME Talk!ChatInit PROVE Talk!ChatTypeOK
    OBVIOUS
<1> USE DEF Talk!ChatInit, Talk!Quiet
<1>1. worker \in [Workers -> ChatTask]
    BY DEF ChatTask, Talk!Idle
<1>2. conversation \in [Conversations -> Talk!Conversation \cup {None}] /\ message \in [Talk!Ids -> Talk!Message \cup {None}]
    OBVIOUS
<1>3. client \in [Sockets -> Talk!Client \cup {None}] /\ \A k \in Sockets : client[k] = None
    OBVIOUS
<1>4. hidden \subseteq Users \X Talk!Ids /\ aged \subseteq hidden /\ doubled \subseteq SUBSET Users /\ chatRaced \subseteq Conversations
    OBVIOUS
<1> QED BY <1>1, <1>2, <1>3, <1>4 DEF Talk!ChatTypeOK, ChatTask

(* What a step leaves the type of.                                            *)
LEMMA ChatTypedStep ==
    ASSUME Talk!ChatTypeOK,
           conversation' \in [Conversations -> Talk!Conversation \cup {None}],
           message' \in [Talk!Ids -> Talk!Message \cup {None}],
           hidden' \subseteq Users \X Talk!Ids, aged' \subseteq hidden',
           client' \in [Sockets -> Talk!Client \cup {None}],
           \A k \in Sockets : client'[k] # None => Len(client'[k].queue) <= SendBuffer,
           worker' \in [Workers -> ChatTask],
           doubled' \subseteq SUBSET Users, chatRaced' \subseteq Conversations
    PROVE  Talk!ChatTypeOK'
BY DEF Talk!ChatTypeOK, ChatTask

LEMMA ChatTaskSet ==
    ASSUME Talk!ChatTypeOK, NEW w \in Workers, NEW t \in ChatTask, worker' = [worker EXCEPT ![w] = t]
    PROVE  worker' \in [Workers -> ChatTask] /\ worker'[w] = t /\ \A x \in Workers \ {w} : worker'[x] = worker[x]
BY DEF Talk!ChatTypeOK, ChatTask

LEMMA ChatTaskDone ==
    ASSUME Talk!ChatTypeOK, NEW w \in Workers, worker' = [worker EXCEPT ![w] = Talk!Idle]
    PROVE  /\ worker' \in [Workers -> ChatTask] /\ worker'[w] = Talk!Idle /\ worker'[w].step = "idle"
           /\ \A x \in Workers \ {w} : worker'[x] = worker[x]
<1>1. Talk!Idle \in ChatTask
    BY DEF ChatTask, Talk!Idle
<1> QED BY <1>1, ChatTaskSet DEF Talk!Idle

LEMMA ConversationTyped ==
    ASSUME Talk!ChatTypeOK, NEW c \in Conversations, conversation[c] # None
    PROVE  /\ conversation[c] \in Talk!Conversation
           /\ conversation[c].between \in SUBSET Users /\ conversation[c].status \in Talk!Statuses
           /\ conversation[c].initiator \in Users /\ conversation[c].live \in BOOLEAN
           /\ conversation[c].last \in Talk!Ids \cup {None} /\ conversation[c].edited \in BOOLEAN
<1>1. conversation[c] \in Talk!Conversation
    BY DEF Talk!ChatTypeOK
<1> QED BY <1>1 DEF Talk!Conversation

LEMMA MessageTyped ==
    ASSUME Talk!ChatTypeOK, NEW i \in Talk!Ids, message[i] # None
    PROVE  /\ message[i] \in Talk!Message /\ message[i].in \in Conversations /\ message[i].sender \in Users
           /\ message[i].edited \in BOOLEAN /\ message[i].read \in BOOLEAN
<1>1. message[i] \in Talk!Message
    BY DEF Talk!ChatTypeOK
<1> QED BY <1>1 DEF Talk!Message

LEMMA SocketTyped ==
    ASSUME Talk!ChatTypeOK, NEW k \in Sockets, client[k] # None
    PROVE  /\ client[k] \in Talk!Client /\ client[k].user \in Users /\ client[k].in \in Conversations
           /\ client[k].state \in {"on", "deaf", "off"} /\ client[k].queue \in Seq(Talk!Event)
           /\ client[k].told \in SUBSET Talk!Event /\ client[k].missed \in BOOLEAN
           /\ client[k].since \in SUBSET Talk!Ids /\ Len(client[k].queue) <= SendBuffer
<1>1. client[k] \in Talk!Client /\ Len(client[k].queue) <= SendBuffer
    BY DEF Talk!ChatTypeOK
<1> QED BY <1>1 DEF Talk!Client

(* A row is changed: some of its columns and no other's.                      *)
LEMMA ConversationSet ==
    ASSUME Talk!ChatTypeOK, NEW c \in Conversations, NEW r \in Talk!Conversation, conversation' = [conversation EXCEPT ![c] = r]
    PROVE  /\ conversation' \in [Conversations -> Talk!Conversation \cup {None}] /\ conversation'[c] = r
           /\ \A d \in Conversations \ {c} : conversation'[d] = conversation[d]
BY DEF Talk!ChatTypeOK

LEMMA MessageSet ==
    ASSUME Talk!ChatTypeOK, NEW i \in Talk!Ids, NEW m \in Talk!Message, message' = [message EXCEPT ![i] = m]
    PROVE  /\ message' \in [Talk!Ids -> Talk!Message \cup {None}] /\ message'[i] = m
           /\ \A j \in Talk!Ids \ {i} : message'[j] = message[j]
BY DEF Talk!ChatTypeOK

-----------------------------------------------------------------------------
(* What the requests do, written out. *)

LEMMA StartOpenDoes ==
    ASSUME Talk!ChatTypeOK, NEW w \in Workers, NEW u \in Users, NEW v \in Users, Talk!StartOpen(w, u, v)
    PROVE  /\ worker[w] = Talk!Idle /\ Talk!LiveOf(u, v) = {}
           /\ worker' \in [Workers -> ChatTask] /\ worker'[w] = [step |-> "look", user |-> u, other |-> v]
           /\ \A x \in Workers \ {w} : worker'[x] = worker[x]
           /\ doubled \subseteq doubled' /\ doubled' \subseteq SUBSET Users
           /\ \A x \in Workers : worker[x].step \in {"look", "reopen", "create", "join"} =>
                LET other == {worker[x].user, worker[x].other}
                IN  other \subseteq {u, v} \/ {u, v} \subseteq other => other \in doubled' /\ {u, v} \in doubled'
           /\ UNCHANGED <<conversation, message, hidden, aged, client, chatRaced>>
<1> DEFINE t == [step |-> "look", user |-> u, other |-> v]
<1>1. t \in ChatTask
    BY DEF ChatTask
<1>2. worker' \in [Workers -> ChatTask] /\ worker'[w] = t /\ \A x \in Workers \ {w} : worker'[x] = worker[x]
    BY <1>1, ChatTaskSet DEF Talk!StartOpen
<1>3. doubled \subseteq doubled' /\ doubled' \subseteq SUBSET Users
    BY DEF Talk!StartOpen, Talk!ChatTypeOK
<1>4. ASSUME NEW x \in Workers, worker[x].step \in {"look", "reopen", "create", "join"},
             {worker[x].user, worker[x].other} \subseteq {u, v} \/ {u, v} \subseteq {worker[x].user, worker[x].other}
      PROVE  {worker[x].user, worker[x].other} \in doubled' /\ {u, v} \in doubled'
    <2> DEFINE other == {worker[x].user, worker[x].other}
    <2>1. worker[x].user \in Users /\ worker[x].other \in Users
        BY <1>4, ChatWorkerTyped, ChatTaskTyped
    <2>2. other \in SUBSET Users /\ {u, v} \in SUBSET Users
        BY <2>1
    <2> QED BY <1>4, <2>2 DEF Talk!StartOpen
<1> QED BY <1>2, <1>3, <1>4 DEF Talk!StartOpen

LEMMA LookForDeletedDoes ==
    ASSUME Talk!ChatTypeOK, NEW w \in Workers, Talk!LookForDeleted(w)
    PROVE  /\ worker[w].step = "look" /\ worker' \in [Workers -> ChatTask]
           /\ worker'[w].user = worker[w].user /\ worker'[w].other = worker[w].other
           /\ \/ /\ Talk!Of(worker[w].user, worker[w].other) \subseteq Talk!LiveOf(worker[w].user, worker[w].other)
                 /\ worker'[w].step = "create"
              \/ /\ worker'[w].step = "reopen"
                 /\ worker'[w].in \in Talk!Of(worker[w].user, worker[w].other)
           /\ \A x \in Workers \ {w} : worker'[x] = worker[x]
           /\ UNCHANGED <<conversation, message, hidden, aged, client, doubled, chatRaced>>
<1> DEFINE u == worker[w].user
           v == worker[w].other
           a == [step |-> "create", user |-> u, other |-> v]
           b(c) == [step |-> "reopen", user |-> u, other |-> v, in |-> c]
<1>1. worker[w].step = "look" /\ u \in Users /\ v \in Users
    BY ChatWorkerTyped, ChatTaskTyped DEF Talk!LookForDeleted
<1>2. CASE Talk!Of(u, v) \ Talk!LiveOf(u, v) = {} /\ worker' = [worker EXCEPT ![w] = a]
    <2>1. a \in ChatTask
        BY <1>1 DEF ChatTask
    <2>2. worker' \in [Workers -> ChatTask] /\ worker'[w] = a /\ \A x \in Workers \ {w} : worker'[x] = worker[x]
        BY <1>2, <2>1, ChatTaskSet
    <2>3. UNCHANGED <<conversation, message, hidden, aged, client, doubled, chatRaced>>
        BY DEF Talk!LookForDeleted
    <2> QED BY <1>1, <1>2, <2>2, <2>3
<1>3. ASSUME NEW c \in Talk!Of(u, v) \ Talk!LiveOf(u, v), worker' = [worker EXCEPT ![w] = b(c)]
      PROVE  /\ worker' \in [Workers -> ChatTask] /\ worker'[w] = b(c) /\ \A x \in Workers \ {w} : worker'[x] = worker[x]
    <2>1. b(c) \in ChatTask
        BY <1>1 DEF ChatTask, Talk!Of
    <2> QED BY <1>3, <2>1, ChatTaskSet
<1>4. \/ Talk!Of(u, v) \ Talk!LiveOf(u, v) = {} /\ worker' = [worker EXCEPT ![w] = a]
      \/ \E c \in Talk!Of(u, v) \ Talk!LiveOf(u, v) : worker' = [worker EXCEPT ![w] = b(c)]
    BY DEF Talk!LookForDeleted
<1>5. UNCHANGED <<conversation, message, hidden, aged, client, doubled, chatRaced>>
    BY DEF Talk!LookForDeleted
<1>6. CASE \E c \in Talk!Of(u, v) \ Talk!LiveOf(u, v) : worker' = [worker EXCEPT ![w] = b(c)]
    <2>1. PICK c \in Talk!Of(u, v) \ Talk!LiveOf(u, v) : worker' = [worker EXCEPT ![w] = b(c)]
        BY <1>6
    <2>2. /\ worker' \in [Workers -> ChatTask] /\ worker'[w].user = u /\ worker'[w].other = v
          /\ worker'[w].step = "reopen" /\ worker'[w].in = c /\ \A x \in Workers \ {w} : worker'[x] = worker[x]
        BY <1>3, <2>1
    <2> QED BY <1>1, <1>5, <2>2
<1> QED BY <1>1, <1>2, <1>4, <1>5, <1>6

LEMMA ReopenDoes ==
    ASSUME Talk!ChatTypeOK, NEW w \in Workers, Talk!Reopen(w), conversation[worker[w].in] # None
    PROVE  /\ worker[w].step = "reopen" /\ worker[w].in \in Conversations
           /\ worker' \in [Workers -> ChatTask] /\ worker'[w].step = "idle" /\ \A x \in Workers \ {w} : worker'[x] = worker[x]
           /\ conversation' \in [Conversations -> Talk!Conversation \cup {None}]
           /\ conversation'[worker[w].in] = [conversation[worker[w].in] EXCEPT !.live = TRUE, !.status = "accepted"]
           /\ \A d \in Conversations \ {worker[w].in} : conversation'[d] = conversation[d]
           /\ UNCHANGED <<message, hidden, aged, client, doubled, chatRaced>>
<1> DEFINE c == worker[w].in
           r == [conversation[c] EXCEPT !.live = TRUE, !.status = "accepted"]
<1>1. worker[w].step = "reopen" /\ c \in Conversations
    BY ChatWorkerTyped, ChatTaskTyped DEF Talk!Reopen
<1>2. r \in Talk!Conversation
    <2>1. conversation[c] \in Talk!Conversation
        BY <1>1, ConversationTyped
    <2> QED BY <2>1 DEF Talk!Conversation, Talk!Statuses
<1>3. conversation' = [conversation EXCEPT ![c] = r]
    BY <1>1, <1>2 DEF Talk!Reopen, Talk!ChatTypeOK, Talk!Conversation
<1> HIDE DEF r, c
<1>4. /\ conversation' \in [Conversations -> Talk!Conversation \cup {None}] /\ conversation'[c] = r
      /\ \A d \in Conversations \ {c} : conversation'[d] = conversation[d]
    BY <1>1, <1>2, <1>3, ConversationSet
<1>5. /\ worker' \in [Workers -> ChatTask] /\ worker'[w].step = "idle" /\ \A x \in Workers \ {w} : worker'[x] = worker[x]
    BY ChatTaskDone DEF Talk!Reopen
<1>6. UNCHANGED <<message, hidden, aged, client, doubled, chatRaced>>
    BY DEF Talk!Reopen
<1> QED BY <1>1, <1>4, <1>5, <1>6 DEF r, c

LEMMA CreateConversationDoes ==
    ASSUME Talk!ChatTypeOK, NEW w \in Workers, NEW c \in Conversations, Talk!CreateConversation(w, c)
    PROVE  /\ worker[w].step = "create" /\ conversation[c] = None
           /\ worker' \in [Workers -> ChatTask]
           /\ worker'[w] = [step |-> "join", user |-> worker[w].user, other |-> worker[w].other, in |-> c]
           /\ \A x \in Workers \ {w} : worker'[x] = worker[x]
           /\ conversation' \in [Conversations -> Talk!Conversation \cup {None}] /\ conversation'[c] \in Talk!Conversation
           /\ conversation'[c] = [between |-> {}, status |-> "pending", initiator |-> worker[w].user,
                                  live |-> TRUE, last |-> None, edited |-> FALSE]
           /\ \A d \in Conversations \ {c} : conversation'[d] = conversation[d]
           /\ UNCHANGED <<message, hidden, aged, client, doubled, chatRaced>>
<1> DEFINE r == [between |-> {}, status |-> "pending", initiator |-> worker[w].user, live |-> TRUE, last |-> None, edited |-> FALSE]
           t == [step |-> "join", user |-> worker[w].user, other |-> worker[w].other, in |-> c]
<1>1. worker[w].step = "create" /\ worker[w].user \in Users /\ worker[w].other \in Users
    BY ChatWorkerTyped, ChatTaskTyped DEF Talk!CreateConversation
<1>2. r \in Talk!Conversation /\ t \in ChatTask
    BY <1>1 DEF Talk!Conversation, Talk!Statuses, ChatTask
<1>3. conversation' = [conversation EXCEPT ![c] = r] /\ worker' = [worker EXCEPT ![w] = t]
    BY DEF Talk!CreateConversation
<1>4. conversation[c] = None /\ UNCHANGED <<message, hidden, aged, client, doubled, chatRaced>>
    BY DEF Talk!CreateConversation
<1> HIDE DEF r, t
<1>5. /\ conversation' \in [Conversations -> Talk!Conversation \cup {None}] /\ conversation'[c] = r
      /\ \A d \in Conversations \ {c} : conversation'[d] = conversation[d]
    BY <1>2, <1>3, ConversationSet
<1>6. worker' \in [Workers -> ChatTask] /\ worker'[w] = t /\ \A x \in Workers \ {w} : worker'[x] = worker[x]
    BY <1>2, <1>3, ChatTaskSet
<1> QED BY <1>1, <1>2, <1>4, <1>5, <1>6 DEF r, t

LEMMA AddParticipantsDoes ==
    ASSUME Talk!ChatTypeOK, NEW w \in Workers, Talk!AddParticipants(w), conversation[worker[w].in] # None
    PROVE  /\ worker[w].step = "join" /\ worker[w].in \in Conversations
           /\ worker' \in [Workers -> ChatTask] /\ worker'[w].step = "idle" /\ \A x \in Workers \ {w} : worker'[x] = worker[x]
           /\ conversation' \in [Conversations -> Talk!Conversation \cup {None}]
           /\ \/ /\ worker[w].user # worker[w].other
                 /\ conversation'[worker[w].in] = [conversation[worker[w].in] EXCEPT !.between = {worker[w].user, worker[w].other}]
              \/ conversation'[worker[w].in] = conversation[worker[w].in]
           /\ \A d \in Conversations \ {worker[w].in} : conversation'[d] = conversation[d]
           /\ UNCHANGED <<message, hidden, aged, client, doubled, chatRaced>>
<1> DEFINE c == worker[w].in
           r == [conversation[c] EXCEPT !.between = {worker[w].user, worker[w].other}]
<1>1. worker[w].step = "join" /\ c \in Conversations /\ worker[w].user \in Users /\ worker[w].other \in Users
    BY ChatWorkerTyped, ChatTaskTyped DEF Talk!AddParticipants
<1>2. r \in Talk!Conversation
    BY <1>1, ConversationTyped DEF Talk!Conversation
<1>3. \/ worker[w].user # worker[w].other /\ conversation' = [conversation EXCEPT ![c] = r]
      \/ conversation' = conversation
    BY <1>1, <1>2 DEF Talk!AddParticipants, Talk!ChatTypeOK
<1> HIDE DEF r, c
<1>4. /\ conversation' \in [Conversations -> Talk!Conversation \cup {None}]
      /\ \/ worker[w].user # worker[w].other /\ conversation'[c] = r
         \/ conversation'[c] = conversation[c]
      /\ \A d \in Conversations \ {c} : conversation'[d] = conversation[d]
    <2>1. CASE conversation' = conversation
        BY <2>1 DEF Talk!ChatTypeOK
    <2>2. CASE worker[w].user # worker[w].other /\ conversation' = [conversation EXCEPT ![c] = r]
        BY <1>1, <1>2, <2>2, ConversationSet
    <2> QED BY <1>3, <2>1, <2>2
<1>5. /\ worker' \in [Workers -> ChatTask] /\ worker'[w].step = "idle" /\ \A x \in Workers \ {w} : worker'[x] = worker[x]
    BY ChatTaskDone DEF Talk!AddParticipants
<1>6. UNCHANGED <<message, hidden, aged, client, doubled, chatRaced>>
    BY DEF Talk!AddParticipants
<1> QED BY <1>1, <1>4, <1>5, <1>6 DEF r, c

(* What most steps leave of the rows: who talks and what the preview shows; a *)
(* conversation may be deleted.                                               *)
RoomsKept ==
    /\ conversation' \in [Conversations -> Talk!Conversation \cup {None}]
    /\ \A c \in Conversations :
        /\ conversation'[c] = None <=> conversation[c] = None
        /\ conversation[c] # None =>
            /\ conversation'[c].between = conversation[c].between
            /\ conversation'[c].initiator = conversation[c].initiator
            /\ conversation'[c].last = conversation[c].last /\ conversation'[c].edited = conversation[c].edited
            /\ conversation'[c].live => conversation[c].live
MessagesKept ==
    /\ message' \in [Talk!Ids -> Talk!Message \cup {None}]
    /\ \A i \in Talk!Ids :
        /\ message'[i] = None <=> message[i] = None
        /\ message[i] # None => message'[i].in = message[i].in /\ message'[i].edited = message[i].edited

LEMMA RoomsUnchanged ==
    ASSUME Talk!ChatTypeOK, conversation' = conversation
    PROVE  RoomsKept
BY DEF Talk!ChatTypeOK, RoomsKept

LEMMA MessagesUnchanged ==
    ASSUME Talk!ChatTypeOK, message' = message
    PROVE  MessagesKept
BY DEF Talk!ChatTypeOK, MessagesKept

LEMMA StatusDoes ==
    ASSUME ChatConstants, Talk!ChatTypeOK, NEW c \in Conversations,
           Talk!AcceptRequest(c) \/ Talk!BlockRequest(c) \/ Talk!ArchiveConversation(c)
    PROVE  RoomsKept /\ MessagesKept /\ UNCHANGED <<hidden, aged, client, worker, doubled, chatRaced>>
<1>1. PICK status \in Talk!Statuses : Talk!SetStatus(c, status)
    BY DEF Talk!AcceptRequest, Talk!BlockRequest, Talk!ArchiveConversation, Talk!Statuses
<1> DEFINE r == [conversation[c] EXCEPT !.status = status]
<1>2. /\ conversation[c] # None /\ conversation' = [conversation EXCEPT ![c].status = status]
      /\ UNCHANGED <<message, hidden, aged, client, worker, doubled, chatRaced>>
    BY <1>1 DEF Talk!SetStatus
<1>3. conversation[c] \in Talk!Conversation
    BY <1>2, ConversationTyped
<1>4. /\ r \in Talk!Conversation /\ r.between = conversation[c].between /\ r.initiator = conversation[c].initiator
      /\ r.last = conversation[c].last /\ r.edited = conversation[c].edited /\ r.live = conversation[c].live
    BY <1>3 DEF Talk!Conversation
<1>5. conversation' = [conversation EXCEPT ![c] = r]
    BY <1>2, <1>3 DEF Talk!ChatTypeOK
<1> HIDE DEF r
<1>6. r # None
    BY <1>4 DEF ChatConstants
<1>7. RoomsKept
    <2>1. /\ conversation' \in [Conversations -> Talk!Conversation \cup {None}] /\ conversation'[c] = r
          /\ \A d \in Conversations \ {c} : conversation'[d] = conversation[d]
        BY <1>4, <1>5, ConversationSet
    <2> QED BY <1>2, <1>4, <1>6, <2>1 DEF RoomsKept
<1> QED BY <1>2, <1>7, MessagesUnchanged

LEMMA DeleteConversationDoes ==
    ASSUME ChatConstants, Talk!ChatTypeOK, NEW c \in Conversations, NEW u \in Users, Talk!DeleteConversation(c, u)
    PROVE  /\ RoomsKept /\ MessagesKept /\ UNCHANGED <<aged, client, worker, doubled, chatRaced>>
           /\ hidden \subseteq hidden' /\ hidden' \subseteq Users \X Talk!Ids
<1> DEFINE r == [conversation[c] EXCEPT !.live = FALSE]
<1>2. /\ conversation[c] # None /\ conversation' = [conversation EXCEPT ![c].live = FALSE]
      /\ UNCHANGED <<message, aged, client, worker, doubled, chatRaced>>
      /\ hidden' = hidden \cup ({u} \X Talk!MessagesOf(c))
    BY DEF Talk!DeleteConversation
<1>3. conversation[c] \in Talk!Conversation
    BY <1>2, ConversationTyped
<1>4. /\ r \in Talk!Conversation /\ r.between = conversation[c].between /\ r.initiator = conversation[c].initiator
      /\ r.last = conversation[c].last /\ r.edited = conversation[c].edited /\ r.live = FALSE
    BY <1>3 DEF Talk!Conversation
<1>5. conversation' = [conversation EXCEPT ![c] = r]
    BY <1>2, <1>3 DEF Talk!ChatTypeOK
<1> HIDE DEF r
<1>6. r # None
    BY <1>4 DEF ChatConstants
<1>7. RoomsKept
    <2>1. /\ conversation' \in [Conversations -> Talk!Conversation \cup {None}] /\ conversation'[c] = r
          /\ \A d \in Conversations \ {c} : conversation'[d] = conversation[d]
        BY <1>4, <1>5, ConversationSet
    <2> QED BY <1>2, <1>4, <1>6, <2>1 DEF RoomsKept
<1>8. hidden \subseteq hidden' /\ hidden' \subseteq Users \X Talk!Ids
    BY <1>2 DEF Talk!ChatTypeOK, Talk!MessagesOf
<1> QED BY <1>2, <1>7, <1>8, MessagesUnchanged

LEMMA MarkChatDoes ==
    ASSUME ChatConstants, Talk!ChatTypeOK, NEW c \in Conversations, NEW u \in Users, Talk!MarkAsRead(c, u)
    PROVE  RoomsKept /\ MessagesKept /\ UNCHANGED <<hidden, aged, client, worker, doubled, chatRaced>>
<1>1. /\ message' = [i \in Talk!Ids |-> IF i \in Talk!MessagesOf(c) /\ message[i].sender # u
                                         THEN [message[i] EXCEPT !.read = TRUE] ELSE message[i]]
      /\ UNCHANGED <<conversation, hidden, aged, client, worker, doubled, chatRaced>>
    BY DEF Talk!MarkAsRead
<1>2. ASSUME NEW i \in Talk!Ids
      PROVE  /\ message'[i] \in Talk!Message \cup {None} /\ (message'[i] = None <=> message[i] = None)
             /\ message[i] # None => message'[i].in = message[i].in /\ message'[i].edited = message[i].edited
    <2>1. message'[i] = IF i \in Talk!MessagesOf(c) /\ message[i].sender # u
                        THEN [message[i] EXCEPT !.read = TRUE] ELSE message[i]
        BY <1>1
    <2>2. CASE message'[i] = message[i]
        BY <2>2 DEF Talk!ChatTypeOK
    <2>3. CASE message'[i] # message[i]
        <3> DEFINE m == message[i]
        <3>1. message'[i] = [m EXCEPT !.read = TRUE] /\ m \in Talk!Message
            BY <2>1, <2>3, MessageTyped DEF Talk!MessagesOf
        <3> HIDE DEF m
        <3>2. message'[i] \in Talk!Message /\ message'[i].in = m.in /\ message'[i].edited = m.edited
            BY <3>1 DEF Talk!Message
        <3> QED BY <3>1, <3>2 DEF m, ChatConstants
    <2> QED BY <2>2, <2>3
<1>3. MessagesKept
    BY <1>1, <1>2 DEF MessagesKept
<1> QED BY <1>1, <1>3, RoomsUnchanged

(* The newest of some messages.                                               *)
LEMMA NewestIs ==
    ASSUME NEW S \in SUBSET Talk!Ids, ChatConstants, NEW i \in S, \A j \in S : j <= i
    PROVE  Talk!NewestOf(S) = i
<1>1. \A j \in S : j \in Nat
    BY DEF ChatConstants, Talk!Ids
<1>2. ASSUME NEW j \in S, \A k \in S : k <= j
      PROVE  j = i
    BY <1>1, <1>2
<1> QED BY <1>2 DEF Talk!NewestOf

LEMMA NewestThere ==
    ASSUME NEW S \in SUBSET Talk!Ids, ChatConstants, S # {}
    PROVE  Talk!NewestOf(S) \in S /\ \A j \in S : j <= Talk!NewestOf(S)
<1>1. IsFiniteSet(Talk!Ids)
    BY FS_Interval DEF Talk!Ids, ChatConstants
<1>2. IsFiniteSet(S)
    BY <1>1, FS_Subset
<1> DEFINE f == [x \in S |-> x]
<1>3. \A x \in S : f[x] \in Nat /\ f[x] = x
    BY DEF ChatConstants, Talk!Ids
<1> HIDE DEF f
<1>4. \E x \in S : \A y \in S : f[y] <= f[x]
    BY <1>2, <1>3, MaxExists
<1>5. \E x \in S : \A y \in S : y <= x
    BY <1>3, <1>4
<1> QED BY <1>5 DEF Talk!NewestOf

LEMMA StartSendDoes ==
    ASSUME ChatConstants, Talk!ChatTypeOK, NEW w \in Workers, NEW u \in Users, NEW c \in Conversations, Talk!StartSend(w, u, c)
    PROVE  /\ worker[w] = Talk!Idle /\ conversation[c] # None
           /\ worker' \in [Workers -> ChatTask] /\ worker'[w].step = "send" /\ worker'[w].in = c
           /\ worker'[w].message \in Talk!Ids /\ \A j \in Talk!Stamped : j < worker'[w].message
           /\ \A x \in Workers \ {w} : worker'[x] = worker[x]
           /\ chatRaced \subseteq chatRaced' /\ chatRaced' \subseteq chatRaced \cup {c} /\ (Talk!Writers(c) # {} => c \in chatRaced')
           /\ UNCHANGED <<conversation, message, hidden, aged, client, doubled>>
<1> DEFINE next == IF Talk!Stamped = {} THEN 1 ELSE Talk!NewestOf(Talk!Stamped) + 1
           t == [step |-> "send", message |-> next, in |-> c, sender |-> u]
<1>1. next \in Talk!Ids /\ worker' = [worker EXCEPT ![w] = t]
    BY DEF Talk!StartSend
<1>2. \A j \in Talk!Stamped : j < next
    <2>1. Talk!Stamped \in SUBSET Talk!Ids
        BY DEF Talk!Stamped
    <2>2. \A j \in Talk!Ids : j \in Nat
        BY DEF Talk!Ids, ChatConstants
    <2> QED BY <2>1, <2>2, NewestThere
<1> HIDE DEF next
<1>3. t \in ChatTask
    BY <1>1 DEF ChatTask
<1>4. worker' \in [Workers -> ChatTask] /\ worker'[w] = t /\ \A x \in Workers \ {w} : worker'[x] = worker[x]
    BY <1>1, <1>3, ChatTaskSet
<1>5. worker[w] = Talk!Idle /\ conversation[c] # None /\ UNCHANGED <<conversation, message, hidden, aged, client, doubled>>
    BY DEF Talk!StartSend
<1>6. chatRaced \subseteq chatRaced' /\ chatRaced' \subseteq chatRaced \cup {c} /\ (Talk!Writers(c) # {} => c \in chatRaced')
    BY DEF Talk!StartSend, Talk!Overlapping
<1> QED BY <1>1, <1>2, <1>4, <1>5, <1>6

LEMMA SendMessageDoes ==
    ASSUME ChatConstants, Talk!ChatTypeOK, NEW w \in Workers, Talk!SendMessage(w), conversation[worker[w].in] # None
    PROVE  /\ worker[w].step = "send" /\ worker[w].in \in Conversations /\ worker[w].message \in Talk!Ids
           /\ message' \in [Talk!Ids -> Talk!Message \cup {None}]
           /\ message'[worker[w].message] # None
           /\ message'[worker[w].message].in = worker[w].in /\ message'[worker[w].message].edited = FALSE
           /\ \A j \in Talk!Ids \ {worker[w].message} : message'[j] = message[j]
           /\ worker' \in [Workers -> ChatTask]
           /\ worker'[w] = [step |-> "tell", in |-> worker[w].in, event |-> [kind |-> "new", message |-> worker[w].message]]
           /\ \A x \in Workers \ {w} : worker'[x] = worker[x]
           /\ conversation' \in [Conversations -> Talk!Conversation \cup {None}]
           /\ \A d \in Conversations \ {worker[w].in} : conversation'[d] = conversation[d]
           /\ \/ /\ conversation'[worker[w].in] = [conversation[worker[w].in] EXCEPT !.last = worker[w].message, !.edited = FALSE]
                 /\ chatRaced' = chatRaced
              \/ conversation'[worker[w].in] = conversation[worker[w].in] /\ chatRaced' = chatRaced \cup {worker[w].in}
           /\ UNCHANGED <<hidden, aged, client, doubled>>
<1> DEFINE c == worker[w].in
           i == worker[w].message
           m == [in |-> c, sender |-> worker[w].sender, edited |-> FALSE, read |-> FALSE]
           r == [conversation[c] EXCEPT !.last = i, !.edited = FALSE]
           t == [step |-> "tell", in |-> c, event |-> [kind |-> "new", message |-> i]]
<1>1. worker[w].step = "send" /\ c \in Conversations /\ i \in Talk!Ids /\ worker[w].sender \in Users
    BY ChatWorkerTyped, ChatTaskTyped DEF Talk!SendMessage
<1>2. m \in Talk!Message /\ t \in ChatTask
    BY <1>1 DEF Talk!Message, ChatTask, Talk!Event
<1>3. m # None
    BY <1>2 DEF ChatConstants
<1>4. conversation[c] \in Talk!Conversation
    BY <1>1, ConversationTyped
<1>5. r \in Talk!Conversation
    BY <1>1, <1>4 DEF Talk!Conversation
<1>6. /\ message' = [message EXCEPT ![i] = m] /\ worker' = [worker EXCEPT ![w] = t]
      /\ \/ conversation' = [conversation EXCEPT ![c].last = i, ![c].edited = FALSE] /\ chatRaced' = chatRaced
         \/ conversation' = conversation /\ chatRaced' = chatRaced \cup {c}
      /\ UNCHANGED <<hidden, aged, client, doubled>>
    BY DEF Talk!SendMessage
<1>7. \/ conversation' = [conversation EXCEPT ![c] = r] /\ chatRaced' = chatRaced
      \/ conversation' = conversation /\ chatRaced' = chatRaced \cup {c}
    <2>1. conversation \in [Conversations -> Talk!Conversation \cup {None}]
        BY DEF Talk!ChatTypeOK
    <2> QED BY <1>1, <1>6, <2>1
<1> HIDE DEF r, m, t, c, i
<1>8. /\ conversation' \in [Conversations -> Talk!Conversation \cup {None}]
      /\ \A d \in Conversations \ {c} : conversation'[d] = conversation[d]
      /\ (conversation'[c] = r /\ chatRaced' = chatRaced) \/ (conversation'[c] = conversation[c] /\ chatRaced' = chatRaced \cup {c})
    <2>1. CASE conversation' = conversation /\ chatRaced' = chatRaced \cup {c}
        BY <2>1 DEF Talk!ChatTypeOK
    <2>2. CASE conversation' = [conversation EXCEPT ![c] = r] /\ chatRaced' = chatRaced
        BY <1>1, <1>5, <2>2, ConversationSet
    <2> QED BY <1>7, <2>1, <2>2
<1>9. worker' \in [Workers -> ChatTask] /\ worker'[w] = t /\ \A x \in Workers \ {w} : worker'[x] = worker[x]
    BY <1>2, <1>6, ChatTaskSet
<1>10. /\ message' \in [Talk!Ids -> Talk!Message \cup {None}] /\ message'[i] = m
       /\ \A j \in Talk!Ids \ {i} : message'[j] = message[j]
    BY <1>1, <1>2, <1>6, MessageSet
<1>11. m.in = c /\ m.edited = FALSE
    BY DEF m
<1> QED BY <1>1, <1>3, <1>6, <1>8, <1>9, <1>10, <1>11 DEF r, t, c, i

LEMMA TransactionFailsDoes ==
    ASSUME Talk!ChatTypeOK, NEW w \in Workers, Talk!TransactionFails(w)
    PROVE  /\ worker' \in [Workers -> ChatTask] /\ worker'[w].step = "idle" /\ \A x \in Workers \ {w} : worker'[x] = worker[x]
           /\ worker[w].step \in {"send", "edit"}
           /\ UNCHANGED <<conversation, message, hidden, aged, client, doubled, chatRaced>>
BY ChatTaskDone DEF Talk!TransactionFails

LEMMA StartUpdateDoes ==
    ASSUME ChatConstants, Talk!ChatTypeOK, NEW w \in Workers, NEW i \in Talk!Ids, NEW room \in Conversations,
           Talk!StartUpdate(w, i, room)
    PROVE  /\ worker[w] = Talk!Idle /\ message[i] # None /\ message[i].in \in Conversations
           /\ worker' \in [Workers -> ChatTask]
           /\ worker'[w] = [step |-> "edit", message |-> i, in |-> message[i].in, room |-> room,
                            newest |-> Talk!NewestOf(Talk!MessagesOf(message[i].in))]
           /\ \A x \in Workers \ {w} : worker'[x] = worker[x]
           /\ chatRaced \subseteq chatRaced' /\ chatRaced' \subseteq chatRaced \cup {message[i].in}
           /\ (Talk!Writers(message[i].in) # {} => message[i].in \in chatRaced')
           /\ UNCHANGED <<conversation, message, hidden, aged, client, doubled>>
<1> DEFINE c == message[i].in
           t == [step |-> "edit", message |-> i, in |-> c, room |-> room, newest |-> Talk!NewestOf(Talk!MessagesOf(c))]
<1>1. message[i] # None /\ c \in Conversations /\ worker' = [worker EXCEPT ![w] = t]
    BY MessageTyped DEF Talk!StartUpdate
<1>2. Talk!NewestOf(Talk!MessagesOf(c)) \in Talk!Ids
    <2>1. Talk!MessagesOf(c) \in SUBSET Talk!Ids /\ i \in Talk!MessagesOf(c)
        BY <1>1 DEF Talk!MessagesOf
    <2> QED BY <2>1, NewestThere
<1>3. t \in ChatTask
    BY <1>1, <1>2 DEF ChatTask
<1>4. worker[w] = Talk!Idle /\ UNCHANGED <<conversation, message, hidden, aged, client, doubled>>
    BY DEF Talk!StartUpdate
<1>5. chatRaced \subseteq chatRaced' /\ chatRaced' \subseteq chatRaced \cup {c} /\ (Talk!Writers(c) # {} => c \in chatRaced')
    BY DEF Talk!StartUpdate, Talk!Overlapping
<1> HIDE DEF t
<1>6. worker' \in [Workers -> ChatTask] /\ worker'[w] = t /\ \A x \in Workers \ {w} : worker'[x] = worker[x]
    BY <1>1, <1>3, ChatTaskSet
<1> QED BY <1>1, <1>4, <1>5, <1>6 DEF t

LEMMA UpdateMessageDoes ==
    ASSUME ChatConstants, Talk!ChatTypeOK, NEW w \in Workers, Talk!UpdateMessage(w), conversation[worker[w].in] # None,
           message[worker[w].message] # None
    PROVE  /\ worker[w].step = "edit" /\ worker[w].in \in Conversations /\ worker[w].message \in Talk!Ids
           /\ message' \in [Talk!Ids -> Talk!Message \cup {None}]
           /\ message'[worker[w].message] # None
           /\ message'[worker[w].message].in = message[worker[w].message].in /\ message'[worker[w].message].edited = TRUE
           /\ \A j \in Talk!Ids \ {worker[w].message} : message'[j] = message[j]
           /\ worker' \in [Workers -> ChatTask]
           /\ worker'[w] = [step |-> "tell", in |-> worker[w].room, event |-> [kind |-> "edited", message |-> worker[w].message]]
           /\ \A x \in Workers \ {w} : worker'[x] = worker[x]
           /\ conversation' \in [Conversations -> Talk!Conversation \cup {None}]
           /\ \A d \in Conversations \ {worker[w].in} : conversation'[d] = conversation[d]
           /\ conversation'[worker[w].in] =
                 IF worker[w].newest = worker[w].message /\ conversation[worker[w].in].live
                 THEN [conversation[worker[w].in] EXCEPT !.edited = TRUE] ELSE conversation[worker[w].in]
           /\ chatRaced' = IF conversation[worker[w].in].live THEN chatRaced ELSE chatRaced \cup {worker[w].in}
           /\ UNCHANGED <<hidden, aged, client, doubled>>
<1> DEFINE c == worker[w].in
           i == worker[w].message
           old == message[i]
           m == [old EXCEPT !.edited = TRUE]
           r == IF worker[w].newest = i /\ conversation[c].live
                THEN [conversation[c] EXCEPT !.edited = TRUE] ELSE conversation[c]
           room == worker[w].room
           t == [step |-> "tell", in |-> room, event |-> [kind |-> "edited", message |-> i]]
<1>1. worker[w].step = "edit" /\ c \in Conversations /\ i \in Talk!Ids /\ room \in Conversations
    BY ChatWorkerTyped, ChatTaskTyped DEF Talk!UpdateMessage
<1>2. old \in Talk!Message /\ conversation[c] \in Talk!Conversation
    BY <1>1, MessageTyped, ConversationTyped
<1>3. t \in ChatTask
    BY <1>1 DEF ChatTask, Talk!Event
<1>4. r \in Talk!Conversation
    BY <1>1, <1>2 DEF Talk!Conversation
<1>5. /\ message' = [message EXCEPT ![i].edited = TRUE] /\ worker' = [worker EXCEPT ![w] = t]
      /\ conversation' = IF worker[w].newest = i /\ conversation[c].live
                         THEN [conversation EXCEPT ![c].edited = TRUE] ELSE conversation
      /\ chatRaced' = IF conversation[c].live THEN chatRaced ELSE chatRaced \cup {c}
      /\ UNCHANGED <<hidden, aged, client, doubled>>
    BY DEF Talk!UpdateMessage
<1>6. message' = [message EXCEPT ![i] = m] /\ conversation' = [conversation EXCEPT ![c] = r]
    <2>1. /\ message \in [Talk!Ids -> Talk!Message \cup {None}]
          /\ conversation \in [Conversations -> Talk!Conversation \cup {None}]
        BY DEF Talk!ChatTypeOK
    <2> QED BY <1>1, <1>5, <2>1
<1> HIDE DEF old
<1>7. m \in Talk!Message /\ m.in = old.in /\ m.edited = TRUE
    BY <1>2 DEF Talk!Message
<1>8. m # None
    BY <1>7 DEF ChatConstants
<1> HIDE DEF r, m, t, c, i, room
<1>9. /\ conversation' \in [Conversations -> Talk!Conversation \cup {None}] /\ conversation'[c] = r
      /\ \A d \in Conversations \ {c} : conversation'[d] = conversation[d]
    BY <1>1, <1>4, <1>6, ConversationSet
<1>10. worker' \in [Workers -> ChatTask] /\ worker'[w] = t /\ \A x \in Workers \ {w} : worker'[x] = worker[x]
    BY <1>3, <1>5, ChatTaskSet
<1>11. /\ message' \in [Talk!Ids -> Talk!Message \cup {None}] /\ message'[i] = m
       /\ \A j \in Talk!Ids \ {i} : message'[j] = message[j]
    BY <1>1, <1>6, <1>7, MessageSet
<1> QED BY <1>1, <1>5, <1>7, <1>8, <1>9, <1>10, <1>11 DEF r, t, c, i, room, old

LEMMA DeleteMessageDoes ==
    ASSUME ChatConstants, Talk!ChatTypeOK, NEW w \in Workers, NEW u \in Users, NEW i \in Talk!Ids,
           NEW room \in Conversations, Talk!DeleteMessage(w, u, i, room)
    PROVE  /\ worker[w] = Talk!Idle /\ message[i] # None
           /\ worker' \in [Workers -> ChatTask]
           /\ worker'[w] = [step |-> "tell", in |-> room, event |-> [kind |-> "deleted", message |-> i]]
           /\ \A x \in Workers \ {w} : worker'[x] = worker[x]
           /\ hidden \subseteq hidden' /\ hidden' \subseteq Users \X Talk!Ids
           /\ UNCHANGED <<conversation, message, aged, client, doubled, chatRaced>>
<1> DEFINE t == [step |-> "tell", in |-> room, event |-> [kind |-> "deleted", message |-> i]]
<1>1. /\ worker[w] = Talk!Idle /\ message[i] # None /\ worker' = [worker EXCEPT ![w] = t]
      /\ hidden' = hidden \cup {<<u, i>>} /\ UNCHANGED <<message, aged, client, doubled, chatRaced>>
    BY DEF Talk!DeleteMessage
<1>2. t \in ChatTask
    BY <1>1, MessageTyped DEF ChatTask, Talk!Event
<1>3. conversation' = conversation
    <2>1. Talk!Loaded(i).sender # u
        BY DEF Talk!Loaded, ChatConstants
    <2> QED BY <2>1 DEF Talk!DeleteMessage
<1> HIDE DEF t
<1>4. worker' \in [Workers -> ChatTask] /\ worker'[w] = t /\ \A x \in Workers \ {w} : worker'[x] = worker[x]
    BY <1>1, <1>2, ChatTaskSet
<1>5. hidden \subseteq hidden' /\ hidden' \subseteq Users \X Talk!Ids
    BY <1>1 DEF Talk!ChatTypeOK
<1> QED BY <1>1, <1>3, <1>4, <1>5 DEF t

Typing == [kind |-> "typing", message |-> None]

(* What a connection was told of, or will be once its channel is written.     *)
HeardBy(r) == r.told \cup {r.queue[j] : j \in DOMAIN r.queue}
Hears(k) == HeardBy(client[k])

(* What a broadcast makes of a socket in the room: it is told, or the event   *)
(* is dropped.                                                                *)
LEMMA QueuedIs ==
    ASSUME ChatConstants, Talk!ChatTypeOK, NEW k \in Sockets, client[k] # None, NEW e \in Talk!Event,
           NEW r, r = Talk!Queued(k, e)
    PROVE  /\ r \in Talk!Client /\ r # None /\ Len(r.queue) <= SendBuffer
           /\ r.user = client[k].user /\ r.in = client[k].in /\ r.state = client[k].state /\ r.told = client[k].told
           /\ r.since = client[k].since
           /\ \/ r.missed = TRUE /\ r.queue = client[k].queue
              \/ r.missed = client[k].missed /\ r.queue = Append(client[k].queue, e)
<1> DEFINE s == client[k]
<1>1. s \in Talk!Client /\ s.queue \in Seq(Talk!Event) /\ Len(s.queue) <= SendBuffer
    BY SocketTyped
<1>2. Len(s.queue) \in Nat /\ SendBuffer \in Nat
    BY <1>1 DEF ChatConstants
<1>3. \/ Len(s.queue) < SendBuffer /\ r = [s EXCEPT !.queue = Append(s.queue, e)]
      \/ r = [s EXCEPT !.missed = TRUE]
    BY DEF Talk!Queued
<1> HIDE DEF s
<1>4. Append(s.queue, e) \in Seq(Talk!Event) /\ Len(Append(s.queue, e)) = Len(s.queue) + 1
    BY <1>1
<1>5. CASE Len(s.queue) < SendBuffer /\ r = [s EXCEPT !.queue = Append(s.queue, e)]
    <2>1. r \in Talk!Client /\ r.queue = Append(s.queue, e) /\ r.user = s.user /\ r.in = s.in /\ r.state = s.state
          /\ r.told = s.told /\ r.since = s.since /\ r.missed = s.missed
        BY <1>1, <1>4, <1>5 DEF Talk!Client
    <2>2. Len(r.queue) <= SendBuffer
        BY <1>2, <1>4, <1>5, <2>1
    <2> QED BY <2>1, <2>2 DEF ChatConstants, s
<1>6. CASE r = [s EXCEPT !.missed = TRUE]
    <2>1. r \in Talk!Client /\ r.queue = s.queue /\ r.user = s.user /\ r.in = s.in /\ r.state = s.state
          /\ r.told = s.told /\ r.since = s.since /\ r.missed = TRUE
        BY <1>1, <1>6 DEF Talk!Client
    <2> QED BY <1>1, <2>1 DEF ChatConstants, s
<1> QED BY <1>3, <1>5, <1>6

(* Sockets keep what they heard, or were closed, or missed something.         *)
SocketsKeep ==
    /\ client' \in [Sockets -> Talk!Client \cup {None}]
    /\ \A k \in Sockets :
        /\ client'[k] = None <=> client[k] = None
        /\ client[k] # None =>
            /\ Len(client'[k].queue) <= SendBuffer
            /\ client'[k].in = client[k].in /\ client'[k].since = client[k].since
            /\ client'[k].state = "on" /\ ~client'[k].missed =>
                  client[k].state = "on" /\ ~client[k].missed /\ Hears(k) \subseteq Hears(k)'

LEMMA SocketsUnchanged ==
    ASSUME Talk!ChatTypeOK, client' = client
    PROVE  SocketsKeep /\ \A k \in Sockets : Hears(k)' = Hears(k)
<1>1. \A k \in Sockets : client[k] # None => Len(client[k].queue) <= SendBuffer
    BY DEF Talk!ChatTypeOK
<1>2. client \in [Sockets -> Talk!Client \cup {None}]
    BY DEF Talk!ChatTypeOK
<1>3. \A k \in Sockets : Hears(k)' = Hears(k)
    BY DEF Hears
<1> QED BY <1>1, <1>2, <1>3 DEF SocketsKeep

LEMMA AppendedRange ==
    ASSUME NEW S, NEW q \in Seq(S), NEW e \in S, NEW a, a = Append(q, e)
    PROVE  {a[j] : j \in DOMAIN a} = {q[j] : j \in DOMAIN q} \cup {e}
<1>1. DOMAIN q = 1..Len(q) /\ Len(q) \in Nat
    OBVIOUS
<1>2. DOMAIN a = 1..(Len(q) + 1) /\ a[Len(q) + 1] = e /\ \A j \in 1..Len(q) : a[j] = q[j]
    BY AppendProperties
<1>3. ASSUME NEW j \in DOMAIN a
      PROVE  a[j] \in {q[n] : n \in DOMAIN q} \cup {e}
    <2>1. j = Len(q) + 1 \/ j \in DOMAIN q
        BY <1>1, <1>2
    <2> QED BY <1>1, <1>2, <2>1
<1>4. ASSUME NEW n \in DOMAIN q
      PROVE  \E j \in DOMAIN a : a[j] = q[n]
    <2>1. n \in DOMAIN a
        BY <1>1, <1>2
    <2> QED BY <1>1, <1>2, <2>1
<1>5. Len(q) + 1 \in DOMAIN a
    BY <1>1, <1>2
<1>6. {a[j] : j \in DOMAIN a} \subseteq {q[n] : n \in DOMAIN q} \cup {e}
    BY <1>3
<1>7. {q[n] : n \in DOMAIN q} \subseteq {a[j] : j \in DOMAIN a} /\ e \in {a[j] : j \in DOMAIN a}
    BY <1>2, <1>4, <1>5
<1> QED BY <1>6, <1>7

LEMMA BroadcastDoes ==
    ASSUME ChatConstants, Talk!ChatTypeOK, NEW c, NEW e \in Talk!Event, NEW sender, Talk!Broadcast(c, e, sender)
    PROVE  /\ SocketsKeep
           /\ \A k \in Sockets : client[k] # None =>
                /\ client'[k].state = client[k].state
                /\ Hears(k)' \subseteq Hears(k) \cup {e} /\ (Hears(k)' # Hears(k) => client[k].in = c)
                /\ k \in Talk!Room(c, sender) /\ ~client'[k].missed => e \in Hears(k)'
<1>1. ASSUME NEW k \in Sockets, client[k] # None
      PROVE  /\ client'[k] \in Talk!Client /\ client'[k] # None /\ Len(client'[k].queue) <= SendBuffer
             /\ client'[k].in = client[k].in /\ client'[k].since = client[k].since
             /\ client'[k].state = client[k].state
             /\ ~client'[k].missed => ~client[k].missed /\ Hears(k) \subseteq Hears(k)'
             /\ Hears(k)' \subseteq Hears(k) \cup {e} /\ (Hears(k)' # Hears(k) => client[k].in = c)
             /\ k \in Talk!Room(c, sender) /\ ~client'[k].missed => e \in Hears(k)'
    <2>1. CASE k \in Talk!Room(c, sender)
        <3>1. client'[k] = Talk!Queued(k, e) /\ client[k].in = c
            BY <1>1, <2>1 DEF Talk!Broadcast, Talk!Room
        <3>2. /\ client'[k] \in Talk!Client /\ client'[k] # None /\ Len(client'[k].queue) <= SendBuffer
              /\ client'[k].in = client[k].in /\ client'[k].state = client[k].state /\ client'[k].told = client[k].told
              /\ client'[k].since = client[k].since
              /\ \/ client'[k].missed = TRUE /\ client'[k].queue = client[k].queue
                 \/ client'[k].missed = client[k].missed /\ client'[k].queue = Append(client[k].queue, e)
            <4>1. PICK r : r = Talk!Queued(k, e)
                OBVIOUS
            <4>2. /\ r \in Talk!Client /\ r # None /\ Len(r.queue) <= SendBuffer
                  /\ r.in = client[k].in /\ r.state = client[k].state /\ r.told = client[k].told
                  /\ r.since = client[k].since
                  /\ \/ r.missed = TRUE /\ r.queue = client[k].queue
                     \/ r.missed = client[k].missed /\ r.queue = Append(client[k].queue, e)
                BY <1>1, <4>1, QueuedIs
            <4> QED BY <3>1, <4>1, <4>2
        <3>3. client[k].missed \in BOOLEAN /\ client[k].queue \in Seq(Talk!Event)
            BY <1>1, SocketTyped
        <3>4. CASE client'[k].missed = TRUE /\ client'[k].queue = client[k].queue
            <4>1. Hears(k)' = Hears(k)
                BY <3>2, <3>4 DEF Hears, HeardBy
            <4> QED BY <3>2, <3>4, <4>1
        <3>5. CASE client'[k].missed = client[k].missed /\ client'[k].queue = Append(client[k].queue, e)
            <4>1. {client'[k].queue[j] : j \in DOMAIN client'[k].queue} = {client[k].queue[j] : j \in DOMAIN client[k].queue} \cup {e}
                BY <3>3, <3>5, AppendedRange
            <4>2. Hears(k)' = Hears(k) \cup {e}
                BY <3>2, <4>1 DEF Hears, HeardBy
            <4> QED BY <3>1, <3>2, <3>5, <4>2
        <3> QED BY <3>2, <3>4, <3>5
    <2>2. CASE k \notin Talk!Room(c, sender)
        <3>1. client'[k] = client[k]
            BY <2>2 DEF Talk!Broadcast
        <3>2. Hears(k)' = Hears(k)
            BY <3>1 DEF Hears
        <3> QED BY <1>1, <2>2, <3>1, <3>2, SocketTyped
    <2> QED BY <2>1, <2>2
<1>2. ASSUME NEW k \in Sockets, client[k] = None
      PROVE  client'[k] = None
    BY <1>2 DEF Talk!Broadcast, Talk!Room
<1>3. DOMAIN client' = Sockets /\ client' = [k \in Sockets |-> client'[k]]
    BY DEF Talk!Broadcast
<1>4. client' \in [Sockets -> Talk!Client \cup {None}]
    BY <1>1, <1>2, <1>3
<1> QED BY <1>1, <1>2, <1>4 DEF SocketsKeep

LEMMA TellDoes ==
    ASSUME ChatConstants, Talk!ChatTypeOK, NEW w \in Workers, Talk!Tell(w)
    PROVE  /\ worker[w].step = "tell" /\ worker[w].in \in Conversations /\ worker[w].event \in Talk!Event
           /\ worker' \in [Workers -> ChatTask] /\ worker'[w].step = "idle" /\ \A x \in Workers \ {w} : worker'[x] = worker[x]
           /\ SocketsKeep
           /\ \A k \in Sockets : client[k] # None =>
                /\ Hears(k)' \subseteq Hears(k) \cup {worker[w].event} /\ (Hears(k)' # Hears(k) => client[k].in = worker[w].in)
                /\ client'[k].state # "off" /\ client[k].in = worker[w].in /\ ~client'[k].missed => worker[w].event \in Hears(k)'
           /\ UNCHANGED <<conversation, message, hidden, aged, doubled, chatRaced>>
<1>1. /\ worker[w].step = "tell" /\ Talk!Broadcast(worker[w].in, worker[w].event, None) /\ worker' = [worker EXCEPT ![w] = Talk!Idle]
      /\ UNCHANGED <<conversation, message, hidden, aged, doubled, chatRaced>>
    BY DEF Talk!Tell
<1>2. worker[w].in \in Conversations /\ worker[w].event \in Talk!Event
    BY <1>1, ChatWorkerTyped, ChatTaskTyped
<1>3. worker' \in [Workers -> ChatTask] /\ worker'[w].step = "idle" /\ \A x \in Workers \ {w} : worker'[x] = worker[x]
    BY <1>1, ChatTaskDone
<1>4. \A k \in Sockets : client[k] # None /\ client[k].state # "off" /\ client[k].in = worker[w].in =>
          k \in Talk!Room(worker[w].in, None)
    BY DEF Talk!Room, ChatConstants
<1> QED BY <1>1, <1>2, <1>3, <1>4, BroadcastDoes

LEMMA ReadPumpDoes ==
    ASSUME ChatConstants, Talk!ChatTypeOK, NEW k \in Sockets, Talk!ReadPump(k)
    PROVE  /\ SocketsKeep
           /\ \A j \in Sockets : client[j] # None => \A e \in Hears(j)' : e \in Hears(j) \/ e = Typing
           /\ UNCHANGED <<conversation, message, hidden, aged, worker, doubled, chatRaced>>
<1>1. Typing \in Talk!Event
    BY DEF Talk!Event, Typing
<1>2. Talk!Broadcast(client[k].in, Typing, k) /\ UNCHANGED <<conversation, message, hidden, aged, worker, doubled, chatRaced>>
    BY DEF Talk!ReadPump, Typing
<1> QED BY <1>1, <1>2, BroadcastDoes

(* A sequence holds its first element and those of the rest.                  *)
LEMMA TailRange ==
    ASSUME NEW S, NEW q \in Seq(S), Len(q) > 0, NEW t \in Seq(S), Len(t) = Len(q) - 1,
           \A j \in 1..(Len(q) - 1) : t[j] = q[j + 1]
    PROVE  {t[j] : j \in DOMAIN t} \cup {q[1]} = {q[j] : j \in DOMAIN q}
<1>1. DOMAIN q = 1..Len(q) /\ Len(q) \in Nat
    OBVIOUS
<1>2. DOMAIN t = 1..(Len(q) - 1)
    OBVIOUS
<1>3. ASSUME NEW j \in DOMAIN t
      PROVE  t[j] \in {q[n] : n \in DOMAIN q}
    <2>1. j + 1 \in DOMAIN q
        BY <1>1, <1>2
    <2> QED BY <1>2, <2>1
<1>4. ASSUME NEW n \in DOMAIN q
      PROVE  q[n] \in {t[j] : j \in DOMAIN t} \cup {q[1]}
    <2>1. CASE n = 1
        BY <2>1
    <2>2. CASE n # 1
        <3>1. n - 1 \in DOMAIN t /\ t[n - 1] = q[n]
            BY <1>1, <1>2, <2>2
        <3> QED BY <3>1
    <2> QED BY <2>1, <2>2
<1>5. q[1] \in {q[n] : n \in DOMAIN q}
    BY <1>1
<1>6. {q[n] : n \in DOMAIN q} \subseteq {t[j] : j \in DOMAIN t} \cup {q[1]}
    BY <1>4
<1>7. {t[j] : j \in DOMAIN t} \cup {q[1]} \subseteq {q[n] : n \in DOMAIN q}
    BY <1>3, <1>5
<1> QED BY <1>6, <1>7

(* One socket changes.                                                        *)
LEMMA SocketChanges ==
    ASSUME ChatConstants, Talk!ChatTypeOK, NEW k \in Sockets, NEW r \in Talk!Client, client' = [client EXCEPT ![k] = r],
           client[k] # None, Len(r.queue) <= SendBuffer,
           r.in = client[k].in, r.since = client[k].since,
           HeardBy(r) \subseteq Hears(k),
           r.state = "on" => client[k].state = "on" /\ r.missed = client[k].missed /\ Hears(k) \subseteq HeardBy(r)
    PROVE  SocketsKeep /\ \A j \in Sockets : client[j] # None => Hears(j)' \subseteq Hears(j)
<1>1. /\ client' \in [Sockets -> Talk!Client \cup {None}] /\ client'[k] = r
      /\ \A j \in Sockets \ {k} : client'[j] = client[j]
    BY DEF Talk!ChatTypeOK
<1>2. Hears(k)' = HeardBy(r) /\ \A j \in Sockets \ {k} : Hears(j)' = Hears(j)
    BY <1>1 DEF Hears
<1>3. r # None
    BY DEF ChatConstants
<1>4. \A j \in Sockets \ {k} : client[j] # None => Len(client[j].queue) <= SendBuffer
    BY DEF Talk!ChatTypeOK
<1> QED BY <1>1, <1>2, <1>3, <1>4 DEF SocketsKeep

LEMMA SocketStepsDo ==
    ASSUME ChatConstants, Talk!ChatTypeOK, NEW k \in Sockets,
           Talk!WritePump(k) \/ Talk!WriteFails(k) \/ Talk!Unregister(k)
    PROVE  /\ SocketsKeep /\ \A j \in Sockets : client[j] # None => Hears(j)' \subseteq Hears(j)
           /\ UNCHANGED <<conversation, message, hidden, aged, worker, doubled, chatRaced>>
<1> DEFINE s == client[k]
<1>1. s # None /\ UNCHANGED <<conversation, message, hidden, aged, worker, doubled, chatRaced>>
    BY DEF Talk!WritePump, Talk!WriteFails, Talk!Unregister
<1>2. s \in Talk!Client /\ s.queue \in Seq(Talk!Event) /\ s.told \in SUBSET Talk!Event /\ Len(s.queue) <= SendBuffer
    BY <1>1, SocketTyped
<1>3. client \in [Sockets -> Talk!Client \cup {None}]
    BY DEF Talk!ChatTypeOK
<1>4. Hears(k) = HeardBy(s) /\ <<>> \in Seq(Talk!Event)
    BY DEF Hears
<1>5. Len(s.queue) \in Nat /\ SendBuffer \in Nat
    BY <1>2 DEF ChatConstants
<1>6. CASE Talk!WritePump(k)
    <2>1. PICK q, left, told : q = s.queue /\ left = Tail(q) /\ told = s.told \cup {Head(q)}
        OBVIOUS
    <2> DEFINE r == [s EXCEPT !.queue = left, !.told = told]
    <2>2. s.state = "on" /\ q # <<>> /\ client' = [client EXCEPT ![k] = r]
        BY <1>3, <1>6, <2>1 DEF Talk!WritePump
    <2>3. /\ left \in Seq(Talk!Event) /\ Len(left) = Len(q) - 1 /\ Head(q) \in Talk!Event
          /\ {left[j] : j \in DOMAIN left} \cup {Head(q)} = {q[j] : j \in DOMAIN q}
        <3>1. q \in Seq(Talk!Event) /\ Len(q) > 0
            BY <1>2, <2>1, <2>2, EmptySeq
        <3>2. Head(q) = q[1] /\ q[1] \in Talk!Event
            BY <3>1
        <3>3. left \in Seq(Talk!Event) /\ Len(left) = Len(q) - 1 /\ \A j \in 1..(Len(q) - 1) : left[j] = q[j + 1]
            BY <2>1, <3>1, HeadTailProperties
        <3>4. {left[j] : j \in DOMAIN left} \cup {q[1]} = {q[j] : j \in DOMAIN q}
            <4> HIDE <2>1
            <4> QED BY <3>1, <3>3, TailRange
        <3> QED BY <3>1, <3>2, <3>3, <3>4
    <2>4. Len(left) <= SendBuffer
        BY <1>2, <1>5, <2>1, <2>3
    <2>5. told \in SUBSET Talk!Event
        BY <1>2, <2>1, <2>3
    <2> HIDE DEF s
    <2>6. /\ r \in Talk!Client /\ r.queue = left /\ r.told = told /\ r.in = s.in /\ r.since = s.since
          /\ r.state = s.state /\ r.missed = s.missed
        BY <1>2, <2>3, <2>5 DEF Talk!Client
    <2> HIDE DEF r
    <2>7. HeardBy(r) = s.told \cup ({left[j] : j \in DOMAIN left} \cup {Head(q)})
        BY <2>1, <2>6 DEF HeardBy
    <2>8. HeardBy(r) = HeardBy(s)
        BY <2>1, <2>3, <2>7 DEF HeardBy
    <2> QED BY <1>1, <1>4, <2>2, <2>4, <2>6, <2>8, SocketChanges DEF s
<1>7. CASE Talk!WriteFails(k)
    <2> DEFINE r == [s EXCEPT !.state = "deaf"]
    <2>1. client' = [client EXCEPT ![k] = r]
        BY <1>3, <1>7 DEF Talk!WriteFails
    <2> HIDE DEF s
    <2>2. /\ r \in Talk!Client /\ r.queue = s.queue /\ r.told = s.told /\ r.in = s.in /\ r.since = s.since
          /\ r.state = "deaf"
        BY <1>2 DEF Talk!Client
    <2> HIDE DEF r
    <2>3. HeardBy(r) = HeardBy(s)
        BY <2>2 DEF HeardBy
    <2> QED BY <1>1, <1>2, <1>4, <2>1, <2>2, <2>3, SocketChanges DEF s
<1>8. CASE Talk!Unregister(k)
    <2> DEFINE r == [s EXCEPT !.state = "off", !.queue = <<>>]
    <2>1. client' = [client EXCEPT ![k] = r]
        BY <1>3, <1>8 DEF Talk!Unregister
    <2> HIDE DEF s
    <2>2. /\ r \in Talk!Client /\ r.queue = <<>> /\ r.told = s.told /\ r.in = s.in /\ r.since = s.since
          /\ r.state = "off"
        BY <1>2, <1>4 DEF Talk!Client
    <2>3. Len(r.queue) <= SendBuffer /\ HeardBy(r) \subseteq HeardBy(s)
        BY <1>5, <2>2 DEF HeardBy
    <2> HIDE DEF r
    <2> QED BY <1>1, <1>2, <1>4, <2>1, <2>2, <2>3, SocketChanges DEF s
<1> QED BY <1>1, <1>6, <1>7, <1>8

LEMMA RegisterDoes ==
    ASSUME ChatConstants, Talk!ChatTypeOK, NEW k \in Sockets, NEW u \in Users, NEW c \in Conversations, Talk!Register(k, u, c)
    PROVE  /\ client' \in [Sockets -> Talk!Client \cup {None}]
           /\ client'[k] = [user |-> u, in |-> c, state |-> "on", queue |-> <<>>, told |-> {}, missed |-> FALSE,
                            since |-> {i \in Talk!Ids : message[i] # None}]
           /\ Len(client'[k].queue) <= SendBuffer
           /\ \A j \in Sockets \ {k} : client'[j] = client[j]
           /\ UNCHANGED <<conversation, message, hidden, aged, worker, doubled, chatRaced>>
<1> DEFINE r == [user |-> u, in |-> c, state |-> "on", queue |-> <<>>, told |-> {}, missed |-> FALSE,
                 since |-> {i \in Talk!Ids : message[i] # None}]
<1>1. r \in Talk!Client
    BY DEF Talk!Client
<1>2. client' = [client EXCEPT ![k] = r] /\ UNCHANGED <<conversation, message, hidden, aged, worker, doubled, chatRaced>>
    BY DEF Talk!Register
<1>3. Len(r.queue) <= SendBuffer
    BY DEF ChatConstants
<1> HIDE DEF r
<1>4. /\ client' \in [Sockets -> Talk!Client \cup {None}] /\ client'[k] = r
      /\ \A j \in Sockets \ {k} : client'[j] = client[j]
    BY <1>1, <1>2 DEF Talk!ChatTypeOK
<1> QED BY <1>2, <1>3, <1>4 DEF r

LEMMA ChatCrashDoes ==
    ASSUME ChatConstants, Talk!ChatTypeOK, Talk!Crash
    PROVE  /\ worker' \in [Workers -> ChatTask] /\ \A w \in Workers : worker'[w].step = "idle"
           /\ SocketsKeep /\ \A k \in Sockets : client[k] # None => client'[k].state = "off" /\ Hears(k)' \subseteq Hears(k)
           /\ UNCHANGED <<conversation, message, hidden, aged, doubled, chatRaced>>
<1>1. /\ worker' = [w \in Workers |-> Talk!Idle]
      /\ client' = [k \in Sockets |-> IF client[k] = None THEN None ELSE [client[k] EXCEPT !.state = "off", !.queue = <<>>]]
      /\ UNCHANGED <<conversation, message, hidden, aged, doubled, chatRaced>>
    BY DEF Talk!Crash
<1>2. worker' \in [Workers -> ChatTask] /\ \A w \in Workers : worker'[w].step = "idle"
    BY <1>1 DEF ChatTask, Talk!Idle
<1>3. ASSUME NEW k \in Sockets, client[k] # None
      PROVE  /\ client'[k] \in Talk!Client /\ client'[k] # None /\ Len(client'[k].queue) <= SendBuffer
             /\ client'[k].in = client[k].in /\ client'[k].since = client[k].since /\ client'[k].state = "off"
             /\ Hears(k)' \subseteq Hears(k)
    <2> DEFINE s == client[k]
    <2>1. s \in Talk!Client
        BY <1>3, SocketTyped
    <2>2. client'[k] = [s EXCEPT !.state = "off", !.queue = <<>>]
        BY <1>1, <1>3
    <2> HIDE DEF s
    <2>3. /\ client'[k] \in Talk!Client /\ client'[k].queue = <<>> /\ client'[k].told = s.told
          /\ client'[k].in = s.in /\ client'[k].since = s.since /\ client'[k].state = "off"
        <3>1. <<>> \in Seq(Talk!Event)
            OBVIOUS
        <3> QED BY <2>1, <2>2, <3>1 DEF Talk!Client
    <2>4. Len(client'[k].queue) <= SendBuffer /\ client'[k] # None
        BY <2>3 DEF ChatConstants
    <2>5. Hears(k)' \subseteq Hears(k)
        BY <2>3 DEF Hears, HeardBy, s
    <2> QED BY <2>3, <2>4, <2>5 DEF s
<1>4. \A k \in Sockets : client[k] = None => client'[k] = None
    BY <1>1
<1>5. client' \in [Sockets -> Talk!Client \cup {None}]
    BY <1>1, <1>3, <1>4
<1>6. SocketsKeep
    BY <1>3, <1>4, <1>5 DEF SocketsKeep
<1> QED BY <1>1, <1>2, <1>3, <1>6

LEMMA AgeDoes ==
    ASSUME Talk!ChatTypeOK, Talk!CleanupDeletedMessages \/ \E u \in Users, i \in Talk!Ids : Talk!Age(u, i)
    PROVE  /\ hidden' \subseteq Users \X Talk!Ids /\ aged' \subseteq hidden'
           /\ UNCHANGED <<conversation, message, client, worker, doubled, chatRaced>>
<1>1. CASE Talk!CleanupDeletedMessages
    BY <1>1 DEF Talk!CleanupDeletedMessages, Talk!ChatTypeOK
<1>2. ASSUME NEW u \in Users, NEW i \in Talk!Ids, Talk!Age(u, i)
      PROVE  /\ hidden' \subseteq Users \X Talk!Ids /\ aged' \subseteq hidden'
             /\ UNCHANGED <<conversation, message, client, worker, doubled, chatRaced>>
    BY <1>2 DEF Talk!Age, Talk!ChatTypeOK
<1> QED BY <1>1, <1>2

(* The steps that move no request and write neither a message nor a preview.  *)
ChatQuietStep ==
    \/ \E c \in Conversations : Talk!AcceptRequest(c) \/ Talk!BlockRequest(c) \/ Talk!ArchiveConversation(c)
    \/ \E c \in Conversations, u \in Users : Talk!DeleteConversation(c, u)
    \/ \E c \in Conversations, u \in Users : Talk!MarkAsRead(c, u)
    \/ Talk!CleanupDeletedMessages \/ \E u \in Users, i \in Talk!Ids : Talk!Age(u, i)
    \/ \E k \in Sockets, u \in Users, c \in Conversations : Talk!Register(k, u, c)
    \/ \E k \in Sockets : Talk!ReadPump(k)
    \/ \E k \in Sockets : Talk!WritePump(k) \/ Talk!WriteFails(k) \/ Talk!Unregister(k)
    \/ UNCHANGED Talk!chatVars

LEMMA ChatSteps ==
    ASSUME [Talk!ChatNext]_Talk!chatVars
    PROVE  \/ ChatQuietStep
           \/ \E w \in Workers, u, v \in Users : Talk!StartOpen(w, u, v)
           \/ \E w \in Workers : Talk!LookForDeleted(w)
           \/ \E w \in Workers : Talk!Reopen(w)
           \/ \E w \in Workers, c \in Conversations : Talk!CreateConversation(w, c)
           \/ \E w \in Workers : Talk!AddParticipants(w)
           \/ \E w \in Workers, u \in Users, c \in Conversations : Talk!StartSend(w, u, c)
           \/ \E w \in Workers : Talk!SendMessage(w)
           \/ \E w \in Workers : Talk!TransactionFails(w)
           \/ \E w \in Workers, i \in Talk!Ids, room \in Conversations : Talk!StartUpdate(w, i, room)
           \/ \E w \in Workers : Talk!UpdateMessage(w)
           \/ \E w \in Workers, u \in Users, i \in Talk!Ids, room \in Conversations : Talk!DeleteMessage(w, u, i, room)
           \/ \E w \in Workers : Talk!Tell(w)
           \/ Talk!Crash
BY DEF Talk!ChatNext, Talk!RowStep, Talk!SocketStep, ChatQuietStep

LEMMA SocketsTyped ==
    ASSUME Talk!ChatTypeOK, SocketsKeep
    PROVE  client' \in [Sockets -> Talk!Client \cup {None}] /\ \A k \in Sockets : client'[k] # None => Len(client'[k].queue) <= SendBuffer
BY DEF SocketsKeep

LEMMA QuietStepDoes ==
    ASSUME ChatConstants, Talk!ChatTypeOK, ChatQuietStep
    PROVE  Talk!ChatTypeOK' /\ RoomsKept /\ MessagesKept /\ UNCHANGED <<worker, doubled, chatRaced>>
<1>1. /\ worker \in [Workers -> ChatTask] /\ doubled \subseteq SUBSET Users /\ chatRaced \subseteq Conversations
      /\ hidden \subseteq Users \X Talk!Ids /\ aged \subseteq hidden
    BY DEF Talk!ChatTypeOK, ChatTask
<1>2. (conversation' = conversation => RoomsKept) /\ (message' = message => MessagesKept)
    BY RoomsUnchanged, MessagesUnchanged
<1>3. client' = client => SocketsKeep
    BY SocketsUnchanged
<1>4. ASSUME RoomsKept, MessagesKept, SocketsKeep, hidden' \subseteq Users \X Talk!Ids, aged' \subseteq hidden',
             UNCHANGED <<worker, doubled, chatRaced>>
      PROVE  Talk!ChatTypeOK'
    <2>1. conversation' \in [Conversations -> Talk!Conversation \cup {None}] /\ message' \in [Talk!Ids -> Talk!Message \cup {None}]
        BY <1>4 DEF RoomsKept, MessagesKept
    <2> QED BY <1>1, <1>4, <2>1, SocketsTyped, ChatTypedStep
<1>5. ASSUME NEW c \in Conversations, Talk!AcceptRequest(c) \/ Talk!BlockRequest(c) \/ Talk!ArchiveConversation(c)
      PROVE  Talk!ChatTypeOK' /\ RoomsKept /\ MessagesKept /\ UNCHANGED <<worker, doubled, chatRaced>>
    BY <1>1, <1>3, <1>4, <1>5, StatusDoes
<1>6. ASSUME NEW c \in Conversations, NEW u \in Users, Talk!DeleteConversation(c, u)
      PROVE  Talk!ChatTypeOK' /\ RoomsKept /\ MessagesKept /\ UNCHANGED <<worker, doubled, chatRaced>>
    <2>1. /\ RoomsKept /\ MessagesKept /\ UNCHANGED <<aged, client, worker, doubled, chatRaced>>
          /\ hidden \subseteq hidden' /\ hidden' \subseteq Users \X Talk!Ids
        BY <1>6, DeleteConversationDoes
    <2> QED BY <1>1, <1>3, <1>4, <2>1
<1>7. ASSUME NEW c \in Conversations, NEW u \in Users, Talk!MarkAsRead(c, u)
      PROVE  Talk!ChatTypeOK' /\ RoomsKept /\ MessagesKept /\ UNCHANGED <<worker, doubled, chatRaced>>
    BY <1>1, <1>3, <1>4, <1>7, MarkChatDoes
<1>8. ASSUME Talk!CleanupDeletedMessages \/ \E u \in Users, i \in Talk!Ids : Talk!Age(u, i)
      PROVE  Talk!ChatTypeOK' /\ RoomsKept /\ MessagesKept /\ UNCHANGED <<worker, doubled, chatRaced>>
    <2>1. /\ hidden' \subseteq Users \X Talk!Ids /\ aged' \subseteq hidden'
          /\ UNCHANGED <<conversation, message, client, worker, doubled, chatRaced>>
        BY <1>8, AgeDoes
    <2> QED BY <1>2, <1>3, <1>4, <2>1
<1>9. ASSUME NEW k \in Sockets, NEW u \in Users, NEW c \in Conversations, Talk!Register(k, u, c)
      PROVE  Talk!ChatTypeOK' /\ RoomsKept /\ MessagesKept /\ UNCHANGED <<worker, doubled, chatRaced>>
    <2>1. /\ client' \in [Sockets -> Talk!Client \cup {None}] /\ Len(client'[k].queue) <= SendBuffer
          /\ \A j \in Sockets \ {k} : client'[j] = client[j]
          /\ UNCHANGED <<conversation, message, hidden, aged, worker, doubled, chatRaced>>
        BY <1>9, RegisterDoes
    <2>2. \A j \in Sockets : client'[j] # None => Len(client'[j].queue) <= SendBuffer
        BY <2>1 DEF Talk!ChatTypeOK
    <2>3. conversation' \in [Conversations -> Talk!Conversation \cup {None}] /\ message' \in [Talk!Ids -> Talk!Message \cup {None}]
        BY <2>1 DEF Talk!ChatTypeOK
    <2> QED BY <1>1, <1>2, <2>1, <2>2, <2>3, ChatTypedStep
<1>10. ASSUME NEW k \in Sockets, Talk!ReadPump(k)
       PROVE  Talk!ChatTypeOK' /\ RoomsKept /\ MessagesKept /\ UNCHANGED <<worker, doubled, chatRaced>>
    <2>1. SocketsKeep /\ UNCHANGED <<conversation, message, hidden, aged, worker, doubled, chatRaced>>
        BY <1>10, ReadPumpDoes
    <2> QED BY <1>1, <1>2, <1>4, <2>1
<1>11. ASSUME NEW k \in Sockets, Talk!WritePump(k) \/ Talk!WriteFails(k) \/ Talk!Unregister(k)
       PROVE  Talk!ChatTypeOK' /\ RoomsKept /\ MessagesKept /\ UNCHANGED <<worker, doubled, chatRaced>>
    <2>1. SocketsKeep /\ UNCHANGED <<conversation, message, hidden, aged, worker, doubled, chatRaced>>
        BY <1>11, SocketStepsDo
    <2> QED BY <1>1, <1>2, <1>4, <2>1
<1>12. CASE UNCHANGED Talk!chatVars
    <2>1. UNCHANGED <<conversation, message, hidden, aged, client, worker, doubled, chatRaced>>
        BY <1>12 DEF Talk!chatVars
    <2> QED BY <1>1, <1>2, <1>3, <1>4, <2>1
<1> QED BY <1>5, <1>6, <1>7, <1>8, <1>9, <1>10, <1>11, <1>12 DEF ChatQuietStep

-----------------------------------------------------------------------------
(* One conversation for two users *)

Opens(w) == worker[w].step \in {"look", "reopen", "create", "join"}
Pair(w) == {worker[w].user, worker[w].other}

(* A conversation is of nobody yet, or of two users, one of whom opened it.   *)
PairsOrNone ==
    \A c \in Conversations : conversation[c] # None =>
        \/ conversation[c].between = {}
        \/ \E u, v \in Users : u # v /\ conversation[c].between = {u, v} /\ conversation[c].initiator \in {u, v}

(* A request that reopens a conversation or adds its participants found it or *)
(* made it.                                                                   *)
OpenersFound ==
    /\ \A w \in Workers :
        /\ worker[w].step \in {"reopen", "join"} => conversation[worker[w].in] # None
        /\ worker[w].step = "reopen" => Pair(w) \subseteq conversation[worker[w].in].between
        /\ worker[w].step = "join" => /\ conversation[worker[w].in].initiator = worker[w].user
                                      /\ conversation[worker[w].in].between = {}
    /\ \A w, x \in Workers : w # x /\ worker[w].step = "join" /\ worker[x].step = "join" => worker[w].in # worker[x].in

(* Two requests at once for the same pair are recorded.                       *)
LoneOpeners ==
    \A w, x \in Workers : w # x /\ Opens(w) /\ Opens(x) /\ Pair(x) \subseteq Pair(w) => Pair(w) \in doubled

(* What a request alone with its pair has read is still so.                   *)
OpenersFoundNone ==
    \A w \in Workers : Opens(w) /\ worker[w].user # worker[w].other /\ Pair(w) \notin doubled =>
        /\ worker[w].step = "look" => Talk!LiveOf(worker[w].user, worker[w].other) = {}
        /\ worker[w].step \in {"create", "join"} => Talk!Of(worker[w].user, worker[w].other) = {}

OnePair == \A u, v \in Users : u # v /\ {u, v} \notin doubled => \A c, d \in Talk!Of(u, v) : c = d

OpenersInv == PairsOrNone /\ OpenersFound /\ LoneOpeners /\ OpenersFoundNone /\ OnePair

PairsKept ==
    \A c \in Conversations :
        /\ conversation'[c] = None <=> conversation[c] = None
        /\ conversation[c] # None =>
            /\ conversation'[c].between = conversation[c].between /\ conversation'[c].initiator = conversation[c].initiator
            /\ conversation'[c].live => conversation[c].live

LEMMA RoomsKeepPairs == ASSUME RoomsKept PROVE PairsKept
BY DEF RoomsKept, PairsKept

LEMMA OpenerTyped ==
    ASSUME Talk!ChatTypeOK, NEW w \in Workers
    PROVE  /\ Opens(w) => worker[w].user \in Users /\ worker[w].other \in Users
           /\ worker[w].step \in {"reopen", "join"} => worker[w].in \in Conversations
BY ChatWorkerTyped, ChatTaskTyped DEF Opens

(* Conversations keep their users, and requests only leave.                   *)
LEMMA PairsGoOn ==
    ASSUME ChatConstants, Talk!ChatTypeOK, OpenersInv, PairsKept, doubled' = doubled,
           \A w \in Workers : worker'[w] = worker[w] \/ worker'[w].step \notin {"look", "reopen", "create", "join"}
    PROVE  OpenersInv'
<1>1. \A u, v \in Users : Talk!Of(u, v)' = Talk!Of(u, v) /\ Talk!LiveOf(u, v)' \subseteq Talk!LiveOf(u, v)
    BY DEF Talk!Of, Talk!LiveOf, PairsKept
<1>2. PairsOrNone'
    BY DEF OpenersInv, PairsOrNone, PairsKept
<1>3. \A w \in Workers : Opens(w)' => worker'[w] = worker[w] /\ Opens(w) /\ Pair(w)' = Pair(w)
    BY DEF Opens, Pair
<1>4. OpenersFound'
    <2>1. ASSUME NEW w \in Workers, worker'[w].step \in {"reopen", "join"}
          PROVE  /\ worker'[w] = worker[w] /\ conversation'[worker[w].in] # None
                 /\ worker[w].step = "reopen" => Pair(w) \subseteq conversation'[worker[w].in].between
                 /\ worker[w].step = "join" => /\ conversation'[worker[w].in].initiator = worker[w].user
                                               /\ conversation'[worker[w].in].between = {}
        <3>1. worker'[w] = worker[w]
            BY <2>1
        <3>2. worker[w].in \in Conversations /\ conversation[worker[w].in] # None
            BY <2>1, <3>1, OpenerTyped DEF OpenersInv, OpenersFound
        <3> QED BY <2>1, <3>1, <3>2 DEF PairsKept, OpenersInv, OpenersFound
    <2> QED BY <2>1 DEF OpenersInv, OpenersFound, Pair
<1>5. LoneOpeners'
    <2> SUFFICES ASSUME NEW w \in Workers, NEW x \in Workers, w # x, Opens(w)', Opens(x)', Pair(x)' \subseteq Pair(w)'
                 PROVE  Pair(w)' \in doubled'
        BY DEF LoneOpeners
    <2> QED BY <1>3 DEF OpenersInv, LoneOpeners
<1>6. OpenersFoundNone'
    <2> SUFFICES ASSUME NEW w \in Workers, Opens(w)', worker'[w].user # worker'[w].other, Pair(w)' \notin doubled'
                 PROVE  /\ worker'[w].step = "look" => Talk!LiveOf(worker[w].user, worker[w].other)' = {}
                        /\ worker'[w].step \in {"create", "join"} => Talk!Of(worker[w].user, worker[w].other)' = {}
        BY DEF OpenersFoundNone
    <2>1. worker'[w] = worker[w] /\ Opens(w) /\ Pair(w)' = Pair(w) /\ worker[w].user \in Users /\ worker[w].other \in Users
        BY <1>3, OpenerTyped
    <2>2. /\ worker[w].step = "look" => Talk!LiveOf(worker[w].user, worker[w].other) = {}
          /\ worker[w].step \in {"create", "join"} => Talk!Of(worker[w].user, worker[w].other) = {}
        BY <2>1 DEF OpenersInv, OpenersFoundNone
    <2> QED BY <1>1, <2>1, <2>2
<1>7. OnePair'
    <2> SUFFICES ASSUME NEW u \in Users, NEW v \in Users, u # v, {u, v} \notin doubled'
                 PROVE  \A c, d \in Talk!Of(u, v)' : c = d
        BY DEF OnePair
    <2> QED BY <1>1 DEF OpenersInv, OnePair
<1> QED BY <1>2, <1>4, <1>5, <1>6, <1>7 DEF OpenersInv

LEMMA StartOpenKeeps ==
    ASSUME ChatConstants, Talk!ChatTypeOK, OpenersInv, NEW w \in Workers, NEW u \in Users, NEW v \in Users, Talk!StartOpen(w, u, v)
    PROVE  OpenersInv'
<1>1. /\ Talk!LiveOf(u, v) = {} /\ worker'[w] = [step |-> "look", user |-> u, other |-> v]
      /\ \A x \in Workers \ {w} : worker'[x] = worker[x]
      /\ doubled \subseteq doubled'
      /\ \A x \in Workers : Opens(x) /\ (Pair(x) \subseteq {u, v} \/ {u, v} \subseteq Pair(x)) => Pair(x) \in doubled' /\ {u, v} \in doubled'
      /\ conversation' = conversation
    BY StartOpenDoes DEF Opens, Pair
<1>2. \A a, b \in Users : Talk!Of(a, b)' = Talk!Of(a, b) /\ Talk!LiveOf(a, b)' = Talk!LiveOf(a, b)
    BY <1>1 DEF Talk!Of, Talk!LiveOf
<1>3. PairsOrNone'
    BY <1>1 DEF OpenersInv, PairsOrNone
<1>4. Opens(w)' /\ Pair(w)' = {u, v} /\ \A x \in Workers \ {w} : (Opens(x)' <=> Opens(x)) /\ Pair(x)' = Pair(x)
    BY <1>1 DEF Opens, Pair
<1>5. OpenersFound'
    BY <1>1, <1>4 DEF OpenersInv, OpenersFound
<1>6. LoneOpeners'
    <2> SUFFICES ASSUME NEW x \in Workers, NEW y \in Workers, x # y, Opens(x)', Opens(y)', Pair(y)' \subseteq Pair(x)'
                 PROVE  Pair(x)' \in doubled'
        BY DEF LoneOpeners
    <2>1. CASE x # w /\ y # w
        BY <1>1, <1>4, <2>1 DEF OpenersInv, LoneOpeners
    <2>2. CASE x = w
        BY <1>1, <1>4, <2>2
    <2>3. CASE y = w
        BY <1>1, <1>4, <2>3
    <2> QED BY <2>1, <2>2, <2>3
<1>7. OpenersFoundNone'
    <2> SUFFICES ASSUME NEW x \in Workers, Opens(x)', worker'[x].user # worker'[x].other, Pair(x)' \notin doubled'
                 PROVE  /\ worker'[x].step = "look" => Talk!LiveOf(worker[x].user, worker[x].other)' = {}
                        /\ worker'[x].step \in {"create", "join"} => Talk!Of(worker[x].user, worker[x].other)' = {}
        BY DEF OpenersFoundNone
    <2>1. CASE x = w
        <3>1. worker'[x].step = "look" /\ worker'[x].user = u /\ worker'[x].other = v
            BY <1>1, <2>1
        <3> QED BY <1>1, <1>2, <3>1
    <2>2. CASE x # w
        <3>1. /\ worker'[x] = worker[x] /\ Opens(x) /\ Pair(x) \notin doubled
              /\ worker[x].user \in Users /\ worker[x].other \in Users
            BY <1>1, <1>4, <2>2, OpenerTyped
        <3>2. /\ worker[x].step = "look" => Talk!LiveOf(worker[x].user, worker[x].other) = {}
              /\ worker[x].step \in {"create", "join"} => Talk!Of(worker[x].user, worker[x].other) = {}
            BY <3>1 DEF OpenersInv, OpenersFoundNone
        <3> QED BY <1>2, <3>1, <3>2
    <2> QED BY <2>1, <2>2
<1>8. OnePair'
    <2> SUFFICES ASSUME NEW a \in Users, NEW b \in Users, a # b, {a, b} \notin doubled'
                 PROVE  \A c, d \in Talk!Of(a, b)' : c = d
        BY DEF OnePair
    <2> QED BY <1>1, <1>2 DEF OpenersInv, OnePair
<1> QED BY <1>3, <1>5, <1>6, <1>7, <1>8 DEF OpenersInv

(* A request goes on with the pair it has.                                    *)
LEMMA OpenersGoOn ==
    ASSUME Talk!ChatTypeOK, OpenersInv, NEW w \in Workers, Opens(w), \A x \in Workers \ {w} : worker'[x] = worker[x],
           (worker'[w].user = worker[w].user /\ worker'[w].other = worker[w].other) \/ ~Opens(w)', doubled' = doubled
    PROVE  LoneOpeners' /\ \A x \in Workers : Opens(x)' => Opens(x) /\ Pair(x)' = Pair(x)
<1>1. \A x \in Workers : Opens(x)' => Opens(x) /\ Pair(x)' = Pair(x)
    BY DEF Opens, Pair
<1>2. LoneOpeners'
    <2> SUFFICES ASSUME NEW x \in Workers, NEW y \in Workers, x # y, Opens(x)', Opens(y)', Pair(y)' \subseteq Pair(x)'
                 PROVE  Pair(x)' \in doubled'
        BY DEF LoneOpeners
    <2> QED BY <1>1 DEF OpenersInv, LoneOpeners
<1> QED BY <1>1, <1>2

LEMMA LookKeeps ==
    ASSUME ChatConstants, Talk!ChatTypeOK, OpenersInv, NEW w \in Workers, Talk!LookForDeleted(w)
    PROVE  OpenersInv'
<1> DEFINE u == worker[w].user
           v == worker[w].other
<1>1. /\ worker[w].step = "look"
      /\ worker'[w].user = u /\ worker'[w].other = v
      /\ \/ Talk!Of(u, v) \subseteq Talk!LiveOf(u, v) /\ worker'[w].step = "create"
         \/ worker'[w].step = "reopen" /\ worker'[w].in \in Talk!Of(u, v)
      /\ \A x \in Workers \ {w} : worker'[x] = worker[x]
      /\ UNCHANGED <<conversation, doubled>>
    BY LookForDeletedDoes
<1>2. Opens(w) /\ u \in Users /\ v \in Users
    BY <1>1, OpenerTyped DEF Opens
<1>3. LoneOpeners' /\ \A x \in Workers : Opens(x)' => Opens(x) /\ Pair(x)' = Pair(x)
    BY <1>1, <1>2, OpenersGoOn
<1>4. \A a, b \in Users : Talk!Of(a, b)' = Talk!Of(a, b) /\ Talk!LiveOf(a, b)' = Talk!LiveOf(a, b)
    BY <1>1 DEF Talk!Of, Talk!LiveOf
<1>5. PairsOrNone' /\ OnePair'
    BY <1>1, <1>4 DEF OpenersInv, PairsOrNone, OnePair
<1>6. Pair(w)' = {u, v}
    BY <1>1 DEF Pair
<1>7. OpenersFound'
    <2>1. worker'[w].step = "reopen" => conversation[worker'[w].in] # None /\ {u, v} \subseteq conversation[worker'[w].in].between
        BY <1>1 DEF Talk!Of
    <2>2. worker'[w].step # "join"
        BY <1>1
    <2>3. \A x \in Workers \ {w} : Pair(x)' = Pair(x)
        BY <1>1 DEF Pair
    <2> HIDE DEF u, v
    <2> QED BY <1>1, <1>6, <2>1, <2>2, <2>3 DEF OpenersInv, OpenersFound
<1>8. OpenersFoundNone'
    <2> SUFFICES ASSUME NEW x \in Workers, Opens(x)', worker'[x].user # worker'[x].other, Pair(x)' \notin doubled'
                 PROVE  /\ worker'[x].step = "look" => Talk!LiveOf(worker[x].user, worker[x].other)' = {}
                        /\ worker'[x].step \in {"create", "join"} => Talk!Of(worker[x].user, worker[x].other)' = {}
        BY DEF OpenersFoundNone
    <2>1. CASE x = w
        <3>1. Pair(w) \notin doubled /\ u # v
            BY <1>1, <1>6, <2>1 DEF Pair
        <3>2. Talk!LiveOf(u, v) = {}
            BY <1>1, <1>2, <3>1 DEF OpenersInv, OpenersFoundNone
        <3>3. worker'[x].step # "look" /\ (worker'[x].step \in {"create", "join"} => Talk!Of(u, v) = {})
            BY <1>1, <2>1, <3>2
        <3> QED BY <1>1, <1>2, <1>4, <2>1, <3>3
    <2>2. CASE x # w
        <3>1. /\ worker'[x] = worker[x] /\ Opens(x) /\ Pair(x) \notin doubled
              /\ worker[x].user \in Users /\ worker[x].other \in Users
            BY <1>1, <1>3, <2>2, OpenerTyped
        <3>2. /\ worker[x].step = "look" => Talk!LiveOf(worker[x].user, worker[x].other) = {}
              /\ worker[x].step \in {"create", "join"} => Talk!Of(worker[x].user, worker[x].other) = {}
            BY <3>1 DEF OpenersInv, OpenersFoundNone
        <3> QED BY <1>4, <3>1, <3>2
    <2> QED BY <2>1, <2>2
<1> QED BY <1>3, <1>5, <1>7, <1>8 DEF OpenersInv

(* Two requests alone with their pairs have not the same pair, and a          *)
(* conversation of a pair is not of another.                                  *)
LEMMA PairOnce ==
    ASSUME Talk!ChatTypeOK, OpenersInv, NEW w \in Workers, Opens(w), NEW u \in Users, NEW v \in Users, u # v,
           NEW c \in Conversations, conversation[c] # None, Pair(w) \subseteq conversation[c].between,
           {u, v} \subseteq conversation[c].between
    PROVE  Pair(w) \subseteq {u, v}
<1>1. Pair(w) # {}
    BY DEF Pair
<1>2. PICK a, b \in Users : conversation[c].between = {a, b}
    BY <1>1 DEF OpenersInv, PairsOrNone
<1> QED BY <1>2

LEMMA ReopenKeeps ==
    ASSUME ChatConstants, Talk!ChatTypeOK, OpenersInv, NEW w \in Workers, Talk!Reopen(w)
    PROVE  OpenersInv'
<1> DEFINE c == worker[w].in
           old == conversation[c]
<1>1. conversation[c] # None /\ Pair(w) \subseteq conversation[c].between /\ Opens(w)
    BY DEF Talk!Reopen, OpenersInv, OpenersFound, Opens
<1>2. /\ c \in Conversations /\ worker'[w].step = "idle"
      /\ \A x \in Workers \ {w} : worker'[x] = worker[x]
      /\ conversation'[c] = [old EXCEPT !.live = TRUE, !.status = "accepted"]
      /\ \A d \in Conversations \ {c} : conversation'[d] = conversation[d]
      /\ doubled' = doubled
    BY <1>1, ReopenDoes
<1>3. old \in Talk!Conversation
    BY <1>1, <1>2, ConversationTyped
<1> HIDE DEF old
<1>4. conversation'[c].between = old.between /\ conversation'[c].initiator = old.initiator /\ conversation'[c] \in Talk!Conversation
    BY <1>2, <1>3 DEF Talk!Conversation, Talk!Statuses
<1>5. conversation'[c] # None
    BY <1>4 DEF ChatConstants
<1>6. \A d \in Conversations : /\ conversation'[d] = None <=> conversation[d] = None
                               /\ conversation[d] # None => /\ conversation'[d].between = conversation[d].between
                                                            /\ conversation'[d].initiator = conversation[d].initiator
    BY <1>1, <1>2, <1>4, <1>5 DEF old
<1>7. \A a, b \in Users : Talk!Of(a, b)' = Talk!Of(a, b)
    BY <1>6 DEF Talk!Of
<1>8. \A a, b \in Users : ~({a, b} \subseteq conversation[c].between) => Talk!LiveOf(a, b)' = Talk!LiveOf(a, b)
    BY <1>2, <1>7 DEF Talk!LiveOf, Talk!Of
<1>9. LoneOpeners' /\ \A x \in Workers : Opens(x)' => Opens(x) /\ Pair(x)' = Pair(x)
    <2>1. ~Opens(w)'
        BY <1>2 DEF Opens
    <2> QED BY <1>1, <1>2, <2>1, OpenersGoOn
<1>10. PairsOrNone' /\ OnePair'
    BY <1>2, <1>6, <1>7 DEF OpenersInv, PairsOrNone, OnePair
<1>11. OpenersFound'
    <2>1. ASSUME NEW x \in Workers, worker'[x].step \in {"reopen", "join"}
          PROVE  /\ x # w /\ worker'[x] = worker[x] /\ conversation'[worker[x].in] # None
                 /\ worker[x].step = "reopen" => Pair(x) \subseteq conversation'[worker[x].in].between
                 /\ worker[x].step = "join" => /\ conversation'[worker[x].in].initiator = worker[x].user
                                               /\ conversation'[worker[x].in].between = {}
        <3>1. x # w /\ worker'[x] = worker[x]
            BY <1>2, <2>1
        <3>2. worker[x].in \in Conversations /\ conversation[worker[x].in] # None
            BY <2>1, <3>1, OpenerTyped DEF OpenersInv, OpenersFound
        <3> QED BY <1>6, <2>1, <3>1, <3>2 DEF OpenersInv, OpenersFound
    <2> HIDE DEF c
    <2> QED BY <2>1 DEF OpenersInv, OpenersFound, Pair
<1>12. OpenersFoundNone'
    <2> SUFFICES ASSUME NEW x \in Workers, Opens(x)', worker'[x].user # worker'[x].other, Pair(x)' \notin doubled'
                 PROVE  /\ worker'[x].step = "look" => Talk!LiveOf(worker[x].user, worker[x].other)' = {}
                        /\ worker'[x].step \in {"create", "join"} => Talk!Of(worker[x].user, worker[x].other)' = {}
        BY DEF OpenersFoundNone
    <2>1. x # w /\ worker'[x] = worker[x] /\ Opens(x) /\ Pair(x) \notin doubled
        BY <1>2, <1>9 DEF Opens
    <2>2. worker[x].user \in Users /\ worker[x].other \in Users /\ worker[x].user # worker[x].other
        BY <2>1, OpenerTyped
    <2>3. /\ worker[x].step = "look" => Talk!LiveOf(worker[x].user, worker[x].other) = {}
          /\ worker[x].step \in {"create", "join"} => Talk!Of(worker[x].user, worker[x].other) = {}
        BY <2>1, <2>2 DEF OpenersInv, OpenersFoundNone
    <2>4. ~({worker[x].user, worker[x].other} \subseteq conversation[c].between)
        <3> SUFFICES ASSUME {worker[x].user, worker[x].other} \subseteq conversation[c].between
                     PROVE  FALSE
            OBVIOUS
        <3>1. Pair(w) \subseteq Pair(x)
            BY <1>1, <1>2, <2>2, PairOnce DEF Pair
        <3> QED BY <1>1, <2>1, <3>1 DEF OpenersInv, LoneOpeners
    <2> QED BY <1>7, <1>8, <2>1, <2>2, <2>3, <2>4
<1> QED BY <1>9, <1>10, <1>11, <1>12 DEF OpenersInv

LEMMA CreateConversationKeeps ==
    ASSUME ChatConstants, Talk!ChatTypeOK, OpenersInv, NEW w \in Workers, NEW c \in Conversations, Talk!CreateConversation(w, c)
    PROVE  OpenersInv'
<1> DEFINE u == worker[w].user
           v == worker[w].other
<1>1. /\ worker[w].step = "create" /\ conversation[c] = None
      /\ worker'[w] = [step |-> "join", user |-> u, other |-> v, in |-> c]
      /\ \A x \in Workers \ {w} : worker'[x] = worker[x]
      /\ conversation'[c] \in Talk!Conversation
      /\ conversation'[c] = [between |-> {}, status |-> "pending", initiator |-> u, live |-> TRUE, last |-> None, edited |-> FALSE]
      /\ \A d \in Conversations \ {c} : conversation'[d] = conversation[d]
      /\ doubled' = doubled
    BY CreateConversationDoes
<1>2. Opens(w) /\ u \in Users /\ v \in Users
    BY <1>1, OpenerTyped DEF Opens
<1>3. worker'[w].step = "join" /\ worker'[w].user = u /\ worker'[w].other = v /\ worker'[w].in = c
    BY <1>1
<1>4. conversation'[c] # None /\ conversation'[c].between = {} /\ conversation'[c].initiator = u
    <2>1. conversation'[c] \in Talk!Conversation
        BY <1>1
    <2>2. conversation'[c] # None
        BY <2>1 DEF ChatConstants
    <2>3. conversation'[c].between = {} /\ conversation'[c].initiator = u
        BY <1>1
    <2> QED BY <2>2, <2>3
<1> HIDE DEF u, v
<1>5. \A a, b \in Users : Talk!Of(a, b)' = Talk!Of(a, b) /\ Talk!LiveOf(a, b)' = Talk!LiveOf(a, b)
    BY <1>1, <1>4 DEF Talk!Of, Talk!LiveOf
<1>6. LoneOpeners' /\ \A x \in Workers : Opens(x)' => Opens(x) /\ Pair(x)' = Pair(x)
    BY <1>1, <1>2, <1>3, OpenersGoOn DEF u, v
<1>7. PairsOrNone' /\ OnePair'
    BY <1>1, <1>4, <1>5 DEF OpenersInv, PairsOrNone, OnePair
<1>8. OpenersFound'
    <2>1. ASSUME NEW x \in Workers, x # w, worker'[x].step \in {"reopen", "join"}
          PROVE  /\ worker'[x] = worker[x] /\ worker[x].in \in Conversations \ {c}
                 /\ conversation'[worker[x].in] = conversation[worker[x].in]
        <3>1. worker'[x] = worker[x]
            BY <1>1, <2>1
        <3>2. worker[x].in \in Conversations /\ conversation[worker[x].in] # None
            BY <2>1, <3>1, OpenerTyped DEF OpenersInv, OpenersFound
        <3> QED BY <1>1, <3>1, <3>2
    <2>2. \A x \in Workers : Pair(x)' = IF x = w THEN {u, v} ELSE Pair(x)
        BY <1>1, <1>3 DEF Pair
    <2>3. ASSUME NEW x \in Workers
          PROVE  /\ worker'[x].step \in {"reopen", "join"} => conversation'[worker'[x].in] # None
                 /\ worker'[x].step = "reopen" => Pair(x)' \subseteq conversation'[worker'[x].in].between
                 /\ worker'[x].step = "join" => /\ conversation'[worker'[x].in].initiator = worker'[x].user
                                                /\ conversation'[worker'[x].in].between = {}
        <3>1. CASE x = w
            BY <1>3, <1>4, <3>1
        <3>2. CASE x # w
            BY <2>1, <2>2, <3>2 DEF OpenersInv, OpenersFound
        <3> QED BY <3>1, <3>2
    <2>4. ASSUME NEW x \in Workers, NEW y \in Workers, x # y, worker'[x].step = "join", worker'[y].step = "join"
          PROVE  worker'[x].in # worker'[y].in
        <3>1. CASE x # w /\ y # w
            BY <2>1, <2>4, <3>1 DEF OpenersInv, OpenersFound
        <3>2. CASE x = w
            BY <1>3, <2>1, <2>4, <3>2
        <3>3. CASE y = w
            BY <1>3, <2>1, <2>4, <3>3
        <3> QED BY <3>1, <3>2, <3>3
    <2> QED BY <2>3, <2>4 DEF OpenersFound
<1>9. OpenersFoundNone'
    <2> SUFFICES ASSUME NEW x \in Workers, Opens(x)', worker'[x].user # worker'[x].other, Pair(x)' \notin doubled'
                 PROVE  /\ worker'[x].step = "look" => Talk!LiveOf(worker[x].user, worker[x].other)' = {}
                        /\ worker'[x].step \in {"create", "join"} => Talk!Of(worker[x].user, worker[x].other)' = {}
        BY DEF OpenersFoundNone
    <2>1. Opens(x) /\ Pair(x) \notin doubled /\ worker[x].user \in Users /\ worker[x].other \in Users
        BY <1>1, <1>6, OpenerTyped
    <2>2. worker'[x].user = worker[x].user /\ worker'[x].other = worker[x].other
        BY <1>1, <1>3 DEF u, v
    <2>3. /\ worker[x].step = "look" => Talk!LiveOf(worker[x].user, worker[x].other) = {}
          /\ worker[x].step \in {"create", "join"} => Talk!Of(worker[x].user, worker[x].other) = {}
        BY <2>1, <2>2 DEF OpenersInv, OpenersFoundNone
    <2>4. CASE x = w
        BY <1>1, <1>3, <1>5, <2>1, <2>2, <2>3, <2>4
    <2>5. CASE x # w
        BY <1>1, <1>5, <2>1, <2>2, <2>3, <2>5
    <2> QED BY <2>4, <2>5
<1> QED BY <1>6, <1>7, <1>8, <1>9 DEF OpenersInv

LEMMA AddParticipantsKeeps ==
    ASSUME ChatConstants, Talk!ChatTypeOK, OpenersInv, NEW w \in Workers, Talk!AddParticipants(w)
    PROVE  OpenersInv'
<1> DEFINE u == worker[w].user
           v == worker[w].other
           c == worker[w].in
           old == conversation[c]
<1>1. conversation[c] # None /\ Opens(w) /\ conversation[c].between = {} /\ conversation[c].initiator = u
    BY DEF Talk!AddParticipants, OpenersInv, OpenersFound, Opens
<1>2. /\ worker[w].step = "join" /\ c \in Conversations /\ worker'[w].step = "idle"
      /\ \A x \in Workers \ {w} : worker'[x] = worker[x]
      /\ \/ u # v /\ conversation'[c] = [old EXCEPT !.between = {u, v}]
         \/ conversation'[c] = old
      /\ \A d \in Conversations \ {c} : conversation'[d] = conversation[d]
      /\ doubled' = doubled
    BY <1>1, AddParticipantsDoes
<1>3. u \in Users /\ v \in Users /\ Pair(w) = {u, v}
    BY <1>1, OpenerTyped DEF Pair
<1>4. CASE conversation'[c] = old
    <2>1. PairsKept
        BY <1>2, <1>4 DEF PairsKept
    <2>2. \A x \in Workers : worker'[x] = worker[x] \/ worker'[x].step \notin {"look", "reopen", "create", "join"}
        BY <1>2
    <2> QED BY <1>2, <2>1, <2>2, PairsGoOn
<1>5. CASE u # v /\ conversation'[c] = [old EXCEPT !.between = {u, v}]
    <2>1. old \in Talk!Conversation
        BY <1>1, <1>2, ConversationTyped
    <2> HIDE DEF old
    <2>2. conversation'[c] \in Talk!Conversation /\ conversation'[c].between = {u, v} /\ conversation'[c].initiator = old.initiator
        BY <1>3, <1>5, <2>1 DEF Talk!Conversation
    <2>3. conversation'[c] # None
        BY <2>2 DEF ChatConstants
    <2>4. conversation'[c].initiator = u
        BY <1>1, <2>2 DEF old
    <2> HIDE DEF u, v
    <2>5. \A a, b \in Users : a # b /\ {a, b} # {u, v} => Talk!Of(a, b)' = Talk!Of(a, b) /\ Talk!LiveOf(a, b)' = Talk!LiveOf(a, b)
        <3>1. \A a, b \in Users : a # b /\ {a, b} \subseteq {u, v} => {a, b} = {u, v}
            BY <1>5
        <3>2. \A a, b \in Users : ~({a, b} \subseteq conversation[c].between)
            BY <1>1
        <3>3. \A a, b \in Users : a # b /\ {a, b} # {u, v} => c \notin Talk!Of(a, b) /\ c \notin Talk!Of(a, b)'
            BY <2>2, <3>1, <3>2 DEF Talk!Of
        <3>4. \A a, b \in Users, d \in Conversations \ {c} :
                 /\ d \in Talk!Of(a, b) <=> d \in Talk!Of(a, b)'
                 /\ d \in Talk!LiveOf(a, b) <=> d \in Talk!LiveOf(a, b)'
            BY <1>2 DEF Talk!Of, Talk!LiveOf
        <3>5. \A a, b \in Users : /\ Talk!Of(a, b) \subseteq Conversations /\ Talk!Of(a, b)' \subseteq Conversations
                                  /\ Talk!LiveOf(a, b) \subseteq Talk!Of(a, b) /\ Talk!LiveOf(a, b)' \subseteq Talk!Of(a, b)'
            BY DEF Talk!Of, Talk!LiveOf
        <3> SUFFICES ASSUME NEW a \in Users, NEW b \in Users, a # b, {a, b} # {u, v}
                     PROVE  Talk!Of(a, b)' = Talk!Of(a, b) /\ Talk!LiveOf(a, b)' = Talk!LiveOf(a, b)
            OBVIOUS
        <3>6. Talk!Of(a, b) \subseteq Conversations \ {c} /\ Talk!Of(a, b)' \subseteq Conversations \ {c}
            BY <3>3, <3>5
        <3>7. Talk!Of(a, b)' = Talk!Of(a, b)
            BY <3>4, <3>6
        <3>8. Talk!LiveOf(a, b) \subseteq Conversations \ {c} /\ Talk!LiveOf(a, b)' \subseteq Conversations \ {c}
            BY <3>5, <3>6
        <3>9. Talk!LiveOf(a, b)' = Talk!LiveOf(a, b)
            BY <3>4, <3>8
        <3> QED BY <3>7, <3>9
    <2>6. {u, v} \notin doubled => Talk!Of(u, v) = {}
        BY <1>1, <1>2, <1>3, <1>5 DEF OpenersInv, OpenersFoundNone, u, v
    <2>7. \A a, b \in Users : Talk!Of(a, b)' \subseteq Talk!Of(a, b) \cup {c}
        BY <1>2 DEF Talk!Of
    <2>8. ~Opens(w)'
        BY <1>2 DEF Opens
    <2>9. LoneOpeners' /\ \A x \in Workers : Opens(x)' => Opens(x) /\ Pair(x)' = Pair(x)
        BY <1>1, <1>2, <2>8, OpenersGoOn
    <2>10. PairsOrNone'
        <3> SUFFICES ASSUME NEW d \in Conversations, conversation'[d] # None
                     PROVE  \/ conversation'[d].between = {}
                            \/ \E a, b \in Users : a # b /\ conversation'[d].between = {a, b} /\ conversation'[d].initiator \in {a, b}
            BY DEF PairsOrNone
        <3>1. CASE d = c
            <4>1. u # v /\ conversation'[c].between = {u, v} /\ conversation'[c].initiator \in {u, v}
                BY <1>5, <2>2, <2>4
            <4> HIDE DEF c
            <4> QED BY <1>3, <3>1, <4>1
        <3>2. CASE d # c
            BY <1>2, <3>2 DEF OpenersInv, PairsOrNone
        <3> QED BY <3>1, <3>2
    <2>11. OnePair'
        <3> SUFFICES ASSUME NEW a \in Users, NEW b \in Users, a # b, {a, b} \notin doubled
                     PROVE  \A d, e \in Talk!Of(a, b)' : d = e
            BY <1>2 DEF OnePair
        <3>1. CASE {a, b} = {u, v}
            <4>1. Talk!Of(a, b) = Talk!Of(u, v)
                BY <3>1 DEF Talk!Of
            <4> QED BY <2>6, <2>7, <3>1, <4>1
        <3>2. CASE {a, b} # {u, v}
            BY <2>5, <3>2 DEF OpenersInv, OnePair
        <3> QED BY <3>1, <3>2
    <2>12. OpenersFound'
        <3>1. ASSUME NEW x \in Workers, worker'[x].step \in {"reopen", "join"}
              PROVE  /\ x # w /\ worker'[x] = worker[x] /\ worker[x].in \in Conversations \ {c}
                     /\ conversation'[worker[x].in] = conversation[worker[x].in]
            <4>1. x # w /\ worker'[x] = worker[x]
                BY <1>2, <3>1
            <4>2. worker[x].in \in Conversations
                BY <3>1, <4>1, OpenerTyped
            <4>3. worker[x].step = "join" => worker[x].in # c
                BY <1>2, <4>1 DEF OpenersInv, OpenersFound
            <4>4. worker[x].step = "reopen" => worker[x].in # c
                <5>1. Pair(x) # {}
                    BY DEF Pair
                <5> QED BY <1>1, <5>1 DEF OpenersInv, OpenersFound
            <4> QED BY <1>2, <3>1, <4>1, <4>2, <4>3, <4>4
        <3>2. \A x \in Workers \ {w} : Pair(x)' = Pair(x)
            BY <1>2 DEF Pair
        <3> HIDE DEF c
        <3> QED BY <3>1, <3>2 DEF OpenersInv, OpenersFound
    <2>13. OpenersFoundNone'
        <3> SUFFICES ASSUME NEW x \in Workers, Opens(x)', worker'[x].user # worker'[x].other, Pair(x)' \notin doubled'
                     PROVE  /\ worker'[x].step = "look" => Talk!LiveOf(worker[x].user, worker[x].other)' = {}
                            /\ worker'[x].step \in {"create", "join"} => Talk!Of(worker[x].user, worker[x].other)' = {}
            BY DEF OpenersFoundNone
        <3>1. /\ x # w /\ worker'[x] = worker[x] /\ Opens(x) /\ Pair(x) \notin doubled
              /\ worker[x].user \in Users /\ worker[x].other \in Users /\ worker[x].user # worker[x].other
            BY <1>2, <2>8, <2>9, OpenerTyped
        <3>2. /\ worker[x].step = "look" => Talk!LiveOf(worker[x].user, worker[x].other) = {}
              /\ worker[x].step \in {"create", "join"} => Talk!Of(worker[x].user, worker[x].other) = {}
            BY <3>1 DEF OpenersInv, OpenersFoundNone
        <3>3. {worker[x].user, worker[x].other} # {u, v}
            <4>1. Pair(x) # Pair(w)
                BY <1>1, <3>1 DEF OpenersInv, LoneOpeners
            <4> QED BY <1>3, <4>1 DEF Pair
        <3> QED BY <2>5, <3>1, <3>2, <3>3
    <2> QED BY <2>9, <2>10, <2>11, <2>12, <2>13 DEF OpenersInv
<1> QED BY <1>2, <1>4, <1>5

-----------------------------------------------------------------------------
(* The preview of a conversation *)

Writes(w) == worker[w].step \in {"send", "edit"}

(* A message about to be sent has a number of its own.                        *)
SendsAreNew ==
    /\ \A w \in Workers : worker[w].step = "send" => message[worker[w].message] = None
    /\ \A w, x \in Workers : w # x /\ worker[w].step = "send" /\ worker[x].step = "send" => worker[w].message # worker[x].message

(* Two writes at once of one conversation are recorded.                       *)
WritersAlone ==
    /\ \A w \in Workers : Writes(w) => conversation[worker[w].in] # None
    /\ \A w, x \in Workers : w # x /\ Writes(w) /\ Writes(x) /\ worker[w].in = worker[x].in => worker[w].in \in chatRaced

(* What a write alone with its conversation has read is still so.             *)
WritersRead ==
    \A w \in Workers :
        /\ worker[w].step = "send" /\ worker[w].in \notin chatRaced => \A j \in Talk!MessagesOf(worker[w].in) : j < worker[w].message
        /\ worker[w].step = "edit" => /\ worker[w].message \in Talk!MessagesOf(worker[w].in)
                                      /\ worker[w].in \notin chatRaced => worker[w].newest = Talk!NewestOf(Talk!MessagesOf(worker[w].in))

MessagesHaveRooms == \A i \in Talk!Ids : message[i] # None => conversation[message[i].in] # None

PreviewHolds ==
    \A c \in Conversations \ chatRaced :
        conversation[c] # None /\ Talk!MessagesOf(c) # {} =>
            LET i == Talk!NewestOf(Talk!MessagesOf(c))
            IN  conversation[c].last = i /\ conversation[c].edited = message[i].edited

WritersInv == SendsAreNew /\ WritersAlone /\ WritersRead /\ MessagesHaveRooms /\ PreviewHolds

LEMMA WriterTyped ==
    ASSUME Talk!ChatTypeOK, NEW w \in Workers, Writes(w)
    PROVE  worker[w].in \in Conversations /\ worker[w].message \in Talk!Ids
BY ChatWorkerTyped, ChatTaskTyped DEF Writes

LEMMA MessagesOfTyped == \A c : Talk!MessagesOf(c) \in SUBSET Talk!Ids /\ Talk!MessagesOf(c)' \in SUBSET Talk!Ids
BY DEF Talk!MessagesOf

LEMMA MessagesOfKept ==
    ASSUME \A i \in Talk!Ids : /\ message'[i] = None <=> message[i] = None
                               /\ message[i] # None => message'[i].in = message[i].in,
           NEW c
    PROVE  Talk!MessagesOf(c)' = Talk!MessagesOf(c)
BY DEF Talk!MessagesOf

LEMMA PreviewIs ==
    ASSUME ChatConstants, WritersInv, NEW c \in Conversations, c \notin chatRaced, Talk!MessagesOf(c) # {}
    PROVE  /\ conversation[c] # None /\ conversation[c].last = Talk!NewestOf(Talk!MessagesOf(c))
           /\ conversation[c].edited = message[Talk!NewestOf(Talk!MessagesOf(c))].edited
           /\ Talk!NewestOf(Talk!MessagesOf(c)) \in Talk!MessagesOf(c)
<1>1. conversation[c] # None
    BY DEF WritersInv, MessagesHaveRooms, Talk!MessagesOf
<1>2. Talk!NewestOf(Talk!MessagesOf(c)) \in Talk!MessagesOf(c)
    BY MessagesOfTyped, NewestThere
<1> QED BY <1>1, <1>2 DEF WritersInv, PreviewHolds

(* Messages and previews are kept, and writes only leave.                     *)
LEMMA WritersGoOn ==
    ASSUME ChatConstants, Talk!ChatTypeOK, WritersInv, MessagesKept, chatRaced \subseteq chatRaced',
           \A c \in Conversations : conversation[c] # None =>
                /\ conversation'[c] # None
                /\ conversation'[c].last = conversation[c].last /\ conversation'[c].edited = conversation[c].edited,
           \A w \in Workers : worker'[w] = worker[w] \/ worker'[w].step \notin {"send", "edit"}
    PROVE  WritersInv'
<1>1. \A c : Talk!MessagesOf(c)' = Talk!MessagesOf(c)
    BY MessagesOfKept DEF MessagesKept
<1>2. \A w \in Workers : Writes(w)' => worker'[w] = worker[w] /\ Writes(w) /\ worker[w].in \in Conversations /\ worker[w].message \in Talk!Ids
    BY WriterTyped DEF Writes
<1>3. SendsAreNew'
    BY <1>2 DEF WritersInv, SendsAreNew, Writes, MessagesKept
<1>4. WritersAlone'
    <2>1. \A w \in Workers : Writes(w)' => conversation'[worker'[w].in] # None
        BY <1>2 DEF WritersInv, WritersAlone
    <2>2. \A w, x \in Workers : w # x /\ Writes(w)' /\ Writes(x)' /\ worker'[w].in = worker'[x].in => worker'[w].in \in chatRaced'
        BY <1>2 DEF WritersInv, WritersAlone
    <2> QED BY <2>1, <2>2 DEF WritersAlone
<1>5. WritersRead'
    <2> SUFFICES ASSUME NEW w \in Workers, Writes(w)'
                 PROVE  /\ worker'[w].step = "send" /\ worker'[w].in \notin chatRaced' => \A j \in Talk!MessagesOf(worker[w].in)' : j < worker'[w].message
                        /\ worker'[w].step = "edit" =>
                            /\ worker'[w].message \in Talk!MessagesOf(worker[w].in)'
                            /\ worker'[w].in \notin chatRaced' => worker'[w].newest = Talk!NewestOf(Talk!MessagesOf(worker[w].in))'
        BY DEF WritersRead, Writes
    <2>1. worker'[w] = worker[w]
        BY <1>2
    <2>2. Talk!MessagesOf(worker[w].in)' = Talk!MessagesOf(worker[w].in)
        BY <1>1, <2>1
    <2>3. Talk!NewestOf(Talk!MessagesOf(worker[w].in))' = Talk!NewestOf(Talk!MessagesOf(worker[w].in))
        BY <2>2 DEF Talk!NewestOf
    <2> QED BY <2>1, <2>2, <2>3 DEF WritersInv, WritersRead
<1>6. MessagesHaveRooms'
    <2> SUFFICES ASSUME NEW i \in Talk!Ids, message'[i] # None
                 PROVE  conversation'[message'[i].in] # None
        BY DEF MessagesHaveRooms
    <2>1. message[i] # None /\ message'[i].in = message[i].in
        BY DEF MessagesKept
    <2> QED BY <2>1, MessageTyped DEF WritersInv, MessagesHaveRooms
<1>7. PreviewHolds'
    <2> SUFFICES ASSUME NEW c \in Conversations, c \notin chatRaced', Talk!MessagesOf(c)' # {}
                 PROVE  /\ conversation'[c].last = Talk!NewestOf(Talk!MessagesOf(c))'
                        /\ conversation'[c].edited = message'[Talk!NewestOf(Talk!MessagesOf(c))'].edited
        BY DEF PreviewHolds
    <2>1. Talk!MessagesOf(c)' = Talk!MessagesOf(c)
        BY <1>1
    <2>2. Talk!NewestOf(Talk!MessagesOf(c))' = Talk!NewestOf(Talk!MessagesOf(c))
        BY <2>1 DEF Talk!NewestOf
    <2>3. /\ conversation[c] # None /\ conversation[c].last = Talk!NewestOf(Talk!MessagesOf(c))
          /\ conversation[c].edited = message[Talk!NewestOf(Talk!MessagesOf(c))].edited
          /\ Talk!NewestOf(Talk!MessagesOf(c)) \in Talk!MessagesOf(c)
        BY <2>1, PreviewIs
    <2>4. Talk!NewestOf(Talk!MessagesOf(c)) \in Talk!Ids /\ message[Talk!NewestOf(Talk!MessagesOf(c))] # None
        BY <2>3 DEF Talk!MessagesOf
    <2> QED BY <2>2, <2>3, <2>4 DEF MessagesKept
<1> QED BY <1>3, <1>4, <1>5, <1>6, <1>7 DEF WritersInv

LEMMA StartSendKeeps ==
    ASSUME ChatConstants, Talk!ChatTypeOK, WritersInv, NEW w \in Workers, NEW u \in Users, NEW c \in Conversations, Talk!StartSend(w, u, c)
    PROVE  WritersInv'
<1>1. /\ worker[w] = Talk!Idle /\ conversation[c] # None
      /\ worker'[w].step = "send" /\ worker'[w].in = c
      /\ worker'[w].message \in Talk!Ids /\ \A j \in Talk!Stamped : j < worker'[w].message
      /\ \A x \in Workers \ {w} : worker'[x] = worker[x]
      /\ chatRaced \subseteq chatRaced' /\ (Talk!Writers(c) # {} => c \in chatRaced')
      /\ UNCHANGED <<conversation, message>>
    BY StartSendDoes
<1>2. \A d : Talk!MessagesOf(d)' = Talk!MessagesOf(d) /\ Talk!NewestOf(Talk!MessagesOf(d))' = Talk!NewestOf(Talk!MessagesOf(d))
    BY <1>1 DEF Talk!MessagesOf, Talk!NewestOf
<1>3. worker'[w].message \notin Talk!Stamped
    BY <1>1 DEF Talk!Ids, ChatConstants
<1>4. \A x \in Workers \ {w} : (Writes(x)' <=> Writes(x)) /\ (Writes(x) => worker[x].in \in Conversations /\ worker[x].message \in Talk!Ids)
    BY <1>1, WriterTyped DEF Writes
<1>5. SendsAreNew'
    <2>1. message[worker'[w].message] = None
        BY <1>1, <1>3 DEF Talk!Stamped
    <2>2. \A x \in Workers \ {w} : worker[x].step = "send" => worker[x].message # worker'[w].message
        BY <1>1, <1>3, <1>4 DEF Talk!Stamped, Writes
    <2>3. \A x \in Workers : worker'[x].step = "send" => message'[worker'[x].message] = None
        BY <1>1, <2>1 DEF WritersInv, SendsAreNew
    <2>4. ASSUME NEW x \in Workers, NEW y \in Workers, x # y, worker'[x].step = "send", worker'[y].step = "send"
          PROVE  worker'[x].message # worker'[y].message
        <3>1. CASE x # w /\ y # w
            BY <1>1, <2>4, <3>1 DEF WritersInv, SendsAreNew
        <3>2. CASE x = w
            BY <1>1, <2>2, <2>4, <3>2
        <3>3. CASE y = w
            BY <1>1, <2>2, <2>4, <3>3
        <3> QED BY <3>1, <3>2, <3>3
    <2> QED BY <2>3, <2>4 DEF SendsAreNew
<1>6. WritersAlone'
    <2>1. \A x \in Workers : Writes(x)' => conversation'[worker'[x].in] # None
        BY <1>1, <1>4 DEF WritersInv, WritersAlone
    <2>2. \A x \in Workers \ {w} : Writes(x) /\ worker[x].in = c => c \in chatRaced'
        BY <1>1 DEF Talk!Writers, Writes
    <2>3. ASSUME NEW x \in Workers, NEW y \in Workers, x # y, Writes(x)', Writes(y)', worker'[x].in = worker'[y].in
          PROVE  worker'[x].in \in chatRaced'
        <3>1. CASE x # w /\ y # w
            BY <1>1, <1>4, <2>3, <3>1 DEF WritersInv, WritersAlone
        <3>2. CASE x = w
            BY <1>1, <1>4, <2>2, <2>3, <3>2
        <3>3. CASE y = w
            BY <1>1, <1>4, <2>2, <2>3, <3>3
        <3> QED BY <3>1, <3>2, <3>3
    <2> QED BY <2>1, <2>3 DEF WritersAlone
<1>7. WritersRead'
    <2> SUFFICES ASSUME NEW x \in Workers, Writes(x)'
                 PROVE  /\ worker'[x].step = "send" /\ worker'[x].in \notin chatRaced' => \A j \in Talk!MessagesOf(worker[x].in)' : j < worker'[x].message
                        /\ worker'[x].step = "edit" =>
                            /\ worker'[x].message \in Talk!MessagesOf(worker[x].in)'
                            /\ worker'[x].in \notin chatRaced' => worker'[x].newest = Talk!NewestOf(Talk!MessagesOf(worker[x].in))'
        BY DEF WritersRead, Writes
    <2>1. CASE x = w
        <3>1. Talk!MessagesOf(worker[x].in)' \subseteq Talk!Stamped
            BY <1>1 DEF Talk!MessagesOf, Talk!Stamped
        <3> QED BY <1>1, <2>1, <3>1
    <2>2. CASE x # w
        <3>1. worker'[x] = worker[x]
            BY <1>1, <2>2
        <3>2. /\ Talk!MessagesOf(worker[x].in)' = Talk!MessagesOf(worker[x].in)
              /\ Talk!NewestOf(Talk!MessagesOf(worker[x].in))' = Talk!NewestOf(Talk!MessagesOf(worker[x].in))
            BY <1>2, <3>1
        <3> QED BY <1>1, <3>1, <3>2 DEF WritersInv, WritersRead
    <2> QED BY <2>1, <2>2
<1>8. MessagesHaveRooms'
    BY <1>1 DEF WritersInv, MessagesHaveRooms
<1>9. PreviewHolds'
    BY <1>1, <1>2 DEF WritersInv, PreviewHolds
<1> QED BY <1>5, <1>6, <1>7, <1>8, <1>9 DEF WritersInv

LEMMA SendMessageKeeps ==
    ASSUME ChatConstants, Talk!ChatTypeOK, WritersInv, NEW w \in Workers, Talk!SendMessage(w)
    PROVE  WritersInv'
<1>0. PICK c, i : c = worker[w].in /\ i = worker[w].message
    OBVIOUS
<1> DEFINE old == conversation[c]
<1>1. Writes(w) /\ worker[w].step = "send"
    BY DEF Talk!SendMessage, Writes
<1>2. conversation[c] # None /\ message[i] = None
    BY <1>0, <1>1 DEF WritersInv, WritersAlone, SendsAreNew
<1>3. /\ c \in Conversations /\ i \in Talk!Ids
      /\ message'[i] # None /\ message'[i].in = c /\ message'[i].edited = FALSE
      /\ \A j \in Talk!Ids \ {i} : message'[j] = message[j]
      /\ worker'[w] = [step |-> "tell", in |-> c, event |-> [kind |-> "new", message |-> i]]
      /\ \A x \in Workers \ {w} : worker'[x] = worker[x]
      /\ \A d \in Conversations \ {c} : conversation'[d] = conversation[d]
      /\ \/ conversation'[c] = [old EXCEPT !.last = i, !.edited = FALSE] /\ chatRaced' = chatRaced
         \/ conversation'[c] = old /\ chatRaced' = chatRaced \cup {c}
    BY <1>0, <1>2, SendMessageDoes
<1>4. ~Writes(w)' /\ chatRaced \subseteq chatRaced'
    BY <1>3 DEF Writes
<1>5. conversation'[c] # None /\ (c \notin chatRaced' => conversation'[c].last = i /\ conversation'[c].edited = FALSE)
    <2>1. old \in Talk!Conversation
        BY <1>2, <1>3, ConversationTyped
    <2>2. CASE conversation'[c] = old /\ chatRaced' = chatRaced \cup {c}
        BY <1>2, <2>2
    <2>3. CASE conversation'[c] = [old EXCEPT !.last = i, !.edited = FALSE] /\ chatRaced' = chatRaced
        <3>0. i \in Talk!Ids
            BY <1>3
        <3> HIDE DEF old
        <3>1. conversation'[c] \in Talk!Conversation /\ conversation'[c].last = i /\ conversation'[c].edited = FALSE
            BY <3>0, <2>1, <2>3 DEF Talk!Conversation
        <3>2. conversation'[c] # None
            BY <3>1 DEF ChatConstants
        <3> QED BY <3>1, <3>2
    <2> QED BY <1>3, <2>2, <2>3
<1> HIDE DEF old
<1>6. Talk!MessagesOf(c)' = Talk!MessagesOf(c) \cup {i} /\ \A d : d # c => Talk!MessagesOf(d)' = Talk!MessagesOf(d)
    BY <1>2, <1>3 DEF Talk!MessagesOf
<1>7. \A d : d # c => Talk!NewestOf(Talk!MessagesOf(d))' = Talk!NewestOf(Talk!MessagesOf(d))
    BY <1>6 DEF Talk!NewestOf
<1>8. \A x \in Workers : Writes(x)' => x # w /\ worker'[x] = worker[x] /\ Writes(x) /\ worker[x].in \in Conversations /\ worker[x].message \in Talk!Ids
    BY <1>3, <1>4, WriterTyped DEF Writes
<1>9. SendsAreNew'
    <2>1. \A x \in Workers \ {w} : worker[x].step = "send" => worker[x].message # i /\ worker[x].message \in Talk!Ids
        BY <1>0, <1>1, WriterTyped DEF WritersInv, SendsAreNew, Writes
    <2>2. \A x \in Workers : worker'[x].step = "send" => x # w /\ worker'[x] = worker[x]
        BY <1>8 DEF Writes
    <2> QED BY <1>3, <2>1, <2>2 DEF WritersInv, SendsAreNew
<1>10. WritersAlone'
    <2>1. \A x \in Workers : Writes(x)' => conversation'[worker'[x].in] # None
        BY <1>3, <1>5, <1>8 DEF WritersInv, WritersAlone
    <2>2. \A x, y \in Workers : x # y /\ Writes(x)' /\ Writes(y)' /\ worker'[x].in = worker'[y].in => worker'[x].in \in chatRaced'
        BY <1>4, <1>8 DEF WritersInv, WritersAlone
    <2> QED BY <2>1, <2>2 DEF WritersAlone
<1>11. WritersRead'
    <2> SUFFICES ASSUME NEW x \in Workers, Writes(x)'
                 PROVE  /\ worker'[x].step = "send" /\ worker'[x].in \notin chatRaced' => \A j \in Talk!MessagesOf(worker[x].in)' : j < worker'[x].message
                        /\ worker'[x].step = "edit" =>
                            /\ worker'[x].message \in Talk!MessagesOf(worker[x].in)'
                            /\ worker'[x].in \notin chatRaced' => worker'[x].newest = Talk!NewestOf(Talk!MessagesOf(worker[x].in))'
        BY DEF WritersRead, Writes
    <2>1. x # w /\ worker'[x] = worker[x] /\ Writes(x)
        BY <1>8
    <2>2. CASE worker[x].in = c
        <3>1. c \in chatRaced'
            BY <1>0, <1>1, <1>4, <2>1, <2>2 DEF WritersInv, WritersAlone
        <3>2. Talk!MessagesOf(worker[x].in)' = Talk!MessagesOf(c) \cup {i}
            BY <1>6, <2>1, <2>2
        <3> QED BY <2>1, <2>2, <3>1, <3>2 DEF WritersInv, WritersRead
    <2>3. CASE worker[x].in # c
        <3>1. /\ Talk!MessagesOf(worker[x].in)' = Talk!MessagesOf(worker[x].in)
              /\ Talk!NewestOf(Talk!MessagesOf(worker[x].in))' = Talk!NewestOf(Talk!MessagesOf(worker[x].in))
            BY <1>6, <1>7, <2>1, <2>3
        <3> QED BY <1>4, <2>1, <3>1 DEF WritersInv, WritersRead
    <2> QED BY <2>2, <2>3
<1>12. MessagesHaveRooms'
    <2> SUFFICES ASSUME NEW j \in Talk!Ids, message'[j] # None
                 PROVE  conversation'[message'[j].in] # None
        BY DEF MessagesHaveRooms
    <2>1. CASE j = i
        BY <1>3, <1>5, <2>1
    <2>2. CASE j # i
        <3>1. message'[j] = message[j] /\ message[j].in \in Conversations /\ conversation[message[j].in] # None
            BY <1>3, <2>2, MessageTyped DEF WritersInv, MessagesHaveRooms
        <3> QED BY <1>3, <1>5, <3>1
    <2> QED BY <2>1, <2>2
<1>13. PreviewHolds'
    <2> SUFFICES ASSUME NEW d \in Conversations, d \notin chatRaced', Talk!MessagesOf(d)' # {}
                 PROVE  /\ conversation'[d].last = Talk!NewestOf(Talk!MessagesOf(d))'
                        /\ conversation'[d].edited = message'[Talk!NewestOf(Talk!MessagesOf(d))'].edited
        BY DEF PreviewHolds
    <2>1. CASE d = c
        <3>1. \A j \in Talk!MessagesOf(c) : j < i
            BY <1>0, <1>1, <1>4, <2>1 DEF WritersInv, WritersRead
        <3>2. Talk!MessagesOf(c)' \in SUBSET Talk!Ids /\ i \in Talk!MessagesOf(c)'
            BY <1>6, MessagesOfTyped
        <3>3. \A j \in Talk!MessagesOf(c)' : j <= i
            <4>1. i \in Nat /\ Talk!MessagesOf(c) \subseteq Nat
                BY <1>3, MessagesOfTyped DEF Talk!Ids, ChatConstants
            <4> QED BY <1>6, <3>1, <4>1
        <3>4. Talk!NewestOf(Talk!MessagesOf(c)') = i
            BY <3>2, <3>3, NewestIs
        <3>5. Talk!NewestOf(Talk!MessagesOf(c))' = i
            BY <3>4 DEF Talk!NewestOf
        <3> QED BY <1>3, <1>5, <2>1, <3>5
    <2>2. CASE d # c
        <3>1. Talk!MessagesOf(d)' = Talk!MessagesOf(d) /\ Talk!NewestOf(Talk!MessagesOf(d))' = Talk!NewestOf(Talk!MessagesOf(d))
            BY <1>6, <1>7, <2>2
        <3>2. /\ conversation[d].last = Talk!NewestOf(Talk!MessagesOf(d))
              /\ conversation[d].edited = message[Talk!NewestOf(Talk!MessagesOf(d))].edited
              /\ Talk!NewestOf(Talk!MessagesOf(d)) \in Talk!MessagesOf(d)
            BY <1>4, <3>1, PreviewIs
        <3>3. message'[Talk!NewestOf(Talk!MessagesOf(d))] = message[Talk!NewestOf(Talk!MessagesOf(d))]
            <4>1. Talk!NewestOf(Talk!MessagesOf(d)) \in Talk!Ids /\ message[Talk!NewestOf(Talk!MessagesOf(d))] # None
                BY <3>2 DEF Talk!MessagesOf
            <4> QED BY <1>2, <1>3, <4>1
        <3> QED BY <1>3, <2>2, <3>1, <3>2, <3>3
    <2> QED BY <2>1, <2>2
<1> QED BY <1>9, <1>10, <1>11, <1>12, <1>13 DEF WritersInv

LEMMA StartUpdateKeeps ==
    ASSUME ChatConstants, Talk!ChatTypeOK, WritersInv, NEW w \in Workers, NEW i \in Talk!Ids, NEW room \in Conversations,
           Talk!StartUpdate(w, i, room)
    PROVE  WritersInv'
<1>0. PICK c : c = message[i].in
    OBVIOUS
<1>1. /\ worker[w] = Talk!Idle /\ message[i] # None /\ c \in Conversations
      /\ worker'[w] = [step |-> "edit", message |-> i, in |-> c, room |-> room, newest |-> Talk!NewestOf(Talk!MessagesOf(c))]
      /\ \A x \in Workers \ {w} : worker'[x] = worker[x]
      /\ chatRaced \subseteq chatRaced' /\ (Talk!Writers(c) # {} => c \in chatRaced')
      /\ UNCHANGED <<conversation, message>>
    BY <1>0, StartUpdateDoes
<1>2. \A d : Talk!MessagesOf(d)' = Talk!MessagesOf(d) /\ Talk!NewestOf(Talk!MessagesOf(d))' = Talk!NewestOf(Talk!MessagesOf(d))
    BY <1>1 DEF Talk!MessagesOf, Talk!NewestOf
<1>3. /\ worker'[w].step = "edit" /\ worker'[w].message = i /\ worker'[w].in = c
      /\ worker'[w].newest = Talk!NewestOf(Talk!MessagesOf(c))
    BY <1>1
<1>4. \A x \in Workers \ {w} : (Writes(x)' <=> Writes(x)) /\ (Writes(x) => worker[x].in \in Conversations /\ worker[x].message \in Talk!Ids)
    BY <1>1, WriterTyped DEF Writes
<1>5. i \in Talk!MessagesOf(c) /\ conversation[c] # None
    BY <1>0, <1>1 DEF Talk!MessagesOf, WritersInv, MessagesHaveRooms
<1>6. SendsAreNew'
    <2>1. \A x \in Workers : worker'[x].step = "send" => x # w /\ worker'[x] = worker[x]
        BY <1>1, <1>3
    <2> QED BY <1>1, <2>1 DEF WritersInv, SendsAreNew
<1>7. WritersAlone'
    <2>1. \A x \in Workers : Writes(x)' => conversation'[worker'[x].in] # None
        BY <1>1, <1>3, <1>4, <1>5 DEF WritersInv, WritersAlone
    <2>2. \A x \in Workers \ {w} : Writes(x) /\ worker[x].in = c => c \in chatRaced'
        BY <1>1 DEF Talk!Writers, Writes
    <2>3. ASSUME NEW x \in Workers, NEW y \in Workers, x # y, Writes(x)', Writes(y)', worker'[x].in = worker'[y].in
          PROVE  worker'[x].in \in chatRaced'
        <3>1. CASE x # w /\ y # w
            BY <1>1, <1>4, <2>3, <3>1 DEF WritersInv, WritersAlone
        <3>2. CASE x = w
            BY <1>1, <1>3, <1>4, <2>2, <2>3, <3>2
        <3>3. CASE y = w
            BY <1>1, <1>3, <1>4, <2>2, <2>3, <3>3
        <3> QED BY <3>1, <3>2, <3>3
    <2> QED BY <2>1, <2>3 DEF WritersAlone
<1>8. WritersRead'
    <2> SUFFICES ASSUME NEW x \in Workers, Writes(x)'
                 PROVE  /\ worker'[x].step = "send" /\ worker'[x].in \notin chatRaced' => \A j \in Talk!MessagesOf(worker[x].in)' : j < worker'[x].message
                        /\ worker'[x].step = "edit" =>
                            /\ worker'[x].message \in Talk!MessagesOf(worker[x].in)'
                            /\ worker'[x].in \notin chatRaced' => worker'[x].newest = Talk!NewestOf(Talk!MessagesOf(worker[x].in))'
        BY DEF WritersRead, Writes
    <2>1. /\ Talk!MessagesOf(worker[x].in)' = Talk!MessagesOf(worker'[x].in)
          /\ Talk!NewestOf(Talk!MessagesOf(worker[x].in))' = Talk!NewestOf(Talk!MessagesOf(worker'[x].in))
        BY <1>2
    <2>2. CASE x = w
        BY <1>3, <1>5, <2>1, <2>2
    <2>3. CASE x # w
        BY <1>1, <2>1, <2>3 DEF WritersInv, WritersRead
    <2> QED BY <2>2, <2>3
<1>9. MessagesHaveRooms'
    BY <1>1 DEF WritersInv, MessagesHaveRooms
<1>10. PreviewHolds'
    BY <1>1, <1>2 DEF WritersInv, PreviewHolds
<1> QED BY <1>6, <1>7, <1>8, <1>9, <1>10 DEF WritersInv

LEMMA UpdateMessageKeeps ==
    ASSUME ChatConstants, Talk!ChatTypeOK, WritersInv, NEW w \in Workers, Talk!UpdateMessage(w)
    PROVE  WritersInv'
<1>0. PICK c, i, newest, room : c = worker[w].in /\ i = worker[w].message /\ newest = worker[w].newest /\ room = worker[w].room
    OBVIOUS
<1> DEFINE old == conversation[c]
<1>1. Writes(w) /\ worker[w].step = "edit"
    BY DEF Talk!UpdateMessage, Writes
<1>2. conversation[c] # None /\ i \in Talk!MessagesOf(c) /\ message[i] # None /\ message[i].in = c
    BY <1>0, <1>1 DEF WritersInv, WritersAlone, WritersRead, Talk!MessagesOf
<1>3. /\ c \in Conversations /\ i \in Talk!Ids
      /\ message'[i] # None /\ message'[i].in = message[i].in /\ message'[i].edited = TRUE
      /\ \A j \in Talk!Ids \ {i} : message'[j] = message[j]
      /\ worker'[w] = [step |-> "tell", in |-> room, event |-> [kind |-> "edited", message |-> i]]
      /\ \A x \in Workers \ {w} : worker'[x] = worker[x]
      /\ \A d \in Conversations \ {c} : conversation'[d] = conversation[d]
      /\ conversation'[c] = IF newest = i /\ old.live THEN [old EXCEPT !.edited = TRUE] ELSE old
      /\ chatRaced' = IF old.live THEN chatRaced ELSE chatRaced \cup {c}
    <2>1. conversation[worker[w].in] # None /\ message[worker[w].message] # None
        BY <1>0, <1>2
    <2> HIDE <1>2
    <2>2. /\ c \in Conversations /\ i \in Talk!Ids
          /\ message'[i] # None /\ message'[i].in = message[i].in /\ message'[i].edited = TRUE
          /\ \A j \in Talk!Ids \ {i} : message'[j] = message[j]
          /\ worker'[w] = [step |-> "tell", in |-> room, event |-> [kind |-> "edited", message |-> i]]
        BY <1>0, <2>1, UpdateMessageDoes
    <2>3. /\ \A x \in Workers \ {w} : worker'[x] = worker[x]
          /\ \A d \in Conversations \ {c} : conversation'[d] = conversation[d]
          /\ conversation'[c] = IF newest = i /\ old.live THEN [old EXCEPT !.edited = TRUE] ELSE old
          /\ chatRaced' = IF old.live THEN chatRaced ELSE chatRaced \cup {c}
        BY <1>0, <2>1, UpdateMessageDoes
    <2> QED BY <2>2, <2>3
<1>4. ~Writes(w)' /\ chatRaced \subseteq chatRaced'
    BY <1>3 DEF Writes
<1>5. /\ conversation'[c] # None /\ conversation'[c].last = conversation[c].last
      /\ c \notin chatRaced' => conversation'[c].edited = IF newest = i THEN TRUE ELSE conversation[c].edited
    <2>1. old \in Talk!Conversation
        BY <1>2, <1>3, ConversationTyped
    <2>2. CASE conversation'[c] = old /\ ~(newest = i /\ old.live)
        <3>1. c \notin chatRaced' => newest # i
            BY <1>3, <2>2
        <3> QED BY <1>2, <2>2, <3>1
    <2>3. CASE conversation'[c] = [old EXCEPT !.edited = TRUE] /\ newest = i /\ old.live
        <3> HIDE DEF old
        <3>1. conversation'[c] \in Talk!Conversation /\ conversation'[c].last = old.last /\ conversation'[c].edited = TRUE
            BY <2>1, <2>3 DEF Talk!Conversation
        <3>2. conversation'[c] # None
            BY <3>1 DEF ChatConstants
        <3> QED BY <2>3, <3>1, <3>2 DEF old
    <2> QED BY <1>3, <2>2, <2>3
<1> HIDE DEF old
<1>6. \A d : Talk!MessagesOf(d)' = Talk!MessagesOf(d)
    <2>1. \A j \in Talk!Ids : (message'[j] = None <=> message[j] = None) /\ (message[j] # None => message'[j].in = message[j].in)
        BY <1>2, <1>3
    <2> QED BY <2>1, MessagesOfKept
<1>7. \A d : Talk!NewestOf(Talk!MessagesOf(d))' = Talk!NewestOf(Talk!MessagesOf(d))
    BY <1>6 DEF Talk!NewestOf
<1>8. \A x \in Workers : Writes(x)' => x # w /\ worker'[x] = worker[x] /\ Writes(x) /\ worker[x].in \in Conversations /\ worker[x].message \in Talk!Ids
    BY <1>3, <1>4, WriterTyped DEF Writes
<1>9. SendsAreNew'
    <2>1. \A x \in Workers : worker'[x].step = "send" => x # w /\ worker'[x] = worker[x] /\ worker[x].message \in Talk!Ids
        BY <1>8 DEF Writes
    <2>2. \A x \in Workers : worker[x].step = "send" => worker[x].message # i
        BY <1>2 DEF WritersInv, SendsAreNew
    <2> QED BY <1>3, <2>1, <2>2 DEF WritersInv, SendsAreNew
<1>10. WritersAlone'
    <2>1. \A x \in Workers : Writes(x)' => conversation'[worker'[x].in] # None
        BY <1>3, <1>5, <1>8 DEF WritersInv, WritersAlone
    <2>2. \A x, y \in Workers : x # y /\ Writes(x)' /\ Writes(y)' /\ worker'[x].in = worker'[y].in => worker'[x].in \in chatRaced'
        BY <1>4, <1>8 DEF WritersInv, WritersAlone
    <2> QED BY <2>1, <2>2 DEF WritersAlone
<1>11. WritersRead'
    <2> SUFFICES ASSUME NEW x \in Workers, Writes(x)'
                 PROVE  /\ worker'[x].step = "send" /\ worker'[x].in \notin chatRaced' => \A j \in Talk!MessagesOf(worker[x].in)' : j < worker'[x].message
                        /\ worker'[x].step = "edit" =>
                            /\ worker'[x].message \in Talk!MessagesOf(worker[x].in)'
                            /\ worker'[x].in \notin chatRaced' => worker'[x].newest = Talk!NewestOf(Talk!MessagesOf(worker[x].in))'
        BY DEF WritersRead, Writes
    <2>1. worker'[x] = worker[x]
        BY <1>8
    <2>2. /\ Talk!MessagesOf(worker[x].in)' = Talk!MessagesOf(worker[x].in)
          /\ Talk!NewestOf(Talk!MessagesOf(worker[x].in))' = Talk!NewestOf(Talk!MessagesOf(worker[x].in))
        BY <1>6, <1>7, <2>1
    <2> QED BY <1>4, <2>1, <2>2 DEF WritersInv, WritersRead
<1>12. MessagesHaveRooms'
    <2> SUFFICES ASSUME NEW j \in Talk!Ids, message'[j] # None
                 PROVE  conversation'[message'[j].in] # None
        BY DEF MessagesHaveRooms
    <2>1. message[j] # None /\ message'[j].in = message[j].in
        BY <1>2, <1>3
    <2>2. message[j].in \in Conversations /\ conversation[message[j].in] # None
        BY <2>1, MessageTyped DEF WritersInv, MessagesHaveRooms
    <2> QED BY <1>3, <1>5, <2>1, <2>2
<1>13. PreviewHolds'
    <2> SUFFICES ASSUME NEW d \in Conversations, d \notin chatRaced', Talk!MessagesOf(d)' # {}
                 PROVE  /\ conversation'[d].last = Talk!NewestOf(Talk!MessagesOf(d))'
                        /\ conversation'[d].edited = message'[Talk!NewestOf(Talk!MessagesOf(d))'].edited
        BY DEF PreviewHolds
    <2>1. Talk!MessagesOf(d)' = Talk!MessagesOf(d) /\ Talk!NewestOf(Talk!MessagesOf(d))' = Talk!NewestOf(Talk!MessagesOf(d))
        BY <1>6, <1>7
    <2>2. PICK n : n = Talk!NewestOf(Talk!MessagesOf(d))
        OBVIOUS
    <2>3. conversation[d].last = n /\ conversation[d].edited = message[n].edited /\ n \in Talk!MessagesOf(d)
        BY <1>4, <2>1, <2>2, PreviewIs
    <2>4. n \in Talk!Ids /\ message[n] # None /\ message[n].in = d
        BY <2>3 DEF Talk!MessagesOf
    <2>5. CASE d = c
        <3>1. newest = n
            BY <1>0, <1>1, <1>4, <2>2, <2>5 DEF WritersInv, WritersRead
        <3>2. conversation'[c].last = n /\ conversation'[c].edited = IF newest = i THEN TRUE ELSE conversation[c].edited
            BY <1>5, <2>3, <2>5
        <3>3. CASE newest = i
            <4>1. message'[i].edited = TRUE
                BY <1>3
            <4>2. message'[n].edited = TRUE
                BY <3>1, <3>3, <4>1
            <4> QED BY <2>1, <2>2, <2>5, <3>2, <3>3, <4>2
        <3>4. CASE newest # i
            <4>1. message'[n] = message[n]
                BY <1>3, <2>4, <3>1, <3>4
            <4> QED BY <2>1, <2>2, <2>3, <2>5, <3>2, <3>4, <4>1
        <3> QED BY <3>3, <3>4
    <2>6. CASE d # c
        <3>1. n # i
            BY <1>2, <2>4, <2>6
        <3> QED BY <1>3, <2>1, <2>2, <2>3, <2>4, <2>6, <3>1
    <2> QED BY <2>5, <2>6
<1> QED BY <1>9, <1>10, <1>11, <1>12, <1>13 DEF WritersInv

-----------------------------------------------------------------------------
(* What a room hears *)

New(i) == [kind |-> "new", message |-> i]

(* What is told is of a message there is; of a new one, in its room.          *)
TrueIn(e, c) ==
    /\ e.kind = "new" => e.message \in Talk!MessagesOf(c)
    /\ e.message # None => e.message \in Talk!Ids /\ message[e.message] # None

TellsAreTrue == \A w \in Workers : worker[w].step = "tell" => TrueIn(worker[w].event, worker[w].in)

(* Nobody is about to tell of the message.                                    *)
Told(i) == \A w \in Workers : worker[w].step = "tell" => worker[w].event # New(i)

HearsDue(k) ==
    client[k].state = "on" /\ ~client[k].missed =>
        \A i \in Talk!MessagesOf(client[k].in) \ client[k].since : Told(i) => New(i) \in Hears(k)
HearsTrue(k) == \A e \in Hears(k) : TrueIn(e, client[k].in)

RoomsInv == TellsAreTrue /\ \A k \in Sockets : client[k] # None => HearsDue(k) /\ HearsTrue(k)

LEMMA RoomsInvImplies == ASSUME RoomsInv PROVE Talk!RoomsHear
<1> SUFFICES ASSUME NEW k \in Sockets, client[k] # None
             PROVE  /\ client[k].state = "on" /\ ~client[k].missed =>
                         \A i \in {j \in Talk!MessagesOf(client[k].in) \ client[k].since :
                                       \A w \in Workers : worker[w].step = "tell" => worker[w].event # [kind |-> "new", message |-> j]} :
                             [kind |-> "new", message |-> i] \in client[k].told \cup {client[k].queue[j] : j \in DOMAIN client[k].queue}
                    /\ \A e \in client[k].told \cup {client[k].queue[j] : j \in DOMAIN client[k].queue} :
                          /\ e.kind = "new" => e.message \in Talk!MessagesOf(client[k].in)
                          /\ e.message # None => message[e.message] # None
    BY DEF Talk!RoomsHear
<1>1. HearsDue(k) /\ HearsTrue(k)
    BY DEF RoomsInv
<1>2. Hears(k) = client[k].told \cup {client[k].queue[j] : j \in DOMAIN client[k].queue}
    BY DEF Hears, HeardBy
<1>3. \A i : Told(i) <=> \A w \in Workers : worker[w].step = "tell" => worker[w].event # [kind |-> "new", message |-> i]
    BY DEF Told, New
<1>4. \A e \in client[k].told \cup {client[k].queue[j] : j \in DOMAIN client[k].queue} :
          /\ e.kind = "new" => e.message \in Talk!MessagesOf(client[k].in)
          /\ e.message # None => message[e.message] # None
    BY <1>1, <1>2 DEF HearsTrue, TrueIn, Talk!MessagesOf
<1>5. ASSUME client[k].state = "on", ~client[k].missed,
             NEW i \in Talk!MessagesOf(client[k].in) \ client[k].since,
             \A w \in Workers : worker[w].step = "tell" => worker[w].event # [kind |-> "new", message |-> i]
      PROVE  [kind |-> "new", message |-> i] \in client[k].told \cup {client[k].queue[j] : j \in DOMAIN client[k].queue}
    <2>1. New(i) \in Hears(k)
        BY <1>1, <1>3, <1>5 DEF HearsDue
    <2> QED BY <1>2, <2>1 DEF New
<1> QED BY <1>4, <1>5

(* Messages stay, and what is told from now on, or no longer, is true, or     *)
(* heard.                                                                     *)
LEMMA RoomsGoOn ==
    ASSUME ChatConstants, Talk!ChatTypeOK, RoomsInv, SocketsKeep,
           \A i \in Talk!Ids : message[i] # None => message'[i] # None /\ message'[i].in = message[i].in,
           \A w \in Workers : worker'[w].step = "tell" =>
                worker'[w] = worker[w] \/ TrueIn(worker[w].event, worker[w].in)',
           \A k \in Sockets : client[k] # None => \A e \in Hears(k)' :
                e \in Hears(k) \/ e = Typing \/ TrueIn(e, client[k].in),
           \A k \in Sockets, i \in Talk!Ids :
                client[k] # None /\ client'[k].state = "on" /\ ~client'[k].missed
                    /\ message'[i] # None /\ message'[i].in = client[k].in /\ Told(i)' =>
                        New(i) \in Hears(k)' \/ (message[i] # None /\ Told(i))
    PROVE  RoomsInv'
<1>2. TellsAreTrue'
    <2> SUFFICES ASSUME NEW w \in Workers, worker'[w].step = "tell"
                 PROVE  TrueIn(worker[w].event, worker[w].in)'
        BY DEF TellsAreTrue
    <2>1. CASE worker'[w] = worker[w]
        <3>1. TrueIn(worker[w].event, worker[w].in)
            BY <2>1 DEF RoomsInv, TellsAreTrue
        <3>2. /\ worker[w].event.kind = "new" => worker[w].event.message \in Talk!MessagesOf(worker[w].in)
              /\ worker[w].event.message # None =>
                    worker[w].event.message \in Talk!Ids /\ message[worker[w].event.message] # None
            BY <3>1 DEF TrueIn
        <3> QED BY <2>1, <3>2 DEF TrueIn, Talk!MessagesOf
    <2>2. CASE worker'[w] # worker[w]
        BY <2>2
    <2> QED BY <2>1, <2>2
<1>3. ASSUME NEW k \in Sockets, client'[k] # None
      PROVE  HearsDue(k)' /\ HearsTrue(k)'
    <2>1. /\ client[k] # None /\ client'[k].in = client[k].in /\ client'[k].since = client[k].since
          /\ client'[k].state = "on" /\ ~client'[k].missed =>
                client[k].state = "on" /\ ~client[k].missed /\ Hears(k) \subseteq Hears(k)'
        BY <1>3 DEF SocketsKeep
    <2>2. HearsDue(k) /\ HearsTrue(k)
        BY <2>1 DEF RoomsInv
    <2>3. ASSUME client'[k].state = "on", ~client'[k].missed, NEW i \in Talk!Ids, message'[i] # None, message'[i].in = client'[k].in,
                 i \notin client'[k].since, Told(i)'
          PROVE  New(i) \in Hears(k)'
        <3>1. New(i) \in Hears(k)' \/ (message[i] # None /\ Told(i))
            BY <2>1, <2>3
        <3>2. CASE message[i] # None /\ Told(i)
            <4>1. i \in Talk!MessagesOf(client[k].in) \ client[k].since
                BY <2>1, <2>3, <3>2 DEF Talk!MessagesOf
            <4> QED BY <2>1, <2>2, <2>3, <3>2, <4>1 DEF HearsDue
        <3> QED BY <3>1, <3>2
    <2>4. HearsDue(k)'
        BY <2>3 DEF HearsDue, Talk!MessagesOf
    <2>5. ASSUME NEW e \in Hears(k)'
          PROVE  /\ e.kind = "new" => e.message \in Talk!MessagesOf(client[k].in)'
                 /\ e.message # None => e.message \in Talk!Ids /\ message'[e.message] # None
        <3>1. e = Typing \/ TrueIn(e, client[k].in)
            BY <2>1, <2>2, <2>5 DEF HearsTrue
        <3>2. CASE e = Typing
            <4>1. e.kind = "typing" /\ e.message = None
                BY <3>2 DEF Typing
            <4> QED BY <4>1
        <3>3. CASE TrueIn(e, client[k].in)
            <4>1. /\ e.kind = "new" => e.message \in Talk!MessagesOf(client[k].in)
                  /\ e.message # None => e.message \in Talk!Ids /\ message[e.message] # None
                BY <3>3 DEF TrueIn
            <4> QED BY <2>1, <4>1 DEF Talk!MessagesOf
        <3> QED BY <3>1, <3>2, <3>3
    <2>6. HearsTrue(k)'
        BY <2>5 DEF HearsTrue, TrueIn
    <2> QED BY <2>4, <2>6
<1> QED BY <1>2, <1>3 DEF RoomsInv

(* A request that tells nobody takes a step.                                  *)
LEMMA RequestKeepsRooms ==
    ASSUME ChatConstants, Talk!ChatTypeOK, RoomsInv, client' = client,
           \A i \in Talk!Ids : message[i] # None => message'[i] # None /\ message'[i].in = message[i].in,
           NEW w \in Workers, worker[w].step # "tell", \A x \in Workers \ {w} : worker'[x] = worker[x],
           worker'[w].step = "tell" => TrueIn(worker[w].event, worker[w].in)',
           \A i \in Talk!Ids : message'[i] # None /\ message[i] = None => worker'[w].step = "tell" /\ worker'[w].event = New(i)
    PROVE  RoomsInv'
<1>1. SocketsKeep /\ \A k \in Sockets : Hears(k)' = Hears(k)
    BY SocketsUnchanged
<1>2. \A x \in Workers : worker[x].step = "tell" => worker'[x] = worker[x]
    OBVIOUS
<1>3. \A i \in Talk!Ids : Told(i)' => Told(i)
    BY <1>2 DEF Told, New
<1>4. \A i \in Talk!Ids : message'[i] # None /\ Told(i)' => message[i] # None
    BY DEF Told, New
<1>5. \A x \in Workers : worker'[x].step = "tell" =>
                worker'[x] = worker[x] \/ TrueIn(worker[x].event, worker[x].in)'
    OBVIOUS
<1> QED BY <1>1, <1>3, <1>4, <1>5, RoomsGoOn

(* Requests and messages are kept, and the sockets hear no more of them.      *)
LEMMA SocketsKeepRooms ==
    ASSUME ChatConstants, Talk!ChatTypeOK, RoomsInv, SocketsKeep, MessagesKept, worker' = worker,
           \A k \in Sockets : client[k] # None => \A e \in Hears(k)' : e \in Hears(k) \/ e = Typing
    PROVE  RoomsInv'
<1>1. \A i \in Talk!Ids : /\ message[i] # None => message'[i] # None /\ message'[i].in = message[i].in
                          /\ message'[i] # None => message[i] # None
    BY DEF MessagesKept
<1>2. \A i \in Talk!Ids : Told(i)' => Told(i)
    BY DEF Told, New
<1> QED BY <1>1, <1>2, RoomsGoOn

LEMMA RegisterKeepsRooms ==
    ASSUME ChatConstants, Talk!ChatTypeOK, RoomsInv, NEW k \in Sockets, NEW u \in Users, NEW c \in Conversations, Talk!Register(k, u, c)
    PROVE  RoomsInv'
<1>1. /\ client'[k] = [user |-> u, in |-> c, state |-> "on", queue |-> <<>>, told |-> {}, missed |-> FALSE,
                       since |-> {i \in Talk!Ids : message[i] # None}]
      /\ \A j \in Sockets \ {k} : client'[j] = client[j]
      /\ UNCHANGED <<message, worker>>
    BY RegisterDoes
<1>2. client'[k].queue = <<>> /\ client'[k].told = {} /\ client'[k].since = {i \in Talk!Ids : message[i] # None}
    BY <1>1
<1>3. Hears(k)' = {}
    BY <1>2 DEF Hears, HeardBy
<1>4. \A d : Talk!MessagesOf(d)' = Talk!MessagesOf(d)
    BY <1>1 DEF Talk!MessagesOf
<1>5. \A i : Told(i)' <=> Told(i)
    BY <1>1 DEF Told, New
<1>6. TellsAreTrue'
    BY <1>1 DEF RoomsInv, TellsAreTrue, TrueIn, Talk!MessagesOf
<1>7. HearsDue(k)' /\ HearsTrue(k)'
    BY <1>1, <1>2, <1>3 DEF HearsDue, HearsTrue, Talk!MessagesOf
<1>8. ASSUME NEW j \in Sockets, j # k, client'[j] # None
      PROVE  HearsDue(j)' /\ HearsTrue(j)'
    <2>1. client'[j] = client[j] /\ HearsDue(j) /\ HearsTrue(j)
        BY <1>1, <1>8 DEF RoomsInv
    <2>2. Hears(j)' = Hears(j) /\ Talk!MessagesOf(client[j].in)' = Talk!MessagesOf(client[j].in)
        BY <1>4, <2>1 DEF Hears
    <2> QED BY <1>1, <1>5, <2>1, <2>2 DEF HearsDue, HearsTrue, TrueIn, New
<1> QED BY <1>6, <1>7, <1>8 DEF RoomsInv

LEMMA QuietKeepsRooms ==
    ASSUME ChatConstants, Talk!ChatTypeOK, RoomsInv, ChatQuietStep
    PROVE  RoomsInv'
<1>1. RoomsKept /\ MessagesKept /\ UNCHANGED <<worker, doubled, chatRaced>>
    BY QuietStepDoes
<1>2. ASSUME client' = client
      PROVE  RoomsInv'
    <2>1. SocketsKeep /\ \A k \in Sockets : Hears(k)' = Hears(k)
        BY <1>2, SocketsUnchanged
    <2> QED BY <1>1, <2>1, SocketsKeepRooms
<1>3. ASSUME NEW c \in Conversations, Talk!AcceptRequest(c) \/ Talk!BlockRequest(c) \/ Talk!ArchiveConversation(c)
      PROVE  RoomsInv'
    BY <1>2, <1>3, StatusDoes
<1>4. ASSUME NEW c \in Conversations, NEW u \in Users, Talk!DeleteConversation(c, u)
      PROVE  RoomsInv'
    BY <1>2, <1>4, DeleteConversationDoes
<1>5. ASSUME NEW c \in Conversations, NEW u \in Users, Talk!MarkAsRead(c, u)
      PROVE  RoomsInv'
    BY <1>2, <1>5, MarkChatDoes
<1>6. CASE Talk!CleanupDeletedMessages \/ \E u \in Users, i \in Talk!Ids : Talk!Age(u, i)
    BY <1>2, <1>6, AgeDoes
<1>7. ASSUME NEW k \in Sockets, NEW u \in Users, NEW c \in Conversations, Talk!Register(k, u, c)
      PROVE  RoomsInv'
    BY <1>7, RegisterKeepsRooms
<1>8. ASSUME NEW k \in Sockets, Talk!ReadPump(k)
      PROVE  RoomsInv'
    <2>1. /\ SocketsKeep
          /\ \A j \in Sockets : client[j] # None => \A e \in Hears(j)' : e \in Hears(j) \/ e = Typing
        BY <1>8, ReadPumpDoes
    <2> QED BY <1>1, <2>1, SocketsKeepRooms
<1>9. ASSUME NEW k \in Sockets, Talk!WritePump(k) \/ Talk!WriteFails(k) \/ Talk!Unregister(k)
      PROVE  RoomsInv'
    <2>1. SocketsKeep /\ \A j \in Sockets : client[j] # None => Hears(j)' \subseteq Hears(j)
        BY <1>9, SocketStepsDo
    <2> QED BY <1>1, <2>1, SocketsKeepRooms
<1>10. CASE UNCHANGED Talk!chatVars
    BY <1>2, <1>10 DEF Talk!chatVars
<1> QED BY <1>3, <1>4, <1>5, <1>6, <1>7, <1>8, <1>9, <1>10 DEF ChatQuietStep

LEMMA TellKeepsRooms ==
    ASSUME ChatConstants, Talk!ChatTypeOK, RoomsInv, NEW w \in Workers, Talk!Tell(w)
    PROVE  RoomsInv'
<1>0. PICK e, c : e = worker[w].event /\ c = worker[w].in
    OBVIOUS
<1>1. /\ worker[w].step = "tell" /\ c \in Conversations /\ e \in Talk!Event
      /\ worker'[w].step = "idle" /\ \A x \in Workers \ {w} : worker'[x] = worker[x]
      /\ SocketsKeep
      /\ \A k \in Sockets : client[k] # None =>
           /\ Hears(k)' \subseteq Hears(k) \cup {e} /\ (Hears(k)' # Hears(k) => client[k].in = c)
           /\ client'[k].state # "off" /\ client[k].in = c /\ ~client'[k].missed => e \in Hears(k)'
      /\ message' = message
    BY <1>0, TellDoes
<1>2. TrueIn(e, c)
    BY <1>0, <1>1 DEF RoomsInv, TellsAreTrue
<1>3. \A x \in Workers : worker'[x].step = "tell" => worker'[x] = worker[x]
    BY <1>1
<1>4. ASSUME NEW k \in Sockets, client[k] # None, NEW f \in Hears(k)'
      PROVE  f \in Hears(k) \/ f = Typing \/ TrueIn(f, client[k].in)
    <2>1. CASE f \notin Hears(k)
        <3>1. f = e /\ client[k].in = c
            BY <1>1, <1>4, <2>1
        <3> QED BY <1>2, <3>1
    <2> QED BY <2>1
<1>5. ASSUME NEW k \in Sockets, NEW i \in Talk!Ids, client[k] # None, client'[k].state = "on", ~client'[k].missed,
             message'[i] # None, message'[i].in = client[k].in, Told(i)'
      PROVE  New(i) \in Hears(k)' \/ (message[i] # None /\ Told(i))
    <2>1. CASE e = New(i)
        <3>1. e.kind = "new" /\ e.message = i
            BY <2>1 DEF New
        <3>2. i \in Talk!MessagesOf(c)
            BY <1>2, <3>1 DEF TrueIn
        <3>3. client[k].in = c
            BY <1>1, <1>5, <3>2 DEF Talk!MessagesOf
        <3> QED BY <1>1, <1>5, <2>1, <3>3
    <2>2. CASE e # New(i)
        <3>1. Told(i)
            BY <1>0, <1>1, <1>5, <2>2 DEF Told, New
        <3> QED BY <1>1, <1>5, <3>1
    <2> QED BY <2>1, <2>2
<1> QED BY <1>1, <1>3, <1>4, <1>5, RoomsGoOn

LEMMA CrashKeepsRooms ==
    ASSUME ChatConstants, Talk!ChatTypeOK, RoomsInv, Talk!Crash
    PROVE  RoomsInv'
<1>1. /\ \A w \in Workers : worker'[w].step = "idle"
      /\ SocketsKeep /\ \A k \in Sockets : client[k] # None => client'[k].state = "off" /\ Hears(k)' \subseteq Hears(k)
      /\ message' = message
    BY ChatCrashDoes
<1>2. \A w \in Workers : worker'[w].step # "tell"
    BY <1>1
<1>3. \A k \in Sockets : client[k] # None => client'[k].state # "on"
    BY <1>1
<1> QED BY <1>1, <1>2, <1>3, RoomsGoOn

-----------------------------------------------------------------------------
(* Conversations, together *)

ChatInv == Talk!ChatTypeOK /\ OpenersInv /\ WritersInv /\ RoomsInv

LEMMA ChatInvInitially == ASSUME ChatConstants PROVE Talk!ChatInit => ChatInv
<1> SUFFICES ASSUME Talk!ChatInit PROVE ChatInv
    OBVIOUS
<1>1. Talk!ChatTypeOK
    BY ChatTypedInitially
<1>2. /\ \A c \in Conversations : conversation[c] = None
      /\ \A i \in Talk!Ids : message[i] = None
      /\ \A k \in Sockets : client[k] = None
      /\ \A w \in Workers : worker[w].step = "idle"
    BY DEF Talk!ChatInit, Talk!Quiet, Talk!Idle
<1>3. OpenersInv
    BY <1>2 DEF OpenersInv, PairsOrNone, OpenersFound, LoneOpeners, OpenersFoundNone, OnePair, Opens, Talk!Of
<1>4. WritersInv
    BY <1>2 DEF WritersInv, SendsAreNew, WritersAlone, WritersRead, MessagesHaveRooms, PreviewHolds, Writes
<1>5. RoomsInv
    BY <1>2 DEF RoomsInv, TellsAreTrue
<1> QED BY <1>1, <1>3, <1>4, <1>5 DEF ChatInv

(* A request takes a step that writes at most a conversation.                 *)
LEMMA RequestStep ==
    ASSUME ChatConstants, ChatInv, NEW w \in Workers, worker[w].step # "tell",
           worker' \in [Workers -> ChatTask], \A x \in Workers \ {w} : worker'[x] = worker[x],
           conversation' \in [Conversations -> Talk!Conversation \cup {None}],
           doubled' \subseteq SUBSET Users, chatRaced' \subseteq Conversations,
           UNCHANGED <<message, hidden, aged, client>>, worker'[w].step # "tell"
    PROVE  Talk!ChatTypeOK' /\ MessagesKept /\ RoomsInv'
<1>1. Talk!ChatTypeOK /\ RoomsInv
    BY DEF ChatInv
<1>2. MessagesKept
    BY <1>1, MessagesUnchanged
<1>3. Talk!ChatTypeOK'
    <2>1. /\ message' \in [Talk!Ids -> Talk!Message \cup {None}] /\ hidden' \subseteq Users \X Talk!Ids /\ aged' \subseteq hidden'
          /\ client' \in [Sockets -> Talk!Client \cup {None}]
          /\ \A k \in Sockets : client'[k] # None => Len(client'[k].queue) <= SendBuffer
        BY <1>1 DEF Talk!ChatTypeOK
    <2> QED BY <1>1, <2>1, ChatTypedStep
<1>4. RoomsInv'
    BY <1>1, RequestKeepsRooms
<1> QED BY <1>2, <1>3, <1>4

LEMMA ChatOpensStep ==
    ASSUME ChatConstants, ChatInv, NEW w \in Workers,
           \/ \E u, v \in Users : Talk!StartOpen(w, u, v)
           \/ Talk!LookForDeleted(w) \/ Talk!Reopen(w) \/ \E c \in Conversations : Talk!CreateConversation(w, c)
           \/ Talk!AddParticipants(w)
    PROVE  ChatInv'
<1>1. Talk!ChatTypeOK /\ OpenersInv /\ WritersInv /\ RoomsInv
    BY DEF ChatInv
<1>2. /\ conversation \in [Conversations -> Talk!Conversation \cup {None}]
      /\ doubled \subseteq SUBSET Users /\ chatRaced \subseteq Conversations
    BY <1>1 DEF Talk!ChatTypeOK
<1>3. ASSUME worker[w].step \in {"idle", "look", "create", "reopen", "join"},
             worker' \in [Workers -> ChatTask], worker'[w].step \in {"idle", "look", "create", "reopen", "join"},
             \A x \in Workers \ {w} : worker'[x] = worker[x],
             conversation' \in [Conversations -> Talk!Conversation \cup {None}],
             \A c \in Conversations : conversation[c] # None =>
                /\ conversation'[c] # None
                /\ conversation'[c].last = conversation[c].last /\ conversation'[c].edited = conversation[c].edited,
             doubled' \subseteq SUBSET Users, chatRaced' = chatRaced, UNCHANGED <<message, hidden, aged, client>>, OpenersInv'
      PROVE  ChatInv'
    <2>1. Talk!ChatTypeOK' /\ MessagesKept /\ RoomsInv'
        BY <1>2, <1>3, RequestStep
    <2>2. \A x \in Workers : worker'[x] = worker[x] \/ worker'[x].step \notin {"send", "edit"}
        BY <1>3
    <2>3. WritersInv'
        BY <1>1, <1>3, <2>1, <2>2, WritersGoOn
    <2> QED BY <1>3, <2>1, <2>3 DEF ChatInv
<1>4. ASSUME NEW u \in Users, NEW v \in Users, Talk!StartOpen(w, u, v)
      PROVE  ChatInv'
    <2>1. /\ worker[w] = Talk!Idle /\ worker' \in [Workers -> ChatTask]
          /\ worker'[w] = [step |-> "look", user |-> u, other |-> v]
          /\ \A x \in Workers \ {w} : worker'[x] = worker[x]
          /\ UNCHANGED <<conversation, message, hidden, aged, client, chatRaced>>
        BY <1>1, <1>4, StartOpenDoes
    <2>2. doubled' \subseteq SUBSET Users
        BY <1>1, <1>4, StartOpenDoes
    <2>3. worker[w].step = "idle" /\ worker'[w].step = "look"
        BY <2>1 DEF Talk!Idle
    <2>4. OpenersInv'
        BY <1>1, <1>4, StartOpenKeeps
    <2> QED BY <1>2, <1>3, <2>1, <2>2, <2>3, <2>4
<1>5. CASE Talk!LookForDeleted(w)
    <2>1. /\ worker[w].step = "look" /\ worker' \in [Workers -> ChatTask] /\ worker'[w].step \in {"create", "reopen"}
          /\ \A x \in Workers \ {w} : worker'[x] = worker[x]
          /\ UNCHANGED <<conversation, message, hidden, aged, client, doubled, chatRaced>>
        BY <1>1, <1>5, LookForDeletedDoes
    <2>2. OpenersInv'
        BY <1>1, <1>5, LookKeeps
    <2> QED BY <1>2, <1>3, <2>1, <2>2
<1>6. CASE Talk!Reopen(w)
    <2>0. PICK c : c = worker[w].in
        OBVIOUS
    <2> DEFINE old == conversation[c]
    <2>1. conversation[c] # None
        BY <1>1, <1>6, <2>0 DEF Talk!Reopen, OpenersInv, OpenersFound
    <2>2. /\ worker[w].step = "reopen" /\ c \in Conversations
          /\ worker' \in [Workers -> ChatTask] /\ worker'[w].step = "idle" /\ \A x \in Workers \ {w} : worker'[x] = worker[x]
          /\ conversation' \in [Conversations -> Talk!Conversation \cup {None}]
          /\ conversation'[c] = [old EXCEPT !.live = TRUE, !.status = "accepted"]
          /\ \A d \in Conversations \ {c} : conversation'[d] = conversation[d]
          /\ UNCHANGED <<message, hidden, aged, client, doubled, chatRaced>>
        BY <1>1, <1>6, <2>0, <2>1, ReopenDoes
    <2>3. old \in Talk!Conversation
        BY <1>1, <2>1, <2>2, ConversationTyped
    <2>4. conversation'[c] # None /\ conversation'[c].last = conversation[c].last /\ conversation'[c].edited = conversation[c].edited
        <3> HIDE DEF old
        <3>1. conversation'[c] \in Talk!Conversation /\ conversation'[c].last = old.last /\ conversation'[c].edited = old.edited
            BY <2>2, <2>3 DEF Talk!Conversation, Talk!Statuses
        <3>2. conversation'[c] # None
            BY <3>1 DEF ChatConstants
        <3> QED BY <3>1, <3>2 DEF old
    <2>5. OpenersInv'
        BY <1>1, <1>6, ReopenKeeps
    <2>6. \A d \in Conversations : conversation[d] # None =>
                /\ conversation'[d] # None
                /\ conversation'[d].last = conversation[d].last /\ conversation'[d].edited = conversation[d].edited
        BY <2>2, <2>4
    <2> QED BY <1>2, <1>3, <2>2, <2>5, <2>6
<1>7. ASSUME NEW c \in Conversations, Talk!CreateConversation(w, c)
      PROVE  ChatInv'
    <2>1. /\ worker[w].step = "create" /\ conversation[c] = None /\ worker' \in [Workers -> ChatTask]
          /\ worker'[w] = [step |-> "join", user |-> worker[w].user, other |-> worker[w].other, in |-> c]
          /\ \A x \in Workers \ {w} : worker'[x] = worker[x]
          /\ conversation' \in [Conversations -> Talk!Conversation \cup {None}]
          /\ \A d \in Conversations \ {c} : conversation'[d] = conversation[d]
          /\ UNCHANGED <<message, hidden, aged, client, doubled, chatRaced>>
        BY <1>1, <1>7, CreateConversationDoes
    <2>2. worker'[w].step = "join"
        BY <2>1
    <2>3. OpenersInv'
        BY <1>1, <1>7, CreateConversationKeeps
    <2>4. \A d \in Conversations : conversation[d] # None => conversation'[d] = conversation[d]
        BY <2>1
    <2> QED BY <1>2, <1>3, <2>1, <2>2, <2>3, <2>4
<1>8. CASE Talk!AddParticipants(w)
    <2>0. PICK c, u, v : c = worker[w].in /\ u = worker[w].user /\ v = worker[w].other
        OBVIOUS
    <2> DEFINE old == conversation[c]
    <2>1. conversation[c] # None
        BY <1>1, <1>8, <2>0 DEF Talk!AddParticipants, OpenersInv, OpenersFound
    <2>2. /\ worker[w].step = "join" /\ c \in Conversations
          /\ worker' \in [Workers -> ChatTask] /\ worker'[w].step = "idle" /\ \A x \in Workers \ {w} : worker'[x] = worker[x]
          /\ conversation' \in [Conversations -> Talk!Conversation \cup {None}]
          /\ conversation'[c] = [old EXCEPT !.between = {u, v}] \/ conversation'[c] = old
          /\ \A d \in Conversations \ {c} : conversation'[d] = conversation[d]
          /\ UNCHANGED <<message, hidden, aged, client, doubled, chatRaced>>
        BY <1>1, <1>8, <2>0, <2>1, AddParticipantsDoes
    <2>3. old \in Talk!Conversation
        BY <1>1, <2>1, <2>2, ConversationTyped
    <2>4. u \in Users /\ v \in Users
        BY <1>1, <2>0, <2>2, OpenerTyped DEF Opens
    <2>5. conversation'[c] # None /\ conversation'[c].last = conversation[c].last /\ conversation'[c].edited = conversation[c].edited
        <3> HIDE DEF old
        <3>1. conversation'[c] \in Talk!Conversation /\ conversation'[c].last = old.last /\ conversation'[c].edited = old.edited
            BY <2>2, <2>3, <2>4 DEF Talk!Conversation
        <3>2. conversation'[c] # None
            BY <3>1 DEF ChatConstants
        <3> QED BY <3>1, <3>2 DEF old
    <2>6. OpenersInv'
        BY <1>1, <1>8, AddParticipantsKeeps
    <2>7. \A d \in Conversations : conversation[d] # None =>
                /\ conversation'[d] # None
                /\ conversation'[d].last = conversation[d].last /\ conversation'[d].edited = conversation[d].edited
        BY <2>2, <2>5
    <2> QED BY <1>2, <1>3, <2>2, <2>6, <2>7
<1> QED BY <1>4, <1>5, <1>6, <1>7, <1>8

LEMMA ChatWritesStep ==
    ASSUME ChatConstants, ChatInv, NEW w \in Workers,
           \/ \E u \in Users, c \in Conversations : Talk!StartSend(w, u, c)
           \/ Talk!SendMessage(w) \/ Talk!TransactionFails(w) \/ \E i \in Talk!Ids, room \in Conversations : Talk!StartUpdate(w, i, room)
           \/ Talk!UpdateMessage(w) \/ \E u \in Users, i \in Talk!Ids, room \in Conversations : Talk!DeleteMessage(w, u, i, room)
    PROVE  ChatInv'
<1>1. Talk!ChatTypeOK /\ OpenersInv /\ WritersInv /\ RoomsInv
    BY DEF ChatInv
<1>2. /\ conversation \in [Conversations -> Talk!Conversation \cup {None}] /\ message \in [Talk!Ids -> Talk!Message \cup {None}]
      /\ hidden \subseteq Users \X Talk!Ids /\ aged \subseteq hidden
      /\ client \in [Sockets -> Talk!Client \cup {None}] /\ \A k \in Sockets : client[k] # None => Len(client[k].queue) <= SendBuffer
      /\ doubled \subseteq SUBSET Users /\ chatRaced \subseteq Conversations
    BY <1>1 DEF Talk!ChatTypeOK
<1>3. ASSUME worker'[w].step \in {"idle", "send", "edit", "tell"}, \A x \in Workers \ {w} : worker'[x] = worker[x],
             PairsKept, doubled' = doubled
      PROVE  OpenersInv'
    <2>1. \A x \in Workers : worker'[x] = worker[x] \/ worker'[x].step \notin {"look", "reopen", "create", "join"}
        BY <1>3
    <2> QED BY <1>1, <1>3, <2>1, PairsGoOn
<1>4. conversation' = conversation => RoomsKept /\ PairsKept
    BY <1>1, RoomsUnchanged, RoomsKeepPairs
<1>5. ASSUME NEW u \in Users, NEW c \in Conversations, Talk!StartSend(w, u, c)
      PROVE  ChatInv'
    <2>1. /\ worker[w] = Talk!Idle /\ worker' \in [Workers -> ChatTask] /\ worker'[w].step = "send"
          /\ \A x \in Workers \ {w} : worker'[x] = worker[x]
          /\ chatRaced' \subseteq chatRaced \cup {c}
          /\ UNCHANGED <<conversation, message, hidden, aged, client, doubled>>
        BY <1>1, <1>5, StartSendDoes
    <2>2. worker[w].step = "idle" /\ chatRaced' \subseteq Conversations
        BY <1>2, <2>1 DEF Talk!Idle
    <2>3. Talk!ChatTypeOK' /\ RoomsInv'
        BY <1>2, <2>1, <2>2, RequestStep
    <2>4. WritersInv'
        BY <1>1, <1>5, StartSendKeeps
    <2> QED BY <1>3, <1>4, <2>1, <2>3, <2>4 DEF ChatInv
<1>6. CASE Talk!TransactionFails(w)
    <2>1. /\ worker[w].step \in {"send", "edit"} /\ worker' \in [Workers -> ChatTask] /\ worker'[w].step = "idle"
          /\ \A x \in Workers \ {w} : worker'[x] = worker[x]
          /\ UNCHANGED <<conversation, message, hidden, aged, client, doubled, chatRaced>>
        BY <1>1, <1>6, TransactionFailsDoes
    <2>2. Talk!ChatTypeOK' /\ RoomsInv' /\ MessagesKept
        BY <1>2, <2>1, RequestStep
    <2>3. \A x \in Workers : worker'[x] = worker[x] \/ worker'[x].step \notin {"send", "edit"}
        BY <2>1
    <2>4. WritersInv'
        BY <1>1, <2>1, <2>2, <2>3, WritersGoOn
    <2> QED BY <1>3, <1>4, <2>1, <2>2, <2>4 DEF ChatInv
<1>7. ASSUME NEW i \in Talk!Ids, NEW room \in Conversations, Talk!StartUpdate(w, i, room)
      PROVE  ChatInv'
    <2>0. PICK c : c = message[i].in
        OBVIOUS
    <2>1. /\ worker[w] = Talk!Idle /\ c \in Conversations /\ worker' \in [Workers -> ChatTask]
          /\ worker'[w] = [step |-> "edit", message |-> i, in |-> c, room |-> room, newest |-> Talk!NewestOf(Talk!MessagesOf(c))]
          /\ \A x \in Workers \ {w} : worker'[x] = worker[x]
          /\ chatRaced' \subseteq chatRaced \cup {c}
          /\ UNCHANGED <<conversation, message, hidden, aged, client, doubled>>
        BY <1>1, <1>7, <2>0, StartUpdateDoes
    <2>2. worker[w].step = "idle" /\ worker'[w].step = "edit" /\ chatRaced' \subseteq Conversations
        BY <1>2, <2>1 DEF Talk!Idle
    <2>3. Talk!ChatTypeOK' /\ RoomsInv'
        BY <1>2, <2>1, <2>2, RequestStep
    <2>4. WritersInv'
        BY <1>1, <1>7, StartUpdateKeeps
    <2> QED BY <1>3, <1>4, <2>1, <2>2, <2>3, <2>4 DEF ChatInv
<1>8. CASE Talk!SendMessage(w)
    <2>0. PICK c, i : c = worker[w].in /\ i = worker[w].message
        OBVIOUS
    <2> DEFINE old == conversation[c]
    <2>1. conversation[c] # None /\ message[i] = None /\ worker[w].step = "send"
        BY <1>1, <1>8, <2>0 DEF Talk!SendMessage, WritersInv, WritersAlone, SendsAreNew, Writes
    <2>2. /\ c \in Conversations /\ i \in Talk!Ids
          /\ message' \in [Talk!Ids -> Talk!Message \cup {None}]
          /\ message'[i] # None /\ message'[i].in = c
          /\ \A j \in Talk!Ids \ {i} : message'[j] = message[j]
          /\ worker' \in [Workers -> ChatTask]
          /\ worker'[w] = [step |-> "tell", in |-> c, event |-> [kind |-> "new", message |-> i]]
          /\ \A x \in Workers \ {w} : worker'[x] = worker[x]
          /\ conversation' \in [Conversations -> Talk!Conversation \cup {None}]
          /\ \A d \in Conversations \ {c} : conversation'[d] = conversation[d]
          /\ UNCHANGED <<hidden, aged, client, doubled>>
        BY <1>1, <1>8, <2>0, <2>1, SendMessageDoes
    <2>3. \/ conversation'[c] = [old EXCEPT !.last = i, !.edited = FALSE] /\ chatRaced' = chatRaced
          \/ conversation'[c] = old /\ chatRaced' = chatRaced \cup {c}
        <3>1. conversation[worker[w].in] # None
            BY <2>0, <2>1
        <3> HIDE <2>1
        <3> QED BY <1>1, <1>8, <2>0, <3>1, SendMessageDoes
    <2>4. chatRaced' \subseteq Conversations
        BY <1>2, <2>2, <2>3
    <2>5. Talk!ChatTypeOK'
        BY <1>1, <1>2, <2>2, <2>4, ChatTypedStep
    <2>6. worker'[w].step = "tell" /\ worker'[w].in = c /\ worker'[w].event = New(i) /\ New(i).message = i
        BY <2>2 DEF New
    <2>7. RoomsInv'
        <3>1. \A j \in Talk!Ids : message[j] # None => message'[j] # None /\ message'[j].in = message[j].in
            BY <2>1, <2>2
        <3>2. \A j \in Talk!Ids : message'[j] # None /\ message[j] = None => worker'[w].event = New(j)
            BY <2>2, <2>6
        <3>3. TrueIn(worker[w].event, worker[w].in)'
            BY <2>2, <2>6 DEF TrueIn, Talk!MessagesOf
        <3> QED BY <1>1, <2>1, <2>2, <2>6, <3>1, <3>2, <3>3, RequestKeepsRooms
    <2>8. WritersInv'
        BY <1>1, <1>8, SendMessageKeeps
    <2>9. PairsKept
        <3>1. old \in Talk!Conversation /\ i \in Talk!Ids
            BY <1>1, <2>1, <2>2, ConversationTyped
        <3> HIDE DEF old
        <3>2. conversation'[c] \in Talk!Conversation /\ conversation'[c].between = old.between
              /\ conversation'[c].initiator = old.initiator /\ conversation'[c].live = old.live
            BY <2>3, <3>1 DEF Talk!Conversation
        <3>3. conversation'[c] # None
            BY <3>2 DEF ChatConstants
        <3> QED BY <2>1, <2>2, <3>2, <3>3 DEF PairsKept, old
    <2> QED BY <1>3, <2>2, <2>5, <2>6, <2>7, <2>8, <2>9 DEF ChatInv
<1>9. CASE Talk!UpdateMessage(w)
    <2>0. PICK c, i, newest, room : c = worker[w].in /\ i = worker[w].message /\ newest = worker[w].newest /\ room = worker[w].room
        OBVIOUS
    <2> DEFINE old == conversation[c]
    <2>1. conversation[c] # None /\ message[i] # None /\ message[i].in = c /\ worker[w].step = "edit"
        BY <1>1, <1>9, <2>0 DEF Talk!UpdateMessage, WritersInv, WritersAlone, WritersRead, Writes, Talk!MessagesOf
    <2>2. conversation[worker[w].in] # None /\ message[worker[w].message] # None
        BY <2>0, <2>1
    <2>3. /\ c \in Conversations /\ i \in Talk!Ids
          /\ message' \in [Talk!Ids -> Talk!Message \cup {None}]
          /\ message'[i] # None /\ message'[i].in = message[i].in
          /\ \A j \in Talk!Ids \ {i} : message'[j] = message[j]
          /\ worker' \in [Workers -> ChatTask]
          /\ worker'[w] = [step |-> "tell", in |-> room, event |-> [kind |-> "edited", message |-> i]]
          /\ \A x \in Workers \ {w} : worker'[x] = worker[x]
        BY <1>1, <1>9, <2>0, <2>2, UpdateMessageDoes
    <2>4. /\ conversation' \in [Conversations -> Talk!Conversation \cup {None}]
          /\ \A d \in Conversations \ {c} : conversation'[d] = conversation[d]
          /\ conversation'[c] = [old EXCEPT !.edited = TRUE] \/ conversation'[c] = old
          /\ chatRaced' = chatRaced \/ chatRaced' = chatRaced \cup {c}
          /\ UNCHANGED <<hidden, aged, client, doubled>>
        BY <1>1, <1>9, <2>0, <2>2, UpdateMessageDoes
    <2>5. chatRaced' \subseteq Conversations
        BY <1>2, <2>3, <2>4
    <2>6. Talk!ChatTypeOK'
        BY <1>1, <1>2, <2>3, <2>4, <2>5, ChatTypedStep
    <2>7. worker'[w].step = "tell" /\ worker'[w].event.kind = "edited" /\ worker'[w].event.message = i
        BY <2>3
    <2>8. RoomsInv'
        <3>1. \A j \in Talk!Ids : message[j] # None => message'[j] # None /\ message'[j].in = message[j].in
            BY <2>1, <2>3
        <3>2. \A j \in Talk!Ids : message'[j] # None => message[j] # None
            BY <2>1, <2>3
        <3>3. TrueIn(worker[w].event, worker[w].in)'
            BY <2>3, <2>7 DEF TrueIn
        <3> QED BY <1>1, <2>1, <2>3, <2>4, <2>7, <3>1, <3>2, <3>3, RequestKeepsRooms
    <2>9. WritersInv'
        BY <1>1, <1>9, UpdateMessageKeeps
    <2>10. PairsKept
        <3>1. old \in Talk!Conversation
            BY <1>1, <2>1, <2>3, ConversationTyped
        <3> HIDE DEF old
        <3>2. conversation'[c] \in Talk!Conversation /\ conversation'[c].between = old.between
              /\ conversation'[c].initiator = old.initiator /\ conversation'[c].live = old.live
            BY <2>4, <3>1 DEF Talk!Conversation
        <3>3. conversation'[c] # None
            BY <3>2 DEF ChatConstants
        <3> QED BY <2>1, <2>3, <2>4, <3>2, <3>3 DEF PairsKept, old
    <2> QED BY <1>3, <2>3, <2>4, <2>6, <2>7, <2>8, <2>9, <2>10 DEF ChatInv
<1>10. ASSUME NEW u \in Users, NEW i \in Talk!Ids, NEW room \in Conversations, Talk!DeleteMessage(w, u, i, room)
       PROVE  ChatInv'
    <2>1. /\ worker[w] = Talk!Idle /\ message[i] # None /\ worker' \in [Workers -> ChatTask]
          /\ worker'[w] = [step |-> "tell", in |-> room, event |-> [kind |-> "deleted", message |-> i]]
          /\ \A x \in Workers \ {w} : worker'[x] = worker[x]
          /\ hidden \subseteq hidden' /\ hidden' \subseteq Users \X Talk!Ids
          /\ UNCHANGED <<conversation, message, aged, client, doubled, chatRaced>>
        BY <1>1, <1>10, DeleteMessageDoes
    <2>2. worker[w].step = "idle" /\ worker'[w].step = "tell" /\ worker'[w].event.kind = "deleted" /\ worker'[w].event.message = i
        BY <2>1 DEF Talk!Idle
    <2>3. aged' \subseteq hidden'
        BY <1>2, <2>1
    <2>4. Talk!ChatTypeOK'
        BY <1>1, <1>2, <2>1, <2>3, ChatTypedStep
    <2>5. MessagesKept
        BY <1>1, <2>1, MessagesUnchanged
    <2>6. \A x \in Workers : worker'[x] = worker[x] \/ worker'[x].step \notin {"send", "edit"}
        BY <2>1, <2>2
    <2>7. WritersInv'
        BY <1>1, <2>1, <2>5, <2>6, WritersGoOn
    <2>8. RoomsInv'
        <3>1. TrueIn(worker[w].event, worker[w].in)'
            BY <2>1, <2>2 DEF TrueIn
        <3> QED BY <1>1, <2>1, <2>2, <3>1, RequestKeepsRooms
    <2> QED BY <1>3, <1>4, <2>1, <2>2, <2>4, <2>7, <2>8 DEF ChatInv
<1> QED BY <1>5, <1>6, <1>7, <1>8, <1>9, <1>10

LEMMA ChatInvStep ==
    ASSUME ChatConstants, ChatInv, [Talk!ChatNext]_Talk!chatVars
    PROVE  ChatInv'
<1>1. Talk!ChatTypeOK /\ OpenersInv /\ WritersInv /\ RoomsInv
    BY DEF ChatInv
<1>2. /\ conversation \in [Conversations -> Talk!Conversation \cup {None}] /\ message \in [Talk!Ids -> Talk!Message \cup {None}]
      /\ hidden \subseteq Users \X Talk!Ids /\ aged \subseteq hidden
      /\ doubled \subseteq SUBSET Users /\ chatRaced \subseteq Conversations
    BY <1>1 DEF Talk!ChatTypeOK
<1>3. ASSUME RoomsKept, MessagesKept, chatRaced' = chatRaced, doubled' = doubled,
             \A w \in Workers : worker'[w] = worker[w] \/ worker'[w].step = "idle"
      PROVE  OpenersInv' /\ WritersInv'
    <2>1. PairsKept
        BY <1>3, RoomsKeepPairs
    <2>2. \A w \in Workers : worker'[w] = worker[w] \/ worker'[w].step \notin {"look", "reopen", "create", "join"}
        BY <1>3
    <2>3. \A w \in Workers : worker'[w] = worker[w] \/ worker'[w].step \notin {"send", "edit"}
        BY <1>3
    <2>4. \A c \in Conversations : conversation[c] # None =>
             /\ conversation'[c] # None
             /\ conversation'[c].last = conversation[c].last /\ conversation'[c].edited = conversation[c].edited
        BY <1>3 DEF RoomsKept
    <2>5. OpenersInv'
        BY <1>1, <1>3, <2>1, <2>2, PairsGoOn
    <2>6. WritersInv'
        BY <1>1, <1>3, <2>3, <2>4, WritersGoOn
    <2> QED BY <2>5, <2>6
<1>4. CASE ChatQuietStep
    <2>1. Talk!ChatTypeOK' /\ RoomsKept /\ MessagesKept /\ UNCHANGED <<worker, doubled, chatRaced>>
        BY <1>1, <1>4, QuietStepDoes
    <2>2. RoomsInv'
        BY <1>1, <1>4, QuietKeepsRooms
    <2> QED BY <1>3, <2>1, <2>2 DEF ChatInv
<1>5. ASSUME NEW w \in Workers, Talk!Tell(w)
      PROVE  ChatInv'
    <2>1. /\ worker' \in [Workers -> ChatTask] /\ worker'[w].step = "idle" /\ \A x \in Workers \ {w} : worker'[x] = worker[x]
          /\ SocketsKeep /\ UNCHANGED <<conversation, message, hidden, aged, doubled, chatRaced>>
        BY <1>1, <1>5, TellDoes
    <2>2. RoomsKept /\ MessagesKept
        BY <1>1, <2>1, RoomsUnchanged, MessagesUnchanged
    <2>3. Talk!ChatTypeOK'
        BY <1>1, <1>2, <2>1, SocketsTyped, ChatTypedStep
    <2>4. RoomsInv'
        BY <1>1, <1>5, TellKeepsRooms
    <2> QED BY <1>3, <2>1, <2>2, <2>3, <2>4 DEF ChatInv
<1>6. CASE Talk!Crash
    <2>1. /\ worker' \in [Workers -> ChatTask] /\ \A w \in Workers : worker'[w].step = "idle"
          /\ SocketsKeep /\ UNCHANGED <<conversation, message, hidden, aged, doubled, chatRaced>>
        BY <1>1, <1>6, ChatCrashDoes
    <2>2. RoomsKept /\ MessagesKept
        BY <1>1, <2>1, RoomsUnchanged, MessagesUnchanged
    <2>3. Talk!ChatTypeOK'
        BY <1>1, <1>2, <2>1, SocketsTyped, ChatTypedStep
    <2>4. RoomsInv'
        BY <1>1, <1>6, CrashKeepsRooms
    <2> QED BY <1>3, <2>1, <2>2, <2>3, <2>4 DEF ChatInv
<1> QED BY <1>4, <1>5, <1>6, ChatOpensStep, ChatWritesStep, ChatSteps

LEMMA OneAtMost == ASSUME NEW S, \A c, d \in S : c = d PROVE Cardinality(S) <= 1
<1>1. CASE S = {}
    BY <1>1, FS_EmptySet
<1>2. CASE S # {}
    <2>1. PICK c \in S : TRUE
        BY <1>2
    <2>2. S = {c}
        BY <2>1
    <2>3. Cardinality({c}) = 1
        BY FS_Singleton
    <2> QED BY <2>2, <2>3
<1> QED BY <1>1, <1>2

LEMMA ChatCardinality ==
    ASSUME NEW S
    PROVE  Talk!Cardinality(S) = Cardinality(S)
BY DEF Talk!Cardinality, Cardinality

LEMMA ConversationsFollow == ASSUME ChatConstants, ChatInv PROVE Talk!ConversationsAgree
<1>1. Talk!ChatTypeOK /\ OpenersInv /\ WritersInv
    BY DEF ChatInv
<1>2. \A u, v \in Users : u # v /\ {u, v} \notin doubled => Talk!Cardinality(Talk!LiveOf(u, v)) <= 1
    <2> SUFFICES ASSUME NEW u \in Users, NEW v \in Users, u # v, {u, v} \notin doubled
                 PROVE  Talk!Cardinality(Talk!LiveOf(u, v)) <= 1
        OBVIOUS
    <2>1. \A c, d \in Talk!LiveOf(u, v) : c = d
        BY <1>1 DEF OpenersInv, OnePair, Talk!LiveOf
    <2> QED BY <2>1, OneAtMost, ChatCardinality
<1>3. \A c \in Conversations \ chatRaced :
        conversation[c] # None /\ Talk!MessagesOf(c) # {} =>
            LET i == Talk!NewestOf(Talk!MessagesOf(c))
            IN  conversation[c].last = i /\ conversation[c].edited = message[i].edited
    BY <1>1 DEF WritersInv, PreviewHolds
<1>4. ASSUME NEW c \in Conversations, conversation[c] # None, conversation[c].live, conversation[c].status = "pending",
             conversation[c].between # {}
      PROVE  Talk!Cardinality({u \in Users : c \in Talk!PendingFor(u)}) = 1
    <2>1. PICK u, v \in Users : u # v /\ conversation[c].between = {u, v} /\ conversation[c].initiator \in {u, v}
        BY <1>1, <1>4 DEF OpenersInv, PairsOrNone
    <2>2. \A a \in Users : c \in Talk!PendingFor(a) <=> a \in {u, v} /\ conversation[c].initiator # a
        BY <1>4, <2>1 DEF Talk!PendingFor, Talk!Listed
    <2>3. PICK a \in Users : {b \in Users : c \in Talk!PendingFor(b)} = {a}
        BY <2>1, <2>2
    <2>4. Cardinality({a}) = 1
        BY FS_Singleton
    <2> QED BY <2>3, <2>4, ChatCardinality
<1> QED BY <1>2, <1>3, <1>4 DEF Talk!ConversationsAgree

(* The state of the conversations is what their code keeps in every           *)
(* behaviour: two users share one live conversation unless two requests of    *)
(* theirs opened it at once, the preview of a conversation is its newest      *)
(* message unless its sender deleted that, two of its writes overlapped or    *)
(* one came after it was deleted, a request waits for one user                *)
(* (ConversationsAgree), and a room hears of all of its messages, of no       *)
(* other's as new, and of no edit or deletion of one never committed          *)
(* (RoomsHear).                                                               *)
THEOREM ConversationsStayTrue ==
    ASSUME ChatConstants
    PROVE  Talk!ChatSpec => [](Talk!ChatTypeOK /\ Talk!ConversationsAgree /\ Talk!RoomsHear)
<1>1. Talk!ChatInit => ChatInv
    BY ChatInvInitially
<1>2. ChatInv /\ [Talk!ChatNext]_Talk!chatVars => ChatInv'
    BY ChatInvStep
<1>3. ChatInv => Talk!ChatTypeOK /\ Talk!ConversationsAgree /\ Talk!RoomsHear
    <2> SUFFICES ASSUME ChatInv PROVE Talk!ChatTypeOK /\ Talk!ConversationsAgree /\ Talk!RoomsHear
        OBVIOUS
    <2>1. Talk!ChatTypeOK /\ RoomsInv
        BY DEF ChatInv
    <2> QED BY <2>1, ConversationsFollow, RoomsInvImplies
<1> QED BY <1>1, <1>2, <1>3, PTL DEF Talk!ChatSpec
=============================================================================
