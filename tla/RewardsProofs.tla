---------------------------- MODULE RewardsProofs -----------------------------
(***************************************************************************)
(* Proofs about Rewards, for any users and requests: types, that codes and *)
(* referrals agree, that referrals are paid once, and that balances are    *)
(* what the log says.  And about Resources and Entitlements, for any users *)
(* and requests.                                                           *)
(***************************************************************************)
EXTENDS Rewards, SumTheorems, TLAPS

CONSTANTS Resources, Admins, Reviewers, Editors, Files, Bodies, Workers, MaxCount, None
VARIABLES resource, authored, rating, attachment, stored, audit, work, viewed, told, withdrawn, deleter, lost, raced

Library == INSTANCE Resources WITH log <- audit, job <- work

CONSTANTS Plans, Nothing, Offers, ProRows, Grants, Forms, Homes, MaxDay, DaysPerMonth, Amounts
VARIABLES day, home, pro, plan, used, grant, asked, peak

Meter == INSTANCE Entitlements WITH today <- day, request <- asked

\* What is assumed of the constants: finitely many users and requests, a user
\* and a code that are none, and natural amounts.
Constants ==
    /\ IsFiniteSet(Users) /\ IsFiniteSet(Requests)
    /\ Nobody \notin Users /\ NoCode \notin Codes
    /\ Costs \subseteq Nat
    /\ Welcome \in Nat /\ Invited \in Nat /\ Joined \in Nat

-----------------------------------------------------------------------------
(* Requests *)

CoinJobs == [step : {"read", "saved"}, user : Users, kind : Earning \cup {"spend"}, amount : Nat, row : Row]
ApplyJobs == [step : {"applying"}, user : Users, referrer : Users]
IssueJobs == [step : {"issuing"}, user : Users]
SaveJobs == [step : {"saving"}, user : Users, row : Referral, code : Codes \cup {NoCode}]

\* A request in progress is of the kind its step says.
LEMMA JobTyped ==
  ASSUME TypeOK, NEW q \in Requests
  PROVE  /\ job[q] = Idle \/ job[q].step \in {"read", "saved", "applying", "issuing", "saving"}
         /\ job[q].step \in {"read", "saved"} => job[q] \in CoinJobs
         /\ job[q].step = "applying" => job[q] \in ApplyJobs
         /\ job[q].step = "issuing" => job[q] \in IssueJobs
         /\ job[q].step = "saving" => job[q] \in SaveJobs
<1> DEFINE j == job[q]
<1>1. j \in Jobs
  BY DEF TypeOK
<1>2. j = Idle => j.step = "idle"
  BY DEF Idle
<1> HIDE DEF j
<1>3. /\ j = Idle \/ j.step \in {"read", "saved", "applying", "issuing", "saving"}
      /\ j.step \in {"read", "saved"} => j \in CoinJobs
      /\ j.step = "applying" => j \in ApplyJobs
      /\ j.step = "issuing" => j \in IssueJobs
      /\ j.step = "saving" => j \in SaveJobs
  BY <1>1, <1>2 DEF Jobs, CoinJobs, ApplyJobs, IssueJobs, SaveJobs
<1> QED
  BY <1>3 DEF j

\* A request gets any job there is ...
LEMMA JobSet ==
  ASSUME TypeOK, NEW q \in Requests, NEW j \in Jobs, job' = [job EXCEPT ![q] = j]
  PROVE  job' \in [Requests -> Jobs]
BY DEF TypeOK

\* ... or none.
LEMMA JobOver ==
  ASSUME TypeOK, NEW q \in Requests, job' = [job EXCEPT ![q] = Idle]
  PROVE  job' \in [Requests -> Jobs]
BY JobSet DEF Jobs

\* What GetOrCreate returns.
LEMMA GotTyped ==
  ASSUME TypeOK, Constants, NEW u \in Users
  PROVE  /\ Got(u) \in Row /\ Got(u).exists
         /\ GotLog(u) \in [Kinds -> Nat]
         /\ \A k \in Kinds \ {"welcome"} : GotLog(u)[k] = log[u][k]
<1>1. reward[u] \in Row /\ log[u] \in [Kinds -> Nat] /\ Welcome \in Nat
  BY DEF TypeOK, Constants
<1>2. NewRow \in Row /\ NewRow.exists
  BY <1>1 DEF NewRow, NoRow, Row
<1>3. [log[u] EXCEPT !["welcome"] = @ + Welcome] \in [Kinds -> Nat]
  BY <1>1 DEF Kinds
<1> QED
  BY <1>1, <1>2, <1>3 DEF Got, GotLog

\* What CreditReward makes of a row.
LEMMA CreditedTyped ==
  ASSUME NEW row \in Row, NEW n \in Nat
  PROVE  /\ Credited(row, n) \in Row
         /\ Credited(row, n).balance = row.balance + n
         /\ Credited(row, n).earned = row.earned + n
         /\ Credited(row, n).spent = row.spent
         /\ Credited(row, n).exists = row.exists
<1> DEFINE new == [row EXCEPT !.balance = row.balance + n, !.earned = row.earned + n]
<1>1. row.balance \in Nat /\ row.earned \in Nat /\ row.spent \in Nat /\ row.exists \in BOOLEAN
  BY DEF Row
<1>2. row.balance + n \in Nat /\ row.earned + n \in Nat
  BY <1>1
<1>3. /\ new.balance = row.balance + n /\ new.earned = row.earned + n
      /\ new.spent = row.spent
  BY DEF Row
<1>4. new.exists = row.exists
  BY DEF Row
<1>5. new \in Row
  BY <1>1, <1>2 DEF Row
<1>6. Credited(row, n) = new
  BY DEF Credited, Row
<1> QED
  BY <1>3, <1>4, <1>5, <1>6

\* What a request saves, if it may take what it takes.
LEMMA ChangedTyped ==
  ASSUME NEW row \in Row, NEW kind, NEW n \in Nat, kind = "spend" => n <= row.balance
  PROVE  /\ Changed(row, kind, n) \in Row
         /\ Changed(row, kind, n).exists = row.exists
<1>1. /\ row.balance \in Nat /\ row.earned \in Nat /\ row.spent \in Nat /\ row.exists \in BOOLEAN
      /\ row = [balance |-> row.balance, earned |-> row.earned, spent |-> row.spent, exists |-> row.exists]
  BY DEF Row
<1>2. CASE kind = "spend"
  <2> DEFINE new == [row EXCEPT !.balance = row.balance - n, !.spent = row.spent + n]
  <2>1. row.balance - n \in Nat /\ row.spent + n \in Nat
    BY <1>1, <1>2
  <2>2. new \in Row
    BY <1>1, <2>1 DEF Row
  <2>3. new.exists = row.exists
    BY DEF Row
  <2>4. Changed(row, kind, n) = new
    BY <1>2 DEF Changed, Row
  <2> QED
    BY <2>2, <2>3, <2>4
<1>3. CASE kind # "spend"
  BY <1>3, CreditedTyped DEF Changed, Credited
<1> QED
  BY <1>2, <1>3

-----------------------------------------------------------------------------
(* Types *)

\* The initial states have their types, and no row, reading or lock.
LEMMA TypeInit ==
  ASSUME Constants, Init
  PROVE  TypeOK /\ RowInv /\ LockInv
<1>1. TypeOK
  BY DEF Init, Applied, TypeOK, NoRow, Row, Kinds, Earning, Jobs, Referral
<1>2. RowInv
  BY DEF Init, Applied, RowInv, NoRow, Idle
<1>3. LockInv
  BY DEF Init, Applied, LockInv, Idle, Constants
<1> QED
  BY <1>1, <1>2, <1>3

\* A request that reads a balance keeps the types ...
LEMMA BeginTyped ==
  ASSUME TypeOK, Constants, NEW q \in Requests, NEW u \in Users,
         NEW kind \in Earning \cup {"spend"}, NEW amount \in Nat, Begin(q, u, kind, amount)
  PROVE  TypeOK'
<1> DEFINE j == [step |-> "read", user |-> u, kind |-> kind, amount |-> amount, row |-> Got(u)]
<1>1. j \in Jobs
  BY GotTyped DEF Jobs
<1> HIDE DEF j
<1>2. job' = [job EXCEPT ![q] = j]
  BY DEF Begin, j
<1>3. job' \in [Requests -> Jobs]
  BY <1>1, <1>2, JobSet
<1>4. reward' \in [Users -> Row]
  BY GotTyped DEF Begin, TypeOK
<1>5. log' \in [Users -> [Kinds -> Nat]]
  BY GotTyped DEF Begin, TypeOK
<1> QED
  BY <1>3, <1>4, <1>5 DEF Begin, TypeOK, invites

\* ... as does one that saves what it made of it: a balance stays natural ...
LEMMA UpdateTyped ==
  ASSUME TypeOK, RowInv, NEW q \in Requests, UpdateBalance(q)
  PROVE  TypeOK'
<1> DEFINE j == job[q]
           s == [j EXCEPT !.step = "saved"]
<1>1. j \in CoinJobs /\ j.step = "read" /\ (j.kind = "spend" => j.amount <= j.row.balance)
  BY JobTyped DEF UpdateBalance, RowInv
<1>2. job' = [job EXCEPT ![q] = s] /\ reward' = [reward EXCEPT ![j.user] = Changed(j.row, j.kind, j.amount)]
  BY DEF UpdateBalance
<1>3. overwritten' \in {overwritten, overwritten \cup {j.user}}
  BY DEF UpdateBalance
<1> HIDE DEF j
<1>4. s \in Jobs
  BY <1>1 DEF CoinJobs, Jobs
<1> HIDE DEF s
<1>5. job' \in [Requests -> Jobs]
  BY <1>2, <1>4, JobSet
<1>6. j.user \in Users /\ j.row \in Row /\ j.amount \in Nat
  BY <1>1 DEF CoinJobs
<1>7. Changed(j.row, j.kind, j.amount) \in Row
  BY <1>1, <1>6, ChangedTyped
<1>8. reward' \in [Users -> Row]
  BY <1>2, <1>6, <1>7 DEF TypeOK
<1> QED
  BY <1>3, <1>5, <1>6, <1>8 DEF UpdateBalance, TypeOK, invites

\* ... and one that records it.
LEMMA CreateTyped ==
  ASSUME TypeOK, NEW q \in Requests, CreateTransaction(q)
  PROVE  TypeOK'
<1> DEFINE j == job[q]
<1>1. j \in CoinJobs
  BY JobTyped DEF CreateTransaction
<1>2. /\ log' = [log EXCEPT ![j.user] = Logged(log[j.user], j.kind, j.amount)]
      /\ today' = IF j.kind = "spend" THEN today ELSE [today EXCEPT ![j.user][j.kind] = @ + 1]
  BY <1>1 DEF CreateTransaction, TypeOK, CoinJobs
<1> HIDE DEF j
<1>3. j.user \in Users /\ j.kind \in Earning \cup {"spend"} /\ j.amount \in Nat
  BY <1>1 DEF CoinJobs
<1>4. Logged(log[j.user], j.kind, j.amount) \in [Kinds -> Nat]
  BY <1>3 DEF TypeOK, Logged, Kinds
<1>5. log' \in [Users -> [Kinds -> Nat]]
  BY <1>2, <1>3, <1>4 DEF TypeOK
<1>6. today' \in [Users -> [Earning -> Nat]]
  BY <1>2, <1>3 DEF TypeOK
<1>7. job' \in [Requests -> Jobs]
  BY JobOver DEF CreateTransaction
<1> QED
  BY <1>5, <1>6, <1>7 DEF CreateTransaction, TypeOK, invites

\* GrantReferralReward pays whoever is owed, and nobody else.
LEMMA GrantPays ==
  ASSUME TypeOK, Constants, NEW u \in Users, NEW ref \in Referral, Grant(u, ref), Payable(ref), ref.by # u
  PROVE  /\ ref.by \in Users /\ referral' = [referral EXCEPT ![u] = [ref EXCEPT !.rewarded = TRUE]]
         /\ reward' = [v \in Users |-> IF v = u THEN Credited(Got(v), Joined)
                                       ELSE IF v = ref.by THEN Credited(Got(v), Invited) ELSE reward[v]]
         /\ log' = [v \in Users |-> IF v = u THEN [GotLog(v) EXCEPT !["joined"] = GotLog(v)["joined"] + Joined]
                                    ELSE IF v = ref.by
                                         THEN [GotLog(v) EXCEPT !["invited"] = GotLog(v)["invited"] + Invited]
                                         ELSE log[v]]
<1>1. ref.by \in Users
  BY DEF Payable, Referral
<1>2. Invited + 0 = Invited /\ 0 + Joined = Joined
  BY DEF Constants
<1> DEFINE amount(v) == (IF v = ref.by THEN Invited ELSE 0) + (IF v = u THEN Joined ELSE 0)
<1>3. amount(u) = Joined /\ amount(ref.by) = Invited
  BY <1>2
<1>4. reward' = [v \in Users |-> IF v \in {u, ref.by} THEN Credited(Got(v), amount(v)) ELSE reward[v]]
  BY DEF Grant
<1> HIDE DEF amount
<1>5. reward' = [v \in Users |-> IF v = u THEN Credited(Got(v), Joined)
                                 ELSE IF v = ref.by THEN Credited(Got(v), Invited) ELSE reward[v]]
  BY <1>3, <1>4
<1>6. /\ referral' = [referral EXCEPT ![u] = [ref EXCEPT !.rewarded = TRUE]]
      /\ log' = [v \in Users |-> IF v = u THEN [GotLog(v) EXCEPT !["joined"] = GotLog(v)["joined"] + Joined]
                                 ELSE IF v = ref.by
                                      THEN [GotLog(v) EXCEPT !["invited"] = GotLog(v)["invited"] + Invited]
                                      ELSE log[v]]
  BY DEF Grant
<1> QED
  BY <1>1, <1>5, <1>6

\* Paying a referral keeps the types.
LEMMA GrantTyped ==
  ASSUME TypeOK, Constants, NEW u \in Users, NEW ref \in Referral, Grant(u, ref), ref.by # u
  PROVE  /\ reward' \in [Users -> Row] /\ log' \in [Users -> [Kinds -> Nat]]
         /\ referral' \in [Users -> Referral]
<1>1. CASE Payable(ref)
  <2>1. [ref EXCEPT !.rewarded = TRUE] \in Referral
    BY DEF Referral
  <2>2. /\ ref.by \in Users
        /\ referral' = [referral EXCEPT ![u] = [ref EXCEPT !.rewarded = TRUE]]
    BY <1>1, GrantPays
  <2>3. referral' \in [Users -> Referral]
    BY <2>1, <2>2 DEF TypeOK, Referral
  <2>4. ASSUME NEW v \in Users
        PROVE  /\ Credited(Got(v), Joined) \in Row /\ Credited(Got(v), Invited) \in Row /\ reward[v] \in Row
               /\ log[v] \in [Kinds -> Nat]
               /\ [GotLog(v) EXCEPT !["joined"] = GotLog(v)["joined"] + Joined] \in [Kinds -> Nat]
               /\ [GotLog(v) EXCEPT !["invited"] = GotLog(v)["invited"] + Invited] \in [Kinds -> Nat]
    <3>1. Got(v) \in Row /\ GotLog(v) \in [Kinds -> Nat] /\ Joined \in Nat /\ Invited \in Nat
      BY GotTyped DEF Constants
    <3>2. Credited(Got(v), Joined) \in Row /\ Credited(Got(v), Invited) \in Row
      BY <3>1, CreditedTyped
    <3>3. GotLog(v)["joined"] \in Nat /\ GotLog(v)["invited"] \in Nat
      BY <3>1 DEF Kinds
    <3>4. ASSUME NEW f \in [Kinds -> Nat], NEW k, NEW n \in Nat
          PROVE  [f EXCEPT ![k] = n] \in [Kinds -> Nat]
      OBVIOUS
    <3>5. GotLog(v)["joined"] + Joined \in Nat /\ GotLog(v)["invited"] + Invited \in Nat
      BY <3>1, <3>3
    <3>6. reward[v] \in Row /\ log[v] \in [Kinds -> Nat]
      BY DEF TypeOK
    <3> QED
      BY <3>1, <3>2, <3>4, <3>5, <3>6
  <2>5. reward' \in [Users -> Row]
    BY <1>1, <2>4, GrantPays
  <2>6. log' \in [Users -> [Kinds -> Nat]]
    BY <1>1, <2>4, GrantPays
  <2> QED
    BY <2>3, <2>5, <2>6
<1>2. CASE ~Payable(ref)
  BY <1>2 DEF Grant, TypeOK, Referral
<1> QED
  BY <1>1, <1>2

\* What FinishApply makes of the user's row.
LEMMA ApplyTyped ==
  ASSUME TypeOK, LockInv, NEW q \in Requests, job[q].step = "applying"
  PROVE  LET u == job[q].user
             r == job[q].referrer
             ref == [referral[u] EXCEPT !.by = r]
         IN  /\ u \in Users /\ r \in Users /\ r # u /\ ref \in Referral
             /\ referral[u].by = Nobody /\ ref.by = r
             /\ ref.rewarded = referral[u].rewarded /\ ref.verified = referral[u].verified
<1> DEFINE u == job[q].user
           r == job[q].referrer
<1>1. u \in Users /\ r \in Users
  BY JobTyped DEF ApplyJobs
<1>2. r # u /\ referral[u].by = Nobody
  BY DEF LockInv
<1> HIDE DEF u, r
<1> DEFINE ref == [referral[u] EXCEPT !.by = r]
<1>3. referral[u] \in Referral
  BY <1>1 DEF TypeOK, Referral
<1>4. ref \in Referral /\ ref.by = r
  BY <1>1, <1>3 DEF Referral
<1>5. ref.rewarded = referral[u].rewarded /\ ref.verified = referral[u].verified
  BY <1>3 DEF Referral
<1> QED
  BY <1>1, <1>2, <1>4, <1>5 DEF u, r

\* What a verification makes of the row of the user.
LEMMA VerifyTyped ==
  ASSUME TypeOK, LockInv, NEW u \in Users
  PROVE  LET ref == [referral[u] EXCEPT !.verified = TRUE]
         IN  /\ ref \in Referral /\ ref.by = referral[u].by /\ ref.by # u
             /\ ref.rewarded = referral[u].rewarded /\ ref.verified = TRUE
<1>1. referral[u] \in Referral
  BY DEF TypeOK, Referral
<1> QED
  BY <1>1 DEF LockInv, Referral

\* The end of an application keeps the types ...
LEMMA FinishTyped ==
  ASSUME TypeOK, LockInv, Constants, NEW q \in Requests, FinishApply(q)
  PROVE  TypeOK'
<1> DEFINE u == job[q].user
           r == job[q].referrer
           ref == [referral[u] EXCEPT !.by = r]
<1>1. u \in Users /\ r \in Users /\ r # u /\ ref \in Referral /\ ref.by = r
  BY ApplyTyped DEF FinishApply
<1>2. /\ IF ref.verified THEN Grant(u, ref) ELSE referral' = [referral EXCEPT ![u] = ref] /\ UNCHANGED <<reward, log>>
      /\ crossed' = (crossed \/ referral[r].by = u)
  BY DEF FinishApply
<1> HIDE DEF u, r, ref
<1>3. reward' \in [Users -> Row] /\ log' \in [Users -> [Kinds -> Nat]] /\ referral' \in [Users -> Referral]
  <2>1. CASE ref.verified
    BY <1>1, <1>2, <2>1, GrantTyped
  <2>2. CASE ~ref.verified
    BY <1>1, <1>2, <2>2 DEF TypeOK, Referral
  <2> QED
    BY <2>1, <2>2
<1>4. crossed' \in BOOLEAN
  BY <1>2 DEF TypeOK
<1>5. job' \in [Requests -> Jobs]
  BY JobOver DEF FinishApply
<1> QED
  BY <1>3, <1>4, <1>5 DEF FinishApply, TypeOK, Referral

\* ... as does a code that is stored ...
LEMMA IssueTyped ==
  ASSUME TypeOK, NEW q \in Requests, NEW c \in Codes, IssueCode(q, c)
  PROVE  TypeOK'
<1> DEFINE u == job[q].user
<1>1. u \in Users
  BY JobTyped DEF IssueCode, IssueJobs
<1>2. /\ code' = [code EXCEPT ![u] = Issued(u, c)]
      /\ shown' = [shown EXCEPT ![u] = shown[u] \cup {Issued(u, c)}]
  BY DEF IssueCode, TypeOK
<1> HIDE DEF u
<1>3. Issued(u, c) \in Codes
  BY <1>1 DEF Issued, TypeOK
<1>4. code' \in [Users -> Codes \cup {NoCode}] /\ shown' \in [Users -> SUBSET Codes]
  BY <1>1, <1>2, <1>3 DEF TypeOK
<1>5. job' \in [Requests -> Jobs]
  BY JobOver DEF IssueCode
<1> QED
  BY <1>4, <1>5 DEF IssueCode, TypeOK, coins

\* The row a request is about to save, as it is saved.
LEMMA SaveTyped ==
  ASSUME TypeOK, NEW q \in Requests, SaveUser(q)
  PROVE  LET u == job[q].user
             row == [job[q].row EXCEPT !.young = referral[u].young]
             c == job[q].code
         IN  /\ u \in Users /\ row \in Referral /\ c \in Codes \cup {NoCode}
             /\ row.by = job[q].row.by
             /\ c = NoCode \/ \A v \in Users \ {u} : code[v] # c
             /\ referral' = [referral EXCEPT ![u] = row] /\ code' = [code EXCEPT ![u] = c]
             /\ resaved' = IF referral[u] = row /\ code[u] = c THEN resaved ELSE resaved \cup {u}
             /\ \A p \in Requests : job[p].step = "applying" => job[p].user # u
<1> DEFINE u == job[q].user
<1>1. u \in Users /\ job[q].row \in Referral /\ job[q].code \in Codes \cup {NoCode}
  BY JobTyped DEF SaveUser, SaveJobs
<1>2. referral[u].young \in BOOLEAN
  BY <1>1 DEF TypeOK, Referral
<1>3. /\ [job[q].row EXCEPT !.young = referral[u].young] \in Referral
      /\ [job[q].row EXCEPT !.young = referral[u].young].by = job[q].row.by
  BY <1>1, <1>2 DEF Referral
<1> QED
  BY <1>1, <1>3 DEF SaveUser, Locked

\* ... as does a row that is saved ...
LEMMA SaveKeepsType ==
  ASSUME TypeOK, NEW q \in Requests, SaveUser(q)
  PROVE  TypeOK'
<1> DEFINE u == job[q].user
           row == [job[q].row EXCEPT !.young = referral[u].young]
           c == job[q].code
<1>1. /\ u \in Users /\ row \in Referral /\ c \in Codes \cup {NoCode}
      /\ referral' = [referral EXCEPT ![u] = row] /\ code' = [code EXCEPT ![u] = c]
      /\ resaved' = IF referral[u] = row /\ code[u] = c THEN resaved ELSE resaved \cup {u}
  BY SaveTyped
<1> HIDE DEF u, row, c
<1>2. referral' \in [Users -> Referral] /\ code' \in [Users -> Codes \cup {NoCode}] /\ resaved' \in SUBSET Users
  BY <1>1 DEF TypeOK
<1>3. job' \in [Requests -> Jobs]
  BY JobOver DEF SaveUser
<1> QED
  BY <1>2, <1>3 DEF SaveUser, TypeOK, coins

\* ... and every other step.
LEMMA TypeStep ==
  ASSUME TypeOK, RowInv, LockInv, Constants, Next
  PROVE  TypeOK'
<1>1. CASE NewDay
  BY <1>1 DEF NewDay, TypeOK, invites
<1>2. ASSUME NEW u \in Users, LoseWelcome(u)
      PROVE  TypeOK'
  <2>1. NewRow \in Row
    BY DEF NewRow, NoRow, Row, Constants
  <2> QED
    BY <1>2, <2>1 DEF LoseWelcome, TypeOK, invites
<1>3. ASSUME NEW u \in Users, Verify(u)
      PROVE  TypeOK'
  <2>1. reward' \in [Users -> Row] /\ log' \in [Users -> [Kinds -> Nat]] /\ referral' \in [Users -> Referral]
    BY <1>3, VerifyTyped, GrantTyped DEF Verify
  <2> QED
    BY <1>3, <2>1 DEF Verify, TypeOK, Referral
<1>4. ASSUME NEW u \in Users, CloseWindow(u)
      PROVE  TypeOK'
  <2>1. referral' \in [Users -> Referral]
    <3>1. referral \in [Users -> Referral]
      BY DEF TypeOK, Referral
    <3>2. referral' = [referral EXCEPT ![u] = [referral[u] EXCEPT !.young = FALSE]]
      BY <1>4, <3>1 DEF CloseWindow
    <3>3. [referral[u] EXCEPT !.young = FALSE] \in Referral
      BY <3>1 DEF Referral
    <3> QED
      BY <3>1, <3>2, <3>3
  <2> QED
    BY <1>4, <2>1 DEF CloseWindow, TypeOK, coins, Referral
<1>5. ASSUME NEW q \in Requests, Drop(q)
      PROVE  TypeOK'
  <2>1. job[q].step = "saved" => job[q].user \in Users
    BY JobTyped DEF CoinJobs
  <2>2. job' \in [Requests -> Jobs]
    BY <1>5, JobOver DEF Drop
  <2> QED
    BY <1>5, <2>1, <2>2 DEF Drop, TypeOK, invites
<1>6. ASSUME NEW q \in Requests, NEW u \in Users, Earn(q, u) \/ DailyLogin(q, u)
      PROVE  TypeOK'
  BY <1>6, BeginTyped DEF Earn, DailyLogin, Earning
<1>7. ASSUME NEW q \in Requests, NEW u \in Users, NEW cost \in Costs, Spend(q, u, cost)
      PROVE  TypeOK'
  BY <1>7, BeginTyped DEF Spend, Constants
<1>8. ASSUME NEW q \in Requests, NEW u \in Users, OpenInvite(q, u)
      PROVE  TypeOK'
  <2>1. [step |-> "issuing", user |-> u] \in Jobs
    BY DEF Jobs
  <2>2. job' \in [Requests -> Jobs]
    BY <1>8, <2>1, JobSet DEF OpenInvite, TypeOK
  <2>3. shown' \in [Users -> SUBSET Codes]
    <3>1. shown' = shown \/ (shown' = [shown EXCEPT ![u] = shown[u] \cup {code[u]}] /\ code[u] # NoCode)
      <4>1. CASE code[u] # NoCode
        BY <1>8, <4>1 DEF OpenInvite
      <4>2. CASE code[u] = NoCode
        BY <1>8, <4>2 DEF OpenInvite
      <4> QED
        BY <4>1, <4>2
    <3>2. code[u] # NoCode => shown[u] \cup {code[u]} \in SUBSET Codes
      BY DEF TypeOK
    <3>3. shown \in [Users -> SUBSET Codes]
      BY DEF TypeOK
    <3> QED
      BY <3>1, <3>2, <3>3
  <2> QED
    BY <1>8, <2>2, <2>3 DEF OpenInvite, TypeOK, coins
<1>9. ASSUME NEW q \in Requests, NEW u \in Users, NEW c \in Codes, StartApply(q, u, c)
      PROVE  TypeOK'
  <2>1. PICK r \in Users : job' = [job EXCEPT ![q] = [step |-> "applying", user |-> u, referrer |-> r]]
    BY <1>9 DEF StartApply
  <2>2. [step |-> "applying", user |-> u, referrer |-> r] \in Jobs
    BY DEF Jobs
  <2>3. job' \in [Requests -> Jobs]
    BY <2>1, <2>2, JobSet
  <2> QED
    BY <1>9, <2>3 DEF StartApply, TypeOK, coins, invites
<1>10. ASSUME NEW q \in Requests, NEW u \in Users, NEW verified \in BOOLEAN, NEW c \in Codes \cup {NoCode},
              StartSave(q, u, verified, c)
       PROVE  TypeOK'
  <2> DEFINE j == [step |-> "saving", user |-> u, code |-> c, row |-> [referral[u] EXCEPT !.verified = verified]]
  <2>1. [referral[u] EXCEPT !.verified = verified] \in Referral
    <3>1. referral[u] \in Referral
      BY DEF TypeOK
    <3> QED
      BY <3>1 DEF Referral
  <2>2. j \in Jobs
    BY <2>1 DEF Jobs
  <2>3. job' = [job EXCEPT ![q] = j]
    BY <1>10 DEF StartSave
  <2> HIDE DEF j
  <2>4. job' \in [Requests -> Jobs]
    BY <2>2, <2>3, JobSet
  <2> QED
    BY <1>10, <2>4 DEF StartSave, TypeOK, coins, invites
<1> QED
  BY <1>1, <1>2, <1>3, <1>4, <1>5, <1>6, <1>7, <1>8, <1>9, <1>10,
     UpdateTyped, CreateTyped, FinishTyped, IssueTyped, SaveKeepsType DEF Next

-----------------------------------------------------------------------------
(* Rows and locks *)

\* What a step does to rows and readings that keeps RowInv.
LEMMA RowKept ==
  ASSUME RowInv,
         \A v \in Users : reward'[v] = reward[v] \/ reward'[v].exists,
         \A p \in Requests :
            \/ job'[p] = job[p]
            \/ job'[p].step # "read"
            \/ job'[p].row.exists /\ (job'[p].kind = "spend" => job'[p].amount <= job'[p].row.balance)
  PROVE  RowInv'
<1>1. \A v \in Users : ~reward'[v].exists => reward'[v] = NoRow
  BY DEF RowInv
<1>2. \A p \in Requests : job'[p].step = "read" =>
        job'[p].row.exists /\ (job'[p].kind = "spend" => job'[p].amount <= job'[p].row.balance)
  BY DEF RowInv
<1> QED
  BY <1>1, <1>2 DEF RowInv

\* One request takes a step, the others stay as they are.
LEMMA JobElse ==
  ASSUME TypeOK, NEW q \in Requests, NEW j, job' = [job EXCEPT ![q] = j]
  PROVE  job'[q] = j /\ \A p \in Requests \ {q} : job'[p] = job[p]
BY DEF TypeOK

\* A request reads a row that exists and has enough.
LEMMA RowBegin ==
  ASSUME TypeOK, RowInv, Constants, NEW q \in Requests, NEW u \in Users, NEW kind, NEW amount,
         Begin(q, u, kind, amount), kind = "spend" => amount <= Got(u).balance
  PROVE  RowInv'
<1> DEFINE j == [step |-> "read", user |-> u, kind |-> kind, amount |-> amount, row |-> Got(u)]
<1>1. job'[q] = j /\ \A p \in Requests \ {q} : job'[p] = job[p]
  BY JobElse DEF Begin
<1>2. j.row.exists /\ (j.kind = "spend" => j.amount <= j.row.balance)
  BY GotTyped
<1>3. \A v \in Users : reward'[v] = reward[v] \/ reward'[v].exists
  BY GotTyped DEF Begin, TypeOK
<1> HIDE DEF j
<1>4. \A p \in Requests :
        \/ job'[p] = job[p]
        \/ job'[p].row.exists /\ (job'[p].kind = "spend" => job'[p].amount <= job'[p].row.balance)
  BY <1>1, <1>2
<1> QED
  BY <1>3, <1>4, RowKept

\* What is saved is the row of somebody who has one.
LEMMA RowUpdate ==
  ASSUME TypeOK, RowInv, NEW q \in Requests, UpdateBalance(q)
  PROVE  RowInv'
<1> DEFINE j == job[q]
<1>1. j \in CoinJobs /\ j.row.exists /\ (j.kind = "spend" => j.amount <= j.row.balance)
  BY JobTyped DEF UpdateBalance, RowInv
<1>2. job' = [job EXCEPT ![q] = [j EXCEPT !.step = "saved"]]
      /\ reward' = [reward EXCEPT ![j.user] = Changed(j.row, j.kind, j.amount)]
  BY DEF UpdateBalance
<1> HIDE DEF j
<1>3. j.user \in Users /\ j.row \in Row /\ j.amount \in Nat /\ [j EXCEPT !.step = "saved"].step = "saved"
  BY <1>1 DEF CoinJobs
<1>4. Changed(j.row, j.kind, j.amount).exists
  BY <1>1, <1>3, ChangedTyped
<1>5. \A v \in Users : reward'[v] = reward[v] \/ reward'[v].exists
  BY <1>2, <1>3, <1>4 DEF TypeOK
<1>6. \A p \in Requests : job'[p] = job[p] \/ job'[p].step # "read"
  BY <1>2, <1>3, JobElse
<1> QED
  BY <1>5, <1>6, RowKept

\* Who is paid has a row.
LEMMA RowGrant ==
  ASSUME TypeOK, Constants, NEW u \in Users, NEW ref \in Referral, Grant(u, ref), ref.by # u
  PROVE  \A v \in Users : reward'[v] = reward[v] \/ reward'[v].exists
<1>1. CASE Payable(ref)
  <2>1. ASSUME NEW v \in Users
        PROVE  Credited(Got(v), Joined).exists /\ Credited(Got(v), Invited).exists
    BY GotTyped, CreditedTyped DEF Constants
  <2> QED
    BY <1>1, <2>1, GrantPays
<1>2. CASE ~Payable(ref)
  BY <1>2 DEF Grant
<1> QED
  BY <1>1, <1>2

\* Every step keeps RowInv.
LEMMA RowStep ==
  ASSUME TypeOK, RowInv, LockInv, Constants, Next
  PROVE  RowInv'
<1>1. CASE NewDay
  BY <1>1, RowKept DEF NewDay
<1>2. ASSUME NEW u \in Users, LoseWelcome(u)
      PROVE  RowInv'
  <2>1. \A v \in Users : reward'[v] = reward[v] \/ reward'[v].exists
    BY <1>2 DEF LoseWelcome, TypeOK, NewRow, NoRow
  <2> QED
    BY <1>2, <2>1, RowKept DEF LoseWelcome
<1>3. ASSUME NEW u \in Users, Verify(u)
      PROVE  RowInv'
  <2>1. \A v \in Users : reward'[v] = reward[v] \/ reward'[v].exists
    BY <1>3, VerifyTyped, RowGrant DEF Verify
  <2> QED
    BY <1>3, <2>1, RowKept DEF Verify
<1>4. ASSUME NEW u \in Users, CloseWindow(u)
      PROVE  RowInv'
  BY <1>4, RowKept DEF CloseWindow, coins
<1>5. ASSUME NEW q \in Requests, CreateTransaction(q) \/ Drop(q)
      PROVE  RowInv'
  <2>1. \A p \in Requests : job'[p] = job[p] \/ job'[p].step # "read"
    BY <1>5, JobElse DEF CreateTransaction, Drop, Idle
  <2> QED
    BY <1>5, <2>1, RowKept DEF CreateTransaction, Drop
<1>6. ASSUME NEW q \in Requests, FinishApply(q)
      PROVE  RowInv'
  <2>1. \A p \in Requests : job'[p] = job[p] \/ job'[p].step # "read"
    BY <1>6, JobElse DEF FinishApply, Idle
  <2>2. \A v \in Users : reward'[v] = reward[v] \/ reward'[v].exists
    BY <1>6, ApplyTyped, RowGrant DEF FinishApply
  <2> QED
    BY <2>1, <2>2, RowKept
<1>7. ASSUME NEW q \in Requests, NEW u \in Users, Earn(q, u) \/ DailyLogin(q, u)
      PROVE  RowInv'
  BY <1>7, RowBegin DEF Earn, DailyLogin
<1>8. ASSUME NEW q \in Requests, NEW u \in Users, NEW cost \in Costs, Spend(q, u, cost)
      PROVE  RowInv'
  BY <1>8, RowBegin DEF Spend
<1>9. ASSUME NEW q \in Requests, NEW u \in Users, OpenInvite(q, u)
      PROVE  RowInv'
  <2>1. \A p \in Requests : job'[p] = job[p] \/ job'[p].step # "read"
    BY <1>9, JobElse DEF OpenInvite
  <2> QED
    BY <1>9, <2>1, RowKept DEF OpenInvite, coins
<1>10. ASSUME NEW q \in Requests, NEW u \in Users, NEW c \in Codes, StartApply(q, u, c)
       PROVE  RowInv'
  <2>1. \A p \in Requests : job'[p] = job[p] \/ job'[p].step # "read"
    BY <1>10, JobElse DEF StartApply
  <2> QED
    BY <1>10, <2>1, RowKept DEF StartApply, coins
<1>11. ASSUME NEW q \in Requests, NEW c \in Codes, IssueCode(q, c)
       PROVE  RowInv'
  <2>1. \A p \in Requests : job'[p] = job[p] \/ job'[p].step # "read"
    BY <1>11, JobElse DEF IssueCode, Idle
  <2> QED
    BY <1>11, <2>1, RowKept DEF IssueCode, coins
<1>12. ASSUME NEW q \in Requests, SaveUser(q)
       PROVE  RowInv'
  <2>1. \A p \in Requests : job'[p] = job[p] \/ job'[p].step # "read"
    BY <1>12, JobElse DEF SaveUser, Idle
  <2> QED
    BY <1>12, <2>1, RowKept DEF SaveUser, coins
<1>13. ASSUME NEW q \in Requests, NEW u \in Users, NEW verified \in BOOLEAN, NEW c \in Codes \cup {NoCode},
              StartSave(q, u, verified, c)
       PROVE  RowInv'
  <2>1. \A p \in Requests : job'[p] = job[p] \/ job'[p].step # "read"
    BY <1>13, JobElse DEF StartSave
  <2> QED
    BY <1>13, <2>1, RowKept DEF StartSave, coins
<1> QED
  BY <1>1, <1>2, <1>3, <1>4, <1>5, <1>6, <1>7, <1>8, <1>9, <1>10, <1>11, <1>12, <1>13, RowUpdate DEF Next

\* What a step does to referrers and applications that keeps LockInv.
LEMMA LockKept ==
  ASSUME LockInv,
         \A v \in Users : referral'[v].by = referral[v].by,
         TypeOK,
         \A p \in Requests : job'[p] = job[p] \/ job'[p].step \notin {"applying", "saving"}
  PROVE  LockInv'
<1>1. \A v \in Users : referral'[v].by # v
  BY DEF LockInv
<1>2. ASSUME NEW q \in Requests, job'[q].step = "applying"
      PROVE  /\ referral'[job'[q].user].by = Nobody /\ job'[q].referrer # job'[q].user
             /\ \A p \in Requests : job'[p].step = "applying" /\ job'[p].user = job'[q].user => p = q
  <2>1. job'[q] = job[q] /\ job[q].user \in Users
    BY <1>2, JobTyped DEF ApplyJobs
  <2> QED
    BY <1>2, <2>1 DEF LockInv
<1>3. \A q \in Requests : job'[q].step = "saving" => job'[q].row.by # job'[q].user
  BY DEF LockInv
<1> QED
  BY <1>1, <1>2, <1>3 DEF LockInv

\* The end of an application gives a referrer to the one user it locked, who
\* had none.
LEMMA LockFinish ==
  ASSUME TypeOK, LockInv, Constants, NEW q \in Requests, FinishApply(q)
  PROVE  /\ LockInv'
         /\ \E u \in Users : \E r \in Users \ {u} :
            /\ referral[u].by = Nobody /\ u = job[q].user /\ r = job[q].referrer
            /\ referral'[u].by = r /\ \A v \in Users \ {u} : referral'[v] = referral[v]
<1> DEFINE u == job[q].user
           r == job[q].referrer
           ref == [referral[u] EXCEPT !.by = r]
<1>1. u \in Users /\ r \in Users /\ r # u /\ ref \in Referral /\ ref.by = r /\ referral[u].by = Nobody
  BY ApplyTyped DEF FinishApply
<1>2. IF ref.verified THEN Grant(u, ref) ELSE referral' = [referral EXCEPT ![u] = ref]
  BY DEF FinishApply
<1>3. job' = [job EXCEPT ![q] = Idle] /\ job[q].step = "applying"
  BY DEF FinishApply
<1>4. \A p \in Requests \ {q} : job[p].step = "applying" => job[p].user # u
  BY <1>3 DEF LockInv
<1>5. u = job[q].user /\ r = job[q].referrer
  OBVIOUS
<1> HIDE DEF u, r, ref
<1>6. referral' \in {[referral EXCEPT ![u] = ref], [referral EXCEPT ![u] = [ref EXCEPT !.rewarded = TRUE]]}
  BY <1>2 DEF Grant
<1>7. [ref EXCEPT !.rewarded = TRUE].by = r
  BY <1>1 DEF Referral
<1>8. referral'[u].by = r /\ \A v \in Users \ {u} : referral'[v] = referral[v]
  BY <1>1, <1>6, <1>7 DEF TypeOK
<1>9. job'[q].step \notin {"applying", "saving"} /\ \A p \in Requests \ {q} : job'[p] = job[p]
  <2>1. job'[q] = Idle /\ \A p \in Requests \ {q} : job'[p] = job[p]
    BY <1>3, JobElse
  <2> QED
    BY <2>1 DEF Idle
<1>10. \A v \in Users : referral'[v].by # v
  BY <1>1, <1>8 DEF LockInv
<1>11. ASSUME NEW o \in Requests, job'[o].step = "applying"
       PROVE  /\ referral'[job'[o].user].by = Nobody /\ job'[o].referrer # job'[o].user
              /\ \A p \in Requests : job'[p].step = "applying" /\ job'[p].user = job'[o].user => p = o
  <2>1. o # q /\ job'[o] = job[o] /\ job[o].user \in Users
    BY <1>9, <1>11, JobTyped DEF ApplyJobs
  <2>2. job[o].user # u
    BY <1>4, <1>11, <2>1
  <2>3. referral'[job'[o].user].by = Nobody /\ job'[o].referrer # job'[o].user
    BY <1>8, <1>11, <2>1, <2>2 DEF LockInv
  <2>4. \A p \in Requests : job'[p].step = "applying" /\ job'[p].user = job'[o].user => p = o
    BY <1>9, <1>11, <2>1 DEF LockInv
  <2> QED
    BY <2>3, <2>4
<1>12. \A p \in Requests : job'[p].step = "saving" => job'[p].row.by # job'[p].user
  BY <1>9 DEF LockInv
<1> QED
  BY <1>1, <1>5, <1>8, <1>10, <1>11, <1>12 DEF LockInv

\* An application starts for a user who is not locked and has no referrer.
LEMMA LockStart ==
  ASSUME TypeOK, LockInv, NEW q \in Requests, NEW u \in Users, NEW c \in Codes, StartApply(q, u, c)
  PROVE  LockInv'
<1>1. PICK r \in Users \ {u} : job' = [job EXCEPT ![q] = [step |-> "applying", user |-> u, referrer |-> r]]
  BY DEF StartApply
<1> DEFINE j == [step |-> "applying", user |-> u, referrer |-> r]
<1>2. job'[q] = j /\ \A p \in Requests \ {q} : job'[p] = job[p]
  BY <1>1, JobElse
<1>3. j.step = "applying" /\ j.user = u /\ j.referrer = r
  OBVIOUS
<1> HIDE DEF j
<1>4. /\ referral' = referral /\ referral[u].by = Nobody
      /\ \A p \in Requests : job[p].step = "applying" => job[p].user # u
  BY DEF StartApply, invites, Locked
<1>5. ASSUME NEW o \in Requests, job'[o].step = "applying"
      PROVE  /\ referral'[job'[o].user].by = Nobody /\ job'[o].referrer # job'[o].user
             /\ \A p \in Requests : job'[p].step = "applying" /\ job'[p].user = job'[o].user => p = o
  <2>1. CASE o = q
    BY <1>2, <1>3, <1>4, <2>1
  <2>2. CASE o # q
    BY <1>2, <1>3, <1>4, <1>5, <2>2 DEF LockInv
  <2> QED
    BY <2>1, <2>2
<1>6. \A v \in Users : referral'[v].by # v
  BY <1>4 DEF LockInv
<1>7. \A p \in Requests : job'[p].step = "saving" => job'[p].row.by # job'[p].user
  BY <1>2, <1>3 DEF LockInv
<1> QED
  BY <1>5, <1>6, <1>7 DEF LockInv

\* A request that loads a row has nobody in it who refers himself ...
LEMMA LockLoad ==
  ASSUME TypeOK, LockInv, NEW q \in Requests, NEW u \in Users, NEW verified, NEW c, StartSave(q, u, verified, c)
  PROVE  LockInv'
<1> DEFINE j == [step |-> "saving", user |-> u, code |-> c, row |-> [referral[u] EXCEPT !.verified = verified]]
<1>1. job'[q] = j /\ \A p \in Requests \ {q} : job'[p] = job[p]
  BY JobElse DEF StartSave
<1>2. [referral[u] EXCEPT !.verified = verified].by = referral[u].by
  BY DEF TypeOK, Referral
<1>3. j.step = "saving" /\ j.user = u /\ j.row.by # u
  BY <1>2 DEF LockInv
<1> HIDE DEF j
<1>4. referral' = referral
  BY DEF StartSave, invites
<1>5. \A p \in Requests : job'[p].step = "applying" => p # q /\ job'[p] = job[p]
  BY <1>1, <1>3
<1>6. \A p \in Requests : job'[p].step = "saving" => job'[p].row.by # job'[p].user
  BY <1>1, <1>3 DEF LockInv
<1> QED
  BY <1>4, <1>5, <1>6 DEF LockInv

\* ... nor when it saves it, of a user nobody has locked.
LEMMA LockSave ==
  ASSUME TypeOK, LockInv, NEW q \in Requests, SaveUser(q)
  PROVE  LockInv'
<1> DEFINE u == job[q].user
           row == [job[q].row EXCEPT !.young = referral[u].young]
<1>1. /\ u \in Users /\ row.by = job[q].row.by /\ referral' = [referral EXCEPT ![u] = row]
      /\ \A p \in Requests : job[p].step = "applying" => job[p].user # u
  BY SaveTyped
<1>2. job[q].row.by # u
  BY DEF LockInv, SaveUser
<1>3. job'[q] = Idle /\ \A p \in Requests \ {q} : job'[p] = job[p]
  BY JobElse DEF SaveUser
<1> HIDE DEF u, row
<1>4. referral'[u].by # u /\ \A v \in Users \ {u} : referral'[v] = referral[v]
  BY <1>1, <1>2 DEF TypeOK
<1>5. \A v \in Users : referral'[v].by # v
  BY <1>4 DEF LockInv
<1>6. \A p \in Requests : job'[p].step \in {"applying", "saving"} => p # q /\ job'[p] = job[p]
  BY <1>3 DEF Idle
<1>7. \A p \in Requests : job'[p].step = "saving" => job'[p].row.by # job'[p].user
  BY <1>6 DEF LockInv
<1>8. ASSUME NEW p \in Requests, job'[p].step = "applying"
      PROVE  referral'[job'[p].user] = referral[job[p].user]
  <2>1. job'[p] = job[p] /\ job[p].user \in Users /\ job[p].user # u
    BY <1>1, <1>6, <1>8, JobTyped DEF ApplyJobs
  <2> QED
    BY <1>4, <2>1
<1> QED
  BY <1>5, <1>6, <1>7, <1>8 DEF LockInv

\* A verification gives nobody a referrer.
LEMMA VerifyKeeps ==
  ASSUME TypeOK, LockInv, NEW u \in Users, Verify(u)
  PROVE  \A v \in Users : referral'[v].by = referral[v].by
<1> DEFINE ref == [referral[u] EXCEPT !.verified = TRUE]
<1>1. ref \in Referral /\ ref.by = referral[u].by
  BY VerifyTyped
<1>2. Grant(u, ref)
  BY DEF Verify
<1> HIDE DEF ref
<1>3. referral' \in {[referral EXCEPT ![u] = ref], [referral EXCEPT ![u] = [ref EXCEPT !.rewarded = TRUE]]}
  BY <1>2 DEF Grant
<1>4. [ref EXCEPT !.rewarded = TRUE].by = ref.by
  BY <1>1 DEF Referral
<1> QED
  BY <1>1, <1>3, <1>4 DEF TypeOK

\* Every step keeps LockInv.
LEMMA LockStep ==
  ASSUME TypeOK, RowInv, LockInv, Constants, Next
  PROVE  LockInv'
<1>1. CASE NewDay
  BY <1>1, LockKept DEF NewDay, invites
<1>2. ASSUME NEW u \in Users, LoseWelcome(u)
      PROVE  LockInv'
  BY <1>2, LockKept DEF LoseWelcome, invites
<1>3. ASSUME NEW u \in Users, Verify(u)
      PROVE  LockInv'
  BY <1>3, LockKept, VerifyKeeps DEF Verify
<1>4. ASSUME NEW u \in Users, CloseWindow(u)
      PROVE  LockInv'
  <2>1. \A v \in Users : referral'[v].by = referral[v].by
    BY <1>4 DEF CloseWindow, TypeOK
  <2> QED
    BY <1>4, <2>1, LockKept DEF CloseWindow
<1>5. ASSUME NEW q \in Requests, UpdateBalance(q)
      PROVE  LockInv'
  <2>1. job[q] \in CoinJobs
    BY <1>5, JobTyped DEF UpdateBalance
  <2>2. [job[q] EXCEPT !.step = "saved"].step = "saved"
    BY <2>1 DEF CoinJobs
  <2>3. \A p \in Requests : job'[p] = job[p] \/ job'[p].step \notin {"applying", "saving"}
    BY <1>5, <2>2, JobElse DEF UpdateBalance
  <2> QED
    BY <1>5, <2>3, LockKept DEF UpdateBalance, invites
<1>6. ASSUME NEW q \in Requests, CreateTransaction(q) \/ Drop(q)
      PROVE  LockInv'
  <2>1. \A p \in Requests : job'[p] = job[p] \/ job'[p].step \notin {"applying", "saving"}
    BY <1>6, JobElse DEF CreateTransaction, Drop, Idle
  <2> QED
    BY <1>6, <2>1, LockKept DEF CreateTransaction, Drop, invites
<1>7. ASSUME NEW q \in Requests, NEW u \in Users, NEW kind, NEW amount, Begin(q, u, kind, amount)
      PROVE  LockInv'
  <2>1. \A p \in Requests : job'[p] = job[p] \/ job'[p].step \notin {"applying", "saving"}
    BY <1>7, JobElse DEF Begin
  <2> QED
    BY <1>7, <2>1, LockKept DEF Begin, invites
<1>8. ASSUME NEW q \in Requests, NEW u \in Users,
             Earn(q, u) \/ DailyLogin(q, u) \/ \E cost \in Costs : Spend(q, u, cost)
      PROVE  LockInv'
  BY <1>7, <1>8 DEF Earn, DailyLogin, Spend
<1>9. ASSUME NEW q \in Requests, NEW u \in Users, OpenInvite(q, u)
      PROVE  LockInv'
  <2>1. \A p \in Requests : job'[p] = job[p] \/ job'[p].step \notin {"applying", "saving"}
    BY <1>9, JobElse DEF OpenInvite
  <2> QED
    BY <1>9, <2>1, LockKept DEF OpenInvite
<1>10. ASSUME NEW q \in Requests, NEW c \in Codes, IssueCode(q, c)
       PROVE  LockInv'
  <2>1. \A p \in Requests : job'[p] = job[p] \/ job'[p].step \notin {"applying", "saving"}
    BY <1>10, JobElse DEF IssueCode, Idle
  <2> QED
    BY <1>10, <2>1, LockKept DEF IssueCode
<1> QED
  BY <1>1, <1>2, <1>3, <1>4, <1>5, <1>6, <1>8, <1>9, <1>10, LockFinish, LockStart, LockLoad, LockSave DEF Next

Base == TypeOK /\ RowInv /\ LockInv

\* Types, rows and locks together are inductive.
LEMMA BaseStep ==
  ASSUME Base, Constants, [Next]_vars
  PROVE  Base'
<1>1. CASE Next
  BY <1>1, TypeStep, RowStep, LockStep DEF Base
<1>2. CASE UNCHANGED vars
  <2>1. TypeOK'
    BY <1>2 DEF Base, vars, TypeOK
  <2>2. RowInv'
    BY <1>2 DEF Base, vars, RowInv
  <2>3. LockInv'
    BY <1>2 DEF Base, vars, LockInv
  <2> QED
    BY <2>1, <2>2, <2>3 DEF Base
<1> QED
  BY <1>1, <1>2

(* Every variable keeps its type; in particular a balance never becomes       *)
(* negative, for a request saves what it made of the row it found enough in.  *)
THEOREM TypeCorrect ==
  ASSUME Constants
  PROVE  Spec => []TypeOK
<1>1. Init => Base
  BY TypeInit DEF Base
<1>2. Base /\ [Next]_vars => Base'
  BY BaseStep
<1>3. Base => TypeOK
  BY DEF Base
<1> QED
  BY <1>1, <1>2, <1>3, PTL DEF Spec

-----------------------------------------------------------------------------
(* Codes and who refers whom *)

\* A step that writes no code and gives nobody a referrer.
LEMMA InvitesKept ==
  ASSUME InvitesAgree, UNCHANGED <<code, shown, crossed, resaved>>,
         \A v \in Users : referral'[v].by = referral[v].by
  PROVE  InvitesAgree'
BY DEF InvitesAgree

\* A code is stored where none is, and shown as it is stored.
LEMMA InvitesIssue ==
  ASSUME Base, Constants, InvitesAgree, NEW q \in Requests, NEW c \in Codes, IssueCode(q, c)
  PROVE  InvitesAgree'
<1> DEFINE u == job[q].user
<1>1. u \in Users
  BY JobTyped DEF Base, IssueCode, IssueJobs
<1>2. /\ \A v \in Users : code[v] # c
      /\ code' = [code EXCEPT ![u] = Issued(u, c)]
      /\ shown' = [shown EXCEPT ![u] = shown[u] \cup {Issued(u, c)}]
      /\ UNCHANGED <<referral, crossed, resaved>>
  BY DEF IssueCode, Base, TypeOK
<1> HIDE DEF u
<1>3. /\ u \notin resaved => shown[u] \subseteq {code[u]}
      /\ shown[u] \subseteq Codes /\ NoCode \notin Codes
  BY <1>1 DEF InvitesAgree, Base, TypeOK, Constants
<1>4. u \notin resaved => shown[u] \subseteq {Issued(u, c)}
  BY <1>3 DEF Issued
<1>5. \A v \in Users : code'[v] = (IF v = u THEN Issued(u, c) ELSE code[v])
  BY <1>1, <1>2 DEF Base, TypeOK
<1>6. \A v, w \in Users : v # w => code'[v] = NoCode \/ code'[v] # code'[w]
  BY <1>1, <1>2, <1>5 DEF InvitesAgree, Issued
<1>7. \A v \in Users \ resaved : shown'[v] \subseteq {code'[v]}
  BY <1>1, <1>2, <1>4, <1>5 DEF InvitesAgree, Base, TypeOK
<1>8. ~crossed' /\ resaved = {} => \A v, w \in Users : ~(v # w /\ referral'[v].by = w /\ referral'[w].by = v)
  BY <1>2 DEF InvitesAgree
<1> QED
  BY <1>2, <1>6, <1>7, <1>8 DEF InvitesAgree

\* Two who refer each other applied at the same time.
LEMMA InvitesFinish ==
  ASSUME Base, Constants, InvitesAgree, NEW q \in Requests, FinishApply(q)
  PROVE  InvitesAgree'
<1>1. PICK u \in Users, r \in Users :
        /\ r # u /\ u = job[q].user /\ r = job[q].referrer
        /\ referral'[u].by = r /\ \A v \in Users \ {u} : referral'[v] = referral[v]
  BY LockFinish DEF Base
<1>2. crossed' = (crossed \/ referral[r].by = u) /\ UNCHANGED <<code, shown, resaved>>
  BY <1>1 DEF FinishApply
<1>3. ASSUME ~crossed', resaved = {}, NEW v \in Users, NEW w \in Users, v # w, referral'[v].by = w, referral'[w].by = v
      PROVE  FALSE
  <2>1. ~crossed /\ referral[r].by # u
    BY <1>2, <1>3
  <2>2. CASE v = u
    BY <1>1, <1>3, <2>1, <2>2
  <2>3. CASE w = u
    BY <1>1, <1>3, <2>1, <2>3
  <2>4. CASE v # u /\ w # u
    BY <1>1, <1>3, <2>1, <2>4 DEF InvitesAgree
  <2> QED
    BY <2>2, <2>3, <2>4
<1>4. \A v, w \in Users : v # w => code'[v] = NoCode \/ code'[v] # code'[w]
  BY <1>2 DEF InvitesAgree
<1>5. \A v \in Users \ resaved : shown'[v] \subseteq {code'[v]}
  BY <1>2 DEF InvitesAgree
<1> QED
  BY <1>2, <1>3, <1>4, <1>5 DEF InvitesAgree

\* A code that is shown is the one that is stored.
LEMMA InvitesOpen ==
  ASSUME Base, InvitesAgree, NEW q \in Requests, NEW u \in Users, OpenInvite(q, u)
  PROVE  InvitesAgree'
<1>1. \A v \in Users \ resaved : shown'[v] \subseteq {code[v]}
  <2>1. shown' = shown \/ shown' = [shown EXCEPT ![u] = shown[u] \cup {code[u]}]
    BY DEF OpenInvite
  <2>2. \A v \in Users \ resaved : shown[v] \subseteq {code[v]}
    BY DEF InvitesAgree
  <2>3. DOMAIN shown = Users
    BY DEF Base, TypeOK
  <2>4. CASE shown' = shown
    BY <2>2, <2>4
  <2>5. CASE shown' = [shown EXCEPT ![u] = shown[u] \cup {code[u]}]
    <3>1. \A v \in Users : shown'[v] = (IF v = u THEN shown[u] \cup {code[u]} ELSE shown[v])
      BY <2>3, <2>5
    <3> QED
      BY <2>2, <3>1
  <2> QED
    BY <2>1, <2>4, <2>5
<1>2. code' = code /\ referral' = referral /\ crossed' = crossed /\ resaved' = resaved
  BY DEF OpenInvite
<1> QED
  BY <1>1, <1>2 DEF InvitesAgree

\* A save gives no user the code of another, and is remembered if it changed
\* anything.
LEMMA InvitesSave ==
  ASSUME Base, Constants, InvitesAgree, NEW q \in Requests, SaveUser(q)
  PROVE  InvitesAgree'
<1> DEFINE u == job[q].user
           row == [job[q].row EXCEPT !.young = referral[u].young]
           c == job[q].code
<1>1. /\ u \in Users /\ row \in Referral
      /\ c = NoCode \/ \A v \in Users \ {u} : code[v] # c
      /\ referral' = [referral EXCEPT ![u] = row] /\ code' = [code EXCEPT ![u] = c]
      /\ resaved' = IF referral[u] = row /\ code[u] = c THEN resaved ELSE resaved \cup {u}
  BY SaveTyped DEF Base
<1>2. UNCHANGED <<shown, crossed>>
  BY DEF SaveUser
<1> HIDE DEF u, row, c
<1>3. code'[u] = c /\ \A v \in Users \ {u} : code'[v] = code[v]
  BY <1>1 DEF Base, TypeOK
<1>4. \A v, w \in Users : v # w => code'[v] = NoCode \/ code'[v] # code'[w]
  BY <1>1, <1>3 DEF InvitesAgree
<1>5. \A v \in Users \ resaved' : v \notin resaved /\ code'[v] = code[v]
  BY <1>1, <1>3
<1>6. \A v \in Users \ resaved' : shown'[v] \subseteq {code'[v]}
  BY <1>2, <1>5 DEF InvitesAgree
<1>7. resaved' = {} => resaved = {} /\ referral' = referral
  BY <1>1 DEF Base, TypeOK
<1>8. ~crossed' /\ resaved' = {} => \A v, w \in Users : ~(v # w /\ referral'[v].by = w /\ referral'[w].by = v)
  BY <1>2, <1>7 DEF InvitesAgree
<1> QED
  BY <1>4, <1>6, <1>8 DEF InvitesAgree

\* Every step keeps InvitesAgree.
LEMMA InvitesStep ==
  ASSUME Base, Constants, InvitesAgree, Next
  PROVE  InvitesAgree'
<1>1. ASSUME UNCHANGED invites
      PROVE  InvitesAgree'
  BY <1>1, InvitesKept DEF invites
<1>2. ASSUME NEW u \in Users, Verify(u)
      PROVE  InvitesAgree'
  BY <1>2, VerifyKeeps, InvitesKept DEF Verify, Base
<1>3. ASSUME NEW u \in Users, CloseWindow(u)
      PROVE  InvitesAgree'
  <2>1. \A v \in Users : referral'[v].by = referral[v].by
    BY <1>3 DEF CloseWindow, Base, TypeOK
  <2> QED
    BY <1>3, <2>1, InvitesKept DEF CloseWindow
<1>4. ASSUME NEW u \in Users, LoseWelcome(u)
      PROVE  InvitesAgree'
  BY <1>1, <1>4 DEF LoseWelcome
<1>5. ASSUME NEW q \in Requests, UpdateBalance(q) \/ CreateTransaction(q) \/ Drop(q)
      PROVE  InvitesAgree'
  BY <1>1, <1>5 DEF UpdateBalance, CreateTransaction, Drop
<1>6. ASSUME NEW q \in Requests, NEW u \in Users,
             \/ Earn(q, u) \/ DailyLogin(q, u) \/ \E cost \in Costs : Spend(q, u, cost)
             \/ \E c \in Codes : StartApply(q, u, c)
             \/ \E verified \in BOOLEAN, c \in Codes \cup {NoCode} : StartSave(q, u, verified, c)
      PROVE  InvitesAgree'
  BY <1>1, <1>6 DEF Earn, DailyLogin, Spend, Begin, StartApply, StartSave
<1> QED
  BY <1>1, <1>2, <1>3, <1>4, <1>5, <1>6, InvitesIssue, InvitesFinish, InvitesOpen, InvitesSave DEF Next, NewDay

(* No two users have one code, nobody whose row no save changed is ever shown *)
(* a code that is not his, and while no save changed any, two who did not     *)
(* apply at the same time never refer each other (EnsureReferralCode and      *)
(* ApplyReferralCode of postgres/referral.go, UpdateMyUser).                  *)
THEOREM InvitesAgreeHolds ==
  ASSUME Constants
  PROVE  Spec => []InvitesAgree
<1>1. Init => Base /\ InvitesAgree
  <2>1. ASSUME Init
        PROVE  InvitesAgree
    BY <2>1 DEF Init, Applied, InvitesAgree, Constants
  <2> QED
    BY <2>1, TypeInit DEF Base
<1>2. Base /\ InvitesAgree /\ [Next]_vars => (Base /\ InvitesAgree)'
  <2>1. ASSUME InvitesAgree, UNCHANGED vars
        PROVE  InvitesAgree'
    BY <2>1 DEF vars, InvitesAgree
  <2> QED
    BY <2>1, BaseStep, InvitesStep
<1> QED
  BY <1>1, <1>2, PTL DEF Spec

-----------------------------------------------------------------------------
(* Referrals are paid once *)

Referees(u) == {v \in Users : referral[v].by = u /\ referral[v].rewarded}
Rewarded == {v \in Users : referral[v].rewarded}
Payouts == [v \in Users |-> log[v]["invited"] + log[v]["joined"]]
RewardedRight == \A v \in Users \ resaved : referral[v].rewarded <=> referral[v].by # Nobody /\ referral[v].verified

\* ReferralsPaidOnce in the terms of the proof.
LEMMA PaidParts ==
  ReferralsPaidOnce <=>
    /\ RewardedRight
    /\ resaved = {} =>
        /\ \A u \in Users : log[u]["invited"] = Invited * Cardinality(Referees(u))
        /\ Sum(Payouts, Users) = (Invited + Joined) * Cardinality(Rewarded)
BY DEF ReferralsPaidOnce, PointsEarned, VerifiedCount, Totals, Referees, Rewarded, Payouts, RewardedRight

\* A step that pays nobody.
LEMMA PaidKept ==
  ASSUME Base, Constants, ReferralsPaidOnce, resaved = {}, RewardedRight',
         \A v \in Users : log'[v]["invited"] = log[v]["invited"] /\ log'[v]["joined"] = log[v]["joined"],
         \A v \in Users : referral'[v].rewarded <=> referral[v].rewarded,
         \A v \in Users : referral[v].rewarded => referral'[v].by = referral[v].by
  PROVE  ReferralsPaidOnce'
<1>1. Rewarded' = Rewarded /\ \A u \in Users : Referees(u)' = Referees(u)
  BY DEF Rewarded, Referees
<1>2. Payouts' = Payouts
  BY DEF Payouts
<1>3. /\ \A u \in Users : log[u]["invited"] = Invited * Cardinality(Referees(u))
      /\ Sum(Payouts, Users) = (Invited + Joined) * Cardinality(Rewarded)
  BY PaidParts
<1>4. \A u \in Users : log'[u]["invited"] = Invited * Cardinality(Referees(u)')
  BY <1>1, <1>3
<1>5. Sum(Payouts', Users) = (Invited + Joined) * Cardinality(Rewarded')
  BY <1>1, <1>2, <1>3
<1>6. ReferralsPaidOnce' <=>
        /\ RewardedRight'
        /\ resaved' = {} =>
            /\ \A u \in Users : log'[u]["invited"] = Invited * Cardinality(Referees(u)')
            /\ Sum(Payouts', Users) = (Invited + Joined) * Cardinality(Rewarded')
  BY DEF ReferralsPaidOnce, PointsEarned, VerifiedCount, Totals, Referees, Rewarded, Payouts, RewardedRight
<1> QED
  BY <1>4, <1>5, <1>6

\* One more referee is one more reward.
LEMMA Times ==
  ASSUME NEW a \in Nat, NEW n \in Nat
  PROVE  a * (n + 1) = a * n + a
OBVIOUS

\* A step that pays the referral of u by r.
LEMMA PaidMore ==
  ASSUME Base, Base', Constants, ReferralsPaidOnce, resaved = {}, RewardedRight',
         NEW u \in Users, NEW r \in Users, r # u,
         ~referral[u].rewarded, referral'[u].rewarded, referral'[u].by = r,
         \A v \in Users \ {u} : referral'[v] = referral[v],
         \A v \in Users : log'[v]["invited"] = (IF v = r THEN log[v]["invited"] + Invited ELSE log[v]["invited"]),
         \A v \in Users : log'[v]["joined"] = (IF v = u THEN log[v]["joined"] + Joined ELSE log[v]["joined"])
  PROVE  ReferralsPaidOnce'
<1>1. /\ \A w \in Users : log[w]["invited"] = Invited * Cardinality(Referees(w))
      /\ Sum(Payouts, Users) = (Invited + Joined) * Cardinality(Rewarded)
  BY PaidParts
<1>2. /\ IsFiniteSet(Rewarded) /\ Cardinality(Rewarded) \in Nat
      /\ \A w \in Users : IsFiniteSet(Referees(w)) /\ Cardinality(Referees(w)) \in Nat
  <2>1. Rewarded \subseteq Users /\ \A w \in Users : Referees(w) \subseteq Users
    BY DEF Rewarded, Referees
  <2>2. IsFiniteSet(Users)
    BY DEF Constants
  <2> QED
    BY <2>1, <2>2, FS_Subset, FS_CardinalityType
<1>3. Rewarded' = Rewarded \cup {u} /\ u \notin Rewarded
  BY DEF Rewarded
<1>4. Cardinality(Rewarded') = Cardinality(Rewarded) + 1
  BY <1>2, <1>3, FS_AddElement
<1>5. Referees(r)' = Referees(r) \cup {u} /\ u \notin Referees(r)
  BY DEF Referees
<1>6. Cardinality(Referees(r)') = Cardinality(Referees(r)) + 1
  BY <1>2, <1>5, FS_AddElement
<1>7. \A w \in Users \ {r} : Referees(w)' = Referees(w)
  BY DEF Referees
<1>8. \A w \in Users : log[w]["invited"] \in Nat /\ log[w]["joined"] \in Nat
  BY DEF Base, TypeOK, Kinds
<1>9. Invited \in Nat /\ Joined \in Nat /\ IsFiniteSet(Users)
  BY DEF Constants
<1>10. \A w \in Users : log'[w]["invited"] = Invited * Cardinality(Referees(w)')
  <2>1. log'[r]["invited"] = Invited * Cardinality(Referees(r)')
    BY <1>1, <1>2, <1>6, <1>9, Times
  <2>2. ASSUME NEW w \in Users \ {r}
        PROVE  log'[w]["invited"] = Invited * Cardinality(Referees(w)')
    BY <1>1, <1>7
  <2> QED
    BY <2>1, <2>2
<1>11. Sum(Payouts', Users) = Sum(Payouts, Users) + Invited + Joined
  <2> DEFINE mid == [v \in Users |-> IF v = u THEN Payouts[v] + Joined ELSE Payouts[v]]
  <2>1. \A v \in Users : Payouts[v] = log[v]["invited"] + log[v]["joined"]
    BY DEF Payouts
  <2>2. \A v \in Users : Payouts'[v] = log'[v]["invited"] + log'[v]["joined"]
    BY DEF Payouts
  <2>3. \A v \in Users : Payouts[v] \in Int
    BY <1>8, <2>1
  <2>4. /\ \A v \in Users : mid[v] \in Int
        /\ \A v \in Users \ {u} : mid[v] = Payouts[v]
        /\ mid[u] = Payouts[u] + Joined
    BY <1>9, <2>3
  <2>5. /\ Payouts'[r] = mid[r] + Invited
        /\ \A v \in Users \ {r} : Payouts'[v] = mid[v]
    BY <1>8, <1>9, <2>1, <2>2
  <2> HIDE DEF mid
  <2>6. \A v \in Users : Payouts'[v] \in Int
    BY <1>9, <2>4, <2>5
  <2>7. Sum(mid, Users) = Sum(Payouts, Users) + mid[u] - Payouts[u]
    BY <1>9, <2>3, <2>4, SumChangedAt
  <2>8. Sum(Payouts', Users) = Sum(mid, Users) + Payouts'[r] - mid[r]
    BY <1>9, <2>4, <2>5, <2>6, SumChangedAt
  <2>9. Sum(Payouts, Users) \in Int /\ Sum(mid, Users) \in Int
    BY <1>9, <2>3, <2>4, SumInt
  <2>10. mid[u] \in Int /\ Payouts[u] \in Int /\ mid[r] \in Int /\ Payouts'[r] \in Int
    BY <2>3, <2>4, <2>6
  <2> QED
    BY <1>9, <2>4, <2>5, <2>7, <2>8, <2>9, <2>10
<1>12. Sum(Payouts', Users) = (Invited + Joined) * Cardinality(Rewarded')
  <2> DEFINE a == Invited + Joined
             n == Cardinality(Rewarded)
  <2>1. a \in Nat /\ n \in Nat /\ a * (n + 1) = a * n + a
    BY <1>2, <1>9, Times
  <2> QED
    BY <1>1, <1>4, <1>9, <1>11, <2>1
<1>13. ReferralsPaidOnce' <=>
        /\ RewardedRight'
        /\ resaved' = {} =>
            /\ \A w \in Users : log'[w]["invited"] = Invited * Cardinality(Referees(w)')
            /\ Sum(Payouts', Users) = (Invited + Joined) * Cardinality(Rewarded')
  BY DEF ReferralsPaidOnce, PointsEarned, VerifiedCount, Totals, Referees, Rewarded, Payouts, RewardedRight
<1> QED
  BY <1>10, <1>12, <1>13

\* Whatever makes a user referred and verified pays once.
LEMMA PaidGrant ==
  ASSUME Base, Base', Constants, ReferralsPaidOnce, resaved = {}, resaved' = {},
         NEW u \in Users, NEW ref \in Referral, Grant(u, ref), ref.by # u, ref.verified,
         ref.rewarded <=> referral[u].rewarded, referral[u].rewarded => ref.by = referral[u].by
  PROVE  ReferralsPaidOnce'
<1>1. RewardedRight
  BY PaidParts
<1>2. CASE Payable(ref)
  <2> DEFINE new == [ref EXCEPT !.rewarded = TRUE]
  <2>1. new.rewarded /\ new.by = ref.by /\ new.verified
    BY DEF Referral
  <2>2. ref.by \in Users /\ referral' = [referral EXCEPT ![u] = new]
    BY <1>2, GrantPays DEF Base
  <2> HIDE DEF new
  <2>3. referral'[u] = new /\ \A v \in Users \ {u} : referral'[v] = referral[v]
    BY <2>2 DEF Base, TypeOK
  <2>4. ~referral[u].rewarded /\ ref.by # Nobody
    BY <1>2 DEF Payable
  <2>5. RewardedRight'
    BY <1>1, <2>1, <2>3, <2>4 DEF RewardedRight
  <2>6. log' = [v \in Users |-> IF v = u THEN [GotLog(v) EXCEPT !["joined"] = GotLog(v)["joined"] + Joined]
                                ELSE IF v = ref.by
                                     THEN [GotLog(v) EXCEPT !["invited"] = GotLog(v)["invited"] + Invited]
                                     ELSE log[v]]
    BY <1>2, GrantPays DEF Base
  <2>7. ASSUME NEW v \in Users
        PROVE  /\ log'[v]["invited"] = (IF v = ref.by THEN log[v]["invited"] + Invited ELSE log[v]["invited"])
               /\ log'[v]["joined"] = (IF v = u THEN log[v]["joined"] + Joined ELSE log[v]["joined"])
    <3>1. /\ GotLog(v) \in [Kinds -> Nat] /\ "joined" \in Kinds /\ "invited" \in Kinds
          /\ GotLog(v)["joined"] = log[v]["joined"] /\ GotLog(v)["invited"] = log[v]["invited"]
      BY GotTyped DEF Base, Kinds
    <3> QED
      BY <2>6, <3>1
  <2> QED
    BY <2>1, <2>2, <2>3, <2>4, <2>5, <2>7, PaidMore
<1>3. CASE ~Payable(ref)
  <2>1. referral' = [referral EXCEPT ![u] = ref] /\ UNCHANGED <<reward, log>>
    BY <1>3 DEF Grant
  <2>2. referral'[u] = ref /\ \A v \in Users \ {u} : referral'[v] = referral[v]
    BY <2>1 DEF Base, TypeOK
  <2>3. ref.rewarded <=> ref.by # Nobody
    BY <1>1, <1>3 DEF Payable, RewardedRight
  <2>4. RewardedRight'
    BY <1>1, <2>2, <2>3 DEF RewardedRight
  <2>5. \A v \in Users : referral'[v].rewarded <=> referral[v].rewarded
    BY <2>2
  <2>6. \A v \in Users : referral[v].rewarded => referral'[v].by = referral[v].by
    BY <2>2
  <2>7. \A v \in Users : log'[v]["invited"] = log[v]["invited"] /\ log'[v]["joined"] = log[v]["joined"]
    BY <2>1
  <2> QED
    BY <2>4, <2>5, <2>6, <2>7, PaidKept
<1> QED
  BY <1>2, <1>3

\* A code applied late pays if the user was verified before.
LEMMA PaidFinish ==
  ASSUME Base, Base', Constants, ReferralsPaidOnce, resaved = {}, resaved' = {}, NEW q \in Requests, FinishApply(q)
  PROVE  ReferralsPaidOnce'
<1> DEFINE u == job[q].user
           r == job[q].referrer
           ref == [referral[u] EXCEPT !.by = r]
<1>1. /\ u \in Users /\ r \in Users /\ r # u /\ ref \in Referral /\ ref.by = r /\ referral[u].by = Nobody
      /\ ref.rewarded = referral[u].rewarded /\ ref.verified = referral[u].verified
  BY ApplyTyped DEF FinishApply, Base
<1>2. IF ref.verified THEN Grant(u, ref) ELSE referral' = [referral EXCEPT ![u] = ref] /\ UNCHANGED <<reward, log>>
  BY DEF FinishApply
<1> HIDE DEF u, r, ref
<1>3. RewardedRight
  BY PaidParts
<1>4. ~referral[u].rewarded
  BY <1>1, <1>3 DEF RewardedRight
<1>5. CASE ref.verified
  BY <1>1, <1>2, <1>4, <1>5, PaidGrant
<1>6. CASE ~ref.verified
  <2>1. referral'[u] = ref /\ (\A v \in Users \ {u} : referral'[v] = referral[v]) /\ log' = log
    BY <1>1, <1>2, <1>6 DEF Base, TypeOK
  <2>2. RewardedRight'
    BY <1>1, <1>3, <1>4, <1>6, <2>1 DEF RewardedRight
  <2>3. \A v \in Users : referral'[v].rewarded <=> referral[v].rewarded
    BY <1>1, <2>1
  <2>4. \A v \in Users : referral[v].rewarded => referral'[v].by = referral[v].by
    BY <1>4, <2>1
  <2>5. \A v \in Users : log'[v]["invited"] = log[v]["invited"] /\ log'[v]["joined"] = log[v]["joined"]
    BY <2>1
  <2> QED
    BY <2>2, <2>3, <2>4, <2>5, PaidKept
<1> QED
  BY <1>5, <1>6

\* While no row is saved over, every step keeps ReferralsPaidOnce ...
LEMMA PaidClean ==
  ASSUME Base, Base', Constants, ReferralsPaidOnce, resaved = {}, resaved' = {}, Next
  PROVE  ReferralsPaidOnce'
<1>1. RewardedRight
  BY PaidParts
<1>2. ASSUME referral' = referral,
             \A v \in Users : log'[v]["invited"] = log[v]["invited"] /\ log'[v]["joined"] = log[v]["joined"]
      PROVE  ReferralsPaidOnce'
  <2>1. RewardedRight'
    BY <1>1, <1>2 DEF RewardedRight
  <2> QED
    BY <1>2, <2>1, PaidKept
<1>3. ASSUME referral' = referral, log' = log
      PROVE  ReferralsPaidOnce'
  BY <1>2, <1>3
<1>4. ASSUME NEW u \in Users, Verify(u)
      PROVE  ReferralsPaidOnce'
  <2> DEFINE ref == [referral[u] EXCEPT !.verified = TRUE]
  <2>1. /\ ref \in Referral /\ ref.by = referral[u].by /\ ref.by # u
        /\ ref.rewarded = referral[u].rewarded /\ ref.verified = TRUE
    BY VerifyTyped DEF Base
  <2>2. Grant(u, ref)
    BY <1>4 DEF Verify
  <2> HIDE DEF ref
  <2> QED
    BY <2>1, <2>2, PaidGrant
<1>5. ASSUME NEW u \in Users, CloseWindow(u)
      PROVE  ReferralsPaidOnce'
  <2>1. \A v \in Users : /\ referral'[v].by = referral[v].by
                         /\ referral'[v].rewarded = referral[v].rewarded
                         /\ referral'[v].verified = referral[v].verified
    BY <1>5 DEF CloseWindow, Base, TypeOK
  <2>2. RewardedRight'
    BY <1>1, <2>1 DEF RewardedRight
  <2>3. log' = log
    BY <1>5 DEF CloseWindow, coins
  <2> QED
    BY <2>1, <2>2, <2>3, PaidKept
<1>6. ASSUME NEW q \in Requests, NEW u \in Users, NEW kind, NEW amount, Begin(q, u, kind, amount)
      PROVE  ReferralsPaidOnce'
  <2>1. "invited" \in Kinds \ {"welcome"} /\ "joined" \in Kinds \ {"welcome"}
    BY DEF Kinds
  <2>2. log' = [log EXCEPT ![u] = GotLog(u)] /\ referral' = referral
    BY <1>6 DEF Begin, invites
  <2>3. \A k \in Kinds \ {"welcome"} : GotLog(u)[k] = log[u][k]
    BY GotTyped DEF Base
  <2>4. \A v \in Users : log'[v]["invited"] = log[v]["invited"] /\ log'[v]["joined"] = log[v]["joined"]
    BY <2>1, <2>2, <2>3 DEF Base, TypeOK
  <2> QED
    BY <1>2, <2>2, <2>4
<1>7. ASSUME NEW q \in Requests, NEW u \in Users,
             Earn(q, u) \/ DailyLogin(q, u) \/ \E cost \in Costs : Spend(q, u, cost)
      PROVE  ReferralsPaidOnce'
  BY <1>6, <1>7 DEF Earn, DailyLogin, Spend
<1>8. ASSUME NEW q \in Requests, CreateTransaction(q)
      PROVE  ReferralsPaidOnce'
  <2> DEFINE j == job[q]
  <2>1. j \in CoinJobs
    BY <1>8, JobTyped DEF CreateTransaction, Base
  <2>2. log' = [log EXCEPT ![j.user] = Logged(log[j.user], j.kind, j.amount)] /\ referral' = referral
    BY <1>8, <2>1 DEF CreateTransaction, Base, TypeOK, CoinJobs, invites
  <2> HIDE DEF j
  <2>3. j.user \in Users /\ j.kind \in Kinds /\ j.kind # "invited" /\ j.kind # "joined"
    BY <2>1 DEF CoinJobs, Earning, Kinds
  <2>4. \A v \in Users : log'[v]["invited"] = log[v]["invited"] /\ log'[v]["joined"] = log[v]["joined"]
    BY <2>2, <2>3 DEF Base, TypeOK, Logged, Kinds
  <2> QED
    BY <1>2, <2>2, <2>4
<1>9. ASSUME NEW u \in Users, LoseWelcome(u)
      PROVE  ReferralsPaidOnce'
  BY <1>3, <1>9 DEF LoseWelcome, invites
<1>10. ASSUME NEW q \in Requests, UpdateBalance(q) \/ Drop(q)
       PROVE  ReferralsPaidOnce'
  BY <1>3, <1>10 DEF UpdateBalance, Drop, invites
<1>11. ASSUME NEW q \in Requests, NEW u \in Users,
              \/ OpenInvite(q, u) \/ \E c \in Codes : StartApply(q, u, c)
              \/ \E verified \in BOOLEAN, c \in Codes \cup {NoCode} : StartSave(q, u, verified, c)
       PROVE  ReferralsPaidOnce'
  BY <1>3, <1>11 DEF OpenInvite, StartApply, StartSave, coins, invites
<1>12. ASSUME NEW q \in Requests, NEW c \in Codes, IssueCode(q, c)
       PROVE  ReferralsPaidOnce'
  BY <1>3, <1>12 DEF IssueCode, coins
<1>13. CASE NewDay
  BY <1>3, <1>13 DEF NewDay, invites
<1>14. ASSUME NEW q \in Requests, SaveUser(q)
       PROVE  ReferralsPaidOnce'
  <2> DEFINE u == job[q].user
             row == [job[q].row EXCEPT !.young = referral[u].young]
  <2>1. /\ u \in Users /\ referral' = [referral EXCEPT ![u] = row]
        /\ resaved' = IF referral[u] = row /\ code[u] = job[q].code THEN resaved ELSE resaved \cup {u}
    BY <1>14, SaveTyped DEF Base
  <2> HIDE DEF u, row
  <2>2. referral' = referral
    BY <2>1 DEF Base, TypeOK
  <2> QED
    BY <1>3, <1>14, <2>2 DEF SaveUser, coins
<1> QED
  BY <1>4, <1>5, <1>7, <1>8, <1>9, <1>10, <1>11, <1>12, <1>13, <1>14, PaidFinish DEF Next

\* ... a payout leaves the user paid who is referred and verified ...
LEMMA RewardedGrant ==
  ASSUME Base, Constants, RewardedRight, resaved' = resaved,
         NEW u \in Users, NEW ref \in Referral, Grant(u, ref), ref.by # u, ref.verified,
         u \notin resaved /\ ref.rewarded => ref.by # Nobody
  PROVE  RewardedRight'
<1>1. CASE Payable(ref)
  <2> DEFINE new == [ref EXCEPT !.rewarded = TRUE]
  <2>1. new.rewarded /\ new.by = ref.by /\ new.verified /\ ref.by # Nobody
    BY <1>1 DEF Referral, Payable
  <2>2. referral' = [referral EXCEPT ![u] = new]
    BY <1>1, GrantPays DEF Base
  <2> HIDE DEF new
  <2>3. referral'[u] = new /\ \A v \in Users \ {u} : referral'[v] = referral[v]
    BY <2>2 DEF Base, TypeOK
  <2> QED
    BY <2>1, <2>3 DEF RewardedRight
<1>2. CASE ~Payable(ref)
  <2>1. referral'[u] = ref /\ \A v \in Users \ {u} : referral'[v] = referral[v]
    BY <1>2 DEF Grant, Base, TypeOK
  <2>2. u \notin resaved => (ref.rewarded <=> ref.by # Nobody)
    BY <1>2 DEF Payable
  <2> QED
    BY <2>1, <2>2 DEF RewardedRight
<1> QED
  BY <1>1, <1>2

\* ... and no step but a save leaves a user otherwise.
LEMMA RewardedStep ==
  ASSUME Base, Constants, RewardedRight, Next
  PROVE  RewardedRight'
<1>1. ASSUME referral' = referral, resaved' = resaved
      PROVE  RewardedRight'
  BY <1>1 DEF RewardedRight
<1>2. ASSUME UNCHANGED invites
      PROVE  RewardedRight'
  BY <1>1, <1>2 DEF invites
<1>3. ASSUME NEW u \in Users, Verify(u)
      PROVE  RewardedRight'
  <2> DEFINE ref == [referral[u] EXCEPT !.verified = TRUE]
  <2>1. /\ ref \in Referral /\ ref.by = referral[u].by /\ ref.by # u
        /\ ref.rewarded = referral[u].rewarded /\ ref.verified = TRUE
    BY VerifyTyped DEF Base
  <2>2. Grant(u, ref) /\ resaved' = resaved
    BY <1>3 DEF Verify
  <2> HIDE DEF ref
  <2>3. u \notin resaved /\ ref.rewarded => ref.by # Nobody
    BY <2>1 DEF RewardedRight
  <2> QED
    BY <2>1, <2>2, <2>3, RewardedGrant
<1>4. ASSUME NEW u \in Users, CloseWindow(u)
      PROVE  RewardedRight'
  <2>1. \A v \in Users : /\ referral'[v].by = referral[v].by
                         /\ referral'[v].rewarded = referral[v].rewarded
                         /\ referral'[v].verified = referral[v].verified
    BY <1>4 DEF CloseWindow, Base, TypeOK
  <2>2. resaved' = resaved
    BY <1>4 DEF CloseWindow
  <2> QED
    BY <2>1, <2>2 DEF RewardedRight
<1>5. ASSUME NEW q \in Requests, FinishApply(q)
      PROVE  RewardedRight'
  <2> DEFINE u == job[q].user
             r == job[q].referrer
             ref == [referral[u] EXCEPT !.by = r]
  <2>1. /\ u \in Users /\ r \in Users /\ r # u /\ ref \in Referral /\ ref.by = r /\ referral[u].by = Nobody
        /\ ref.rewarded = referral[u].rewarded /\ ref.verified = referral[u].verified
    BY <1>5, ApplyTyped DEF FinishApply, Base
  <2>2. /\ IF ref.verified THEN Grant(u, ref) ELSE referral' = [referral EXCEPT ![u] = ref]
        /\ resaved' = resaved
    BY <1>5 DEF FinishApply
  <2> HIDE DEF u, r, ref
  <2>3. CASE ref.verified
    <3>1. ref.by # Nobody /\ ref.by # u
      BY <2>1 DEF Constants
    <3> QED
      BY <2>1, <2>2, <2>3, <3>1, RewardedGrant
  <2>4. CASE ~ref.verified
    <3>1. referral'[u] = ref /\ \A v \in Users \ {u} : referral'[v] = referral[v]
      BY <2>1, <2>2, <2>4 DEF Base, TypeOK
    <3>2. u \notin resaved => ~ref.rewarded
      BY <2>1 DEF RewardedRight
    <3> QED
      BY <2>1, <2>2, <2>4, <3>1, <3>2 DEF RewardedRight
  <2> QED
    BY <2>3, <2>4
<1>6. ASSUME NEW q \in Requests, SaveUser(q)
      PROVE  RewardedRight'
  <2> DEFINE u == job[q].user
             row == [job[q].row EXCEPT !.young = referral[u].young]
  <2>1. /\ u \in Users /\ referral' = [referral EXCEPT ![u] = row]
        /\ resaved' = IF referral[u] = row /\ code[u] = job[q].code THEN resaved ELSE resaved \cup {u}
    BY <1>6, SaveTyped DEF Base
  <2> HIDE DEF u, row
  <2>2. \A v \in Users \ resaved' : v \notin resaved /\ referral'[v] = referral[v]
    BY <2>1 DEF Base, TypeOK
  <2> QED
    BY <2>2 DEF RewardedRight
<1>7. ASSUME NEW u \in Users, LoseWelcome(u)
      PROVE  RewardedRight'
  BY <1>2, <1>7 DEF LoseWelcome
<1>8. ASSUME NEW q \in Requests, UpdateBalance(q) \/ CreateTransaction(q) \/ Drop(q)
      PROVE  RewardedRight'
  BY <1>2, <1>8 DEF UpdateBalance, CreateTransaction, Drop
<1>9. ASSUME NEW q \in Requests, NEW u \in Users,
             \/ Earn(q, u) \/ DailyLogin(q, u) \/ \E cost \in Costs : Spend(q, u, cost)
             \/ \E c \in Codes : StartApply(q, u, c)
             \/ \E verified \in BOOLEAN, c \in Codes \cup {NoCode} : StartSave(q, u, verified, c)
      PROVE  RewardedRight'
  BY <1>2, <1>9 DEF Earn, DailyLogin, Spend, Begin, StartApply, StartSave
<1>10. ASSUME NEW q \in Requests, NEW u \in Users, OpenInvite(q, u)
       PROVE  RewardedRight'
  BY <1>1, <1>10 DEF OpenInvite
<1>11. ASSUME NEW q \in Requests, NEW c \in Codes, IssueCode(q, c)
       PROVE  RewardedRight'
  BY <1>1, <1>11 DEF IssueCode
<1> QED
  BY <1>2, <1>3, <1>4, <1>5, <1>6, <1>7, <1>8, <1>9, <1>10, <1>11 DEF Next, NewDay

\* A row that was saved over stays so.
LEMMA ResavedGrows ==
  ASSUME Base, Next
  PROVE  resaved \subseteq resaved'
<1>1. ASSUME NEW q \in Requests, SaveUser(q)
      PROVE  resaved \subseteq resaved'
  BY <1>1, SaveTyped DEF Base
<1>2. ASSUME NEW u \in Users, LoseWelcome(u) \/ Verify(u) \/ CloseWindow(u)
      PROVE  resaved \subseteq resaved'
  BY <1>2 DEF LoseWelcome, Verify, CloseWindow, invites
<1>3. ASSUME NEW q \in Requests, UpdateBalance(q) \/ CreateTransaction(q) \/ Drop(q) \/ FinishApply(q)
      PROVE  resaved \subseteq resaved'
  BY <1>3 DEF UpdateBalance, CreateTransaction, Drop, FinishApply, invites
<1>4. ASSUME NEW q \in Requests, NEW u \in Users,
             \/ Earn(q, u) \/ DailyLogin(q, u) \/ OpenInvite(q, u)
             \/ \E cost \in Costs : Spend(q, u, cost)
             \/ \E c \in Codes : StartApply(q, u, c)
             \/ \E verified \in BOOLEAN, c \in Codes \cup {NoCode} : StartSave(q, u, verified, c)
      PROVE  resaved \subseteq resaved'
  BY <1>4 DEF Earn, DailyLogin, Spend, Begin, OpenInvite, StartApply, StartSave, invites
<1>5. ASSUME NEW q \in Requests, NEW c \in Codes, IssueCode(q, c)
      PROVE  resaved \subseteq resaved'
  BY <1>5 DEF IssueCode
<1>6. CASE NewDay
  BY <1>6 DEF NewDay, invites
<1> QED
  BY <1>1, <1>2, <1>3, <1>4, <1>5, <1>6 DEF Next

\* Every step keeps ReferralsPaidOnce.
LEMMA PaidStep ==
  ASSUME Base, Base', Constants, ReferralsPaidOnce, Next
  PROVE  ReferralsPaidOnce'
<1>1. RewardedRight'
  BY PaidParts, RewardedStep
<1>2. CASE resaved' = {}
  BY <1>2, PaidClean, ResavedGrows
<1>3. CASE resaved' # {}
  BY <1>1, <1>3 DEF ReferralsPaidOnce, RewardedRight
<1> QED
  BY <1>2, <1>3

(* Whichever of the two verification paths and the late application of a code *)
(* runs, and however often, a user whose row no save changed is paid for      *)
(* exactly when he is referred and verified, and while no save changed any,   *)
(* a referral is paid once and the totals of the two screens are what was     *)
(* paid (GrantReferralReward, GetReferralSummary, GetReferralAdminStats,      *)
(* UpdateMyUser).                                                             *)
THEOREM ReferralsPaidOnceHolds ==
  ASSUME Constants
  PROVE  Spec => []ReferralsPaidOnce
<1>1. Init => Base /\ ReferralsPaidOnce
  <2>1. ASSUME Init
        PROVE  ReferralsPaidOnce
    <3>1. \A u \in Users : ~referral[u].rewarded /\ referral[u].by = Nobody
      BY <2>1 DEF Init, Applied
    <3>2. Rewarded = {} /\ \A u \in Users : Referees(u) = {}
      BY <3>1 DEF Rewarded, Referees
    <3>3. \A u \in Users : log[u]["invited"] = 0 /\ log[u]["joined"] = 0
      BY <2>1 DEF Init, Applied, Kinds
    <3>4. \A u \in Users : Payouts[u] = 0
      BY <3>3 DEF Payouts
    <3>5. Sum(Payouts, Users) = 0
      BY <3>4, SumZero DEF Constants
    <3>6. Cardinality({}) = 0 /\ Invited * 0 = 0 /\ (Invited + Joined) * 0 = 0
      BY FS_EmptySet DEF Constants
    <3>7. RewardedRight
      BY <3>1 DEF RewardedRight
    <3> QED
      BY <3>2, <3>3, <3>5, <3>6, <3>7, PaidParts
  <2> QED
    BY <2>1, TypeInit DEF Base
<1>2. Base /\ ReferralsPaidOnce /\ [Next]_vars => (Base /\ ReferralsPaidOnce)'
  <2>1. ASSUME ReferralsPaidOnce, UNCHANGED vars
        PROVE  ReferralsPaidOnce'
    BY <2>1 DEF vars, ReferralsPaidOnce, PointsEarned, VerifiedCount, Totals
  <2> QED
    BY <2>1, BaseStep, PaidStep
<1> QED
  BY <1>1, <1>2, PTL DEF Spec

-----------------------------------------------------------------------------
(* The balance is what the log says *)

HandOf(j, u, k) == IF j.step = "saved" /\ j.user = u /\ j.kind = k THEN j.amount ELSE 0
Flows(u, k) == log[u][k] + Pending(u, k)
Gains(u) == Flows(u, "ad") + Flows(u, "daily") + Flows(u, "invited") + Flows(u, "joined")

Right(u) ==
    /\ reward[u].balance = Flows(u, "welcome") + Gains(u) - Flows(u, "spend")
    /\ reward[u].earned = Gains(u)
    /\ reward[u].spent = Flows(u, "spend")

AllRight == \A u \in Users \ (overwritten \cup unlogged) : Right(u)

\* What a request has in hand is a natural number ...
LEMMA HandOfTyped ==
  ASSUME NEW j \in Jobs, NEW u, NEW k
  PROVE  HandOf(j, u, k) \in Nat
<1>1. j = Idle => j.step # "saved"
  BY DEF Idle
<1>2. j.step = "saved" => j.amount \in Nat
  BY <1>1 DEF Jobs
<1> QED
  BY <1>2 DEF HandOf

\* ... and is that of its job ...
LEMMA HandTyped ==
  ASSUME TypeOK, NEW q \in Requests, NEW u, NEW k
  PROVE  InHand(q, u, k) = HandOf(job[q], u, k) /\ InHand(q, u, k) \in Nat
<1>1. job[q] \in Jobs
  BY DEF TypeOK
<1>2. InHand(q, u, k) = HandOf(job[q], u, k)
  BY DEF InHand, HandOf
<1> QED
  BY <1>1, <1>2, HandOfTyped

\* ... so that what is pending is natural ...
LEMMA PendingTyped ==
  ASSUME TypeOK, Constants, NEW u, NEW k
  PROVE  Pending(u, k) \in Nat
<1> DEFINE f == [q \in Requests |-> InHand(q, u, k)]
<1>1. \A q \in Requests : f[q] \in Nat
  BY HandTyped
<1> HIDE DEF f
<1>2. Sum(f, Requests) \in Nat
  BY <1>1, SumNonNegative DEF Constants
<1> QED
  BY <1>2 DEF Pending, f

\* ... and what was logged with it.
LEMMA FlowsTyped ==
  ASSUME TypeOK, Constants, NEW u \in Users, NEW k \in Kinds
  PROVE  Flows(u, k) \in Nat /\ log[u][k] \in Nat /\ Pending(u, k) \in Nat
<1>1. log[u][k] \in Nat
  BY DEF TypeOK
<1> QED
  BY <1>1, PendingTyped DEF Flows

\* One request moves: what is pending changes by what it had and has in hand.
LEMMA PendingMoves ==
  ASSUME TypeOK, TypeOK', Constants, NEW q \in Requests, NEW u, NEW k,
         \A p \in Requests \ {q} : job'[p] = job[p]
  PROVE  Pending(u, k)' = Pending(u, k) + HandOf(job'[q], u, k) - HandOf(job[q], u, k)
<1> DEFINE f == [p \in Requests |-> InHand(p, u, k)]
           g == [p \in Requests |-> InHand(p, u, k)']
<1>1. \A p \in Requests : f[p] = HandOf(job[p], u, k) /\ f[p] \in Int
  BY HandTyped
<1>2. \A p \in Requests : g[p] = HandOf(job'[p], u, k)
  BY DEF InHand, HandOf
<1>3. \A p \in Requests : HandOf(job'[p], u, k) \in Int
  <2>1. \A p \in Requests : job'[p] \in Jobs
    BY DEF TypeOK
  <2>2. \A p \in Requests : HandOf(job'[p], u, k) \in Nat
    BY <2>1, HandOfTyped
  <2> QED
    BY <2>2
<1>4. Pending(u, k) = Sum(f, Requests) /\ Pending(u, k)' = Sum(g, Requests)
  BY DEF Pending
<1> HIDE DEF f, g
<1>5. Sum(g, Requests) = Sum(f, Requests) + g[q] - f[q]
  BY <1>1, <1>2, <1>3, SumChangedAt DEF Constants
<1> QED
  BY <1>1, <1>2, <1>4, <1>5

\* A sum over the four ways to earn.
LEMMA FourSum ==
  ASSUME NEW f, f["ad"] \in Int, f["daily"] \in Int, f["invited"] \in Int, f["joined"] \in Int
  PROVE  Sum(f, {"ad", "daily", "invited", "joined"}) = f["ad"] + f["daily"] + f["invited"] + f["joined"]
<1>1. /\ IsFiniteSet({}) /\ IsFiniteSet({"ad"}) /\ IsFiniteSet({"ad", "daily"})
      /\ IsFiniteSet({"ad", "daily", "invited"})
  <2>1. IsFiniteSet({})
    BY FS_EmptySet
  <2>2. IsFiniteSet({} \cup {"ad"})
    BY <2>1, FS_AddElement
  <2>3. IsFiniteSet({"ad"} \cup {"daily"})
    <3>1. {} \cup {"ad"} = {"ad"}
      OBVIOUS
    <3> QED
      BY <2>2, <3>1, FS_AddElement
  <2>4. {"ad"} \cup {"daily"} = {"ad", "daily"} /\ {} \cup {"ad"} = {"ad"}
    OBVIOUS
  <2>5. IsFiniteSet({"ad", "daily"} \cup {"invited"})
    BY <2>3, <2>4, FS_AddElement
  <2>6. {"ad", "daily"} \cup {"invited"} = {"ad", "daily", "invited"}
    OBVIOUS
  <2> QED
    BY <2>1, <2>2, <2>3, <2>4, <2>5, <2>6
<1>2. /\ {} \cup {"ad"} = {"ad"} /\ {"ad"} \cup {"daily"} = {"ad", "daily"}
      /\ {"ad", "daily"} \cup {"invited"} = {"ad", "daily", "invited"}
      /\ {"ad", "daily", "invited"} \cup {"joined"} = {"ad", "daily", "invited", "joined"}
  OBVIOUS
<1>3. Sum(f, {}) = 0
  BY SumEmpty
<1>4. Sum(f, {} \cup {"ad"}) = f["ad"] + Sum(f, {})
  BY <1>1, SumAdd
<1>5. Sum(f, {"ad"} \cup {"daily"}) = f["daily"] + Sum(f, {"ad"})
  BY <1>1, SumAdd
<1>6. Sum(f, {"ad", "daily"} \cup {"invited"}) = f["invited"] + Sum(f, {"ad", "daily"})
  BY <1>1, SumAdd
<1>7. Sum(f, {"ad", "daily", "invited"} \cup {"joined"}) = f["joined"] + Sum(f, {"ad", "daily", "invited"})
  BY <1>1, SumAdd
<1> QED
  BY <1>2, <1>3, <1>4, <1>5, <1>6, <1>7

\* BalanceIsLogged, user by user.
LEMMA BalanceParts ==
  ASSUME TypeOK, Constants
  PROVE  BalanceIsLogged <=> AllRight
<1>1. ASSUME NEW u \in Users
      PROVE  /\ Sum(Flow(u), Kinds \ {"spend", "welcome"}) = Gains(u)
             /\ Flow(u)["welcome"] = Flows(u, "welcome") /\ Flow(u)["spend"] = Flows(u, "spend")
  <2>1. \A k \in Kinds : Flow(u)[k] = Flows(u, k) /\ Flows(u, k) \in Nat
    BY FlowsTyped DEF Flow, Flows
  <2>2. Kinds \ {"spend", "welcome"} = {"ad", "daily", "invited", "joined"}
    BY DEF Kinds, Earning
  <2>3. \A k \in {"ad", "daily", "invited", "joined"} : Flow(u)[k] \in Int /\ Flow(u)[k] = Flows(u, k)
    BY <2>1, <2>2
  <2> DEFINE f == Flow(u)
  <2>4. f["ad"] \in Int /\ f["daily"] \in Int /\ f["invited"] \in Int /\ f["joined"] \in Int
    BY <2>3
  <2> HIDE DEF f
  <2>5. Sum(f, {"ad", "daily", "invited", "joined"}) = f["ad"] + f["daily"] + f["invited"] + f["joined"]
    BY <2>4, FourSum
  <2>6. "welcome" \in Kinds /\ "spend" \in Kinds
    BY DEF Kinds
  <2> QED
    BY <2>1, <2>2, <2>3, <2>5, <2>6 DEF f, Gains
<1> QED
  BY <1>1 DEF BalanceIsLogged, AllRight, Right

\* What a step adds to the balance it adds to the log and what is pending.
LEMMA RightMoves ==
  ASSUME TypeOK, Constants, NEW v \in Users, Right(v), NEW w \in Int, NEW g \in Int, NEW s \in Int,
         Flows(v, "welcome")' = Flows(v, "welcome") + w,
         Gains(v)' = Gains(v) + g,
         Flows(v, "spend")' = Flows(v, "spend") + s,
         reward'[v].balance = reward[v].balance + w + g - s,
         reward'[v].earned = reward[v].earned + g,
         reward'[v].spent = reward[v].spent + s
  PROVE  Right(v)'
<1>1. \A k \in Kinds : Flows(v, k) \in Nat
  BY FlowsTyped
<1>2. {"ad", "daily", "invited", "joined", "welcome", "spend"} \subseteq Kinds
  BY DEF Kinds, Earning
<1>3. Flows(v, "welcome") \in Int /\ Flows(v, "spend") \in Int /\ Gains(v) \in Int
  BY <1>1, <1>2 DEF Gains
<1>4. /\ reward[v].balance = Flows(v, "welcome") + Gains(v) - Flows(v, "spend")
      /\ reward[v].earned = Gains(v) /\ reward[v].spent = Flows(v, "spend")
  BY DEF Right
<1>5. Right(v)' <=>
        /\ reward'[v].balance = Flows(v, "welcome")' + Gains(v)' - Flows(v, "spend")'
        /\ reward'[v].earned = Gains(v)'
        /\ reward'[v].spent = Flows(v, "spend")'
  BY DEF Right
<1> HIDE DEF Flows, Gains
<1>6. Flows(v, "welcome")' + Gains(v)' - Flows(v, "spend")' = reward[v].balance + w + g - s
  BY <1>3, <1>4
<1> QED
  BY <1>3, <1>4, <1>5, <1>6

\* A step that leaves a user alone.
LEMMA RightKept ==
  ASSUME TypeOK, Constants, NEW v \in Users, Right(v),
         \A k \in Kinds : log'[v][k] = log[v][k] /\ Pending(v, k)' = Pending(v, k), reward'[v] = reward[v]
  PROVE  Right(v)'
<1>1. \A k \in Kinds : Flows(v, k)' = Flows(v, k)
  BY DEF Flows
<1>2. {"ad", "daily", "invited", "joined", "welcome", "spend"} \subseteq Kinds
  BY DEF Kinds, Earning
<1> QED
  BY <1>1, <1>2 DEF Right, Gains

\* A step of a request that had nothing saved and has nothing saved.
LEMMA PendingKept ==
  ASSUME TypeOK, TypeOK', Constants, NEW q \in Requests, NEW j, job' = [job EXCEPT ![q] = j],
         job[q].step # "saved", j.step # "saved", NEW u, NEW k
  PROVE  Pending(u, k)' = Pending(u, k)
<1>1. job'[q] = j /\ \A p \in Requests \ {q} : job'[p] = job[p]
  BY JobElse
<1>2. HandOf(job[q], u, k) = 0 /\ HandOf(job'[q], u, k) = 0
  BY <1>1 DEF HandOf
<1>3. Pending(u, k)' = Pending(u, k) + HandOf(job'[q], u, k) - HandOf(job[q], u, k)
  BY <1>1, PendingMoves
<1>4. Pending(u, k) \in Int
  BY PendingTyped
<1> QED
  BY <1>2, <1>3, <1>4

\* A step of no request.
LEMMA PendingUnchanged ==
  ASSUME job' = job, NEW u, NEW k
  PROVE  Pending(u, k)' = Pending(u, k)
BY DEF Pending, InHand

\* What GetOrCreate adds: the welcome bonus of a new row.
Bonus(u) == IF reward[u].exists THEN 0 ELSE Welcome

\* What GetOrCreate adds to a row it adds to the log.
LEMMA GotAdds ==
  ASSUME TypeOK, RowInv, Constants, NEW u \in Users
  PROVE  /\ Bonus(u) \in Nat
         /\ Got(u).balance = reward[u].balance + Bonus(u)
         /\ Got(u).earned = reward[u].earned /\ Got(u).spent = reward[u].spent
         /\ GotLog(u)["welcome"] = log[u]["welcome"] + Bonus(u)
         /\ reward[u] \in Row /\ log[u] \in [Kinds -> Nat]
<1>1. reward[u] \in Row /\ log[u] \in [Kinds -> Nat] /\ Welcome \in Nat /\ "welcome" \in Kinds
  BY DEF TypeOK, Constants, Kinds
<1>2. CASE reward[u].exists
  <2>1. Bonus(u) = 0 /\ Got(u) = reward[u] /\ GotLog(u) = log[u]
    BY <1>2 DEF Bonus, Got, GotLog
  <2>2. reward[u].balance \in Nat /\ log[u]["welcome"] \in Nat
    BY <1>1 DEF Row
  <2> QED
    BY <1>1, <2>1, <2>2
<1>3. CASE ~reward[u].exists
  <2>1. /\ Bonus(u) = Welcome /\ Got(u) = NewRow /\ reward[u] = NoRow
        /\ GotLog(u) = [log[u] EXCEPT !["welcome"] = log[u]["welcome"] + Welcome]
    BY <1>3 DEF Bonus, Got, GotLog, RowInv
  <2>2. /\ NewRow.balance = Welcome /\ NewRow.earned = 0 /\ NewRow.spent = 0
        /\ NoRow.balance = 0 /\ NoRow.earned = 0 /\ NoRow.spent = 0
    BY DEF NewRow, NoRow
  <2>3. GotLog(u)["welcome"] = log[u]["welcome"] + Welcome
    BY <1>1, <2>1
  <2> QED
    BY <1>1, <2>1, <2>2, <2>3
<1> QED
  BY <1>2, <1>3

\* What a step adds to the log of one user, when nothing pending changes.
LEMMA FlowsAdd ==
  ASSUME TypeOK, Constants, NEW v \in Users, NEW w \in Int, NEW d \in Int, NEW i \in Int,
         \A k \in Kinds : Pending(v, k)' = Pending(v, k),
         log'[v]["welcome"] = log[v]["welcome"] + w,
         log'[v]["joined"] = log[v]["joined"] + d,
         log'[v]["invited"] = log[v]["invited"] + i,
         \A k \in {"ad", "daily", "spend"} : log'[v][k] = log[v][k]
  PROVE  /\ Flows(v, "welcome")' = Flows(v, "welcome") + w
         /\ Gains(v)' = Gains(v) + (d + i)
         /\ Flows(v, "spend")' = Flows(v, "spend") + 0
<1>1. {"ad", "daily", "invited", "joined", "welcome", "spend"} \subseteq Kinds
  BY DEF Kinds, Earning
<1>2. \A k \in Kinds : Flows(v, k) \in Nat /\ log[v][k] \in Nat /\ Pending(v, k) \in Nat
  BY FlowsTyped
<1>3. \A k \in Kinds : Flows(v, k) = log[v][k] + Pending(v, k) /\ Flows(v, k)' = log'[v][k] + Pending(v, k)
  BY DEF Flows
<1>4. /\ Flows(v, "welcome")' = Flows(v, "welcome") + w
      /\ Flows(v, "joined")' = Flows(v, "joined") + d
      /\ Flows(v, "invited")' = Flows(v, "invited") + i
      /\ Flows(v, "ad")' = Flows(v, "ad")
      /\ Flows(v, "daily")' = Flows(v, "daily")
      /\ Flows(v, "spend")' = Flows(v, "spend")
  BY <1>1, <1>2, <1>3
<1>5. /\ Gains(v) = Flows(v, "ad") + Flows(v, "daily") + Flows(v, "invited") + Flows(v, "joined")
      /\ Gains(v)' = Flows(v, "ad")' + Flows(v, "daily")' + Flows(v, "invited")' + Flows(v, "joined")'
  BY DEF Gains
<1>6. \A k \in {"ad", "daily", "invited", "joined", "welcome", "spend"} : Flows(v, k) \in Int
  BY <1>1, <1>2
<1> HIDE DEF Flows, Gains
<1> QED
  BY <1>4, <1>5, <1>6

\* Reading a balance adds a bonus at most.
LEMMA RightBegin ==
  ASSUME Base, TypeOK', Constants, NEW q \in Requests, NEW u \in Users, NEW kind, NEW amount,
         Begin(q, u, kind, amount), NEW v \in Users, Right(v)
  PROVE  Right(v)'
<1>1. \A k \in Kinds : Pending(v, k)' = Pending(v, k)
  <2> DEFINE j == [step |-> "read", user |-> u, kind |-> kind, amount |-> amount, row |-> Got(u)]
  <2>1. job' = [job EXCEPT ![q] = j] /\ job[q] = Idle
    BY DEF Begin
  <2>2. j.step # "saved" /\ Idle.step # "saved"
    BY DEF Idle
  <2> HIDE DEF j
  <2> QED
    BY <2>1, <2>2, PendingKept DEF Base
<1>2. reward' = [reward EXCEPT ![u] = Got(u)] /\ log' = [log EXCEPT ![u] = GotLog(u)]
  BY DEF Begin
<1>3. CASE v = u
  <2>1. reward'[v] = Got(v) /\ log'[v] = GotLog(v)
    BY <1>2, <1>3 DEF Base, TypeOK
  <2>2. /\ Bonus(v) \in Nat /\ Got(v).balance = reward[v].balance + Bonus(v)
        /\ Got(v).earned = reward[v].earned /\ Got(v).spent = reward[v].spent
        /\ GotLog(v)["welcome"] = log[v]["welcome"] + Bonus(v)
        /\ reward[v] \in Row /\ log[v] \in [Kinds -> Nat]
    BY GotAdds DEF Base
  <2>3. {"ad", "daily", "invited", "joined", "spend"} \subseteq Kinds \ {"welcome"}
    BY DEF Kinds, Earning
  <2>4. \A k \in {"ad", "daily", "invited", "joined", "spend"} : log'[v][k] = log[v][k] /\ log[v][k] \in Nat
    BY <2>1, <2>2, <2>3, GotTyped DEF Base
  <2>5. log'[v]["joined"] = log[v]["joined"] + 0 /\ log'[v]["invited"] = log[v]["invited"] + 0
    BY <2>4
  <2>6. log'[v]["welcome"] = log[v]["welcome"] + Bonus(v) /\ \A k \in {"ad", "daily", "spend"} : log'[v][k] = log[v][k]
    BY <2>1, <2>2, <2>4
  <2>7. /\ Flows(v, "welcome")' = Flows(v, "welcome") + Bonus(v)
        /\ Gains(v)' = Gains(v) + (0 + 0)
        /\ Flows(v, "spend")' = Flows(v, "spend") + 0
    BY <1>1, <2>2, <2>5, <2>6, FlowsAdd DEF Base
  <2>8. reward[v].balance \in Nat /\ reward[v].earned \in Nat /\ reward[v].spent \in Nat
    BY <2>2 DEF Row
  <2>9. /\ reward'[v].balance = reward[v].balance + Bonus(v) + (0 + 0) - 0
        /\ reward'[v].earned = reward[v].earned + (0 + 0)
        /\ reward'[v].spent = reward[v].spent + 0
    BY <2>1, <2>2, <2>8
  <2> QED
    BY <2>2, <2>7, <2>9, RightMoves DEF Base
<1>4. CASE v # u
  <2>1. reward'[v] = reward[v] /\ log'[v] = log[v]
    BY <1>2, <1>4 DEF Base, TypeOK
  <2> QED
    BY <1>1, <2>1, RightKept DEF Base
<1> QED
  BY <1>3, <1>4

\* A referral is added to the row and to the log in one transaction.
LEMMA RightGrant ==
  ASSUME Base, Constants, NEW u \in Users, NEW ref \in Referral, Grant(u, ref), ref.by # u,
         NEW v \in Users, Right(v), \A k \in Kinds : Pending(v, k)' = Pending(v, k)
  PROVE  Right(v)'
<1>1. CASE Payable(ref)
  <2>1. /\ ref.by \in Users
        /\ reward' = [x \in Users |-> IF x = u THEN Credited(Got(x), Joined)
                                      ELSE IF x = ref.by THEN Credited(Got(x), Invited) ELSE reward[x]]
        /\ log' = [x \in Users |-> IF x = u THEN [GotLog(x) EXCEPT !["joined"] = GotLog(x)["joined"] + Joined]
                                   ELSE IF x = ref.by
                                        THEN [GotLog(x) EXCEPT !["invited"] = GotLog(x)["invited"] + Invited]
                                        ELSE log[x]]
    BY <1>1, GrantPays DEF Base
  <2>2. CASE v # u /\ v # ref.by
    <3>1. reward'[v] = reward[v] /\ log'[v] = log[v]
      BY <2>1, <2>2
    <3> QED
      BY <3>1, RightKept DEF Base
  <2>3. CASE v = u \/ v = ref.by
    <3> DEFINE d == IF v = u THEN Joined ELSE 0
               i == IF v = u THEN 0 ELSE Invited
    <3>1. d \in Nat /\ i \in Nat /\ d + i = (IF v = u THEN Joined ELSE Invited)
      BY DEF Constants
    <3>2. reward'[v] = Credited(Got(v), d + i)
      BY <2>1, <2>3, <3>1
    <3>3. /\ Got(v) \in Row /\ GotLog(v) \in [Kinds -> Nat]
          /\ \A k \in Kinds \ {"welcome"} : GotLog(v)[k] = log[v][k]
      BY GotTyped DEF Base
    <3>4. /\ Bonus(v) \in Nat /\ Got(v).balance = reward[v].balance + Bonus(v)
          /\ Got(v).earned = reward[v].earned /\ Got(v).spent = reward[v].spent
          /\ GotLog(v)["welcome"] = log[v]["welcome"] + Bonus(v)
          /\ reward[v] \in Row /\ log[v] \in [Kinds -> Nat]
      BY GotAdds DEF Base
    <3>5. {"ad", "daily", "invited", "joined", "welcome", "spend"} \subseteq Kinds
      BY DEF Kinds, Earning
    <3>6. /\ \A k \in Kinds \ {"joined", "invited"} : log'[v][k] = GotLog(v)[k]
          /\ log'[v]["joined"] = GotLog(v)["joined"] + d
          /\ log'[v]["invited"] = GotLog(v)["invited"] + i
      <4>1. GotLog(v)["joined"] \in Nat /\ GotLog(v)["invited"] \in Nat
        BY <3>3, <3>5
      <4>2. CASE v = u
        BY <2>1, <3>3, <3>5, <4>1, <4>2
      <4>3. CASE v # u
        <5>1. log'[v] = [GotLog(v) EXCEPT !["invited"] = GotLog(v)["invited"] + Invited] /\ d = 0 /\ i = Invited
          BY <2>1, <2>3, <4>3
        <5> QED
          BY <3>3, <3>5, <4>1, <5>1
      <4> QED
        BY <4>2, <4>3
    <3> HIDE DEF d, i
    <3>7. /\ log'[v]["welcome"] = log[v]["welcome"] + Bonus(v)
          /\ log'[v]["joined"] = log[v]["joined"] + d
          /\ log'[v]["invited"] = log[v]["invited"] + i
          /\ \A k \in {"ad", "daily", "spend"} : log'[v][k] = log[v][k]
      BY <3>3, <3>4, <3>5, <3>6
    <3>8. /\ Flows(v, "welcome")' = Flows(v, "welcome") + Bonus(v)
          /\ Gains(v)' = Gains(v) + (d + i)
          /\ Flows(v, "spend")' = Flows(v, "spend") + 0
      <4>1. d \in Int /\ i \in Int /\ Bonus(v) \in Int /\ TypeOK
        BY <3>1, <3>4 DEF Base
      <4> HIDE DEF Bonus
      <4> QED
        BY <3>7, <4>1, FlowsAdd
    <3>9. /\ reward'[v].balance = Got(v).balance + (d + i)
          /\ reward'[v].earned = Got(v).earned + (d + i)
          /\ reward'[v].spent = Got(v).spent
      BY <3>1, <3>2, <3>3, CreditedTyped
    <3>10. reward[v].balance \in Nat /\ reward[v].earned \in Nat /\ reward[v].spent \in Nat
      BY <3>4 DEF Row
    <3>11. /\ reward'[v].balance = reward[v].balance + Bonus(v) + (d + i) - 0
           /\ reward'[v].earned = reward[v].earned + (d + i)
           /\ reward'[v].spent = reward[v].spent + 0
      BY <3>1, <3>4, <3>9, <3>10
    <3> QED
      BY <3>1, <3>4, <3>8, <3>11, RightMoves DEF Base
  <2> QED
    BY <2>2, <2>3
<1>2. CASE ~Payable(ref)
  <2>1. reward' = reward /\ log' = log
    BY <1>2 DEF Grant
  <2> QED
    BY <2>1, RightKept DEF Base
<1> QED
  BY <1>1, <1>2

\* What is saved and not yet recorded counts for the user it is of.
LEMMA RightUpdate ==
  ASSUME Base, TypeOK', Constants, NEW q \in Requests, UpdateBalance(q),
         NEW v \in Users, v \notin overwritten', Right(v)
  PROVE  Right(v)'
<1> DEFINE j == job[q]
           s == [j EXCEPT !.step = "saved"]
<1>1. j \in CoinJobs /\ j.step = "read" /\ (j.kind = "spend" => j.amount <= j.row.balance)
  BY JobTyped DEF UpdateBalance, RowInv, Base
<1>2. /\ job' = [job EXCEPT ![q] = s] /\ reward' = [reward EXCEPT ![j.user] = Changed(j.row, j.kind, j.amount)]
      /\ log' = log
      /\ overwritten' = IF reward[j.user] = j.row THEN overwritten ELSE overwritten \cup {j.user}
  BY DEF UpdateBalance
<1>3. \A k \in Kinds : Pending(v, k)' = Pending(v, k) + HandOf(s, v, k) - HandOf(j, v, k)
  <2>1. job'[q] = s /\ \A p \in Requests \ {q} : job'[p] = job[p]
    BY <1>2, JobElse DEF Base
  <2> HIDE DEF s
  <2> QED
    BY <2>1, PendingMoves DEF Base
<1> HIDE DEF j
<1>4. /\ j.user \in Users /\ j.row \in Row /\ j.amount \in Nat /\ j.kind \in Earning \cup {"spend"}
      /\ s.step = "saved" /\ s.user = j.user /\ s.kind = j.kind /\ s.amount = j.amount
  BY <1>1 DEF CoinJobs
<1> HIDE DEF s
<1>5. \A k \in Kinds : HandOf(j, v, k) = 0 /\ HandOf(s, v, k) = (IF v = j.user /\ k = j.kind THEN j.amount ELSE 0)
  BY <1>1, <1>4 DEF HandOf
<1>6. \A k \in Kinds : Flows(v, k) \in Nat /\ log[v][k] \in Nat /\ Pending(v, k) \in Nat
  BY FlowsTyped DEF Base
<1>7. CASE v # j.user
  <2>1. \A k \in Kinds : Pending(v, k)' = Pending(v, k)
    BY <1>3, <1>5, <1>6, <1>7
  <2>2. reward'[v] = reward[v]
    BY <1>2, <1>7 DEF Base, TypeOK
  <2> QED
    BY <1>2, <2>1, <2>2, RightKept DEF Base
<1>8. CASE v = j.user
  <2> DEFINE n == j.amount
  <2>1. reward[v] = j.row
    BY <1>2, <1>8
  <2>2. reward'[v] = Changed(reward[v], j.kind, n)
    BY <1>2, <1>4, <1>8, <2>1 DEF Base, TypeOK
  <2>3. \A k \in Kinds : Flows(v, k)' = (IF k = j.kind THEN Flows(v, k) + n ELSE Flows(v, k))
    <3>1. \A k \in Kinds : Pending(v, k)' = (IF k = j.kind THEN Pending(v, k) + n ELSE Pending(v, k))
      BY <1>3, <1>4, <1>5, <1>6, <1>8
    <3>2. \A k \in Kinds : Flows(v, k) = log[v][k] + Pending(v, k) /\ Flows(v, k)' = log[v][k] + Pending(v, k)'
      BY <1>2 DEF Flows
    <3> HIDE DEF n
    <3>3. n \in Nat
      BY <1>4 DEF n
    <3> QED
      BY <1>6, <3>1, <3>2, <3>3
  <2>4. {"ad", "daily", "invited", "joined", "welcome", "spend"} \subseteq Kinds
    BY DEF Kinds, Earning
  <2>5. n \in Nat /\ n \in Int /\ reward[v] \in Row
    BY <1>4 DEF Base, TypeOK
  <2>6. reward[v].balance \in Nat /\ reward[v].earned \in Nat /\ reward[v].spent \in Nat
    BY <2>5 DEF Row
  <2> HIDE DEF n
  <2>7. CASE j.kind = "spend"
    <3>1. /\ reward'[v].balance = reward[v].balance - n
          /\ reward'[v].earned = reward[v].earned
          /\ reward'[v].spent = reward[v].spent + n
      BY <2>2, <2>5, <2>7 DEF Changed, Row
    <3>2. /\ reward'[v].balance = reward[v].balance + 0 + 0 - n
          /\ reward'[v].earned = reward[v].earned + 0
          /\ reward'[v].spent = reward[v].spent + n
      BY <2>5, <2>6, <3>1
    <3>3. /\ Flows(v, "welcome")' = Flows(v, "welcome") + 0
          /\ Flows(v, "spend")' = Flows(v, "spend") + n
      BY <1>6, <2>3, <2>4, <2>7
    <3>4. Gains(v)' = Gains(v) + 0
      <4>1. Gains(v)' = Gains(v) /\ Gains(v) \in Int
        BY <1>6, <2>3, <2>4, <2>7 DEF Gains
      <4> QED
        BY <4>1
    <3>5. 0 \in Int
      OBVIOUS
    <3> QED
      BY <2>5, <3>2, <3>3, <3>4, <3>5, RightMoves DEF Base
  <2>8. CASE j.kind \in Earning
    <3>1. j.kind = "ad" \/ j.kind = "daily"
      BY <2>8 DEF Earning
    <3>2. Changed(reward[v], j.kind, n) = Credited(reward[v], n)
      BY <3>1 DEF Changed, Credited
    <3>3. /\ reward'[v].balance = reward[v].balance + 0 + n - 0
          /\ reward'[v].earned = reward[v].earned + n
          /\ reward'[v].spent = reward[v].spent + 0
      <4>1. /\ reward'[v].balance = reward[v].balance + n
            /\ reward'[v].earned = reward[v].earned + n
            /\ reward'[v].spent = reward[v].spent
        BY <2>2, <2>5, <3>2, CreditedTyped
      <4> QED
        BY <2>5, <2>6, <4>1
    <3>4. /\ Flows(v, "welcome")' = Flows(v, "welcome") + 0
          /\ Flows(v, "spend")' = Flows(v, "spend") + 0
      BY <1>6, <2>3, <2>4, <3>1
    <3>5. Gains(v)' = Gains(v) + n
      <4>1. /\ Gains(v) = Flows(v, "ad") + Flows(v, "daily") + Flows(v, "invited") + Flows(v, "joined")
            /\ Gains(v)' = Flows(v, "ad")' + Flows(v, "daily")' + Flows(v, "invited")' + Flows(v, "joined")'
        BY DEF Gains
      <4>2. \A k \in {"ad", "daily", "invited", "joined"} :
              Flows(v, k) \in Int /\ Flows(v, k)' = (IF k = j.kind THEN Flows(v, k) + n ELSE Flows(v, k))
        BY <1>6, <2>3, <2>4
      <4>3. CASE j.kind = "ad"
        BY <2>5, <4>1, <4>2, <4>3
      <4>4. CASE j.kind = "daily"
        BY <2>5, <4>1, <4>2, <4>4
      <4> QED
        BY <3>1, <4>3, <4>4
    <3>6. 0 \in Int
      OBVIOUS
    <3> QED
      BY <2>5, <3>3, <3>4, <3>5, <3>6, RightMoves DEF Base
  <2> QED
    BY <1>4, <2>7, <2>8
<1> QED
  BY <1>7, <1>8

\* Recording moves an amount from what is pending into the log.
LEMMA RightCreate ==
  ASSUME Base, TypeOK', Constants, NEW q \in Requests, CreateTransaction(q), NEW v \in Users, Right(v)
  PROVE  Right(v)'
<1> DEFINE j == job[q]
<1>1. j \in CoinJobs /\ j.step = "saved"
  BY JobTyped DEF CreateTransaction, Base
<1>2. /\ log' = [log EXCEPT ![j.user] = Logged(log[j.user], j.kind, j.amount)]
      /\ job' = [job EXCEPT ![q] = Idle] /\ reward' = reward
  BY <1>1 DEF CreateTransaction, Base, TypeOK, CoinJobs
<1>3. \A k \in Kinds : Pending(v, k)' = Pending(v, k) + HandOf(Idle, v, k) - HandOf(j, v, k)
  <2>1. job'[q] = Idle /\ \A p \in Requests \ {q} : job'[p] = job[p]
    BY <1>2, JobElse DEF Base
  <2> QED
    BY <2>1, PendingMoves DEF Base
<1> HIDE DEF j
<1>4. j.user \in Users /\ j.amount \in Nat /\ j.kind \in Kinds
  BY <1>1 DEF CoinJobs, Kinds
<1>5. \A k \in Kinds : HandOf(Idle, v, k) = 0 /\ HandOf(j, v, k) = (IF v = j.user /\ k = j.kind THEN j.amount ELSE 0)
  BY <1>1 DEF HandOf, Idle
<1>6. \A k \in Kinds : log[v][k] \in Nat /\ Pending(v, k) \in Nat /\ log[v] \in [Kinds -> Nat]
  BY FlowsTyped DEF Base, TypeOK
<1>7. \A k \in Kinds : log'[v][k] = (IF v = j.user /\ k = j.kind THEN log[v][k] + j.amount ELSE log[v][k])
  BY <1>2, <1>4, <1>6 DEF Logged, Base, TypeOK
<1>8. \A k \in Kinds : Flows(v, k)' = Flows(v, k)
  <2>1. \A k \in Kinds : Flows(v, k) = log[v][k] + Pending(v, k) /\ Flows(v, k)' = log'[v][k] + Pending(v, k)'
    BY DEF Flows
  <2> QED
    BY <1>3, <1>4, <1>5, <1>6, <1>7, <2>1
<1>9. {"ad", "daily", "invited", "joined", "welcome", "spend"} \subseteq Kinds
  BY DEF Kinds, Earning
<1> QED
  BY <1>2, <1>8, <1>9 DEF Right, Gains

\* Who had something saved when his request died is unlogged.
LEMMA RightDrop ==
  ASSUME Base, TypeOK', Constants, NEW q \in Requests, Drop(q),
         NEW v \in Users, v \notin unlogged', Right(v)
  PROVE  Right(v)'
<1> DEFINE j == job[q]
<1>1. /\ job' = [job EXCEPT ![q] = Idle] /\ reward' = reward /\ log' = log
      /\ unlogged' = IF j.step = "saved" THEN unlogged \cup {j.user} ELSE unlogged
  BY DEF Drop
<1>2. \A k \in Kinds : Pending(v, k)' = Pending(v, k) + HandOf(Idle, v, k) - HandOf(j, v, k)
  <2>1. job'[q] = Idle /\ \A p \in Requests \ {q} : job'[p] = job[p]
    BY <1>1, JobElse DEF Base
  <2> QED
    BY <2>1, PendingMoves DEF Base
<1> HIDE DEF j
<1>3. \A k \in Kinds : HandOf(Idle, v, k) = 0 /\ HandOf(j, v, k) = 0
  BY <1>1 DEF HandOf, Idle
<1>4. \A k \in Kinds : Pending(v, k) \in Nat
  BY PendingTyped DEF Base
<1>5. \A k \in Kinds : Pending(v, k)' = Pending(v, k)
  BY <1>2, <1>3, <1>4
<1> QED
  BY <1>1, <1>5, RightKept DEF Base

\* Steps of the referral handlers but the payment leave rows and log alone.
LEMMA RightElse ==
  ASSUME Base, TypeOK', Constants, reward' = reward, log' = log, NEW v \in Users, Right(v),
         \/ job' = job
         \/ \E q \in Requests : \E j : job' = [job EXCEPT ![q] = j] /\ job[q].step # "saved" /\ j.step # "saved"
  PROVE  Right(v)'
<1>1. \A k \in Kinds : Pending(v, k)' = Pending(v, k)
  <2>1. CASE job' = job
    BY <2>1, PendingUnchanged
  <2>2. CASE \E q \in Requests : \E j : job' = [job EXCEPT ![q] = j] /\ job[q].step # "saved" /\ j.step # "saved"
    <3>1. PICK q \in Requests : \E j : job' = [job EXCEPT ![q] = j] /\ job[q].step # "saved" /\ j.step # "saved"
      BY <2>2
    <3>2. PICK j : job' = [job EXCEPT ![q] = j] /\ job[q].step # "saved" /\ j.step # "saved"
      BY <3>1
    <3> QED
      BY <3>2, PendingKept DEF Base
  <2> QED
    BY <2>1, <2>2
<1> QED
  BY <1>1, RightKept DEF Base

\* Every step keeps the account of who is neither overwritten nor unlogged.
LEMMA RightStep ==
  ASSUME Base, TypeOK', Constants, Next, NEW v \in Users, v \notin overwritten' \cup unlogged', Right(v)
  PROVE  Right(v)'
<1>1. CASE NewDay
  BY <1>1, RightElse DEF NewDay
<1>2. ASSUME NEW u \in Users, LoseWelcome(u)
      PROVE  Right(v)'
  <2>1. v # u
    BY <1>2 DEF LoseWelcome
  <2>2. reward'[v] = reward[v] /\ log' = log /\ job' = job
    BY <1>2, <2>1 DEF LoseWelcome, Base, TypeOK
  <2> QED
    BY <2>2, RightKept, PendingUnchanged DEF Base
<1>3. ASSUME NEW u \in Users, Verify(u)
      PROVE  Right(v)'
  <2> DEFINE ref == [referral[u] EXCEPT !.verified = TRUE]
  <2>1. ref \in Referral /\ ref.by # u
    BY VerifyTyped DEF Base
  <2>2. Grant(u, ref) /\ job' = job
    BY <1>3 DEF Verify
  <2> HIDE DEF ref
  <2>3. \A k \in Kinds : Pending(v, k)' = Pending(v, k)
    BY <2>2, PendingUnchanged
  <2> QED
    BY <2>1, <2>2, <2>3, RightGrant
<1>4. ASSUME NEW u \in Users, CloseWindow(u)
      PROVE  Right(v)'
  BY <1>4, RightElse DEF CloseWindow, coins
<1>5. ASSUME NEW q \in Requests, UpdateBalance(q) \/ CreateTransaction(q) \/ Drop(q)
      PROVE  Right(v)'
  BY <1>5, RightUpdate, RightCreate, RightDrop
<1>6. ASSUME NEW q \in Requests, FinishApply(q)
      PROVE  Right(v)'
  <2> DEFINE u == job[q].user
             r == job[q].referrer
             ref == [referral[u] EXCEPT !.by = r]
  <2>1. u \in Users /\ r # u /\ ref \in Referral /\ ref.by = r
    BY <1>6, ApplyTyped DEF FinishApply, Base
  <2>2. IF ref.verified THEN Grant(u, ref) ELSE UNCHANGED <<reward, log>>
    BY <1>6 DEF FinishApply
  <2>3. \A k \in Kinds : Pending(v, k)' = Pending(v, k)
    <3>1. job' = [job EXCEPT ![q] = Idle] /\ job[q].step # "saved" /\ Idle.step # "saved"
      BY <1>6 DEF FinishApply, Idle
    <3> QED
      BY <3>1, PendingKept DEF Base
  <2> HIDE DEF u, r, ref
  <2>4. CASE ref.verified
    BY <2>1, <2>2, <2>3, <2>4, RightGrant
  <2>5. CASE ~ref.verified
    BY <2>2, <2>3, <2>5, RightKept DEF Base
  <2> QED
    BY <2>4, <2>5
<1>7. ASSUME NEW q \in Requests, NEW u \in Users,
             Earn(q, u) \/ DailyLogin(q, u) \/ \E cost \in Costs : Spend(q, u, cost)
      PROVE  Right(v)'
  BY <1>7, RightBegin DEF Earn, DailyLogin, Spend
<1>8. ASSUME NEW q \in Requests, NEW u \in Users, OpenInvite(q, u)
      PROVE  Right(v)'
  <2>1. reward' = reward /\ log' = log /\ job[q] = Idle
    BY <1>8 DEF OpenInvite, coins
  <2> DEFINE j == [step |-> "issuing", user |-> u]
  <2>2. job' = job \/ job' = [job EXCEPT ![q] = j]
    BY <1>8 DEF OpenInvite
  <2>3. job[q].step # "saved" /\ j.step # "saved"
    BY <2>1 DEF Idle
  <2> HIDE DEF j
  <2> QED
    BY <2>1, <2>2, <2>3, RightElse
<1>9. ASSUME NEW q \in Requests, NEW u \in Users, NEW c \in Codes, StartApply(q, u, c)
      PROVE  Right(v)'
  <2>1. PICK r \in Users : job' = [job EXCEPT ![q] = [step |-> "applying", user |-> u, referrer |-> r]]
    BY <1>9 DEF StartApply
  <2>2. reward' = reward /\ log' = log /\ job[q] = Idle
    BY <1>9 DEF StartApply, coins
  <2> DEFINE j == [step |-> "applying", user |-> u, referrer |-> r]
  <2>3. job' = [job EXCEPT ![q] = j] /\ job[q].step # "saved" /\ j.step # "saved"
    BY <2>1, <2>2 DEF Idle
  <2> HIDE DEF j
  <2> QED
    BY <2>2, <2>3, RightElse
<1>10. ASSUME NEW q \in Requests, NEW c \in Codes, IssueCode(q, c)
       PROVE  Right(v)'
  <2>1. reward' = reward /\ log' = log
    BY <1>10 DEF IssueCode, coins
  <2>2. job' = [job EXCEPT ![q] = Idle] /\ job[q].step # "saved" /\ Idle.step # "saved"
    BY <1>10 DEF IssueCode, Idle
  <2> QED
    BY <2>1, <2>2, RightElse
<1>11. ASSUME NEW q \in Requests, SaveUser(q)
       PROVE  Right(v)'
  <2>1. reward' = reward /\ log' = log
    BY <1>11 DEF SaveUser, coins
  <2>2. job' = [job EXCEPT ![q] = Idle] /\ job[q].step # "saved" /\ Idle.step # "saved"
    BY <1>11 DEF SaveUser, Idle
  <2> QED
    BY <2>1, <2>2, RightElse
<1>12. ASSUME NEW q \in Requests, NEW u \in Users, NEW verified \in BOOLEAN, NEW c \in Codes \cup {NoCode},
              StartSave(q, u, verified, c)
       PROVE  Right(v)'
  <2>1. reward' = reward /\ log' = log /\ job[q] = Idle
    BY <1>12 DEF StartSave, coins
  <2> DEFINE j == [step |-> "saving", user |-> u, code |-> c, row |-> [referral[u] EXCEPT !.verified = verified]]
  <2>2. job' = [job EXCEPT ![q] = j] /\ job[q].step # "saved" /\ j.step # "saved"
    BY <1>12, <2>1 DEF StartSave, Idle
  <2> HIDE DEF j
  <2> QED
    BY <2>1, <2>2, RightElse
<1> QED
  BY <1>1, <1>2, <1>3, <1>4, <1>5, <1>6, <1>7, <1>8, <1>9, <1>10, <1>11, <1>12 DEF Next

\* Nobody is overwritten or unlogged only for a while.
LEMMA HistoryGrows ==
  ASSUME Next
  PROVE  overwritten \subseteq overwritten' /\ unlogged \subseteq unlogged'
<1>1. ASSUME NEW u \in Users, LoseWelcome(u) \/ Verify(u) \/ CloseWindow(u)
      PROVE  overwritten \subseteq overwritten' /\ unlogged \subseteq unlogged'
  BY <1>1 DEF LoseWelcome, Verify, CloseWindow, coins
<1>2. ASSUME NEW q \in Requests, UpdateBalance(q) \/ CreateTransaction(q) \/ Drop(q) \/ FinishApply(q)
      PROVE  overwritten \subseteq overwritten' /\ unlogged \subseteq unlogged'
  BY <1>2 DEF UpdateBalance, CreateTransaction, Drop, FinishApply
<1>6. ASSUME NEW q \in Requests, SaveUser(q)
      PROVE  overwritten \subseteq overwritten' /\ unlogged \subseteq unlogged'
  BY <1>6 DEF SaveUser, coins
<1>3. ASSUME NEW q \in Requests, NEW u \in Users,
             \/ Earn(q, u) \/ DailyLogin(q, u) \/ OpenInvite(q, u)
             \/ \E cost \in Costs : Spend(q, u, cost)
             \/ \E c \in Codes : StartApply(q, u, c)
             \/ \E verified \in BOOLEAN, c \in Codes \cup {NoCode} : StartSave(q, u, verified, c)
      PROVE  overwritten \subseteq overwritten' /\ unlogged \subseteq unlogged'
  BY <1>3 DEF Earn, DailyLogin, Spend, Begin, OpenInvite, StartApply, StartSave, coins
<1>4. ASSUME NEW q \in Requests, NEW c \in Codes, IssueCode(q, c)
      PROVE  overwritten \subseteq overwritten' /\ unlogged \subseteq unlogged'
  BY <1>4 DEF IssueCode, coins
<1>5. CASE NewDay
  BY <1>5 DEF NewDay
<1> QED
  BY <1>1, <1>2, <1>3, <1>4, <1>5, <1>6 DEF Next

\* Every step keeps AllRight.
LEMMA BalanceStep ==
  ASSUME Base, Base', Constants, AllRight, Next
  PROVE  AllRight'
<1>1. \A v \in Users \ (overwritten' \cup unlogged') : Right(v)
  BY HistoryGrows DEF AllRight
<1>2. \A v \in Users \ (overwritten' \cup unlogged') : Right(v)'
  BY <1>1, RightStep DEF Base
<1> QED
  BY <1>2 DEF AllRight

\* Nothing is logged, pending or owned initially.
LEMMA BalanceInit ==
  ASSUME Constants, Init
  PROVE  AllRight
<1>1. ASSUME NEW u \in Users
      PROVE  Right(u)
  <2>1. \A k \in Kinds : Pending(u, k) = 0
    <3>1. \A q \in Requests : job[q].step # "saved"
      BY DEF Init, Applied, Idle
    <3>2. ASSUME NEW k \in Kinds
          PROVE  Pending(u, k) = 0
      <4> DEFINE f == [q \in Requests |-> InHand(q, u, k)]
      <4>1. \A q \in Requests : f[q] = 0
        BY <3>1 DEF InHand
      <4> HIDE DEF f
      <4>2. Sum(f, Requests) = 0
        BY <4>1, SumZero DEF Constants
      <4> QED
        BY <4>2 DEF Pending, f
    <3> QED
      BY <3>2
  <2>2. \A k \in Kinds : log[u][k] = 0
    BY DEF Init, Applied
  <2>3. \A k \in Kinds : Flows(u, k) = 0
    BY <2>1, <2>2 DEF Flows
  <2>4. {"ad", "daily", "invited", "joined", "welcome", "spend"} \subseteq Kinds
    BY DEF Kinds, Earning
  <2>5. Flows(u, "welcome") = 0 /\ Flows(u, "spend") = 0 /\ Gains(u) = 0
    BY <2>3, <2>4 DEF Gains
  <2>6. reward[u].balance = 0 /\ reward[u].earned = 0 /\ reward[u].spent = 0
    BY DEF Init, Applied, NoRow
  <2> QED
    BY <2>5, <2>6 DEF Right
<1> QED
  BY <1>1 DEF AllRight

(* Unless a request was overtaken or died between saving and recording, the   *)
(* balance of a user, and what he earned and spent, are what the log of his   *)
(* transactions says, referral rewards included (reward_handler.go,           *)
(* CreditReward of referral.go).                                              *)
THEOREM BalanceIsLoggedHolds ==
  ASSUME Constants
  PROVE  Spec => []BalanceIsLogged
<1>1. Init => Base /\ AllRight
  BY TypeInit, BalanceInit DEF Base
<1>2. Base /\ AllRight /\ [Next]_vars => (Base /\ AllRight)'
  <2>1. ASSUME Base, AllRight, UNCHANGED vars
        PROVE  AllRight'
    <3>1. \A u, k : Pending(u, k)' = Pending(u, k)
      BY <2>1, PendingUnchanged DEF vars
    <3>2. \A u \in Users : Right(u) => Right(u)'
      BY <2>1, <3>1, RightKept DEF vars, Base
    <3> QED
      BY <2>1, <3>2 DEF vars, AllRight
  <2> QED
    BY <2>1, BaseStep, BalanceStep
<1>3. Base /\ AllRight => BalanceIsLogged
  BY BalanceParts DEF Base
<1> QED
  BY <1>1, <1>2, <1>3, PTL DEF Spec

-----------------------------------------------------------------------------
(* Resources: counters, notices, files and the Trash *)

\* What is assumed of the constants: finitely many users and requests, a value
\* that is no user and no row, and that forms leave rows.
ResourceConstants ==
    /\ Bodies \subseteq Library!Row
    /\ IsFiniteSet(Users) /\ IsFiniteSet(Workers) /\ MaxCount \in Nat
    /\ None \notin Users /\ None \notin Library!Row

LEMMA LibrarySums ==
  ASSUME NEW f, NEW S
  PROVE  Library!Sum(f, S) = Sum(f, S) /\ Library!Cardinality(S) = Cardinality(S)
<1>1. Library!Sum(f, S) = Sum(f, S)
  BY DEF Library!Sum, Library!MapThenSumSet, Library!MapThenFoldSet, Sum, MapThenSumSet, MapThenFoldSet
<1>2. Library!Cardinality(S) = Cardinality(S)
  BY DEF Library!Cardinality, Cardinality
<1> QED
  BY <1>1, <1>2

SaveWork == [step : {"save"}, id : Resources, before : Library!Row, after : Library!Row, tell : BOOLEAN]
TellWork == [step : {"tell"}, id : Resources]
RateWork == [step : {"rate"}, id : Resources, user : Users, stars : 1..5, seen : [Users -> 0..5]]
DeleteWork == [step : {"delete", "record"}, id : Resources, user : Users]
CheckWork == [step : {"check"}, file : Files]
RemoveWork == [step : {"remove"}, file : Files, holders : {{}}]
Works == {Library!Idle} \cup SaveWork \cup TellWork \cup RateWork \cup DeleteWork \cup CheckWork \cup RemoveWork

ResourceTyped ==
    /\ resource \in [Resources -> Library!Row \cup {None}] /\ authored \subseteq Resources
    /\ rating \in [Resources -> [Users -> 0..5]]
    /\ attachment \in [Files -> [by : Users, private : BOOLEAN] \cup {None}]
    /\ stored \subseteq Files /\ lost \subseteq Files
    /\ audit \in [Resources -> Users \cup {None}] /\ deleter \in [Resources -> Users \cup {None}]
    /\ work \in [Workers -> Works]
    /\ viewed \in [Resources -> 0..MaxCount] /\ told \in [Resources -> 0..MaxCount] /\ withdrawn \in [Resources -> 0..MaxCount]
    /\ raced \subseteq Library!Aspects \X Resources

\* What tells the batches publishes a row that was not.
RightSave(j) == j.tell => j.before.status # "published" /\ j.after.status = "published"

WorkIsRight ==
    \A w \in Workers :
        /\ work[w].step = "save" => RightSave(work[w])
        /\ work[w].step = "rate" => work[w].seen[work[w].user] = work[w].stars

On(w, r) == work[w].step \in {"save", "tell", "rate", "delete", "record"} /\ work[w].id = r
Tells(w, r) == work[w].step = "tell" /\ work[w].id = r
Records(w, r) == work[w].step = "record" /\ work[w].id = r
ToTell(r) == Cardinality({w \in Workers : Tells(w, r)})
Published(row) == IF row.status = "published" THEN 1 ELSE 0
RatingIs(row, rows) ==
    /\ row.count = Cardinality(Library!Rated(rows))
    /\ row.sum = Sum([u \in Library!Rated(rows) |-> rows[u]], Library!Rated(rows))

ViewsHold(r) ==
    resource[r] # None => <<"views", r>> \in raced \/ resource[r].views = viewed[r]
RatingHolds(r) ==
    resource[r] # None => <<"rating", r>> \in raced \/ RatingIs(resource[r], rating[r])
\* Each notice, given or to be given, is of one time the resource was published.
NoticeHolds(r) ==
    resource[r] # None => <<"notice", r>> \in raced \/ told[r] + ToTell(r) <= withdrawn[r] + Published(resource[r])
FileHolds(r) == resource[r] # None => resource[r].file \in stored \cup lost
\* What a row in the Trash says is true, or about to be said by one request.
LogHolds(r) ==
    Library!InTrash(r) => \/ <<"log", r>> \in raced
                          \/ audit[r] = deleter[r] /\ \A w \in Workers : ~Records(w, r)
                          \/ \E w \in Workers : /\ Records(w, r) /\ work[w].user = deleter[r]
                                                /\ \A v \in Workers : Records(v, r) => v = w
\* A resource that was never made has left no trace.
NeverMade(r) ==
    resource[r] = None /\ deleter[r] = None =>
        /\ told[r] = 0 /\ withdrawn[r] = 0 /\ rating[r] = [u \in Users |-> 0]
        /\ \A w \in Workers : ~On(w, r)

RowHolds(r) == ViewsHold(r) /\ RatingHolds(r) /\ NoticeHolds(r) /\ FileHolds(r) /\ LogHolds(r) /\ NeverMade(r)
ResourceInv == ResourceTyped /\ WorkIsRight /\ \A r \in Resources : RowHolds(r)

\* A request in progress is of the kind its step says.
LEMMA WorkKinds ==
  ASSUME NEW j \in Works
  PROVE  /\ j.step = "save" => j \in SaveWork
         /\ j.step = "tell" => j \in TellWork
         /\ j.step = "rate" => j \in RateWork
         /\ j.step \in {"delete", "record"} => j \in DeleteWork
         /\ j.step = "check" => j \in CheckWork
         /\ j.step = "remove" => j \in RemoveWork
<1>1. j = Library!Idle => j.step = "idle"
  BY DEF Library!Idle
<1> QED
  BY <1>1 DEF Works, SaveWork, TellWork, RateWork, DeleteWork, CheckWork, RemoveWork

LEMMA WorkTyped ==
  ASSUME ResourceTyped, NEW w \in Workers
  PROVE  /\ work[w].step = "save" => work[w] \in SaveWork
         /\ work[w].step = "tell" => work[w] \in TellWork
         /\ work[w].step = "rate" => work[w] \in RateWork
         /\ work[w].step \in {"delete", "record"} => work[w] \in DeleteWork
         /\ work[w].step = "check" => work[w] \in CheckWork
         /\ work[w].step = "remove" => work[w] \in RemoveWork
<1>1. work[w] \in Works
  BY DEF ResourceTyped
<1> QED
  BY <1>1, WorkKinds

\* What the Trash says holds on where no deletion of the row goes on.
LEMMA LogStays ==
  ASSUME NEW r \in Resources, LogHolds(r), Library!InTrash(r)' => Library!InTrash(r),
         <<"log", r>> \in raced => <<"log", r>> \in raced', audit'[r] = audit[r], deleter'[r] = deleter[r],
         \A v \in Workers : Records(v, r)' <=> Records(v, r),
         \A v \in Workers : Records(v, r) => work'[v].user = work[v].user
  PROVE  LogHolds(r)'
<1> SUFFICES ASSUME Library!InTrash(r)', <<"log", r>> \notin raced'
             PROVE  \/ audit'[r] = deleter'[r] /\ \A w \in Workers : ~Records(w, r)'
                    \/ \E w \in Workers : /\ Records(w, r)' /\ work'[w].user = deleter'[r]
                                          /\ \A v \in Workers : Records(v, r)' => v = w
  BY DEF LogHolds
<1>1. \/ audit[r] = deleter[r] /\ \A w \in Workers : ~Records(w, r)
      \/ \E w \in Workers : /\ Records(w, r) /\ work[w].user = deleter[r]
                            /\ \A v \in Workers : Records(v, r) => v = w
  BY DEF LogHolds
<1> QED
  BY <1>1

\* A request goes on to any work there is.
LEMMA WorkSet ==
  ASSUME ResourceTyped, NEW w \in Workers, NEW j \in Works, work' = [work EXCEPT ![w] = j]
  PROVE  work' \in [Workers -> Works] /\ work'[w] = j /\ \A v \in Workers : v # w => work'[v] = work[v]
BY DEF ResourceTyped

LEMMA WorkOver ==
  ASSUME ResourceTyped, NEW w \in Workers, work' = [work EXCEPT ![w] = Library!Idle]
  PROVE  /\ work' \in [Workers -> Works] /\ work'[w] = Library!Idle /\ work'[w].step = "idle"
         /\ \A v \in Workers : v # w => work'[v] = work[v]
<1>1. Library!Idle \in Works
  BY DEF Works
<1> QED
  BY <1>1, WorkSet DEF Library!Idle

\* How the notices to be given change with one request.
LEMMA ToTellMoves ==
  ASSUME ResourceConstants, NEW r, NEW w \in Workers, \A v \in Workers : v # w => work'[v] = work[v]
  PROVE  /\ ToTell(r) \in Nat /\ ToTell(r)' \in Nat
         /\ (Tells(w, r)' <=> Tells(w, r)) => ToTell(r)' = ToTell(r)
         /\ Tells(w, r)' /\ ~Tells(w, r) => ToTell(r)' = ToTell(r) + 1
         /\ ~Tells(w, r)' /\ Tells(w, r) => ToTell(r)' = ToTell(r) - 1
<1> DEFINE S == {v \in Workers : Tells(v, r)}
           T == {v \in Workers : Tells(v, r)}'
<1>1. IsFiniteSet(S) /\ IsFiniteSet(T)
  <2>1. S \subseteq Workers /\ T \subseteq Workers /\ IsFiniteSet(Workers)
    BY DEF ResourceConstants
  <2> QED
    BY <2>1, FS_Subset
<1>2. \A v \in Workers : v # w => (v \in S <=> v \in T)
  BY DEF Tells
<1>3. (w \in S <=> Tells(w, r)) /\ (w \in T <=> Tells(w, r)') /\ S \subseteq Workers /\ T \subseteq Workers
  OBVIOUS
<1>4. ToTell(r) = Cardinality(S) /\ ToTell(r)' = Cardinality(T)
  BY DEF ToTell
<1> HIDE DEF S, T
<1>5. Cardinality(S) \in Nat /\ Cardinality(T) \in Nat
  BY <1>1, FS_CardinalityType
<1>6. (w \in S <=> w \in T) => S = T
  BY <1>2, <1>3
<1>7. w \in T /\ w \notin S => T = S \cup {w}
  BY <1>2, <1>3
<1>8. w \in S /\ w \notin T => S = T \cup {w}
  BY <1>2, <1>3
<1>9. w \in T /\ w \notin S => Cardinality(T) = Cardinality(S) + 1
  BY <1>1, <1>7, FS_AddElement
<1>10. w \in S /\ w \notin T => Cardinality(S) = Cardinality(T) + 1
  BY <1>1, <1>8, FS_AddElement
<1> QED
  BY <1>3, <1>4, <1>5, <1>6, <1>9, <1>10

\* The aggregate of a table of ratings.
LEMMA AggregateTyped ==
  ASSUME ResourceConstants, NEW rows \in [Users -> 0..5]
  PROVE  /\ Cardinality(Library!Rated(rows)) \in 0..Cardinality(Users)
         /\ Sum([u \in Library!Rated(rows) |-> rows[u]], Library!Rated(rows)) \in Nat
<1> DEFINE S == Library!Rated(rows)
           f == [u \in S |-> rows[u]]
<1>1. IsFiniteSet(Users) /\ S \subseteq Users
  BY DEF ResourceConstants, Library!Rated
<1>2. \A u \in S : f[u] \in Nat
  BY <1>1
<1> HIDE DEF S, f
<1>3. IsFiniteSet(S) /\ Cardinality(S) <= Cardinality(Users) /\ Cardinality(S) \in Nat /\ Cardinality(Users) \in Nat
  BY <1>1, FS_Subset, FS_CardinalityType
<1>4. Sum(f, S) \in Nat
  BY <1>2, <1>3, SumNonNegative
<1> QED
  BY <1>3, <1>4 DEF S, f

LEMMA NoRatings ==
  ASSUME NEW rows, rows = [u \in Users |-> 0]
  PROVE  Cardinality(Library!Rated(rows)) = 0 /\ Sum([u \in Library!Rated(rows) |-> rows[u]], Library!Rated(rows)) = 0
<1>1. Library!Rated(rows) = {}
  BY DEF Library!Rated
<1> QED
  BY <1>1, SumEmpty, FS_EmptySet

\* A request takes something up, and nothing else changes.
LEMMA TakenUp ==
  ASSUME ResourceConstants, ResourceInv, NEW w \in Workers, NEW j \in Works, work[w] = Library!Idle,
         work' = [work EXCEPT ![w] = j],
         UNCHANGED <<resource, authored, rating, attachment, stored, audit, viewed, told, withdrawn, deleter, lost, raced>>,
         j.step \in {"save", "rate", "delete"}, resource[j.id] # None,
         j.step = "save" => RightSave(j) /\ j.before = resource[j.id],
         j.step = "rate" => j.seen[j.user] = j.stars
  PROVE  ResourceInv'
<1>1. work' \in [Workers -> Works] /\ work'[w] = j /\ \A v \in Workers : v # w => work'[v] = work[v]
  BY WorkSet DEF ResourceInv
<1>2. ResourceTyped'
  BY <1>1 DEF ResourceInv, ResourceTyped
<1>4. work[w].step = "idle"
  BY DEF Library!Idle
<1>5. WorkIsRight'
  BY <1>1 DEF ResourceInv, WorkIsRight, RightSave
<1>7. ASSUME NEW r \in Resources PROVE RowHolds(r)'
  <2>1. ViewsHold(r)' /\ RatingHolds(r)'
    BY DEF ResourceInv, RowHolds, ViewsHold, RatingHolds
  <2>2. NoticeHolds(r)'
    <3>1. ToTell(r)' = ToTell(r)
      BY <1>1, <1>4, ToTellMoves DEF Tells
    <3> QED
      BY <3>1 DEF ResourceInv, RowHolds, NoticeHolds
  <2>3. FileHolds(r)'
    BY <1>1 DEF ResourceInv, RowHolds, FileHolds, RightSave
  <2>4. LogHolds(r)'
    <3>1. \A v \in Workers : (Records(v, r)' <=> Records(v, r)) /\ (Records(v, r) => work'[v] = work[v])
      BY <1>1, <1>4 DEF Records
    <3>2. Library!InTrash(r)' => Library!InTrash(r)
      BY DEF Library!InTrash
    <3> QED
      BY <3>1, <3>2, LogStays DEF ResourceInv, RowHolds
  <2>5. NeverMade(r)'
    BY <1>1 DEF ResourceInv, RowHolds, NeverMade, On
  <2> QED
    BY <2>1, <2>2, <2>3, <2>4, <2>5 DEF RowHolds
<1> QED
  BY <1>2, <1>5, <1>7 DEF ResourceInv

LEMMA LoadKeeps ==
  ASSUME ResourceConstants, ResourceInv, NEW w \in Workers, NEW u \in Users, NEW r \in Resources,
         \/ Library!ApproveResource(w, u, r) \/ Library!RejectResource(w, u, r)
         \/ \E form \in Bodies : Library!Update(w, u, r, form)
  PROVE  ResourceInv'
<1>1. Library!Live(r) /\ resource[r] \in Library!Row /\ resource[r] # None
  BY DEF Library!ApproveResource, Library!RejectResource, Library!Update, Library!Live, ResourceInv, ResourceTyped
<1>2. PICK after \in Library!Row, tell \in BOOLEAN :
          /\ Library!Load(w, r, after, tell)
          /\ tell => resource[r].status # "published" /\ after.status = "published"
  <2>1. \A s \in Library!Statuses : /\ [resource[r] EXCEPT !.status = s] \in Library!Row
                                    /\ [resource[r] EXCEPT !.status = s].status = s
    BY <1>1 DEF Library!Row
  <2>2. resource[r].batches \in BOOLEAN
    BY <1>1 DEF Library!Row
  <2>3. CASE Library!ApproveResource(w, u, r)
    <3>1. Library!Load(w, r, [resource[r] EXCEPT !.status = "published"], Library!TellsBatches(resource[r]))
      BY <2>3 DEF Library!ApproveResource
    <3>2. Library!TellsBatches(resource[r]) \in BOOLEAN /\ (Library!TellsBatches(resource[r]) => resource[r].status # "published")
      BY <2>2 DEF Library!TellsBatches, Library!wasPublished
    <3>3. "published" \in Library!Statuses
      BY DEF Library!Statuses
    <3> QED
      BY <2>1, <3>1, <3>2, <3>3
  <2>4. CASE Library!RejectResource(w, u, r)
    <3>1. Library!Load(w, r, [resource[r] EXCEPT !.status = "rejected"], FALSE)
      BY <2>4 DEF Library!RejectResource
    <3>2. "rejected" \in Library!Statuses
      BY DEF Library!Statuses
    <3> QED
      BY <2>1, <3>1, <3>2
  <2>5. CASE \E form \in Bodies : Library!Update(w, u, r, form)
    BY <2>5 DEF Library!Update, ResourceConstants
  <2> QED
    BY <2>3, <2>4, <2>5
<1> DEFINE j == [step |-> "save", id |-> r, before |-> resource[r], after |-> after, tell |-> tell]
<1>4. RightSave(j) /\ j.before = resource[r] /\ j.step = "save" /\ j.id = r
  BY <1>2 DEF RightSave
<1>5. j \in Works
  BY <1>1, <1>2 DEF Works, SaveWork
<1>6. /\ work[w] = Library!Idle /\ work' = [work EXCEPT ![w] = j]
      /\ UNCHANGED <<resource, authored, rating, attachment, stored, audit, viewed, told, withdrawn, deleter, lost, raced>>
  BY <1>2, Zenon DEF Library!Load, Library!signalsUnchanged, Library!filesUnchanged
<1> HIDE DEF j
<1> QED
  BY <1>1, <1>4, <1>5, <1>6, TakenUp

LEMMA RateKeeps ==
  ASSUME ResourceConstants, ResourceInv, NEW w \in Workers, NEW u \in Users, NEW r \in Resources, NEW s \in 1..5,
         Library!RateResource(w, u, r, s)
  PROVE  ResourceInv'
<1> DEFINE seen == Library!Seen(r, u, s)
           j == [step |-> "rate", id |-> r, user |-> u, stars |-> s, seen |-> seen]
<1>1. /\ work[w] = Library!Idle /\ work' = [work EXCEPT ![w] = j] /\ resource[r] # None
      /\ UNCHANGED <<resource, authored, rating, attachment, stored, audit, viewed, told, withdrawn, deleter, lost, raced>>
  BY DEF Library!RateResource, Library!signalsUnchanged, Library!filesUnchanged, Library!Live
<1>2. seen \in [Users -> 0..5] /\ seen[u] = s
  <2>1. rating[r] \in [Users -> 0..5]
    BY DEF ResourceInv, ResourceTyped
  <2> QED
    BY <2>1 DEF Library!Seen
<1> HIDE DEF seen
<1>3. j \in RateWork /\ j.step = "rate" /\ j.id = r /\ j.seen[j.user] = j.stars
  BY <1>2 DEF RateWork
<1>4. j \in Works
  BY <1>3 DEF Works
<1> HIDE DEF j
<1> QED
  BY <1>1, <1>3, <1>4, TakenUp

LEMMA DeleteTakenUp ==
  ASSUME ResourceConstants, ResourceInv, NEW w \in Workers, NEW u \in Users, NEW r \in Resources, Library!Delete(w, u, r)
  PROVE  ResourceInv'
<1> DEFINE j == [step |-> "delete", id |-> r, user |-> u]
<1>1. /\ work[w] = Library!Idle /\ work' = [work EXCEPT ![w] = j] /\ resource[r] # None
      /\ UNCHANGED <<resource, authored, rating, attachment, stored, audit, viewed, told, withdrawn, deleter, lost, raced>>
  BY DEF Library!Delete, Library!signalsUnchanged, Library!filesUnchanged, Library!Live
<1>2. j \in DeleteWork /\ j.step = "delete" /\ j.id = r
  BY DEF DeleteWork
<1>3. j \in Works
  BY <1>2 DEF Works
<1> HIDE DEF j
<1> QED
  BY <1>1, <1>2, <1>3, TakenUp

\* Steps of no request, and what they leave of the rows.
LEMMA ViewKeeps ==
  ASSUME ResourceConstants, ResourceInv, NEW q \in Resources, Library!IncrementView(q)
  PROVE  ResourceInv'
<1>1. /\ resource[q] # None /\ resource[q].live /\ viewed[q] < MaxCount /\ resource[q].views < MaxCount
      /\ resource' = [resource EXCEPT ![q] = [resource[q] EXCEPT !.views = resource[q].views + 1]]
      /\ viewed' = [viewed EXCEPT ![q] = viewed[q] + 1]
      /\ UNCHANGED <<authored, rating, attachment, stored, audit, work, told, withdrawn, deleter, lost, raced>>
  BY DEF Library!IncrementView, Library!Live, Library!filesUnchanged
<1> DEFINE row == [resource[q] EXCEPT !.views = resource[q].views + 1]
<1>2. resource[q] \in Library!Row /\ viewed[q] \in 0..MaxCount /\ MaxCount \in Nat
  BY <1>1 DEF ResourceInv, ResourceTyped, ResourceConstants
<1>4. /\ row \in Library!Row /\ row.views = resource[q].views + 1 /\ row.live = resource[q].live
      /\ row.file = resource[q].file /\ row.status = resource[q].status /\ row.sum = resource[q].sum /\ row.count = resource[q].count
  <2>1. resource[q].views \in 0..MaxCount
    BY <1>2 DEF Library!Row
  <2>2. resource[q].views + 1 \in 0..MaxCount
    BY <1>1, <1>2, <2>1
  <2> DEFINE n == resource[q].views + 1
  <2> HIDE DEF n
  <2>3. row = [resource[q] EXCEPT !.views = n] /\ n \in 0..MaxCount
    BY <2>2 DEF n
  <2> HIDE DEF row
  <2>4. /\ row \in Library!Row /\ row.views = n /\ row.live = resource[q].live
        /\ row.file = resource[q].file /\ row.status = resource[q].status /\ row.sum = resource[q].sum /\ row.count = resource[q].count
    BY <1>2, <2>3 DEF Library!Row
  <2> QED
    BY <2>4 DEF n
<1>5. row # None
  BY <1>4 DEF ResourceConstants
<1> HIDE DEF row
<1>6. /\ resource' = [resource EXCEPT ![q] = row] /\ resource'[q] = row /\ viewed'[q] = viewed[q] + 1
      /\ \A r \in Resources : r # q => resource'[r] = resource[r] /\ viewed'[r] = viewed[r]
  BY <1>1 DEF row, ResourceInv, ResourceTyped
<1>7. viewed[q] + 1 \in 0..MaxCount
  BY <1>1, <1>2
<1>8. ResourceTyped'
  BY <1>1, <1>4, <1>6, <1>7 DEF ResourceInv, ResourceTyped
<1>9. WorkIsRight'
  BY <1>1 DEF ResourceInv, WorkIsRight
<1>10. ASSUME NEW r \in Resources PROVE RowHolds(r)'
  <2>1. RowHolds(r)
    BY DEF ResourceInv
  <2>2. ViewsHold(r)'
    BY <1>1, <1>2, <1>4, <1>6, <2>1 DEF RowHolds, ViewsHold, Library!Row
  <2>3. RatingHolds(r)' /\ FileHolds(r)'
    BY <1>1, <1>4, <1>6, <2>1 DEF RowHolds, RatingHolds, RatingIs, FileHolds
  <2>4. NoticeHolds(r)'
    BY <1>1, <1>4, <1>6, <2>1 DEF RowHolds, NoticeHolds, ToTell, Tells, Published
  <2>5. LogHolds(r)'
    <3>1. Library!InTrash(r)' => Library!InTrash(r)
      BY <1>1, <1>4, <1>6 DEF Library!InTrash
    <3> QED
      BY <1>1, <2>1, <3>1, LogStays DEF RowHolds, Records
  <2>6. NeverMade(r)'
    BY <1>1, <1>5, <1>6, <2>1 DEF RowHolds, NeverMade, On
  <2> QED
    BY <2>2, <2>3, <2>4, <2>5, <2>6 DEF RowHolds
<1> QED
  BY <1>8, <1>9, <1>10 DEF ResourceInv

\* Files come and go without the rows; one removed on demand is noted.
LEMMA FilesKeep ==
  ASSUME ResourceInv, UNCHANGED <<resource, authored, rating, audit, work, viewed, told, withdrawn, deleter, raced>>,
         ResourceTyped', stored \cup lost \subseteq stored' \cup lost'
  PROVE  ResourceInv'
<1>1. WorkIsRight'
  BY DEF ResourceInv, WorkIsRight
<1>2. ASSUME NEW r \in Resources PROVE RowHolds(r)'
  <2>1. RowHolds(r)
    BY DEF ResourceInv
  <2>2. ViewsHold(r)' /\ RatingHolds(r)' /\ FileHolds(r)'
    BY <2>1 DEF RowHolds, ViewsHold, RatingHolds, FileHolds
  <2>3. NoticeHolds(r)'
    BY <2>1 DEF RowHolds, NoticeHolds, ToTell, Tells
  <2>4. LogHolds(r)'
    BY <2>1, LogStays DEF RowHolds, Records, Library!InTrash
  <2>5. NeverMade(r)'
    BY <2>1 DEF RowHolds, NeverMade, On
  <2> QED
    BY <2>2, <2>3, <2>4, <2>5 DEF RowHolds
<1> QED
  BY <1>1, <1>2 DEF ResourceInv

LEMMA UploadKeeps ==
  ASSUME ResourceInv, NEW u \in Users, NEW f \in Files, NEW private \in BOOLEAN, NEW recorded \in BOOLEAN,
         Library!MyUploadImage(u, f, private, recorded)
  PROVE  ResourceInv'
<1>1. /\ stored' = stored \cup {f}
      /\ attachment' = attachment \/ attachment' = [attachment EXCEPT ![f] = [by |-> u, private |-> private]]
      /\ UNCHANGED <<resource, authored, rating, audit, work, viewed, told, withdrawn, deleter, raced, lost>>
  BY DEF Library!MyUploadImage, Library!signalsUnchanged
<1>2. ResourceTyped'
  BY <1>1 DEF ResourceInv, ResourceTyped
<1> QED
  BY <1>1, <1>2, FilesKeep

LEMMA DeleteFileKeeps ==
  ASSUME ResourceInv, NEW f \in Files, Library!DeleteFile(f)
  PROVE  ResourceInv'
<1>1. /\ stored' = stored \ {f} /\ lost' = lost \cup {f}
      /\ attachment' = attachment \/ attachment' = [attachment EXCEPT ![f] = None]
      /\ UNCHANGED <<resource, authored, rating, audit, work, viewed, told, withdrawn, deleter, raced>>
  BY DEF Library!DeleteFile, Library!signalsUnchanged
<1>2. ResourceTyped'
  BY <1>1 DEF ResourceInv, ResourceTyped
<1> QED
  BY <1>1, <1>2, FilesKeep

LEMMA RestoreKeeps ==
  ASSUME ResourceConstants, ResourceInv, NEW q \in Resources, Library!Restore(q)
  PROVE  ResourceInv'
<1>1. /\ resource[q] # None
      /\ resource' = [resource EXCEPT ![q] = [resource[q] EXCEPT !.live = TRUE]]
      /\ UNCHANGED <<authored, rating, attachment, stored, audit, work, viewed, told, withdrawn, deleter, lost, raced>>
  BY DEF Library!Restore, Library!InTrash, Library!filesUnchanged, Library!signalsUnchanged
<1> DEFINE row == [resource[q] EXCEPT !.live = TRUE]
<1>2. resource[q] \in Library!Row
  BY <1>1 DEF ResourceInv, ResourceTyped
<1>3. /\ row \in Library!Row /\ row.views = resource[q].views /\ row.live
      /\ row.file = resource[q].file /\ row.status = resource[q].status /\ row.sum = resource[q].sum /\ row.count = resource[q].count
  BY <1>2 DEF Library!Row
<1> HIDE DEF row
<1>4. /\ resource' = [resource EXCEPT ![q] = row] /\ resource'[q] = row
      /\ \A r \in Resources : r # q => resource'[r] = resource[r]
  BY <1>1 DEF row, ResourceInv, ResourceTyped
<1>5. row # None
  BY <1>3 DEF ResourceConstants
<1>6. ResourceTyped'
  BY <1>1, <1>3, <1>4 DEF ResourceInv, ResourceTyped
<1>7. WorkIsRight'
  BY <1>1 DEF ResourceInv, WorkIsRight
<1>8. ASSUME NEW r \in Resources PROVE RowHolds(r)'
  <2>1. RowHolds(r)
    BY DEF ResourceInv
  <2>2. ViewsHold(r)'
    BY <1>1, <1>3, <1>4, <2>1 DEF RowHolds, ViewsHold
  <2>3. RatingHolds(r)' /\ FileHolds(r)'
    BY <1>1, <1>3, <1>4, <2>1 DEF RowHolds, RatingHolds, RatingIs, FileHolds
  <2>4. NoticeHolds(r)'
    BY <1>1, <1>3, <1>4, <2>1 DEF RowHolds, NoticeHolds, ToTell, Tells, Published
  <2>5. LogHolds(r)'
    <3>1. Library!InTrash(r)' => Library!InTrash(r)
      BY <1>1, <1>3, <1>4 DEF Library!InTrash
    <3> QED
      BY <1>1, <2>1, <3>1, LogStays DEF RowHolds, Records
  <2>6. NeverMade(r)'
    BY <1>1, <1>4, <1>5, <2>1 DEF RowHolds, NeverMade, On
  <2> QED
    BY <2>2, <2>3, <2>4, <2>5, <2>6 DEF RowHolds
<1> QED
  BY <1>6, <1>7, <1>8 DEF ResourceInv

\* A file is looked up and removed, where no row has it or it is noted.
LEMMA LookupKeeps ==
  ASSUME ResourceConstants, ResourceInv, NEW w \in Workers, work[w].step \in {"check", "remove"}, work'[w].step \in {"idle", "remove"},
         \A v \in Workers : v # w => work'[v] = work[v], ResourceTyped',
         UNCHANGED <<resource, authored, rating, audit, viewed, told, withdrawn, deleter, raced>>,
         \A r \in Resources : resource[r] # None => resource[r].file \in stored' \cup lost'
  PROVE  ResourceInv'
<1>1. WorkIsRight'
  BY DEF ResourceInv, WorkIsRight
<1>2. ASSUME NEW r \in Resources PROVE RowHolds(r)'
  <2>1. RowHolds(r)
    BY DEF ResourceInv
  <2>2. ViewsHold(r)' /\ RatingHolds(r)'
    BY <2>1 DEF RowHolds, ViewsHold, RatingHolds
  <2>3. FileHolds(r)'
    BY <2>1 DEF RowHolds, FileHolds
  <2>4. NoticeHolds(r)'
    <3>1. ToTell(r)' = ToTell(r)
      BY ToTellMoves DEF Tells
    <3> QED
      BY <2>1, <3>1 DEF RowHolds, NoticeHolds
  <2>5. LogHolds(r)'
    <3>1. \A v \in Workers : (Records(v, r)' <=> Records(v, r)) /\ (Records(v, r) => work'[v] = work[v])
      BY DEF Records
    <3> QED
      BY <2>1, <3>1, LogStays DEF RowHolds, Library!InTrash
  <2>6. NeverMade(r)'
    BY <2>1 DEF RowHolds, NeverMade, On
  <2> QED
    BY <2>2, <2>3, <2>4, <2>5, <2>6 DEF RowHolds
<1> QED
  BY <1>1, <1>2 DEF ResourceInv

LEMMA CheckFileKeeps ==
  ASSUME ResourceConstants, ResourceInv, NEW w \in Workers, Library!CheckFile(w)
  PROVE  ResourceInv'
<1> DEFINE f == work[w].file
           j == IF Library!fileStillUsed(f) THEN Library!Idle ELSE [step |-> "remove", file |-> f, holders |-> Library!Holders(f)]
<1>1. /\ work[w].step = "check" /\ work' = [work EXCEPT ![w] = j]
      /\ UNCHANGED <<resource, authored, rating, attachment, stored, audit, viewed, told, withdrawn, deleter, lost, raced>>
  BY DEF Library!CheckFile, Library!signalsUnchanged, Library!filesUnchanged
<1>2. f \in Files
  <2>1. work[w] \in CheckWork
    BY <1>1, WorkTyped DEF ResourceInv
  <2> QED
    BY <2>1 DEF CheckWork
<1>3. ~Library!fileStillUsed(f) => Library!Holders(f) = {}
  BY DEF Library!fileStillUsed, Library!Holders
<1> HIDE DEF f
<1>4. j \in Works /\ j.step \in {"idle", "remove"}
  BY <1>2, <1>3 DEF Works, RemoveWork, Library!Idle
<1> HIDE DEF j
<1>5. work' \in [Workers -> Works] /\ work'[w] = j /\ \A v \in Workers : v # w => work'[v] = work[v]
  BY <1>1, <1>4, WorkSet DEF ResourceInv
<1>6. ResourceTyped'
  BY <1>1, <1>5 DEF ResourceInv, ResourceTyped
<1>7. \A r \in Resources : resource[r] # None => resource[r].file \in stored' \cup lost'
  BY <1>1 DEF ResourceInv, RowHolds, FileHolds
<1> QED
  BY <1>1, <1>4, <1>5, <1>6, <1>7, LookupKeeps

LEMMA RemoveFileKeeps ==
  ASSUME ResourceConstants, ResourceInv, NEW w \in Workers, Library!RemoveFile(w)
  PROVE  ResourceInv'
<1> DEFINE f == work[w].file
<1>1. /\ work[w].step = "remove" /\ work' = [work EXCEPT ![w] = Library!Idle]
      /\ stored' = stored \ {f}
      /\ lost' = IF Library!Holders(f) \ work[w].holders # {} THEN lost \cup {f} ELSE lost
      /\ UNCHANGED <<resource, authored, rating, attachment, audit, viewed, told, withdrawn, deleter, raced>>
  BY DEF Library!RemoveFile, Library!signalsUnchanged
<1>2. f \in Files /\ work[w].holders = {}
  <2>1. work[w] \in RemoveWork
    BY <1>1, WorkTyped DEF ResourceInv
  <2> QED
    BY <2>1 DEF RemoveWork
<1> HIDE DEF f
<1>3. /\ work' \in [Workers -> Works] /\ work'[w].step = "idle"
      /\ \A v \in Workers : v # w => work'[v] = work[v]
  BY <1>1, WorkOver DEF ResourceInv
<1>4. ResourceTyped'
  BY <1>1, <1>2, <1>3 DEF ResourceInv, ResourceTyped
<1>5. \A r \in Resources : resource[r] # None => resource[r].file \in stored' \cup lost'
  <2> TAKE r \in Resources
  <2> HAVE resource[r] # None
  <2>1. resource[r].file \in stored \cup lost
    BY DEF ResourceInv, RowHolds, FileHolds
  <2>2. resource[r].file = f => Library!Holders(f) # {}
    BY DEF Library!Holders
  <2> QED
    BY <1>1, <1>2, <2>1, <2>2
<1> QED
  BY <1>1, <1>3, <1>4, <1>5, LookupKeeps

LEMMA NotifyKeeps ==
  ASSUME ResourceConstants, ResourceInv, NEW w \in Workers, NEW works \in BOOLEAN, Library!notifyBatches(w, works)
  PROVE  ResourceInv'
<1> DEFINE q == work[w].id
           n == told[q] + IF works THEN 1 ELSE 0
<1>1. /\ work[w].step = "tell" /\ told[q] < MaxCount /\ told' = [told EXCEPT ![q] = n]
      /\ work' = [work EXCEPT ![w] = Library!Idle]
      /\ UNCHANGED <<resource, authored, rating, attachment, stored, audit, viewed, withdrawn, deleter, lost, raced>>
  BY DEF Library!notifyBatches, Library!signalsUnchanged, Library!filesUnchanged
<1>2. q \in Resources
  <2>1. work[w] \in TellWork
    BY <1>1, WorkTyped DEF ResourceInv
  <2> QED
    BY <2>1 DEF TellWork
<1>3. Tells(w, q) /\ On(w, q) /\ \A r \in Resources : r # q => ~Tells(w, r)
  BY <1>1 DEF Tells, On
<1> HIDE DEF q
<1>4. told[q] \in Nat /\ n \in 0..MaxCount /\ n <= told[q] + 1
  BY <1>1, <1>2 DEF ResourceInv, ResourceTyped, ResourceConstants
<1> HIDE DEF n
<1>5. /\ work' \in [Workers -> Works] /\ work'[w].step = "idle"
      /\ \A v \in Workers : v # w => work'[v] = work[v]
  BY <1>1, WorkOver DEF ResourceInv
<1>6. told'[q] = n /\ \A r \in Resources : r # q => told'[r] = told[r]
  BY <1>1, <1>2 DEF ResourceInv, ResourceTyped
<1>7. ResourceTyped'
  BY <1>1, <1>4, <1>5 DEF ResourceInv, ResourceTyped
<1>8. WorkIsRight'
  BY <1>1, <1>5 DEF ResourceInv, WorkIsRight
<1>9. ASSUME NEW r \in Resources PROVE RowHolds(r)'
  <2>1. RowHolds(r)
    BY DEF ResourceInv
  <2>2. ViewsHold(r)' /\ RatingHolds(r)'
    BY <1>1, <2>1 DEF RowHolds, ViewsHold, RatingHolds
  <2>3. FileHolds(r)'
    BY <1>1, <1>5, <2>1 DEF RowHolds, FileHolds
  <2>4. ~Tells(w, r)'
    BY <1>5 DEF Tells
  <2>5. NoticeHolds(r)'
    <3>1. ToTell(r) \in Nat /\ (r = q => ToTell(r)' = ToTell(r) - 1) /\ (r # q => ToTell(r)' = ToTell(r))
      BY <1>3, <1>5, <2>4, ToTellMoves
    <3>2. CASE r = q
      <4>1. told'[r] + ToTell(r)' <= told[r] + ToTell(r)
        BY <1>4, <1>6, <3>1, <3>2
      <4>2. withdrawn[r] + Published(resource[r]) \in Nat /\ told'[r] + ToTell(r)' \in Int /\ told[r] + ToTell(r) \in Int
        BY <1>4, <1>6, <3>1, <3>2 DEF ResourceInv, ResourceTyped, Published
      <4> QED
        BY <1>1, <2>1, <4>1, <4>2 DEF RowHolds, NoticeHolds
    <3>3. CASE r # q
      BY <1>1, <1>6, <2>1, <3>1, <3>3 DEF RowHolds, NoticeHolds
    <3> QED
      BY <3>2, <3>3
  <2>6. LogHolds(r)'
    <3>1. \A v \in Workers : (Records(v, r)' <=> Records(v, r)) /\ (Records(v, r) => work'[v] = work[v])
      BY <1>1, <1>5 DEF Records
    <3> QED
      BY <1>1, <2>1, <3>1, LogStays DEF RowHolds, Library!InTrash
  <2>7. NeverMade(r)'
    BY <1>1, <1>3, <1>5, <1>6, <2>1 DEF RowHolds, NeverMade, On
  <2> QED
    BY <2>2, <2>3, <2>5, <2>6, <2>7 DEF RowHolds
<1> QED
  BY <1>7, <1>8, <1>9 DEF ResourceInv

LEMMA RecordKeeps ==
  ASSUME ResourceConstants, ResourceInv, NEW w \in Workers, NEW works \in BOOLEAN, Library!Record(w, works)
  PROVE  ResourceInv'
<1> DEFINE q == work[w].id
           u == work[w].user
<1>1. /\ work[w].step = "record" /\ work' = [work EXCEPT ![w] = Library!Idle]
      /\ audit' = IF works THEN [audit EXCEPT ![q] = u] ELSE audit
      /\ raced' = IF works THEN raced ELSE raced \cup {<<"log", q>>}
      /\ UNCHANGED <<resource, authored, rating, attachment, stored, viewed, told, withdrawn, deleter, lost>>
  BY DEF Library!Record, Library!signalsUnchanged
<1>2. q \in Resources /\ u \in Users
  <2>1. work[w] \in DeleteWork
    BY <1>1, WorkTyped DEF ResourceInv
  <2> QED
    BY <2>1 DEF DeleteWork
<1>3. Records(w, q) /\ \A r \in Resources : (r # q => ~Records(w, r)) /\ ~Tells(w, r)
  BY <1>1 DEF Records, Tells
<1> HIDE DEF q, u
<1>4. /\ work' \in [Workers -> Works] /\ work'[w].step = "idle"
      /\ \A v \in Workers : v # w => work'[v] = work[v]
  BY <1>1, WorkOver DEF ResourceInv
<1>5. \A r \in Resources : r # q => audit'[r] = audit[r] /\ (<<"log", r>> \in raced <=> <<"log", r>> \in raced')
  BY <1>1, <1>2 DEF ResourceInv, ResourceTyped
<1>6. audit' \in [Resources -> Users \cup {None}]
  BY <1>1, <1>2 DEF ResourceInv, ResourceTyped
<1>7. raced' \subseteq Library!Aspects \X Resources
  BY <1>1, <1>2 DEF ResourceInv, ResourceTyped, Library!Aspects
<1>8. ResourceTyped'
  BY <1>1, <1>4, <1>6, <1>7 DEF ResourceInv, ResourceTyped
<1>9. WorkIsRight'
  BY <1>1, <1>4 DEF ResourceInv, WorkIsRight
<1>10. ASSUME NEW r \in Resources PROVE RowHolds(r)'
  <2>1. RowHolds(r)
    BY DEF ResourceInv
  <2>2. \A a \in {"views", "rating", "notice"} : <<a, r>> \in raced <=> <<a, r>> \in raced'
    BY <1>1
  <2>3. ViewsHold(r)' /\ RatingHolds(r)'
    BY <1>1, <2>1, <2>2 DEF RowHolds, ViewsHold, RatingHolds
  <2>4. FileHolds(r)'
    BY <1>1, <1>4, <2>1 DEF RowHolds, FileHolds
  <2>5. NoticeHolds(r)'
    <3>1. ToTell(r)' = ToTell(r)
      BY <1>3, <1>4, ToTellMoves DEF Tells
    <3> QED
      BY <1>1, <2>1, <2>2, <3>1 DEF RowHolds, NoticeHolds
  <2>6. LogHolds(r)'
    <3>1. CASE r = q
      <4>1. CASE ~works
        BY <1>1, <3>1, <4>1 DEF LogHolds
      <4>2. CASE works
        <5> SUFFICES ASSUME Library!InTrash(r)', <<"log", r>> \notin raced'
                     PROVE  audit'[r] = deleter'[r] /\ \A v \in Workers : ~Records(v, r)'
          BY DEF LogHolds
        <5>1. Library!InTrash(r) /\ <<"log", r>> \notin raced
          BY <1>1, <4>2 DEF Library!InTrash
        <5>2. work[w].user = deleter[r] /\ \A v \in Workers : Records(v, r) => v = w
          BY <1>3, <2>1, <3>1, <5>1 DEF RowHolds, LogHolds
        <5>3. audit'[r] = u
          BY <1>1, <1>2, <3>1, <4>2 DEF ResourceInv, ResourceTyped
        <5>4. ASSUME NEW v \in Workers PROVE ~Records(v, r)'
          BY <1>4, <5>2 DEF Records
        <5> QED
          BY <1>1, <5>2, <5>3, <5>4 DEF u
      <4> QED
        BY <4>1, <4>2
    <3>2. CASE r # q
      <4>1. \A v \in Workers : (Records(v, r)' <=> Records(v, r)) /\ (Records(v, r) => work'[v] = work[v])
        BY <1>3, <1>4, <3>2 DEF Records
      <4> QED
        BY <1>1, <1>5, <2>1, <3>2, <4>1, LogStays DEF RowHolds, Library!InTrash
    <3> QED
      BY <3>1, <3>2
  <2>7. NeverMade(r)'
    BY <1>1, <1>4, <2>1 DEF RowHolds, NeverMade, On
  <2> QED
    BY <2>3, <2>4, <2>5, <2>6, <2>7 DEF RowHolds
<1> QED
  BY <1>8, <1>9, <1>10 DEF ResourceInv

LEMMA SoftDeleteKeeps ==
  ASSUME ResourceConstants, ResourceInv, NEW w \in Workers, Library!SoftDelete(w)
  PROVE  ResourceInv'
<1> DEFINE q == work[w].id
           u == work[w].user
           j == [work[w] EXCEPT !.step = "record"]
           row == [resource[q] EXCEPT !.live = FALSE]
<1>1. /\ work[w].step = "delete" /\ work' = [work EXCEPT ![w] = j]
      /\ resource' = IF Library!Live(q) THEN [resource EXCEPT ![q] = row] ELSE resource
      /\ deleter' = IF Library!Live(q) THEN [deleter EXCEPT ![q] = u] ELSE deleter
      /\ raced' = IF Library!Live(q) /\ ~\E x \in Workers : work[x].step = "record" /\ work[x].id = q
                  THEN raced \ {<<"log", q>>} ELSE raced \cup {<<"log", q>>}
      /\ UNCHANGED <<authored, rating, attachment, stored, audit, viewed, told, withdrawn, lost>>
  BY DEF Library!SoftDelete, Library!signalsUnchanged
<1>2. work[w] \in DeleteWork
  BY <1>1, WorkTyped DEF ResourceInv
<1>3. q \in Resources /\ u \in Users /\ u # None /\ j \in DeleteWork /\ j.step = "record" /\ j.id = q /\ j.user = u
  BY <1>2 DEF DeleteWork, ResourceConstants
<1>4. On(w, q) /\ ~Records(w, q) /\ \A r \in Resources : ~Tells(w, r)
  BY <1>1 DEF On, Records, Tells
<1>5. Library!Live(q) => /\ row \in Library!Row /\ row # None /\ row.views = resource[q].views /\ ~row.live
                         /\ row.file = resource[q].file /\ row.status = resource[q].status
                         /\ row.sum = resource[q].sum /\ row.count = resource[q].count
  <2> SUFFICES ASSUME Library!Live(q)
               PROVE  /\ row \in Library!Row /\ row # None /\ row.views = resource[q].views /\ ~row.live
                      /\ row.file = resource[q].file /\ row.status = resource[q].status
                      /\ row.sum = resource[q].sum /\ row.count = resource[q].count
    OBVIOUS
  <2>1. resource[q] \in Library!Row
    BY <1>3 DEF Library!Live, ResourceInv, ResourceTyped
  <2> QED
    BY <2>1 DEF Library!Row, ResourceConstants
<1>6. j \in Works
  BY <1>3 DEF Works
<1> HIDE DEF q, u, j, row
<1>7. /\ work' \in [Workers -> Works] /\ work'[w] = j
      /\ \A v \in Workers : v # w => work'[v] = work[v]
  BY <1>1, <1>6, WorkSet DEF ResourceInv
<1>8. Library!Live(q) => resource'[q] = row /\ deleter'[q] = u
  BY <1>1, <1>3 DEF ResourceInv, ResourceTyped
<1>9. /\ ~Library!Live(q) => resource' = resource /\ deleter' = deleter
      /\ \A r \in Resources : r # q => /\ resource'[r] = resource[r] /\ deleter'[r] = deleter[r]
                                       /\ <<"log", r>> \in raced <=> <<"log", r>> \in raced'
  BY <1>1, <1>3 DEF ResourceInv, ResourceTyped
<1>10. ResourceTyped'
  <2>1. resource' \in [Resources -> Library!Row \cup {None}]
    BY <1>1, <1>3, <1>5 DEF ResourceInv, ResourceTyped
  <2>2. deleter' \in [Resources -> Users \cup {None}]
    BY <1>1, <1>3 DEF ResourceInv, ResourceTyped
  <2>3. raced' \subseteq Library!Aspects \X Resources
    BY <1>1, <1>3 DEF ResourceInv, ResourceTyped, Library!Aspects
  <2> QED
    BY <1>1, <1>7, <2>1, <2>2, <2>3 DEF ResourceInv, ResourceTyped
<1>11. WorkIsRight'
  BY <1>1, <1>3, <1>7 DEF ResourceInv, WorkIsRight
<1>12. ASSUME NEW r \in Resources PROVE RowHolds(r)'
  <2>1. RowHolds(r)
    BY DEF ResourceInv
  <2>2. \A a \in {"views", "rating", "notice"} : <<a, r>> \in raced <=> <<a, r>> \in raced'
    BY <1>1
  <2>3. /\ resource'[r] # None <=> resource[r] # None
        /\ resource[r] # None => /\ resource'[r].views = resource[r].views /\ resource'[r].file = resource[r].file
                                 /\ resource'[r].status = resource[r].status /\ resource'[r].sum = resource[r].sum
                                 /\ resource'[r].count = resource[r].count
    BY <1>5, <1>8, <1>9 DEF Library!Live
  <2>4. ViewsHold(r)' /\ RatingHolds(r)'
    BY <1>1, <2>1, <2>2, <2>3 DEF RowHolds, ViewsHold, RatingHolds, RatingIs
  <2>5. FileHolds(r)'
    BY <1>1, <1>3, <1>7, <2>1, <2>3 DEF RowHolds, FileHolds
  <2>6. NoticeHolds(r)'
    <3>1. ToTell(r)' = ToTell(r)
      BY <1>3, <1>4, <1>7, ToTellMoves DEF Tells
    <3> QED
      BY <1>1, <2>1, <2>2, <2>3, <3>1 DEF RowHolds, NoticeHolds, Published
  <2>7. LogHolds(r)'
    <3>1. CASE r = q /\ Library!Live(q) /\ ~\E x \in Workers : Records(x, q)
      <4>1. Records(w, r)' /\ work'[w].user = deleter'[r]
        BY <1>3, <1>7, <1>8, <3>1 DEF Records
      <4>2. \A v \in Workers : Records(v, r)' => v = w
        BY <1>7, <3>1 DEF Records
      <4> QED
        BY <4>1, <4>2 DEF LogHolds
    <3>2. CASE r = q /\ ~(Library!Live(q) /\ ~\E x \in Workers : Records(x, q))
      <4>1. <<"log", r>> \in raced'
        BY <1>1, <3>2 DEF Records
      <4> QED
        BY <4>1 DEF LogHolds
    <3>3. CASE r # q
      <4>1. \A v \in Workers : (Records(v, r)' <=> Records(v, r)) /\ (Records(v, r) => work'[v] = work[v])
        BY <1>1, <1>3, <1>7, <3>3 DEF Records
      <4>2. Library!InTrash(r)' => Library!InTrash(r)
        BY <1>9, <3>3 DEF Library!InTrash
      <4> QED
        BY <1>1, <1>9, <2>1, <3>3, <4>1, <4>2, LogStays DEF RowHolds
    <3> QED
      BY <3>1, <3>2, <3>3
  <2>8. NeverMade(r)'
    BY <1>1, <1>3, <1>4, <1>7, <1>8, <1>9, <2>1, <2>3 DEF RowHolds, NeverMade, On
  <2> QED
    BY <2>4, <2>5, <2>6, <2>7, <2>8 DEF RowHolds
<1> QED
  BY <1>10, <1>11, <1>12 DEF ResourceInv

LEMMA EraseKeeps ==
  ASSUME ResourceConstants, ResourceInv, NEW w \in Workers, NEW q \in Resources, NEW u \in Users, NEW authors \in SUBSET authored,
         resource[q] # None, Library!Erase(w, q, u, authors)
  PROVE  ResourceInv'
<1> DEFINE j == [step |-> "check", file |-> resource[q].file]
<1>1. /\ work[w] = Library!Idle /\ work' = [work EXCEPT ![w] = j]
      /\ resource' = [resource EXCEPT ![q] = None]
      /\ rating' = [rating EXCEPT ![q] = [x \in Users |-> 0]]
      /\ deleter' = [deleter EXCEPT ![q] = u] /\ authored' = authors
      /\ UNCHANGED <<attachment, stored, audit, viewed, told, withdrawn, lost, raced>>
  BY DEF Library!Erase
<1>2. j \in CheckWork /\ j.step = "check"
  BY DEF CheckWork, Library!Row, ResourceInv, ResourceTyped
<1>3. j \in Works
  BY <1>2 DEF Works
<1> HIDE DEF j
<1>4. /\ work' \in [Workers -> Works] /\ work'[w] = j
      /\ \A v \in Workers : v # w => work'[v] = work[v]
  BY <1>1, <1>3, WorkSet DEF ResourceInv
<1>5. work[w].step = "idle"
  BY <1>1 DEF Library!Idle
<1>6. /\ resource'[q] = None /\ deleter'[q] = u /\ u # None
      /\ \A r \in Resources : r # q => resource'[r] = resource[r] /\ rating'[r] = rating[r] /\ deleter'[r] = deleter[r]
  BY <1>1 DEF ResourceInv, ResourceTyped, ResourceConstants
<1>7. ResourceTyped'
  <2>1. resource' \in [Resources -> Library!Row \cup {None}] /\ deleter' \in [Resources -> Users \cup {None}]
    BY <1>1 DEF ResourceInv, ResourceTyped
  <2>2. rating' \in [Resources -> [Users -> 0..5]]
    BY <1>1 DEF ResourceInv, ResourceTyped
  <2> QED
    BY <1>1, <1>4, <2>1, <2>2 DEF ResourceInv, ResourceTyped
<1>8. WorkIsRight'
  BY <1>1, <1>2, <1>4 DEF ResourceInv, WorkIsRight
<1>9. ASSUME NEW r \in Resources PROVE RowHolds(r)'
  <2>1. CASE r = q
    BY <1>6, <2>1 DEF RowHolds, ViewsHold, RatingHolds, NoticeHolds, FileHolds, LogHolds, NeverMade, Library!InTrash
  <2>2. CASE r # q
    <3>1. RowHolds(r)
      BY DEF ResourceInv
    <3>2. ViewsHold(r)' /\ RatingHolds(r)'
      BY <1>1, <1>6, <2>2, <3>1 DEF RowHolds, ViewsHold, RatingHolds
    <3>3. FileHolds(r)'
      BY <1>1, <1>2, <1>4, <1>6, <2>2, <3>1 DEF RowHolds, FileHolds
    <3>4. NoticeHolds(r)'
      <4>1. ToTell(r)' = ToTell(r)
        BY <1>2, <1>4, <1>5, ToTellMoves DEF Tells
      <4> QED
        BY <1>1, <1>6, <2>2, <3>1, <4>1 DEF RowHolds, NoticeHolds
    <3>5. LogHolds(r)'
      <4>1. \A v \in Workers : (Records(v, r)' <=> Records(v, r)) /\ (Records(v, r) => work'[v] = work[v])
        BY <1>2, <1>4, <1>5 DEF Records
      <4> QED
        BY <1>1, <1>6, <2>2, <3>1, <4>1, LogStays DEF RowHolds, Library!InTrash
    <3>6. NeverMade(r)'
      BY <1>1, <1>2, <1>4, <1>6, <2>2, <3>1 DEF RowHolds, NeverMade, On
    <3> QED
      BY <3>2, <3>3, <3>4, <3>5, <3>6 DEF RowHolds
  <2> QED
    BY <2>1, <2>2
<1> QED
  BY <1>7, <1>8, <1>9 DEF ResourceInv

LEMMA CreateKeeps ==
  ASSUME ResourceConstants, ResourceInv, NEW w \in Workers, NEW u \in Users, NEW q \in Resources, NEW row \in Bodies,
         NEW notify \in BOOLEAN, Library!Create(w, u, q, row, notify)
  PROVE  ResourceInv'
<1> DEFINE j == [step |-> "tell", id |-> q]
           tells == notify /\ row.status = "published" /\ row.batches
           wrong == Library!Invented(row)
<1>1. /\ work[w] = Library!Idle /\ resource[q] = None /\ deleter[q] = None
      /\ resource' = [resource EXCEPT ![q] = row]
      /\ viewed' = [viewed EXCEPT ![q] = row.views]
      /\ authored' \in {authored, authored \cup {q}}
      /\ raced' = raced \cup (wrong \X {q})
      /\ lost' = lost \cup Library!Missing(row.file)
      /\ work' = IF tells THEN [work EXCEPT ![w] = j] ELSE work
      /\ UNCHANGED <<rating, attachment, stored, audit, told, withdrawn, deleter>>
  BY DEF Library!Create
<1>2. row \in Library!Row /\ row.views \in 0..MaxCount /\ row.file \in Files
  BY DEF Library!Row, ResourceConstants
<1>3. row # None
  BY <1>2 DEF ResourceConstants
<1>14. /\ wrong \subseteq Library!Aspects
       /\ "rating" \in wrong \/ (row.sum = 0 /\ row.count = 0)
       /\ "log" \in wrong \/ row.live
       /\ Library!Missing(row.file) \subseteq Files /\ row.file \in stored \cup Library!Missing(row.file)
  BY <1>2 DEF Library!Invented, Library!Aspects, Library!Missing
<1>4. j \in TellWork /\ j.step = "tell" /\ j.id = q
  BY DEF TellWork
<1>5. j \in Works
  BY <1>4 DEF Works
<1>6. work[w].step = "idle" /\ (tells => row.status = "published")
  BY <1>1 DEF Library!Idle
<1> HIDE DEF j, tells, wrong
<1>7. /\ work' \in [Workers -> Works] /\ (tells => work'[w] = j) /\ (~tells => work'[w] = work[w])
      /\ \A v \in Workers : v # w => work'[v] = work[v]
  <2>1. CASE tells
    BY <1>1, <1>5, <2>1, WorkSet DEF ResourceInv
  <2>2. CASE ~tells
    BY <1>1, <2>2 DEF ResourceInv, ResourceTyped
  <2> QED
    BY <2>1, <2>2
<1>8. /\ resource'[q] = row /\ viewed'[q] = row.views
      /\ \A a \in wrong : <<a, q>> \in raced'
      /\ \A r \in Resources : r # q => /\ resource'[r] = resource[r] /\ viewed'[r] = viewed[r]
                                      /\ \A a \in Library!Aspects : <<a, r>> \in raced <=> <<a, r>> \in raced'
  BY <1>1, <1>14 DEF ResourceInv, ResourceTyped
<1>9. ResourceTyped'
  <2>1. resource' \in [Resources -> Library!Row \cup {None}] /\ viewed' \in [Resources -> 0..MaxCount]
    BY <1>1, <1>2 DEF ResourceInv, ResourceTyped
  <2>2. raced' \subseteq Library!Aspects \X Resources /\ lost' \subseteq Files
    BY <1>1, <1>14 DEF ResourceInv, ResourceTyped
  <2> QED
    BY <1>1, <1>7, <2>1, <2>2 DEF ResourceInv, ResourceTyped
<1>10. WorkIsRight'
  BY <1>1, <1>4, <1>6, <1>7 DEF ResourceInv, WorkIsRight
<1>11. ~Tells(w, q) /\ (Tells(w, q)' <=> tells) /\ \A r \in Resources : r # q => ~Tells(w, r) /\ ~Tells(w, r)'
  BY <1>4, <1>6, <1>7 DEF Tells
<1>12. RowHolds(q)'
  <2>1. /\ told[q] = 0 /\ withdrawn[q] = 0 /\ rating[q] = [x \in Users |-> 0]
        /\ \A v \in Workers : ~On(v, q)
    BY <1>1 DEF ResourceInv, RowHolds, NeverMade
  <2>2. ViewsHold(q)'
    BY <1>8 DEF ViewsHold
  <2>3. RatingHolds(q)'
    BY <1>1, <1>8, <1>14, <2>1, NoRatings DEF RatingHolds, RatingIs
  <2>4. NoticeHolds(q)'
    <3>1. ToTell(q) = 0
      <4>1. {v \in Workers : Tells(v, q)} = {}
        BY <2>1 DEF On, Tells
      <4> QED
        BY <4>1, FS_EmptySet DEF ToTell
    <3>2. (tells => ToTell(q)' = ToTell(q) + 1) /\ (~tells => ToTell(q)' = ToTell(q))
      BY <1>7, <1>11, ToTellMoves
    <3> QED
      BY <1>1, <1>2, <1>6, <1>8, <2>1, <3>1, <3>2 DEF NoticeHolds, Published
  <2>5. FileHolds(q)'
    BY <1>1, <1>8, <1>14 DEF FileHolds
  <2>6. LogHolds(q)' /\ NeverMade(q)'
    BY <1>3, <1>8, <1>14 DEF LogHolds, NeverMade, Library!InTrash
  <2> QED
    BY <2>2, <2>3, <2>4, <2>5, <2>6 DEF RowHolds
<1>13. ASSUME NEW r \in Resources, r # q PROVE RowHolds(r)'
  <2>1. RowHolds(r)
    BY DEF ResourceInv
  <2>7. \A a \in {"views", "rating", "notice", "log"} : <<a, r>> \in raced <=> <<a, r>> \in raced'
    BY <1>8, <1>13 DEF Library!Aspects
  <2>2. ViewsHold(r)' /\ RatingHolds(r)'
    BY <1>1, <1>8, <1>13, <2>1, <2>7 DEF RowHolds, ViewsHold, RatingHolds
  <2>3. FileHolds(r)'
    BY <1>1, <1>4, <1>7, <1>8, <1>13, <2>1 DEF RowHolds, FileHolds
  <2>4. NoticeHolds(r)'
    <3>1. ToTell(r)' = ToTell(r)
      BY <1>7, <1>11, <1>13, ToTellMoves
    <3> QED
      BY <1>1, <1>8, <1>13, <2>1, <2>7, <3>1 DEF RowHolds, NoticeHolds
  <2>5. LogHolds(r)'
    <3>1. \A v \in Workers : (Records(v, r)' <=> Records(v, r)) /\ (Records(v, r) => work'[v] = work[v])
      BY <1>4, <1>6, <1>7 DEF Records
    <3> QED
      BY <1>1, <1>8, <1>13, <2>1, <2>7, <3>1, LogStays DEF RowHolds, Library!InTrash
  <2>6. NeverMade(r)'
    BY <1>1, <1>4, <1>7, <1>8, <1>13, <2>1 DEF RowHolds, NeverMade, On
  <2> QED
    BY <2>2, <2>3, <2>4, <2>5, <2>6 DEF RowHolds
<1> QED
  BY <1>9, <1>10, <1>12, <1>13 DEF ResourceInv

LEMMA CommitRatingKeeps ==
  ASSUME ResourceConstants, ResourceInv, NEW w \in Workers, Library!CommitRating(w)
  PROVE  ResourceInv'
<1> DEFINE q == work[w].id
           u == work[w].user
           seen == work[w].seen
           rows == [rating[q] EXCEPT ![u] = work[w].stars]
           count == Cardinality(Library!Rated(seen))
           sum == Sum([x \in Library!Rated(seen) |-> seen[x]], Library!Rated(seen))
           row == [resource[q] EXCEPT !.sum = sum, !.count = count]
           same == \A x \in Users \ {u} : seen[x] = rows[x]
<1>1. /\ work[w].step = "rate" /\ work' = [work EXCEPT ![w] = Library!Idle]
      /\ rating' = [rating EXCEPT ![q] = rows]
      /\ resource' = IF Library!Live(q)
                     THEN [resource EXCEPT ![q].sum = Library!Sum([x \in Library!Rated(seen) |-> seen[x]], Library!Rated(seen)),
                                           ![q].count = Library!Cardinality(Library!Rated(seen))]
                     ELSE resource
      /\ raced' = IF Library!Live(q) /\ same THEN raced \ {<<"rating", q>>} ELSE raced \cup {<<"rating", q>>}
      /\ UNCHANGED <<authored, attachment, stored, audit, viewed, told, withdrawn, deleter, lost>>
  BY DEF Library!CommitRating, Library!filesUnchanged
<1>2. work[w] \in RateWork
  BY <1>1, WorkTyped DEF ResourceInv
<1>3. q \in Resources /\ u \in Users /\ seen \in [Users -> 0..5] /\ work[w].stars \in 0..5 /\ seen[u] = work[w].stars
  BY <1>1, <1>2 DEF RateWork, ResourceInv, WorkIsRight
<1>4. rows \in [Users -> 0..5] /\ rows[u] = work[w].stars
  BY <1>3 DEF ResourceInv, ResourceTyped
<1>5. On(w, q) /\ \A r \in Resources : ~Tells(w, r) /\ ~Records(w, r)
  BY <1>1 DEF On, Records, Tells
<1> HIDE DEF q, u, seen, rows
<1>6. count \in 0..Cardinality(Users) /\ sum \in Nat
  BY <1>3, AggregateTyped
<1>7. same => rows = seen
  BY <1>3, <1>4
<1>8. Library!Live(q) => resource' = [resource EXCEPT ![q] = row]
  <2>1. /\ Library!Sum([x \in Library!Rated(seen) |-> seen[x]], Library!Rated(seen)) = sum
        /\ Library!Cardinality(Library!Rated(seen)) = count
    BY LibrarySums
  <2> HIDE DEF sum, count
  <2>2. Library!Live(q) => resource' = [resource EXCEPT ![q].sum = sum, ![q].count = count]
    BY <1>1, <2>1
  <2> QED
    BY <1>3, <2>2 DEF ResourceInv, ResourceTyped
<1>9. rows = seen => count = Cardinality(Library!Rated(rows)) /\ sum = Sum([x \in Library!Rated(rows) |-> rows[x]], Library!Rated(rows))
  OBVIOUS
<1> HIDE DEF count, sum, same
<1>10. Library!Live(q) => /\ row \in Library!Row /\ row # None /\ row.views = resource[q].views /\ row.live
                          /\ row.file = resource[q].file /\ row.status = resource[q].status
                          /\ row.sum = sum /\ row.count = count
  <2> SUFFICES ASSUME Library!Live(q)
               PROVE  /\ row \in Library!Row /\ row # None /\ row.views = resource[q].views /\ row.live
                      /\ row.file = resource[q].file /\ row.status = resource[q].status
                      /\ row.sum = sum /\ row.count = count
    OBVIOUS
  <2>1. resource[q] \in Library!Row /\ resource[q].live
    BY <1>3 DEF Library!Live, ResourceInv, ResourceTyped
  <2>2. count \in 0..Library!Cardinality(Users)
    BY <1>6, LibrarySums
  <2> QED
    BY <1>6, <2>1, <2>2 DEF Library!Row, ResourceConstants
<1> HIDE DEF row
<1>11. /\ work' \in [Workers -> Works] /\ work'[w].step = "idle"
       /\ \A v \in Workers : v # w => work'[v] = work[v]
  BY <1>1, WorkOver DEF ResourceInv
<1>12. /\ Library!Live(q) => resource'[q] = row
       /\ ~Library!Live(q) => resource' = resource
       /\ rating'[q] = rows
       /\ \A r \in Resources : r # q => /\ resource'[r] = resource[r] /\ rating'[r] = rating[r]
                                        /\ <<"rating", r>> \in raced <=> <<"rating", r>> \in raced'
  BY <1>1, <1>3, <1>8 DEF ResourceInv, ResourceTyped
<1>13. ResourceTyped'
  <2>1. resource' \in [Resources -> Library!Row \cup {None}]
    BY <1>3, <1>8, <1>10, <1>12 DEF ResourceInv, ResourceTyped
  <2>2. rating' \in [Resources -> [Users -> 0..5]]
    BY <1>1, <1>3, <1>4 DEF ResourceInv, ResourceTyped
  <2>3. raced' \subseteq Library!Aspects \X Resources
    BY <1>1, <1>3 DEF ResourceInv, ResourceTyped, Library!Aspects
  <2> QED
    BY <1>1, <1>11, <2>1, <2>2, <2>3 DEF ResourceInv, ResourceTyped
<1>14. WorkIsRight'
  BY <1>1, <1>11 DEF ResourceInv, WorkIsRight
<1>15. ASSUME NEW r \in Resources PROVE RowHolds(r)'
  <2>1. RowHolds(r)
    BY DEF ResourceInv
  <2>2. \A a \in {"views", "log", "notice"} : <<a, r>> \in raced <=> <<a, r>> \in raced'
    BY <1>1
  <2>3. /\ resource'[r] # None <=> resource[r] # None
        /\ resource[r] # None => /\ resource'[r].views = resource[r].views /\ resource'[r].file = resource[r].file
                                 /\ resource'[r].status = resource[r].status
    BY <1>10, <1>12 DEF Library!Live
  <2>4. ViewsHold(r)'
    BY <1>1, <2>1, <2>2, <2>3 DEF RowHolds, ViewsHold
  <2>5. RatingHolds(r)'
    <3>1. CASE r = q /\ Library!Live(q) /\ same
      BY <1>7, <1>9, <1>10, <1>12, <3>1 DEF RatingHolds, RatingIs
    <3>2. CASE r = q /\ ~(Library!Live(q) /\ same)
      BY <1>1, <3>2 DEF RatingHolds
    <3>3. CASE r # q
      BY <1>12, <2>1, <3>3 DEF RowHolds, RatingHolds
    <3> QED
      BY <3>1, <3>2, <3>3
  <2>6. FileHolds(r)'
    BY <1>1, <1>11, <2>1, <2>3 DEF RowHolds, FileHolds
  <2>7. NoticeHolds(r)'
    <3>1. ToTell(r)' = ToTell(r)
      BY <1>5, <1>11, ToTellMoves DEF Tells
    <3> QED
      BY <1>1, <2>1, <2>2, <2>3, <3>1 DEF RowHolds, NoticeHolds, Published
  <2>8. LogHolds(r)'
    <3>1. \A v \in Workers : (Records(v, r)' <=> Records(v, r)) /\ (Records(v, r) => work'[v] = work[v])
      BY <1>1, <1>11 DEF Records
    <3>2. Library!InTrash(r)' => Library!InTrash(r)
      BY <1>10, <1>12 DEF Library!InTrash
    <3> QED
      BY <1>1, <2>1, <2>2, <3>1, <3>2, LogStays DEF RowHolds
  <2>9. NeverMade(r)'
    BY <1>1, <1>5, <1>11, <1>12, <2>1, <2>3 DEF RowHolds, NeverMade, On
  <2> QED
    BY <2>4, <2>5, <2>6, <2>7, <2>8, <2>9 DEF RowHolds
<1> QED
  BY <1>13, <1>14, <1>15 DEF ResourceInv

LEMMA SaveKeeps ==
  ASSUME ResourceConstants, ResourceInv, NEW w \in Workers, Library!Save(w)
  PROVE  ResourceInv'
<1> DEFINE q == work[w].id
           now == resource[q]
           before == work[w].before
           after == work[w].after
           tell == work[w].tell
           j == IF tell THEN [step |-> "tell", id |-> q] ELSE Library!Idle
           drops == now # None /\ now.status = "published" /\ after.status # "published"
           n == withdrawn[q] + IF drops THEN 1 ELSE 0
           wrong == Library!Wrong(before, now, after)
<1>1. /\ work[w].step = "save" /\ work' = [work EXCEPT ![w] = j]
      /\ ~drops \/ withdrawn[q] < MaxCount
      /\ resource' = [resource EXCEPT ![q] = after]
      /\ viewed' = IF after.views # before.views THEN [viewed EXCEPT ![q] = after.views] ELSE viewed
      /\ withdrawn' = [withdrawn EXCEPT ![q] = n]
      /\ raced' = raced \cup (wrong \X {q})
      /\ lost' = lost \cup Library!Missing(after.file)
      /\ UNCHANGED <<authored, rating, attachment, stored, audit, told, deleter>>
  BY DEF Library!Save
<1>2. work[w] \in SaveWork /\ RightSave(work[w])
  BY <1>1, WorkTyped DEF ResourceInv, WorkIsRight
<1>3. q \in Resources /\ before \in Library!Row /\ after \in Library!Row /\ tell \in BOOLEAN
  BY <1>2 DEF SaveWork
<1>4. tell => before.status # "published" /\ after.status = "published"
  BY <1>2 DEF RightSave
<1>5. On(w, q) /\ \A r \in Resources : ~Tells(w, r) /\ ~Records(w, r)
  BY <1>1 DEF On, Records, Tells
<1>6. after.views \in 0..MaxCount /\ after.file \in Files
  BY <1>3 DEF Library!Row
<1>7. j \in Works /\ (tell => j.step = "tell" /\ j.id = q) /\ (~tell => j.step = "idle")
  <2>1. [step |-> "tell", id |-> q] \in TellWork
    BY <1>3 DEF TellWork
  <2> QED
    BY <2>1 DEF Works, Library!Idle
<1>8. /\ wrong \subseteq Library!Aspects
      /\ "views" \in wrong \/ after.views # before.views \/ (now # None /\ now.views = after.views)
      /\ "rating" \in wrong \/ (now # None /\ now.sum = after.sum /\ now.count = after.count)
      /\ "notice" \in wrong \/ (now # None /\ now.status = before.status)
      /\ "log" \in wrong \/ after.live
      /\ Library!Missing(after.file) \subseteq Files /\ after.file \in stored \cup Library!Missing(after.file)
  BY <1>6 DEF Library!Wrong, Library!Aspects, Library!Missing
<1>9. after # None
  BY <1>3 DEF ResourceConstants
<1>10. now # None => now \in Library!Row
  BY <1>3 DEF ResourceInv, ResourceTyped
<1> HIDE DEF q, now, before, after, tell, j, n, wrong
<1>11. /\ work' \in [Workers -> Works] /\ work'[w] = j
       /\ \A v \in Workers : v # w => work'[v] = work[v]
  BY <1>1, <1>7, WorkSet DEF ResourceInv
<1>12. /\ resource'[q] = after /\ withdrawn'[q] = n
       /\ after.views # before.views => viewed'[q] = after.views
       /\ after.views = before.views => viewed'[q] = viewed[q]
       /\ \A a \in wrong : <<a, q>> \in raced'
       /\ \A r \in Resources : r # q => /\ resource'[r] = resource[r] /\ withdrawn'[r] = withdrawn[r] /\ viewed'[r] = viewed[r]
                                        /\ \A a \in Library!Aspects : <<a, r>> \in raced <=> <<a, r>> \in raced'
  BY <1>1, <1>3, <1>8 DEF ResourceInv, ResourceTyped
<1>13. withdrawn[q] \in 0..MaxCount /\ n \in 0..MaxCount /\ n = withdrawn[q] + IF drops THEN 1 ELSE 0
  BY <1>1, <1>3 DEF n, ResourceInv, ResourceTyped, ResourceConstants
<1>14. ResourceTyped'
  <2>1. resource' \in [Resources -> Library!Row \cup {None}]
    BY <1>1, <1>3 DEF ResourceInv, ResourceTyped
  <2>2. withdrawn' \in [Resources -> 0..MaxCount]
    BY <1>1, <1>13 DEF ResourceInv, ResourceTyped
  <2>3. raced' \subseteq Library!Aspects \X Resources
    BY <1>1, <1>3, <1>8 DEF ResourceInv, ResourceTyped
  <2>4. lost' \subseteq Files /\ viewed' \in [Resources -> 0..MaxCount]
    BY <1>1, <1>6, <1>8 DEF ResourceInv, ResourceTyped
  <2> QED
    BY <1>1, <1>11, <2>1, <2>2, <2>3, <2>4 DEF ResourceInv, ResourceTyped
<1>15. WorkIsRight'
  BY <1>1, <1>7, <1>11 DEF ResourceInv, WorkIsRight
<1>16. ASSUME NEW r \in Resources, r = q PROVE RowHolds(r)'
  <2>1. RowHolds(r)
    BY DEF ResourceInv
  <2>2. now # None => <<"views", r>> \in raced \/ now.views = viewed[r]
    BY <1>16, <2>1 DEF RowHolds, ViewsHold, now
  <2>3. \A a \in wrong : <<a, r>> \in raced'
    BY <1>16, <1>12
  <2>4. ViewsHold(r)'
    BY <1>16, <1>1, <1>8, <1>12, <2>2, <2>3 DEF ViewsHold
  <2>5. RatingHolds(r)'
    <3>1. now # None => <<"rating", r>> \in raced \/ RatingIs(now, rating[r])
      BY <1>16, <2>1 DEF RowHolds, RatingHolds, now
    <3> QED
      BY <1>16, <1>1, <1>8, <1>12, <2>3, <3>1 DEF RatingHolds, RatingIs
  <2>6. NoticeHolds(r)'
    <3> SUFFICES ASSUME <<"notice", r>> \notin raced'
                 PROVE  told'[r] + ToTell(r)' <= withdrawn'[r] + Published(resource'[r])
      BY DEF NoticeHolds
    <3>1. "notice" \notin wrong /\ now # None /\ <<"notice", r>> \notin raced /\ now.status = before.status
      BY <1>1, <1>8, <2>3
    <3>2. told[r] + ToTell(r) <= withdrawn[r] + Published(now)
      BY <1>16, <2>1, <3>1 DEF RowHolds, NoticeHolds, now
    <3>3. ToTell(r) \in Nat /\ (tell => ToTell(r)' = ToTell(r) + 1) /\ (~tell => ToTell(r)' = ToTell(r))
      <4>1. Tells(w, r)' <=> tell
        BY <1>16, <1>7, <1>11 DEF Tells
      <4> QED
        BY <1>16, <1>3, <1>5, <1>11, <4>1, ToTellMoves
    <3>4. told[r] \in Nat /\ told'[r] = told[r]
      BY <1>1 DEF ResourceInv, ResourceTyped
    <3>5. withdrawn'[r] = withdrawn[r] + IF drops THEN 1 ELSE 0
      BY <1>16, <1>12, <1>13
    <3>6. resource'[r] = after
      BY <1>16, <1>12
    <3>7. CASE tell
      BY <1>16, <1>4, <1>13, <3>1, <3>2, <3>3, <3>4, <3>5, <3>6, <3>7 DEF Published
    <3>8. CASE ~tell
      BY <1>16, <1>4, <1>13, <3>1, <3>2, <3>3, <3>4, <3>5, <3>6, <3>8 DEF Published
    <3> QED
      BY <3>7, <3>8
  <2>7. FileHolds(r)'
    BY <1>16, <1>1, <1>8, <1>12 DEF FileHolds
  <2>8. LogHolds(r)' /\ NeverMade(r)'
    BY <1>16, <1>8, <1>9, <1>12, <2>3 DEF LogHolds, NeverMade, Library!InTrash
  <2> QED
    BY <2>4, <2>5, <2>6, <2>7, <2>8 DEF RowHolds
<1>17. ASSUME NEW r \in Resources, r # q PROVE RowHolds(r)'
  <2>1. RowHolds(r)
    BY DEF ResourceInv
  <2>2. \A a \in {"views", "rating", "notice", "log"} : <<a, r>> \in raced <=> <<a, r>> \in raced'
    BY <1>12, <1>17 DEF Library!Aspects
  <2>3. ViewsHold(r)' /\ RatingHolds(r)'
    BY <1>1, <1>12, <1>17, <2>1, <2>2 DEF RowHolds, ViewsHold, RatingHolds
  <2>4. FileHolds(r)'
    BY <1>1, <1>12, <1>17, <2>1 DEF RowHolds, FileHolds
  <2>5. NoticeHolds(r)'
    <3>1. ToTell(r)' = ToTell(r)
      BY <1>5, <1>7, <1>11, <1>17, ToTellMoves DEF Tells
    <3> QED
      BY <1>1, <1>12, <1>17, <2>1, <2>2, <3>1 DEF RowHolds, NoticeHolds
  <2>6. LogHolds(r)'
    <3>1. \A v \in Workers : (Records(v, r)' <=> Records(v, r)) /\ (Records(v, r) => work'[v] = work[v])
      BY <1>1, <1>7, <1>11 DEF Records
    <3> QED
      BY <1>1, <1>12, <1>17, <2>1, <2>2, <3>1, LogStays DEF RowHolds, Library!InTrash
  <2>7. NeverMade(r)'
    BY <1>1, <1>7, <1>11, <1>12, <1>17, <2>1 DEF RowHolds, NeverMade, On
  <2> QED
    BY <2>3, <2>4, <2>5, <2>6, <2>7 DEF RowHolds
<1> QED
  BY <1>14, <1>15, <1>16, <1>17 DEF ResourceInv

LEMMA ResourceStepKeeps ==
  ASSUME ResourceConstants, ResourceInv, Library!ResourceNext \/ UNCHANGED Library!resourceVars
  PROVE  ResourceInv'
<1>1. CASE Library!ReviewStep
  <2>1. ASSUME NEW w \in Workers, NEW u \in Users, NEW r \in Resources,
               \E row \in Bodies, n \in BOOLEAN : Library!Create(w, u, r, row, n)
        PROVE  ResourceInv'
    BY <2>1, CreateKeeps
  <2>2. ASSUME NEW w \in Workers, NEW u \in Users, NEW r \in Resources,
               \/ Library!ApproveResource(w, u, r) \/ Library!RejectResource(w, u, r)
               \/ \E row \in Bodies : Library!Update(w, u, r, row)
        PROVE  ResourceInv'
    BY <2>2, LoadKeeps
  <2> QED
    BY <1>1, <2>1, <2>2, SaveKeeps, NotifyKeeps DEF Library!ReviewStep
<1>2. CASE Library!SignalStep
  BY <1>2, ViewKeeps, RateKeeps, CommitRatingKeeps DEF Library!SignalStep
<1>3. CASE Library!FileStep
  <2>1. ASSUME NEW w \in Workers, NEW u \in Users, NEW r \in Resources, Library!HardDelete(w, u, r) \/ Library!Purge(w, u, r)
        PROVE  ResourceInv'
    <3>1. resource[r] # None
      BY <2>1 DEF Library!HardDelete, Library!Purge, Library!Live, Library!InTrash
    <3>2. Library!Erase(w, r, u, authored \ {r}) \/ Library!Erase(w, r, u, authored)
      BY <2>1 DEF Library!HardDelete, Library!Purge
    <3> QED
      BY <3>1, <3>2, EraseKeeps
  <2> QED
    BY <1>3, <2>1, UploadKeeps, DeleteFileKeeps, DeleteTakenUp, RestoreKeeps, SoftDeleteKeeps, CheckFileKeeps, RemoveFileKeeps, RecordKeeps
       DEF Library!FileStep
<1>4. CASE UNCHANGED Library!resourceVars
  <2>1. UNCHANGED <<resource, authored, rating, attachment, stored, audit, work, viewed, told, withdrawn, deleter, lost, raced>>
    BY <1>4 DEF Library!resourceVars
  <2>2. ResourceTyped'
    BY <2>1 DEF ResourceInv, ResourceTyped
  <2> QED
    BY <2>1, <2>2, FilesKeep
<1> QED
  BY <1>1, <1>2, <1>3, <1>4 DEF Library!ResourceNext

LEMMA ResourceInvImplies ==
  ASSUME ResourceConstants, ResourceInv
  PROVE  Library!ResourceTypeOK /\ Library!TrashAgrees /\ Library!SignalsAgree
<1>1. Library!ResourceTypeOK
  <2>1. ASSUME NEW w \in Workers
        PROVE  work[w] = Library!Idle \/ work[w].step \in {"save", "tell", "rate", "delete", "record", "check", "remove"}
    <3>1. work[w] \in Works
      BY DEF ResourceInv, ResourceTyped
    <3> QED
      BY <3>1 DEF Works, SaveWork, TellWork, RateWork, DeleteWork, CheckWork, RemoveWork
  <2> QED
    BY <2>1 DEF ResourceInv, ResourceTyped, Library!ResourceTypeOK
<1>2. Library!TrashAgrees
  <2>1. \A r \in Resources : resource[r] # None => resource[r].file \in stored \cup lost
    BY DEF ResourceInv, RowHolds, FileHolds
  <2>2. ASSUME NEW r \in Resources, Library!InTrash(r)
        PROVE  \/ <<"log", r>> \in raced \/ audit[r] = deleter[r]
               \/ \E w \in Workers : work[w].step = "record" /\ work[w].id = r
    BY <2>2 DEF ResourceInv, RowHolds, LogHolds, Records
  <2> QED
    BY <2>1, <2>2 DEF Library!TrashAgrees, Library!List
<1>3. Library!SignalsAgree
  <2> SUFFICES ASSUME NEW r \in Resources, Library!Live(r)
               PROVE  /\ <<"views", r>> \in raced \/ resource[r].views = viewed[r]
                      /\ <<"rating", r>> \in raced \/
                            /\ resource[r].count = Library!Cardinality(Library!Rated(rating[r]))
                            /\ resource[r].sum = Library!Sum([u \in Users |-> Library!GetMyRating(u, r)], Library!Rated(rating[r]))
                      /\ <<"notice", r>> \in raced \/ told[r] <= 1 + withdrawn[r]
    BY DEF Library!SignalsAgree
  <2>1. resource[r] # None /\ RowHolds(r)
    BY DEF ResourceInv, Library!Live
  <2>2. <<"views", r>> \in raced \/ resource[r].views = viewed[r]
    BY <2>1 DEF RowHolds, ViewsHold
  <2> DEFINE S == Library!Rated(rating[r])
             f == [u \in Users |-> Library!GetMyRating(u, r)]
             g == [u \in S |-> rating[r][u]]
  <2>3. Sum(f, S) = Sum(g, S)
    <3>1. \A u \in S : f[u] = g[u]
      BY DEF Library!GetMyRating, Library!Rated
    <3>2. IsFiniteSet(S)
      BY FS_Subset DEF Library!Rated, ResourceConstants
    <3> HIDE DEF S, f, g
    <3> QED
      BY <3>1, <3>2, SumSame
  <2>4. <<"rating", r>> \in raced \/ (resource[r].count = Cardinality(S) /\ resource[r].sum = Sum(g, S))
    BY <2>1 DEF RowHolds, RatingHolds, RatingIs
  <2>5. Library!Sum(f, S) = Sum(f, S) /\ Library!Cardinality(S) = Cardinality(S)
    BY LibrarySums
  <2>6. <<"notice", r>> \in raced \/ told[r] <= 1 + withdrawn[r]
    <3>1. ToTell(r) \in Nat
      <4>1. {v \in Workers : Tells(v, r)} \subseteq Workers
        OBVIOUS
      <4> QED
        BY <4>1, FS_Subset, FS_CardinalityType DEF ToTell, ResourceConstants
    <3>2. told[r] \in Nat /\ withdrawn[r] \in Nat
      BY DEF ResourceInv, ResourceTyped
    <3> QED
      BY <2>1, <3>1, <3>2 DEF RowHolds, NoticeHolds, Published
  <2> HIDE DEF S, g
  <2> QED
    BY <2>2, <2>3, <2>4, <2>5, <2>6 DEF S
<1> QED
  BY <1>1, <1>2, <1>3

(* With any users, resources and requests, any forms, and however edits,      *)
(* ratings and deletions overlap: no file is removed that a row used when it  *)
(* was looked up, the Trash names who deleted a row, views and ratings are    *)
(* counted once from what a form last said of them, and the batches are told  *)
(* once for each time a resource is published, apart from what `raced` and    *)
(* `lost` record: rows written from an old reading, deletions and ratings     *)
(* written by a form, and files that were not there to stay                   *)
(* (resource_handler.go, generic_handler.go, trash_handler.go).               *)
THEOREM ResourcesStayTrue ==
  ASSUME ResourceConstants
  PROVE  Library!ResourceSpec => [](Library!ResourceTypeOK /\ Library!TrashAgrees /\ Library!SignalsAgree)
<1>1. Library!ResourceInit => ResourceInv
  <2> SUFFICES ASSUME Library!ResourceInit PROVE ResourceInv
    OBVIOUS
  <2>1. ResourceTyped
    BY DEF Library!ResourceInit, ResourceTyped, ResourceConstants, Works
  <2>2. \A w \in Workers : work[w].step = "idle"
    BY DEF Library!ResourceInit, Library!Idle
  <2>3. WorkIsRight
    BY <2>2 DEF WorkIsRight
  <2>4. ASSUME NEW r \in Resources PROVE RowHolds(r)
    BY <2>2 DEF Library!ResourceInit, RowHolds, ViewsHold, RatingHolds, NoticeHolds, FileHolds, LogHolds, NeverMade, Library!InTrash, On
  <2> QED
    BY <2>1, <2>3, <2>4 DEF ResourceInv
<1>2. ResourceInv /\ [Library!ResourceNext]_Library!resourceVars => ResourceInv'
  BY ResourceStepKeeps
<1>3. ResourceInv => Library!ResourceTypeOK /\ Library!TrashAgrees /\ Library!SignalsAgree
  BY ResourceInvImplies
<1> QED
  BY <1>1, <1>2, <1>3, PTL DEF Library!ResourceSpec

-----------------------------------------------------------------------------
(* Entitlements *)

Days == 0..Meter!Never
ProRow == [is : BOOLEAN, expiry : Days, plan : Plans \cup {Nothing}]
Offered == [feature : Meter!DefaultProFeatures, limit : Int, period : STRING]

\* What is assumed of the constants: finitely many users and grants, days and
\* uses that are numbers, and rows, offers and forms of the kinds the handlers
\* decode.
MeterConstants ==
    /\ IsFiniteSet(Users)
    /\ MaxDay \in Nat /\ Amounts \subseteq Nat
    /\ ProRows \subseteq ProRow
    /\ \A items \in Offers : items \subseteq Offered /\ IsFiniteSet(items)
    /\ IsFiniteSet(Grants) /\ Nothing \notin Grants
    /\ \A form \in Forms : /\ form.starts \in Days \cup {Nothing} /\ form.ends \in Days
                            /\ form.adFree \in BOOLEAN /\ form.coinFree \in BOOLEAN /\ form.newUserDays \in Int

Finite(S) == {T \in SUBSET S : IsFiniteSet(T)}
Placed == [created : {0}, university : {Nothing}, department : {Nothing}, student : Homes \cup {Nothing}]
Given == [exists : {TRUE}, type : {f.type : f \in Forms}, id : {f.id : f \in Forms} \cup {Nothing},
          adFree : {f.adFree : f \in Forms}, coinFree : {f.coinFree : f \in Forms},
          newUserDays : {f.newUserDays : f \in Forms}, starts : Days, ends : Days]
Asking == [user : Users, feature : Meter!DefaultProFeatures, n : Nat, limit : Nat, period : Meter!Periods]

\* The rows and the requests have their shapes.
MeterTyped ==
    /\ day \in 0..MaxDay
    /\ home \in [Users -> Placed]
    /\ pro \in [Users -> ProRow]
    /\ plan \in [Plans -> Finite(Meter!PlanEntitlement)]
    /\ grant \in [Grants -> {Meter!NoGrant} \cup Given]
    /\ asked \in [Requests -> {Nothing} \cup Asking]

\* The counters, which the limits keep down.
CountersHold ==
    /\ used \in [Meter!UsageCounter -> Nat] /\ peak \in [Meter!UsageCounter -> Nat]
    /\ Meter!CapHolds

\* The image of a finite set.
LEMMA ImageFinite ==
  ASSUME NEW S, IsFiniteSet(S), NEW f
  PROVE  IsFiniteSet({f[x] : x \in S})
<1> DEFINE T == {f[x] : x \in S}
           g == [x \in S |-> f[x]]
<1>1. g \in [S -> T] /\ \A t \in T : \E x \in S : g[x] = t
  OBVIOUS
<1> HIDE DEF g, T
<1>2. g \in Surjection(S, T)
  BY <1>1 DEF Surjection
<1>3. IsFiniteSet(T)
  BY <1>2, FS_Surjection
<1> QED
  BY <1>3 DEF T

\* What a user is granted are finitely many features with limits of the plan's kind.
LEMMA GrantedTyped ==
  MeterTyped => \A u \in Users : Meter!Granted(u) \in Finite(Meter!PlanEntitlement)
<1> SUFFICES ASSUME MeterTyped, NEW u \in Users
             PROVE  Meter!Granted(u) \in Finite(Meter!PlanEntitlement)
  OBVIOUS
<1> DEFINE rows == IF Meter!activePlan(u) = Nothing THEN {} ELSE plan[Meter!activePlan(u)]
           free == {Meter!Unlimited(f) : f \in Meter!DefaultProFeatures}
           byPlan == IF ~Meter!isPro(u) THEN {} ELSE IF rows = {} THEN free ELSE rows
           byPerk == {f \in {"ad_free", "unlimited_downloads"} :
                          IF f = "ad_free" THEN Meter!Perks(u).adFree ELSE Meter!Perks(u).coinFree}
           kept == {r \in byPlan : r.feature \notin byPerk}
           perks == {Meter!Unlimited(f) : f \in byPerk}
<1>1. \A f \in Meter!DefaultProFeatures : Meter!Unlimited(f) \in Meter!PlanEntitlement
  BY DEF Meter!Unlimited, Meter!PlanEntitlement, Meter!Periods, Meter!LimitUnlimited
<1>2. IsFiniteSet(Meter!DefaultProFeatures)
  <2>1. Meter!DefaultProFeatures = {"ad_free"} \cup {"unlimited_downloads"} \cup {"premium_content"}
    BY DEF Meter!DefaultProFeatures
  <2> QED
    BY <2>1, FS_Singleton, FS_Union
<1>3. free \in Finite(Meter!PlanEntitlement)
  <2> DEFINE g == [f \in Meter!DefaultProFeatures |-> Meter!Unlimited(f)]
  <2>0. free = {g[f] : f \in Meter!DefaultProFeatures}
    OBVIOUS
  <2> HIDE DEF g
  <2>1. IsFiniteSet(free)
    BY <1>2, <2>0, ImageFinite
  <2> QED
    BY <1>1, <2>1 DEF Finite
<1>4. rows \in Finite(Meter!PlanEntitlement)
  <2>1. {} \in Finite(Meter!PlanEntitlement)
    BY FS_EmptySet DEF Finite
  <2>2. Meter!activePlan(u) \in Plans \cup {Nothing}
    BY DEF MeterTyped, ProRow, Meter!activePlan
  <2> QED
    BY <2>1, <2>2 DEF MeterTyped
<1>5. byPlan \in Finite(Meter!PlanEntitlement)
  BY <1>3, <1>4, FS_EmptySet DEF Finite
<1>6. byPerk \subseteq Meter!DefaultProFeatures
  BY DEF Meter!DefaultProFeatures
<1> HIDE DEF byPlan, byPerk
<1>7. kept \in Finite(Meter!PlanEntitlement)
  BY <1>5, FS_Subset DEF Finite
<1>8. perks \in Finite(Meter!PlanEntitlement)
  <2>1. IsFiniteSet(byPerk)
    BY <1>2, <1>6, FS_Subset
  <2> DEFINE g == [f \in byPerk |-> Meter!Unlimited(f)]
  <2>0. perks = {g[f] : f \in byPerk}
    OBVIOUS
  <2> HIDE DEF g
  <2>2. IsFiniteSet(perks)
    BY <2>0, <2>1, ImageFinite
  <2> QED
    BY <1>1, <1>6, <2>2 DEF Finite
<1>9. Meter!Granted(u) = kept \cup perks
  BY DEF Meter!Granted, byPlan, byPerk
<1> HIDE DEF kept, perks
<1> QED
  BY <1>7, <1>8, <1>9, FS_Union DEF Finite

\* What the check of a feature answers with is a limit of what is granted.
LEMMA CheckTyped ==
  ASSUME MeterTyped, NEW u \in Users, NEW f, Meter!Check(u, f).allowed,
         Meter!Check(u, f).limit # Meter!LimitUnlimited
  PROVE  Meter!Check(u, f).limit \in Nat /\ Meter!Check(u, f).period \in Meter!Periods
<1> DEFINE of == {r \in Meter!Granted(u) : r.feature = f /\ r.limit # 0}
           r == CHOOSE x \in of : TRUE
           left == r.limit - used[<<u, f, Meter!periodKey(r.period, day)>>]
           answer == [allowed |-> TRUE, limit |-> r.limit, period |-> r.period,
                      remaining |-> IF r.limit = Meter!LimitUnlimited THEN Meter!LimitUnlimited ELSE IF left < 0 THEN 0 ELSE left]
<1>1. Meter!Check(u, f) = IF of = {} THEN Meter!Denied ELSE answer
  BY DEF Meter!Check
<1>2. of # {} /\ Meter!Check(u, f) = answer
  BY <1>1 DEF Meter!Denied
<1>3. answer.limit = r.limit /\ answer.period = r.period
  OBVIOUS
<1>4. r \in of
  BY <1>2
<1>5. r \in Meter!PlanEntitlement
  BY <1>4, GrantedTyped DEF Finite
<1> HIDE DEF r, answer
<1> QED
  BY <1>2, <1>3, <1>5 DEF Meter!PlanEntitlement, Meter!LimitUnlimited

\* The largest number of a finite set of limits.
LEMMA HighestIs ==
  ASSUME NEW S, IsFiniteSet(S), S # {}, \A x \in S : x \in Int /\ x >= -1
  PROVE  Meter!Highest(S) \in S /\ \A y \in S : Meter!Highest(S) >= y
<1> DEFINE f == [x \in S |-> x + 1]
<1>1. \A x \in S : f[x] = x + 1 /\ f[x] \in Nat
  OBVIOUS
<1> HIDE DEF f
<1>2. PICK x \in S : \A y \in S : f[y] <= f[x]
  BY <1>1, MaxExists
<1>3. \A y \in S : x >= y
  BY <1>1, <1>2
<1> QED
  BY <1>3 DEF Meter!Highest

\* An offer that is valid is stored as a plan's entitlements.
LEMMA NormalisedTyped ==
  ASSUME MeterConstants, NEW items \in Offers, Meter!Valid(items)
  PROVE  Meter!Normalised(items) \in Finite(Meter!PlanEntitlement)
<1> DEFINE new(i) == [i EXCEPT !.period = IF i.period = "" \/ i.limit = Meter!LimitUnlimited THEN "none" ELSE @]
<1>1. items \subseteq Offered /\ IsFiniteSet(items)
  BY DEF MeterConstants
<1>2. Meter!Normalised(items) = {new(i) : i \in items}
  BY DEF Meter!Normalised
<1>3. IsFiniteSet({new(i) : i \in items})
  <2> DEFINE g == [i \in items |-> new(i)]
  <2>1. {new(i) : i \in items} = {g[i] : i \in items}
    BY Zenon
  <2> HIDE DEF g, new
  <2> QED
    BY <1>1, <2>1, ImageFinite
<1>4. ASSUME NEW i \in items PROVE new(i) \in Meter!PlanEntitlement
  <2>1. i \in Offered /\ i.limit >= -1 /\ i.period \in Meter!Periods \cup {""}
    BY <1>1 DEF Meter!Valid, Meter!LimitUnlimited
  <2> DEFINE p == IF i.period = "" \/ i.limit = Meter!LimitUnlimited THEN "none" ELSE i.period
  <2>2. p \in Meter!Periods
    BY <2>1 DEF Meter!Periods
  <2>3. new(i) = [i EXCEPT !.period = p]
    OBVIOUS
  <2> HIDE DEF p, new
  <2>4. [i EXCEPT !.period = p] \in Meter!PlanEntitlement
    <3>1. i \in [feature : Meter!DefaultProFeatures, limit : {-1} \cup Nat, period : STRING]
      <4>1. i.limit \in Int /\ i.limit >= -1
        BY <2>1 DEF Offered
      <4>2. i.limit \in {-1} \cup Nat
        BY <4>1
      <4> QED
        BY <2>1, <4>2 DEF Offered
    <3> QED
      BY <2>2, <3>1 DEF Meter!PlanEntitlement, Meter!LimitUnlimited
  <2> QED
    BY <2>3, <2>4
<1> HIDE DEF new
<1> QED
  BY <1>2, <1>3, <1>4 DEF Finite

\* The highest limits only grow, and are at least those given from now on.
LEMMA PeakRises ==
  ASSUME MeterConstants, MeterTyped', CountersHold, Meter!RaisePeak
  PROVE  /\ peak' \in [Meter!UsageCounter -> Nat]
         /\ \A k \in Meter!UsageCounter : peak[k] <= peak'[k]
<1>1. (\A u \in Users : Meter!Granted(u) \in Finite(Meter!PlanEntitlement))'
  BY GrantedTyped, PTL
<1>2. PICK limits : /\ limits = Meter!Limits'
                    /\ peak' = [k \in Meter!UsageCounter |->
                                   Meter!Highest({peak[k]} \cup {l.limit : l \in {x \in limits : x.key = k}})]
  BY DEF Meter!RaisePeak
<1> DEFINE of(u) == {[key |-> <<u, r.feature, Meter!periodKey(r.period, day')>>, limit |-> r.limit] : r \in Meter!Granted(u)'}
<1>3. limits = UNION {of(u) : u \in Users}
  BY <1>2 DEF Meter!Limits
<1>4. ASSUME NEW u \in Users
      PROVE  IsFiniteSet(of(u)) /\ \A l \in of(u) : l.limit \in {-1} \cup Nat
  <2> DEFINE S == Meter!Granted(u)'
  <2>1. S \in Finite(Meter!PlanEntitlement)'
    BY <1>1
  <2>2. IsFiniteSet(S) /\ \A r \in S : r.limit \in {-1} \cup Nat
    BY <2>1 DEF Finite, Meter!PlanEntitlement, Meter!LimitUnlimited
  <2> HIDE DEF S
  <2> DEFINE g == [r \in S |-> [key |-> <<u, r.feature, Meter!periodKey(r.period, day')>>, limit |-> r.limit]]
  <2>3. of(u) = {g[r] : r \in S} /\ \A r \in S : g[r].limit = r.limit
    BY DEF S
  <2> HIDE DEF g
  <2> QED
    BY <2>2, <2>3, ImageFinite
<1> HIDE DEF of
<1>5. IsFiniteSet(limits) /\ \A l \in limits : l.limit \in {-1} \cup Nat
  <2> DEFINE g == [u \in Users |-> of(u)]
  <2>1. {of(u) : u \in Users} = {g[u] : u \in Users}
    OBVIOUS
  <2> HIDE DEF g
  <2>2. IsFiniteSet(Users)
    BY DEF MeterConstants
  <2>3. IsFiniteSet({g[u] : u \in Users})
    BY <2>2, ImageFinite
  <2>4. \A T \in {of(u) : u \in Users} : IsFiniteSet(T)
    BY <1>4
  <2>5. IsFiniteSet(UNION {of(u) : u \in Users})
    BY <2>1, <2>3, <2>4, FS_UNION
  <2> QED
    BY <1>3, <1>4, <2>5
<1>6. ASSUME NEW k \in Meter!UsageCounter
      PROVE  peak'[k] \in Nat /\ peak[k] <= peak'[k]
  <2> DEFINE here == {x \in limits : x.key = k}
             S == {peak[k]} \cup {l.limit : l \in here}
             g == [l \in here |-> l.limit]
  <2>1. IsFiniteSet(here)
    BY <1>5, FS_Subset
  <2>2. {l.limit : l \in here} = {g[l] : l \in here}
    OBVIOUS
  <2>3. peak[k] \in Nat
    BY DEF CountersHold
  <2>4. \A x \in S : x \in Int /\ x >= -1
    BY <1>5, <2>3
  <2> HIDE DEF here, g
  <2>5. IsFiniteSet(S)
    <3>1. IsFiniteSet({l.limit : l \in here})
      BY <2>1, <2>2, ImageFinite
    <3>2. IsFiniteSet({peak[k]})
      BY FS_Singleton
    <3> QED
      BY <3>1, <3>2, FS_Union
  <2>6. peak'[k] = Meter!Highest(S)
    BY <1>2 DEF here
  <2>7. S # {} /\ peak[k] \in S
    OBVIOUS
  <2> HIDE DEF S
  <2>8. Meter!Highest(S) \in S /\ Meter!Highest(S) >= peak[k]
    BY <2>4, <2>5, <2>7, HighestIs
  <2> QED
    BY <2>3, <2>4, <2>6, <2>8
<1> QED
  BY <1>2, <1>6

\* No row changes its shape.
LEMMA MeterStepTyped ==
  ASSUME MeterConstants, MeterTyped, CountersHold, [Meter!Next]_Meter!vars
  PROVE  MeterTyped'
<1>0. SUFFICES ASSUME Meter!Next PROVE MeterTyped'
  BY DEF Meter!vars, MeterTyped
<1>1. CASE Meter!NextDay
  BY <1>1 DEF Meter!NextDay, MeterTyped, MeterConstants
<1>2. ASSUME NEW g \in Grants, Meter!EndGrant(g) PROVE MeterTyped'
  <2>1. grant[g] \in Given
    BY <1>2 DEF Meter!EndGrant, Meter!IsGrant, Meter!NoGrant, MeterTyped
  <2>2. day \in Days
    BY DEF MeterTyped, MeterConstants, Days, Meter!Never
  <2>3. [grant[g] EXCEPT !.ends = day] \in Given
    BY <2>1, <2>2 DEF Given
  <2>4. grant' = [grant EXCEPT ![g] = [grant[g] EXCEPT !.ends = day]]
    BY <1>2 DEF Meter!EndGrant
  <2> QED
    BY <1>2, <2>3, <2>4 DEF Meter!EndGrant, Meter!notGrants, MeterTyped
<1>3. ASSUME NEW g \in Grants, Meter!DeleteGrant(g) PROVE MeterTyped'
  BY <1>3 DEF Meter!DeleteGrant, Meter!notGrants, MeterTyped
<1>4. ASSUME NEW form \in Forms, NEW starts \in Days PROVE Meter!Built(form, starts) \in Given
  BY DEF Meter!Built, Given, MeterConstants
<1>5. ASSUME NEW g \in Grants, NEW form \in Forms, Meter!CreateGrant(g, form) PROVE MeterTyped'
  <2> DEFINE starts == IF form.starts = Nothing THEN day ELSE form.starts
  <2>1. starts \in Days
    BY DEF MeterTyped, MeterConstants, Days, Meter!Never
  <2>2. grant' = [grant EXCEPT ![g] = Meter!Built(form, starts)]
    BY <1>5 DEF Meter!CreateGrant
  <2> HIDE DEF starts
  <2> QED
    BY <1>4, <1>5, <2>1, <2>2 DEF Meter!CreateGrant, Meter!notGrants, MeterTyped
<1>6. ASSUME NEW g \in Grants, NEW form \in Forms, Meter!UpdateGrant(g, form) PROVE MeterTyped'
  <2> DEFINE starts == IF form.starts = Nothing THEN grant[g].starts ELSE form.starts
  <2>0. grant[g] \in Given
    BY <1>6 DEF Meter!UpdateGrant, Meter!IsGrant, Meter!NoGrant, MeterTyped
  <2>1. starts \in Days
    BY <2>0 DEF Given, MeterConstants
  <2>2. grant' = [grant EXCEPT ![g] = Meter!Built(form, starts)]
    BY <1>6 DEF Meter!UpdateGrant
  <2> HIDE DEF starts
  <2> QED
    BY <1>4, <1>6, <2>1, <2>2 DEF Meter!UpdateGrant, Meter!notGrants, MeterTyped
<1>7. ASSUME NEW u \in Users, NEW h \in Homes, Meter!Place(u, h) PROVE MeterTyped'
  <2>1. home[u] \in Placed
    BY DEF MeterTyped
  <2>2. [home[u] EXCEPT !.student = h] \in Placed
    BY <2>1 DEF Placed
  <2>3. home' = [home EXCEPT ![u] = [home[u] EXCEPT !.student = h]]
    BY <1>7 DEF Meter!Place
  <2> QED
    BY <1>7, <2>2, <2>3 DEF Meter!Place, MeterTyped
<1>8. ASSUME NEW p \in Plans, NEW items \in Offers, Meter!SetPlanEntitlements(p, items) PROVE MeterTyped'
  <2>1. Meter!Normalised(items) \in Finite(Meter!PlanEntitlement)
    BY <1>8, NormalisedTyped DEF Meter!SetPlanEntitlements
  <2> QED
    BY <1>8, <2>1 DEF Meter!SetPlanEntitlements, MeterTyped
<1>9. ASSUME NEW u \in Users, NEW row \in ProRows, Meter!ChangePro(u, row) PROVE MeterTyped'
  BY <1>9 DEF Meter!ChangePro, MeterTyped, MeterConstants
<1>10. ASSUME NEW u \in Users, NEW q \in Requests, NEW f \in Meter!DefaultProFeatures, NEW n \in Amounts,
              Meter!StartConsume(q, u, f, n)
       PROVE  MeterTyped'
  <2> DEFINE c == Meter!Check(u, f)
  <2>1. c.limit \in Nat /\ c.period \in Meter!Periods
    BY <1>10, CheckTyped DEF Meter!StartConsume, Meter!RequireEntitlement
  <2>2. asked' = [asked EXCEPT ![q] = [user |-> u, feature |-> f, n |-> n, limit |-> c.limit, period |-> c.period]]
    BY <1>10 DEF Meter!StartConsume
  <2> HIDE DEF c
  <2>3. [user |-> u, feature |-> f, n |-> n, limit |-> c.limit, period |-> c.period] \in Asking
    BY <2>1 DEF Asking, MeterConstants
  <2> QED
    BY <1>10, <2>2, <2>3 DEF Meter!StartConsume, MeterTyped
<1>11. ASSUME NEW q \in Requests, Meter!FinishConsume(q) PROVE MeterTyped'
  BY <1>11 DEF Meter!FinishConsume, MeterTyped
<1> QED
  BY <1>0, <1>1, <1>2, <1>3, <1>5, <1>6, <1>7, <1>8, <1>9, <1>10, <1>11 DEF Meter!Next, Meter!GrantStep, Meter!FeatureStep

\* No counter passes the highest limit of its period.
LEMMA MeterStepCounts ==
  ASSUME MeterConstants, MeterTyped, MeterTyped', CountersHold, [Meter!Next]_Meter!vars
  PROVE  CountersHold'
<1>1. ASSUME used' = used, Meter!RaisePeak PROVE CountersHold'
  <2>1. /\ peak' \in [Meter!UsageCounter -> Nat]
        /\ \A k \in Meter!UsageCounter : peak[k] <= peak'[k]
    BY <1>1, PeakRises
  <2>2. used \in [Meter!UsageCounter -> Nat] /\ peak \in [Meter!UsageCounter -> Nat]
        /\ \A k \in Meter!UsageCounter : used[k] <= peak[k]
    BY DEF CountersHold, Meter!CapHolds
  <2>3. \A k \in Meter!UsageCounter : used[k] <= peak'[k]
    BY <2>1, <2>2
  <2> QED
    BY <1>1, <2>1, <2>2, <2>3 DEF CountersHold, Meter!CapHolds
<1>2. ASSUME used' = used, peak' = peak PROVE CountersHold'
  BY <1>2 DEF CountersHold, Meter!CapHolds
<1>3. ASSUME NEW q \in Requests, Meter!FinishConsume(q) PROVE CountersHold'
  <2> DEFINE r == asked[q]
             key == <<r.user, r.feature, Meter!periodKey(r.period, day)>>
             top == Meter!Highest({peak[key], r.limit})
  <2>1. r \in Asking
    BY <1>3 DEF Meter!FinishConsume, MeterTyped
  <2>2. /\ used' = IF Meter!WithinLimit(used[key], r.n, r.limit) THEN [used EXCEPT ![key] = @ + r.n] ELSE used
        /\ peak' = [peak EXCEPT ![key] = top]
    BY <1>3 DEF Meter!FinishConsume
  <2>3. key \in Meter!UsageCounter
    BY <2>1 DEF Meter!UsageCounter, Meter!Keys, Asking, MeterTyped
  <2>4. r.n \in Nat /\ r.limit \in Nat
    BY <2>1 DEF Asking
  <2> HIDE DEF r, key
  <2>5. used[key] \in Nat /\ peak[key] \in Nat /\ used[key] <= peak[key]
    BY <2>3 DEF CountersHold, Meter!CapHolds
  <2>6. top \in Nat /\ top >= peak[key] /\ top >= r.limit
    <3> DEFINE S == {peak[key], r.limit}
    <3>1. IsFiniteSet(S)
      <4>1. S = {peak[key]} \cup {r.limit}
        OBVIOUS
      <4> HIDE DEF S
      <4> QED
        BY <4>1, FS_Singleton, FS_Union
    <3>2. \A x \in S : x \in Nat /\ x \in Int /\ x >= -1
      BY <2>4, <2>5
    <3>3. peak[key] \in S /\ r.limit \in S /\ top = Meter!Highest(S)
      OBVIOUS
    <3> HIDE DEF S, top
    <3> QED
      BY <3>1, <3>2, <3>3, HighestIs
  <2> HIDE DEF top
  <2>7. /\ used \in [Meter!UsageCounter -> Nat] /\ peak \in [Meter!UsageCounter -> Nat]
        /\ \A k \in Meter!UsageCounter : used[k] <= peak[k]
    BY DEF CountersHold, Meter!CapHolds
  <2>8. peak' \in [Meter!UsageCounter -> Nat] /\ \A k \in Meter!UsageCounter : peak[k] <= peak'[k]
    BY <2>2, <2>3, <2>5, <2>6, <2>7
  <2>9. CASE Meter!WithinLimit(used[key], r.n, r.limit)
    <3>1. used' = [used EXCEPT ![key] = used[key] + r.n] /\ used[key] + r.n <= r.limit
      BY <2>2, <2>9 DEF Meter!WithinLimit
    <3>2. used' \in [Meter!UsageCounter -> Nat]
      BY <2>3, <2>4, <2>5, <2>7, <3>1
    <3>3. peak'[key] = top /\ used'[key] <= top
      BY <2>2, <2>3, <2>4, <2>5, <2>6, <2>7, <3>1
    <3>4. \A k \in Meter!UsageCounter : used'[k] <= peak'[k]
      BY <2>2, <2>3, <2>7, <3>1, <3>3
    <3> QED
      BY <2>8, <3>2, <3>4 DEF CountersHold, Meter!CapHolds
  <2>10. CASE ~Meter!WithinLimit(used[key], r.n, r.limit)
    <3>1. used' = used
      BY <2>2, <2>10
    <3>2. \A k \in Meter!UsageCounter : used[k] <= peak'[k]
      BY <2>7, <2>8
    <3> QED
      BY <2>7, <2>8, <3>1, <3>2 DEF CountersHold, Meter!CapHolds
  <2> QED
    BY <2>9, <2>10
<1>4. CASE Meter!GrantStep
  BY <1>2, <1>4 DEF Meter!GrantStep, Meter!EndGrant, Meter!DeleteGrant, Meter!CreateGrant, Meter!UpdateGrant, Meter!Place, Meter!notGrants
<1>5. CASE Meter!FeatureStep
  BY <1>1, <1>2, <1>3, <1>5 DEF Meter!FeatureStep, Meter!SetPlanEntitlements, Meter!ChangePro, Meter!StartConsume
<1>6. CASE Meter!NextDay
  BY <1>1, <1>6 DEF Meter!NextDay
<1>7. CASE UNCHANGED Meter!vars
  BY <1>2, <1>7 DEF Meter!vars
<1> QED
  BY <1>4, <1>5, <1>6, <1>7 DEF Meter!Next

-----------------------------------------------------------------------------
(* Perks *)

\* The merge of a sequence, with its recursive function made explicit: g has
\* the perks after the rows at every set of places, the last one taken last.
Last(s) == CHOOSE x \in s : \A y \in s : x >= y
Before(s) == s \ {Last(s)}
MergedAt(rows, c, g, s) == IF s = {} THEN Meter!NoPerks ELSE Meter!Merged(g[Before(s)], rows[Last(s)], c)
IsPerks(rows, c, S, g) == g = [s \in SUBSET S |-> MergedAt(rows, c, g, s)]
PerksTable(rows, c, S) == CHOOSE g : IsPerks(rows, c, S, g)

LEMMA PerksAreChosen ==
  ASSUME NEW u, NEW rows
  PROVE  Meter!ResolveGrantPerks(u, rows) = PerksTable(rows, home[u].created, DOMAIN rows)[DOMAIN rows]
BY DEF Meter!ResolveGrantPerks, Meter!FoldLeft, Meter!MapThenFoldSet, Meter!Max, PerksTable, IsPerks, MergedAt, Before, Last

LEMMA LastIs ==
  ASSUME NEW s, IsFiniteSet(s), s \subseteq Nat, s # {}
  PROVE  Last(s) \in s /\ Before(s) \in SUBSET s /\ Before(s) # s /\ s = Before(s) \cup {Last(s)}
<1> DEFINE f == [x \in s |-> x]
<1>1. \A x \in s : f[x] = x /\ f[x] \in Nat
  OBVIOUS
<1> HIDE DEF f
<1>2. PICK x \in s : \A y \in s : f[y] <= f[x]
  BY <1>1, MaxExists
<1>3. \A y \in s : x >= y
  BY <1>1, <1>2
<1>4. Last(s) \in s
  BY <1>3 DEF Last
<1> QED
  BY <1>4 DEF Before

\* The places of the rows of a sequence, or some of them.
Places(S) == IsFiniteSet(S) /\ S \subseteq Nat

SameOn(T, g, h) == \A U \in SUBSET T : g[U] = h[U]

\* Two tables agree where both are defined.
LEMMA PerksTablesAgree ==
  ASSUME NEW rows, NEW c, NEW S, Places(S), NEW T \in SUBSET S, NEW g, NEW h,
         IsPerks(rows, c, S, g), IsPerks(rows, c, T, h)
  PROVE  SameOn(T, g, h)
<1> DEFINE Bad == {U \in SUBSET T : g[U] # h[U]}
<1>1. SUFFICES ASSUME Bad # {} PROVE FALSE
  BY DEF SameOn
<1>2. Bad \in SUBSET (SUBSET T)
  OBVIOUS
<1> HIDE DEF Bad
<1>3. PICK U \in Bad : \A V \in SUBSET U : V # U => V \notin Bad
  <2>1. IsFiniteSet(T)
    BY FS_Subset DEF Places
  <2> QED
    BY <1>1, <1>2, <2>1, SmallestSubset
<1> USE DEF Bad
<1>4. g[U] = MergedAt(rows, c, g, U) /\ h[U] = MergedAt(rows, c, h, U)
  BY DEF IsPerks
<1>5. CASE U = {}
  BY <1>4, <1>5 DEF MergedAt
<1>6. CASE U # {}
  <2>1. IsFiniteSet(U) /\ U \subseteq Nat
    BY FS_Subset DEF Places
  <2>2. Before(U) \in SUBSET U /\ Before(U) # U
    BY <1>6, <2>1, LastIs
  <2>3. g[Before(U)] = h[Before(U)]
    BY <1>3, <2>2
  <2> QED
    BY <1>4, <1>6, <2>3 DEF MergedAt
<1> QED
  BY <1>5, <1>6

\* By induction on S: the table of S is put together from those of its subsets.
LEMMA PerksTableExists ==
  ASSUME NEW rows, NEW c, NEW S, IsFiniteSet(S), S \subseteq Nat
  PROVE  IsPerks(rows, c, S, PerksTable(rows, c, S))
<1> DEFINE Good(T) == IsPerks(rows, c, T, PerksTable(rows, c, T))
           Bad == {T \in SUBSET S : ~Good(T)}
<1>1. SUFFICES ASSUME Bad # {} PROVE FALSE
  OBVIOUS
<1>2. Bad \in SUBSET (SUBSET S)
  OBVIOUS
<1> HIDE DEF Bad
<1>3. PICK T \in Bad : \A U \in SUBSET T : U # T => U \notin Bad
  BY <1>1, <1>2, SmallestSubset
<1>4. T \in SUBSET S /\ \A U \in SUBSET T : U # T => Good(U)
  BY <1>3 DEF Bad
<1>5. \A U \in SUBSET T : IsFiniteSet(U) /\ U \subseteq Nat
  BY <1>4, FS_Subset
<1>6. \A s \in SUBSET T : s # {} => Before(s) \in SUBSET s /\ Before(s) # s
  BY <1>5, LastIs
<1> DEFINE next(s) == Meter!Merged(PerksTable(rows, c, Before(s))[Before(s)], rows[Last(s)], c)
           h == [s \in SUBSET T |-> IF s = {} THEN Meter!NoPerks ELSE next(s)]
<1>7. /\ h[{}] = Meter!NoPerks
      /\ h = [s \in SUBSET T |-> h[s]]
      /\ \A s \in SUBSET T : s # {} => h[s] = next(s)
  OBVIOUS
<1> HIDE DEF Good, h
<1>8. ASSUME NEW s \in SUBSET T, s # {}
      PROVE  h[Before(s)] = PerksTable(rows, c, Before(s))[Before(s)]
  <2> DEFINE b == Before(s)
  <2>1. b \in SUBSET T /\ b # T /\ IsFiniteSet(b) /\ b \subseteq Nat
    BY <1>5, <1>6, <1>8
  <2>2. IsPerks(rows, c, b, PerksTable(rows, c, b))
    BY <1>4, <2>1 DEF Good
  <2> HIDE DEF next
  <2>3. PerksTable(rows, c, b)[b] = MergedAt(rows, c, PerksTable(rows, c, b), b)
    BY <2>2 DEF IsPerks
  <2> HIDE DEF b
  <2>4. CASE b = {}
    BY <1>7, <2>3, <2>4 DEF MergedAt, b
  <2>5. CASE b # {}
    <3>1. Before(b) \in SUBSET b /\ Before(b) \in SUBSET T /\ Before(b) # T
      BY <1>6, <2>1, <2>5
    <3>2. IsPerks(rows, c, Before(b), PerksTable(rows, c, Before(b))) /\ Before(b) \in SUBSET Before(b)
      BY <1>4, <3>1 DEF Good
    <3>3. PerksTable(rows, c, b)[Before(b)] = PerksTable(rows, c, Before(b))[Before(b)]
      <4>1. Places(b)
        BY <2>1 DEF Places
      <4>2. SameOn(Before(b), PerksTable(rows, c, b), PerksTable(rows, c, Before(b)))
        BY <2>2, <3>1, <3>2, <4>1, PerksTablesAgree
      <4> QED
        BY <3>2, <4>2 DEF SameOn
    <3>4. PerksTable(rows, c, b)[b] = Meter!Merged(PerksTable(rows, c, b)[Before(b)], rows[Last(b)], c)
      BY <2>3, <2>5 DEF MergedAt
    <3>5. h[b] = next(b)
      BY <1>7, <2>1, <2>5
    <3> QED
      BY <3>3, <3>4, <3>5 DEF b, next
  <2> QED
    BY <2>4, <2>5
<1>9. IsPerks(rows, c, T, h)
  <2>1. ASSUME NEW s \in SUBSET T PROVE h[s] = MergedAt(rows, c, h, s)
    <3>1. CASE s = {}
      BY <1>7, <3>1 DEF MergedAt
    <3>2. CASE s # {}
      BY <1>7, <1>8, <3>2 DEF MergedAt
    <3> QED
      BY <3>1, <3>2
  <2>2. h = [s \in SUBSET T |-> MergedAt(rows, c, h, s)]
    BY <1>7, <2>1
  <2> QED
    BY <2>2 DEF IsPerks
<1>10. Good(T)
  BY <1>9 DEF Good, PerksTable
<1> QED
  BY <1>3, <1>10 DEF Bad

\* The ends of the grants of G that switch a perk on and are not over.
EndOf(g, c) == Meter!grantUntil(grant[g], c)
Ends(G, perk, c) == {EndOf(g, c) : g \in {x \in G : grant[x][perk] /\ EndOf(x, c) > day}}
BothEnds(G, c) == Ends(G, "adFree", c) \cup Ends(G, "coinFree", c)
Longest(n, S) == n \in S /\ \A y \in S : n >= y

\* p merges the grants of G.
Merges(p, G, c) ==
    /\ p.adFree \in BOOLEAN /\ p.coinFree \in BOOLEAN
    /\ (p.adFree <=> Ends(G, "adFree", c) # {}) /\ (p.adFree => Longest(p.adFreeUntil, Ends(G, "adFree", c)))
    /\ (p.coinFree <=> Ends(G, "coinFree", c) # {}) /\ (p.coinFree => Longest(p.coinFreeUntil, Ends(G, "coinFree", c)))
    /\ IF p.label = Nothing THEN BothEnds(G, c) = {} ELSE Longest(p.labelUntil, BothEnds(G, c))

\* The end of a grant is a number.
LEMMA EndTyped ==
  ASSUME MeterConstants, MeterTyped, NEW g \in Grants, Meter!IsGrant(grant[g]), NEW c \in Int
  PROVE  /\ grant[g] \in Given /\ grant[g].adFree \in BOOLEAN /\ grant[g].coinFree \in BOOLEAN
         /\ EndOf(g, c) \in Int
<1>1. grant[g] \in Given
  BY DEF MeterTyped, Meter!IsGrant, Meter!NoGrant
<1>2. grant[g].newUserDays \in Int /\ grant[g].ends \in Int
  <2>1. PICK f \in Forms : grant[g].newUserDays = f.newUserDays
    BY <1>1 DEF Given
  <2>2. grant[g].ends \in Days
    BY <1>1 DEF Given
  <2>3. Days \subseteq Int
    BY DEF Days
  <2> QED
    BY <2>1, <2>2, <2>3 DEF MeterConstants
<1>3. grant[g].adFree \in BOOLEAN /\ grant[g].coinFree \in BOOLEAN
  BY <1>1 DEF Given, MeterConstants
<1> QED
  BY <1>1, <1>2, <1>3 DEF EndOf, Meter!grantUntil

\* One more grant may become the longest of a perk, or leave the perk as it is.
LEMMA LongestGrows ==
  ASSUME NEW S, S \subseteq Int, NEW n, NEW on \in BOOLEAN, NEW e \in Int,
         on <=> S # {}, on => Longest(n, S)
  PROVE  /\ ~on \/ e > n => Longest(e, S \cup {e})
         /\ on /\ ~(e > n) => Longest(n, S \cup {e})
<1>1. CASE ~on
  BY <1>1 DEF Longest
<1>2. CASE on
  <2>1. n \in S /\ n \in Int /\ \A y \in S : n >= y /\ y \in Int
    BY <1>2 DEF Longest
  <2>2. e > n => \A y \in S \cup {e} : e >= y
    BY <2>1
  <2>3. ~(e > n) => \A y \in S \cup {e} : n >= y
    BY <2>1
  <2> QED
    BY <1>2, <2>1, <2>2, <2>3 DEF Longest
<1> QED
  BY <1>1, <1>2

\* The ends of the grants of G and one more.
LEMMA EndsGrow ==
  ASSUME NEW G, NEW g, NEW c, NEW perk
  PROVE  /\ grant[g][perk] /\ EndOf(g, c) > day => Ends(G \cup {g}, perk, c) = Ends(G, perk, c) \cup {EndOf(g, c)}
         /\ ~(grant[g][perk] /\ EndOf(g, c) > day) => Ends(G \cup {g}, perk, c) = Ends(G, perk, c)
BY DEF Ends

\* Merging a grant into what merges G merges G and the grant.
LEMMA MergeAdds ==
  ASSUME MeterConstants, MeterTyped, NEW c \in Int, NEW p, NEW G \in SUBSET Grants,
         \A x \in G : Meter!IsGrant(grant[x]),
         NEW g \in Grants, Meter!IsGrant(grant[g]), Merges(p, G, c)
  PROVE  Merges(Meter!Merged(p, g, c), G \cup {g}, c)
<1> DEFINE e == EndOf(g, c)
           row == grant[g]
           A == Ends(G, "adFree", c)
           B == Ends(G, "coinFree", c)
           A1 == Ends(G \cup {g}, "adFree", c)
           B1 == Ends(G \cup {g}, "coinFree", c)
           ad == row.adFree /\ (~p.adFree \/ Meter!later(e, p.adFreeUntil))
           coin == row.coinFree /\ (~p.coinFree \/ Meter!later(e, p.coinFreeUntil))
           name == p.label = Nothing \/ Meter!later(e, p.labelUntil)
           q == Meter!Merged(p, g, c)
<1>1. row.adFree \in BOOLEAN /\ row.coinFree \in BOOLEAN /\ e \in Int /\ row["adFree"] = row.adFree /\ row["coinFree"] = row.coinFree
  BY EndTyped
<1>2. A \subseteq Int /\ B \subseteq Int
  BY EndTyped DEF Ends
<1>3. /\ row.adFree /\ e > day => A1 = A \cup {e}
      /\ ~(row.adFree /\ e > day) => A1 = A
      /\ row.coinFree /\ e > day => B1 = B \cup {e}
      /\ ~(row.coinFree /\ e > day) => B1 = B
  BY EndsGrow
<1>4. /\ p.adFree \in BOOLEAN /\ p.coinFree \in BOOLEAN
      /\ (p.adFree <=> A # {}) /\ (p.adFree => Longest(p.adFreeUntil, A))
      /\ (p.coinFree <=> B # {}) /\ (p.coinFree => Longest(p.coinFreeUntil, B))
      /\ IF p.label = Nothing THEN A \cup B = {} ELSE Longest(p.labelUntil, A \cup B)
  BY DEF Merges, BothEnds
<1>5. day \in Int
  BY DEF MeterTyped
<1>6. CASE e <= day \/ (~row.adFree /\ ~row.coinFree)
  <2>1. q = p
    BY <1>6 DEF Meter!Merged, EndOf
  <2>2. A1 = A /\ B1 = B
    BY <1>1, <1>3, <1>5, <1>6
  <2> HIDE DEF q, A, B, A1, B1
  <2>3. Merges(p, G \cup {g}, c)
    BY <1>4, <2>2 DEF Merges, BothEnds, A1, B1
  <2> QED
    BY <2>1, <2>3 DEF q
<1>7. CASE e > day /\ (row.adFree \/ row.coinFree)
  <2>1. q = [adFree |-> p.adFree \/ ad,
             adFreeUntil |-> IF ad THEN e ELSE p.adFreeUntil,
             coinFree |-> p.coinFree \/ coin,
             coinFreeUntil |-> IF coin THEN e ELSE p.coinFreeUntil,
             label |-> IF name THEN g ELSE p.label,
             labelUntil |-> IF name THEN e ELSE p.labelUntil]
    <3>1. ~(e <= day \/ (~row.adFree /\ ~row.coinFree))
      BY <1>1, <1>5, <1>7
    <3> QED
      BY <3>1 DEF Meter!Merged, EndOf
  <2>2. /\ q.adFree = (p.adFree \/ ad) /\ q.adFreeUntil = (IF ad THEN e ELSE p.adFreeUntil)
        /\ q.coinFree = (p.coinFree \/ coin) /\ q.coinFreeUntil = (IF coin THEN e ELSE p.coinFreeUntil)
        /\ q.label = (IF name THEN g ELSE p.label) /\ q.labelUntil = (IF name THEN e ELSE p.labelUntil)
    BY <2>1
  <2>3. /\ ad <=> row.adFree /\ (~p.adFree \/ e > p.adFreeUntil)
        /\ coin <=> row.coinFree /\ (~p.coinFree \/ e > p.coinFreeUntil)
        /\ name <=> p.label = Nothing \/ e > p.labelUntil
    BY DEF Meter!later
  <2>4. g # Nothing
    BY DEF MeterConstants
  <2> HIDE DEF q, A, B, A1, B1, ad, coin, name, e, row
  <2>5. (q.adFree <=> A1 # {}) /\ (q.adFree => Longest(q.adFreeUntil, A1)) /\ q.adFree \in BOOLEAN
    <3>1. CASE row.adFree
      <4>1. A1 = A \cup {e}
        BY <1>3, <1>7, <3>1
      <4>2. /\ ~p.adFree \/ e > p.adFreeUntil => Longest(e, A \cup {e})
            /\ p.adFree /\ ~(e > p.adFreeUntil) => Longest(p.adFreeUntil, A \cup {e})
        BY <1>1, <1>2, <1>4, LongestGrows
      <4>3. CASE ad
        BY <2>2, <2>3, <3>1, <4>1, <4>2, <4>3
      <4>4. CASE ~ad
        BY <1>4, <2>2, <2>3, <3>1, <4>1, <4>2, <4>4
      <4> QED
        BY <4>3, <4>4
    <3>2. CASE ~row.adFree
      BY <1>1, <1>3, <1>4, <2>2, <2>3, <3>2
    <3> QED
      BY <3>1, <3>2
  <2>6. (q.coinFree <=> B1 # {}) /\ (q.coinFree => Longest(q.coinFreeUntil, B1)) /\ q.coinFree \in BOOLEAN
    <3>1. CASE row.coinFree
      <4>1. B1 = B \cup {e}
        BY <1>3, <1>7, <3>1
      <4>2. /\ ~p.coinFree \/ e > p.coinFreeUntil => Longest(e, B \cup {e})
            /\ p.coinFree /\ ~(e > p.coinFreeUntil) => Longest(p.coinFreeUntil, B \cup {e})
        BY <1>1, <1>2, <1>4, LongestGrows
      <4>3. CASE coin
        BY <2>2, <2>3, <3>1, <4>1, <4>2, <4>3
      <4>4. CASE ~coin
        BY <1>4, <2>2, <2>3, <3>1, <4>1, <4>2, <4>4
      <4> QED
        BY <4>3, <4>4
    <3>2. CASE ~row.coinFree
      BY <1>1, <1>3, <1>4, <2>2, <2>3, <3>2
    <3> QED
      BY <3>1, <3>2
  <2>7. q.label # Nothing /\ Longest(q.labelUntil, A1 \cup B1)
    <3>1. A1 \cup B1 = A \cup B \cup {e}
      BY <1>1, <1>3, <1>7
    <3>2. p.label # Nothing <=> A \cup B # {}
      BY <1>4 DEF Longest
    <3> DEFINE on == p.label # Nothing
               S == A \cup B
    <3>3. S \subseteq Int /\ on \in BOOLEAN /\ (on <=> S # {}) /\ (on => Longest(p.labelUntil, S))
      BY <1>2, <1>4, <3>2
    <3> HIDE DEF S
    <3>4. /\ ~on \/ e > p.labelUntil => Longest(e, S \cup {e})
          /\ on /\ ~(e > p.labelUntil) => Longest(p.labelUntil, S \cup {e})
      <4> HIDE DEF on
      <4> QED
        BY <1>1, <3>3, LongestGrows
    <3>5. A1 \cup B1 = S \cup {e}
      BY <3>1 DEF S
    <3>6. CASE name
      BY <2>2, <2>3, <2>4, <3>4, <3>5, <3>6
    <3>7. CASE ~name
      BY <2>2, <2>3, <3>4, <3>5, <3>7
    <3> QED
      BY <3>6, <3>7
  <2>8. Merges(q, G \cup {g}, c)
    BY <2>5, <2>6, <2>7 DEF Merges, BothEnds, A1, B1
  <2> QED
    BY <2>8 DEF q
<1> QED
  BY <1>1, <1>5, <1>6, <1>7

\* Whatever the order of the rows, all of them are merged.
LEMMA FoldMerges ==
  ASSUME MeterConstants, MeterTyped, NEW u \in Users, NEW n \in Nat, NEW rows, DOMAIN rows = 1..n,
         \A i \in 1..n : rows[i] \in Grants /\ Meter!IsGrant(grant[rows[i]])
  PROVE  Merges(Meter!ResolveGrantPerks(u, rows), {rows[i] : i \in 1..n}, home[u].created)
<1> DEFINE D == 1..n
           c == home[u].created
           T == PerksTable(rows, c, D)
           img(s) == {rows[i] : i \in s}
           Bad == {s \in SUBSET D : ~Merges(T[s], img(s), c)}
<1>1. IsFiniteSet(D) /\ D \subseteq Nat
  <2>1. 1 \in Int /\ n \in Int
    OBVIOUS
  <2>2. IsFiniteSet(D)
    BY <2>1, FS_Interval
  <2> QED
    BY <2>2
<1>2. IsPerks(rows, c, D, T)
  BY <1>1, PerksTableExists
<1>3. Meter!ResolveGrantPerks(u, rows) = T[D]
  BY PerksAreChosen
<1>4. c \in Int
  BY DEF MeterTyped, Placed
<1> HIDE DEF c, T, D
<1>5. SUFFICES Bad = {}
  BY <1>3 DEF D, c
<1>6. SUFFICES ASSUME Bad # {} PROVE FALSE
  OBVIOUS
<1>7. Bad \in SUBSET (SUBSET D)
  OBVIOUS
<1> HIDE DEF Bad
<1>8. PICK s \in Bad : \A U \in SUBSET s : U # s => U \notin Bad
  BY <1>1, <1>6, <1>7, SmallestSubset
<1>9. s \in SUBSET D /\ ~Merges(T[s], img(s), c)
  BY <1>8 DEF Bad
<1>10. T[s] = MergedAt(rows, c, T, s)
  BY <1>2, <1>9 DEF IsPerks
<1>11. CASE s = {}
  <2>1. T[s] = Meter!NoPerks
    BY <1>10, <1>11 DEF MergedAt
  <2>2. img(s) = {}
    BY <1>11
  <2>3. Merges(Meter!NoPerks, {}, c)
    BY DEF Merges, Meter!NoPerks, Ends, BothEnds
  <2> QED
    BY <1>9, <2>1, <2>2, <2>3
<1>12. CASE s # {}
  <2>1. IsFiniteSet(s) /\ s \subseteq Nat
    BY <1>1, <1>9, FS_Subset
  <2> DEFINE b == Before(s)
             l == Last(s)
  <2>2. l \in s /\ b \in SUBSET s /\ b # s /\ s = b \cup {l}
    BY <1>12, <2>1, LastIs
  <2>3. T[s] = Meter!Merged(T[b], rows[l], c)
    BY <1>10, <1>12 DEF MergedAt
  <2> HIDE DEF b, l
  <2>4. b \in SUBSET D
    BY <1>9, <2>2
  <2>5. Merges(T[b], img(b), c)
    BY <1>8, <2>2, <2>4 DEF Bad
  <2>6. rows[l] \in Grants /\ Meter!IsGrant(grant[rows[l]])
    BY <1>9, <2>2 DEF D
  <2>7. img(b) \in SUBSET Grants /\ \A x \in img(b) : Meter!IsGrant(grant[x])
    BY <2>4 DEF D
  <2>8. img(s) = img(b) \cup {rows[l]}
    BY <2>2
  <2> HIDE DEF img
  <2>9. PICK p, g, G : p = T[b] /\ g = rows[l] /\ G = img(b)
    OBVIOUS
  <2>10. Merges(Meter!Merged(p, g, c), G \cup {g}, c)
    BY <1>4, <2>5, <2>6, <2>7, <2>9, MergeAdds
  <2> QED
    BY <1>9, <2>3, <2>8, <2>9, <2>10
<1> QED
  BY <1>11, <1>12

\* The two definitions of a cardinality are one.
LEMMA MeterCardinality ==
  ASSUME NEW S
  PROVE  Meter!Cardinality(S) = Cardinality(S)
BY DEF Meter!Cardinality, Cardinality

\* Every order of the rows of a set has all its rows, and no other.
LEMMA OrdersAreAll ==
  ASSUME NEW S, IsFiniteSet(S), NEW rows \in Meter!SetToSeqs(S)
  PROVE  /\ DOMAIN rows = 1..Cardinality(S) /\ Cardinality(S) \in Nat
         /\ {rows[i] : i \in 1..Cardinality(S)} = S
<1> DEFINE n == Cardinality(S)
           D == 1..n
<1>1. n \in Nat
  BY FS_CardinalityType
<1>2. rows \in [D -> S] /\ \A i, j \in D : i # j => rows[i] # rows[j]
  BY MeterCardinality DEF Meter!SetToSeqs
<1> HIDE DEF n
<1>3. IsFiniteSet(D) /\ Cardinality(D) = n
  BY <1>1, FS_Interval
<1> HIDE DEF D
<1>4. rows \in Injection(D, S)
  BY <1>2 DEF Injection, IsInjective
<1>5. rows \in Surjection(D, S)
  BY <1>3, <1>4, FS_Injection DEF n
<1>6. {rows[i] : i \in D} = S
  BY <1>2, <1>5 DEF Surjection
<1> QED
  BY <1>1, <1>2, <1>6 DEF D, n

\* The longest is the highest.
LEMMA LongestIsHighest ==
  ASSUME NEW S, S \subseteq Int, NEW n, Longest(n, S)
  PROVE  n = Meter!Highest(S)
<1>1. n \in S /\ n \in Int /\ \A y \in S : n >= y
  BY DEF Longest
<1>2. \A x \in S : (\A y \in S : x >= y) => x = n
  BY <1>1
<1> QED
  BY <1>1, <1>2 DEF Meter!Highest

\* Whom a grant reaches, the admin counts.
LEMMA ReachedAreCounted ==
  ASSUME MeterConstants, MeterTyped, NEW u \in Users, NEW g \in Meter!Matching(u)
  PROVE  Meter!isActive(grant[g]) /\ Meter!usersInScope(grant[g]) > 0
<1> DEFINE s == Meter!userScope(u)
           row == grant[g]
<1>1. /\ row.starts <= day /\ row.ends > day
      /\ \/ row.type = "all"
         \/ row.type = "user" /\ row.id = u
         \/ row.type \in DOMAIN s /\ s[row.type] # Nothing /\ row.id = s[row.type]
  BY DEF Meter!Matching
<1>2. Meter!isActive(row)
  BY <1>1 DEF Meter!isActive
<1>3. ASSUME NEW S \in SUBSET Users, u \in S PROVE Meter!Cardinality(S) > 0
  <2>1. IsFiniteSet(S) /\ S # {}
    BY <1>3, FS_Subset DEF MeterConstants
  <2>2. Cardinality(S) \in Nat /\ Cardinality(S) # 0
    BY <2>1, FS_CardinalityType, FS_EmptySet
  <2> QED
    BY <2>2, MeterCardinality
<1>4. CASE row.type = "all"
  BY <1>2, <1>3, <1>4 DEF Meter!usersInScope
<1>5. CASE row.type = "user"
  BY <1>2, <1>5 DEF Meter!usersInScope
<1>6. CASE row.type # "all" /\ row.type # "user"
  <2> DEFINE here == {x \in Users : \/ row.type # "batch" /\ home[x][row.type] = row.id
                                    \/ home[x].student # Nothing /\ home[x].student[row.type] = row.id}
             none == [university |-> Nothing, department |-> Nothing, batch |-> Nothing]
             of == home[u].student
  <2>1. Meter!usersInScope(row) = Meter!Cardinality(here)
    BY <1>6 DEF Meter!usersInScope
  <2>2. home[u].university = Nothing /\ home[u].department = Nothing
    BY DEF MeterTyped, Placed
  <2>3. s = [university |-> IF of = Nothing THEN Nothing ELSE of.university,
             department |-> IF of = Nothing THEN Nothing ELSE of.department,
             batch |-> IF of = Nothing THEN Nothing ELSE of.batch]
    BY <2>2 DEF Meter!userScope
  <2>4. row.type \in {"university", "department", "batch"}
    BY <1>1, <1>6, <2>3
  <2>5. s[row.type] # Nothing /\ row.id = s[row.type]
    BY <1>1, <1>6
  <2>6. of # Nothing /\ s[row.type] = of[row.type]
    BY <2>3, <2>4, <2>5
  <2>7. u \in here
    BY <2>5, <2>6
  <2> HIDE DEF here
  <2>8. here \in SUBSET Users
    BY DEF here
  <2> QED
    BY <1>2, <1>3, <2>1, <2>7, <2>8
<1> QED
  BY <1>4, <1>5, <1>6

\* What is merged is what the property says of it.
LEMMA MergesTheLongest ==
  ASSUME MeterConstants, MeterTyped
  PROVE  Meter!PerksAreMerged
<1> SUFFICES ASSUME NEW u \in Users, NEW rows \in Meter!SetToSeqs(Meter!Matching(u))
             PROVE  LET perks == Meter!ResolveGrantPerks(u, rows)
                    IN  /\ perks.adFree = (Meter!Best(u, "adFree") # {})
                        /\ perks.adFree => perks.adFreeUntil = Meter!Highest(Meter!Best(u, "adFree"))
                        /\ perks.coinFree = (Meter!Best(u, "coinFree") # {})
                        /\ perks.coinFree => perks.coinFreeUntil = Meter!Highest(Meter!Best(u, "coinFree"))
                        /\ (perks.label # Nothing) =>
                               perks.labelUntil = Meter!Highest(Meter!Best(u, "adFree") \cup Meter!Best(u, "coinFree"))
  BY ReachedAreCounted DEF Meter!PerksAreMerged
<1> DEFINE M == Meter!Matching(u)
           c == home[u].created
           p == Meter!ResolveGrantPerks(u, rows)
           A == Meter!Best(u, "adFree")
           B == Meter!Best(u, "coinFree")
<1>1. M \in SUBSET Grants /\ \A g \in M : Meter!IsGrant(grant[g])
  BY DEF Meter!Matching
<1>2. IsFiniteSet(M)
  BY <1>1, FS_Subset DEF MeterConstants
<1>3. /\ DOMAIN rows = 1..Cardinality(M) /\ Cardinality(M) \in Nat
      /\ {rows[i] : i \in 1..Cardinality(M)} = M
  BY <1>2, OrdersAreAll
<1>4. c \in Int
  BY DEF MeterTyped, Placed
<1>5. A = Ends(M, "adFree", c) /\ B = Ends(M, "coinFree", c)
  BY DEF Meter!Best, Ends, EndOf
<1>6. A \subseteq Int /\ B \subseteq Int
  BY <1>1, <1>4, <1>5, EndTyped DEF Ends
<1> HIDE DEF M, c, p, A, B
<1>7. Merges(p, M, c)
  <2> DEFINE n == Cardinality(M)
  <2>1. \A i \in 1..n : rows[i] \in Grants /\ Meter!IsGrant(grant[rows[i]])
    BY <1>1, <1>3
  <2> HIDE DEF n
  <2>2. Merges(p, {rows[i] : i \in 1..n}, c)
    BY <1>3, <2>1, FoldMerges DEF n, p, c
  <2> QED
    BY <1>3, <2>2 DEF n
<1>8. /\ p.adFree \in BOOLEAN /\ p.coinFree \in BOOLEAN
      /\ (p.adFree <=> A # {}) /\ (p.adFree => Longest(p.adFreeUntil, A))
      /\ (p.coinFree <=> B # {}) /\ (p.coinFree => Longest(p.coinFreeUntil, B))
      /\ (p.label # Nothing => Longest(p.labelUntil, A \cup B))
  BY <1>5, <1>7 DEF Merges, BothEnds
<1>9. /\ p.adFree => p.adFreeUntil = Meter!Highest(A)
      /\ p.coinFree => p.coinFreeUntil = Meter!Highest(B)
      /\ p.label # Nothing => p.labelUntil = Meter!Highest(A \cup B)
  BY <1>6, <1>8, LongestIsHighest
<1>10. p.adFree = (A # {}) /\ p.coinFree = (B # {})
  BY <1>8
<1> QED
  BY <1>9, <1>10 DEF p, A, B

(* With any users, plans, offers, grants and requests, and however requests,  *)
(* edits and days interleave: nobody uses more of a capped feature in a       *)
(* period than the most a plan or a request let him, and in whatever order    *)
(* the grants come, each perk ends with the longest of those that give it,    *)
(* all of which the admin sees as active (entitlement_service.go,             *)
(* access_grant.go, access_grant_handler.go).                                 *)
THEOREM EntitlementsStayTrue ==
  ASSUME MeterConstants
  PROVE  Meter!Spec => [](Meter!TypeOK /\ Meter!CapHolds /\ Meter!PerksAreMerged)
<1>1. Meter!Init => MeterTyped /\ CountersHold
  <2> SUFFICES ASSUME Meter!Init PROVE MeterTyped /\ CountersHold
    OBVIOUS
  <2>1. {} \in Finite(Meter!PlanEntitlement)
    BY FS_EmptySet DEF Finite
  <2>2. Meter!Never \in Days
    BY DEF MeterConstants, Days, Meter!Never
  <2>3. MeterTyped
    BY <2>1, <2>2 DEF Meter!Init, MeterTyped, MeterConstants, Placed, ProRow
  <2>4. CountersHold
    BY DEF Meter!Init, CountersHold, Meter!CapHolds
  <2> QED
    BY <2>3, <2>4
<1>2. MeterTyped /\ CountersHold /\ [Meter!Next]_Meter!vars => (MeterTyped /\ CountersHold)'
  BY MeterStepTyped, MeterStepCounts
<1>3. MeterTyped /\ CountersHold => Meter!TypeOK /\ Meter!CapHolds /\ Meter!PerksAreMerged
  <2> SUFFICES ASSUME MeterTyped, CountersHold PROVE Meter!TypeOK /\ Meter!CapHolds /\ Meter!PerksAreMerged
    OBVIOUS
  <2>1. \A g \in Grants : Meter!IsGrant(grant[g]) => grant[g].starts \in Days /\ grant[g].ends \in Days
    <3> TAKE g \in Grants
    <3> HAVE Meter!IsGrant(grant[g])
    <3>1. grant[g] \in Given
      BY DEF MeterTyped, Meter!IsGrant, Meter!NoGrant
    <3> QED
      BY <3>1 DEF Given
  <2>2. \A q \in Requests : asked[q] = Nothing \/ asked[q].limit \in Nat
    BY DEF MeterTyped, Asking
  <2>3. \A u \in Users : pro[u] \in ProRow /\ home[u].student \in Homes \cup {Nothing}
    BY DEF MeterTyped, Placed
  <2>4. \A p \in Plans : plan[p] \subseteq Meter!PlanEntitlement
    BY DEF MeterTyped, Finite
  <2>5. day \in 0..MaxDay
    BY DEF MeterTyped
  <2> QED
    BY <2>1, <2>2, <2>3, <2>4, <2>5, MergesTheLongest DEF Meter!TypeOK, CountersHold, ProRow, Days
<1> QED
  BY <1>1, <1>2, <1>3, PTL DEF Meter!Spec
=============================================================================
