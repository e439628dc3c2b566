------------------------------- MODULE Rewards --------------------------------
(***************************************************************************)
(* Coins and referrals: the balance of a user (reward_handler.go), which   *)
(* handlers read, change and save, the log of its transactions, and the    *)
(* referral rewards (referral.go), which add to it inside the transaction  *)
(* that verifies the referred user.                                        *)
(*                                                                         *)
(* UpdateBalance and CreateTransaction are two statements outside any      *)
(* transaction: a request is a reading, a saving and a recording step.     *)
(***************************************************************************)
EXTENDS Sums

CONSTANTS
    Users, Nobody,
    Codes, NoCode,   \* referral codes
    Requests,        \* request goroutines of the reward and referral handlers
    Costs,           \* what ComputeRewardCost makes of the resources
    Welcome,         \* balance of a new row
    AdLimit,         \* adRewardDailyLimit
    Invited, Joined, \* ReferrerRewardAmount, RefereeRewardAmount
    MaxCoins         \* bound: lifetime_earned up to which coins are earned

VARIABLES
    reward,      \* user_rewards
    log,         \* reward_transactions: the sum of the amounts, by user and description
    today,       \* transactions of the day, by user and description
    referral,    \* users: referred_by_id, referral_rewarded_at, is_verified, within the window
    code,        \* users.referral_code
    shown,       \* history: the codes a user was shown
    job,         \* requests in progress
    overwritten, \* history: a balance was saved over one nobody had read
    unlogged,    \* history: a request died between saving and recording
    crossed,     \* history: a user applied the code of one who was applying his
    resaved      \* history: users whose row a save changed, by a form or back to an old reading

vars == <<reward, log, today, referral, code, shown, job, overwritten, unlogged, crossed, resaved>>
coins == <<reward, log, today, overwritten, unlogged>>
invites == <<referral, code, shown, crossed, resaved>>

Earning == {"ad", "daily"}
Kinds == Earning \cup {"welcome", "invited", "joined", "spend"}
NoRow == [balance |-> 0, earned |-> 0, spent |-> 0, exists |-> FALSE]
NewRow == [NoRow EXCEPT !.balance = Welcome, !.exists = TRUE]
Row == [balance : Nat, earned : Nat, spent : Nat, exists : BOOLEAN]
Referral == [by : Users \cup {Nobody}, rewarded : BOOLEAN, verified : BOOLEAN, young : BOOLEAN]
Idle == [step |-> "idle"]
Jobs ==
    {Idle}
    \cup [step : {"read", "saved"}, user : Users, kind : Earning \cup {"spend"}, amount : Nat, row : Row]
    \cup [step : {"applying"}, user : Users, referrer : Users]
    \cup [step : {"issuing"}, user : Users]
    \cup [step : {"saving"}, user : Users, row : Referral, code : Codes \cup {NoCode}]

TypeOK ==
    /\ reward \in [Users -> Row]
    /\ log \in [Users -> [Kinds -> Nat]]
    /\ today \in [Users -> [Earning -> Nat]]
    /\ referral \in [Users -> Referral]
    /\ code \in [Users -> Codes \cup {NoCode}]
    /\ shown \in [Users -> SUBSET Codes]
    /\ job \in [Requests -> Jobs]
    /\ overwritten \in SUBSET Users /\ unlogged \in SUBSET Users
    /\ crossed \in BOOLEAN /\ resaved \in SUBSET Users

\* Users who have signed up, by those whose codes they have applied.
Applied(by) ==
    /\ reward = [u \in Users |-> NoRow]
    /\ log = [u \in Users |-> [k \in Kinds |-> 0]]
    /\ today = [u \in Users |-> [k \in Earning |-> 0]]
    /\ referral = [u \in Users |-> [by |-> by[u], rewarded |-> FALSE, verified |-> FALSE, young |-> TRUE]]
    /\ code = [u \in Users |-> NoCode]
    /\ shown = [u \in Users |-> {}]
    /\ job = [q \in Requests |-> Idle]
    /\ overwritten = {} /\ unlogged = {}
    /\ crossed = FALSE /\ resaved = {}

Init == Applied([u \in Users |-> Nobody])

-----------------------------------------------------------------------------
(* Coins *)

\* GetOrCreate: a new row has the welcome bonus, which is logged.
Got(u) == IF reward[u].exists THEN reward[u] ELSE NewRow
GotLog(u) == IF reward[u].exists THEN log[u] ELSE [log[u] EXCEPT !["welcome"] = @ + Welcome]

\* Bound: nothing more is asked of a balance that is known to be off.
Begin(q, u, kind, amount) ==
    /\ job[q] = Idle /\ u \notin overwritten \cup unlogged
    /\ reward' = [reward EXCEPT ![u] = Got(u)]
    /\ log' = [log EXCEPT ![u] = GotLog(u)]
    /\ job' = [job EXCEPT ![q] = [step |-> "read", user |-> u, kind |-> kind,
                                  amount |-> amount, row |-> Got(u)]]
    /\ UNCHANGED <<today, invites, overwritten, unlogged>>

\* Earn: at most so many ads a day (the pause between two is the clock's).
Earn(q, u) ==
    /\ today[u]["ad"] < AdLimit /\ Got(u).earned < MaxCoins
    /\ Begin(q, u, "ad", 1)

DailyLogin(q, u) ==
    /\ today[u]["daily"] = 0 /\ Got(u).earned < MaxCoins
    /\ Begin(q, u, "daily", 1)

\* Spend, by a user who is neither Pro nor covered by a grant: those pay nothing.
Spend(q, u, cost) ==
    /\ Got(u).balance >= cost
    /\ Begin(q, u, "spend", cost)

\* The row is created and its bonus is not logged.
LoseWelcome(u) ==
    /\ ~reward[u].exists
    /\ reward' = [reward EXCEPT ![u] = NewRow]
    /\ unlogged' = unlogged \cup {u}
    /\ UNCHANGED <<log, today, invites, job, overwritten>>

Changed(row, kind, amount) ==
    IF kind = "spend"
    THEN [row EXCEPT !.balance = @ - amount, !.spent = @ + amount]
    ELSE [row EXCEPT !.balance = @ + amount, !.earned = @ + amount]

\* UpdateBalance saves what the request made of the row it read.
UpdateBalance(q) ==
    /\ job[q].step = "read"
    /\ LET j == job[q]
       IN  /\ reward' = [reward EXCEPT ![j.user] = Changed(j.row, j.kind, j.amount)]
           /\ overwritten' = IF reward[j.user] = j.row THEN overwritten ELSE overwritten \cup {j.user}
    /\ job' = [job EXCEPT ![q].step = "saved"]
    /\ UNCHANGED <<log, today, invites, unlogged>>

\* Mutant: the amount is not logged.
NotLogged(row, kind, amount) == row

Logged(row, kind, amount) == [row EXCEPT ![kind] = @ + amount]

CreateTransaction(q) ==
    /\ job[q].step = "saved"
    /\ LET j == job[q]
       IN  /\ log' = [log EXCEPT ![j.user] = Logged(@, j.kind, j.amount)]
           /\ today' = IF j.kind = "spend" THEN today ELSE [today EXCEPT ![j.user][j.kind] = @ + 1]
    /\ job' = [job EXCEPT ![q] = Idle]
    /\ UNCHANGED <<reward, invites, overwritten, unlogged>>

\* A request fails or its instance stops; what it saved stays.
Drop(q) ==
    /\ job[q] # Idle
    /\ job' = [job EXCEPT ![q] = Idle]
    /\ unlogged' = IF job[q].step = "saved" THEN unlogged \cup {job[q].user} ELSE unlogged
    /\ UNCHANGED <<reward, log, today, invites, overwritten>>

NewDay ==
    /\ today' = [u \in Users |-> [k \in Earning |-> 0]]
    /\ UNCHANGED <<reward, log, invites, job, overwritten, unlogged>>

-----------------------------------------------------------------------------
(* Referrals *)

\* EnsureReferralCode reads, draws a code and stores it where none is stored;
\* the unique index refuses a code somebody has.
OpenInvite(q, u) ==
    /\ job[q] = Idle
    /\ IF code[u] # NoCode
       THEN shown' = [shown EXCEPT ![u] = @ \cup {code[u]}] /\ UNCHANGED job
       ELSE job' = [job EXCEPT ![q] = [step |-> "issuing", user |-> u]] /\ UNCHANGED shown
    /\ UNCHANGED <<coins, referral, code, crossed, resaved>>

\* Mutant: the code is stored over one that was issued meanwhile.
Reissued(u, c) == c

Issued(u, c) == IF code[u] = NoCode THEN c ELSE code[u]

IssueCode(q, c) ==
    /\ job[q].step = "issuing"
    /\ LET u == job[q].user
       IN  /\ \A v \in Users : code[v] # c
           /\ code' = [code EXCEPT ![u] = Issued(u, c)]
           /\ shown' = [shown EXCEPT ![u] = @ \cup {Issued(u, c)}]
    /\ job' = [job EXCEPT ![q] = Idle]
    /\ UNCHANGED <<coins, referral, crossed, resaved>>

\* The row lock of ApplyReferralCode's transaction.
Locked(u) == \E q \in Requests : job[q].step = "applying" /\ job[q].user = u

\* CreditReward adds in the database, whatever a request has read.
Credited(row, amount) == [row EXCEPT !.balance = @ + amount, !.earned = @ + amount]

\* Mutant: the payout is not claimed before it is made.
PaidAgain(ref) == ref.by # Nobody

Payable(ref) == ref.by # Nobody /\ ~ref.rewarded

\* GrantReferralReward for u, whose users row is about to be ref.
Grant(u, ref) ==
    IF ~Payable(ref)
    THEN referral' = [referral EXCEPT ![u] = ref] /\ UNCHANGED <<reward, log>>
    ELSE LET amount(v) == (IF v = ref.by THEN Invited ELSE 0) + (IF v = u THEN Joined ELSE 0)
         IN  /\ referral' = [referral EXCEPT ![u] = [ref EXCEPT !.rewarded = TRUE]]
             /\ reward' = [v \in Users |-> IF v \in {u, ref.by} THEN Credited(Got(v), amount(v)) ELSE reward[v]]
             /\ log' = [v \in Users |->
                           IF v = u THEN [GotLog(v) EXCEPT !["joined"] = @ + Joined]
                           ELSE IF v = ref.by THEN [GotLog(v) EXCEPT !["invited"] = @ + Invited]
                           ELSE log[v]]

\* ApplyReferralCode finds the owner of the code, locks the user and looks at
\* both; the referrer is not locked ...
StartApply(q, u, c) ==
    /\ job[q] = Idle /\ ~Locked(u)
    /\ referral[u].by = Nobody /\ referral[u].young
    /\ \E r \in Users \ {u} :
        /\ code[r] = c /\ referral[r].by # u
        /\ job' = [job EXCEPT ![q] = [step |-> "applying", user |-> u, referrer |-> r]]
    /\ UNCHANGED <<coins, invites>>

\* ... and then links the two, and pays if the user was verified before.
FinishApply(q) ==
    /\ job[q].step = "applying"
    /\ LET u == job[q].user
           r == job[q].referrer
           ref == [referral[u] EXCEPT !.by = r]
       IN  /\ IF ref.verified THEN Grant(u, ref)
              ELSE referral' = [referral EXCEPT ![u] = ref] /\ UNCHANGED <<reward, log>>
           /\ crossed' = (crossed \/ referral[r].by = u)
    /\ job' = [job EXCEPT ![q] = Idle]
    /\ UNCHANGED <<today, code, shown, overwritten, unlogged, resaved>>

\* A verification is approved, or a profile claimed: both pay the referral.
Verify(u) ==
    /\ ~Locked(u)
    /\ Grant(u, [referral[u] EXCEPT !.verified = TRUE])
    /\ UNCHANGED <<today, code, shown, job, overwritten, unlogged, crossed, resaved>>

CloseWindow(u) ==
    /\ referral[u].young
    /\ referral' = [referral EXCEPT ![u].young = FALSE]
    /\ UNCHANGED <<coins, code, shown, job, crossed, resaved>>

\* UpdateMyUser, AdminResetPassword and an admin's edit load the row of a user
\* and save every column of it; the form of the last sets is_verified, with no
\* payout, and the code.
StartSave(q, u, verified, c) ==
    /\ job[q] = Idle
    /\ job' = [job EXCEPT ![q] = [step |-> "saving", user |-> u, code |-> c,
                                  row |-> [referral[u] EXCEPT !.verified = verified]]]
    /\ UNCHANGED <<coins, invites>>

\* Whatever was linked, paid or issued since is undone; the unique index
\* refuses a code another user has.
SaveUser(q) ==
    /\ job[q].step = "saving"
    /\ LET u == job[q].user
           row == [job[q].row EXCEPT !.young = referral[u].young]
           c == job[q].code
       IN  /\ ~Locked(u)
           /\ c = NoCode \/ \A v \in Users \ {u} : code[v] # c
           /\ referral' = [referral EXCEPT ![u] = row]
           /\ code' = [code EXCEPT ![u] = c]
           /\ resaved' = IF referral[u] = row /\ code[u] = c THEN resaved ELSE resaved \cup {u}
    /\ job' = [job EXCEPT ![q] = Idle]
    /\ UNCHANGED <<coins, shown, crossed>>

-----------------------------------------------------------------------------
Next ==
    \/ NewDay
    \/ \E u \in Users : LoseWelcome(u) \/ Verify(u) \/ CloseWindow(u)
    \/ \E q \in Requests :
        \/ UpdateBalance(q) \/ CreateTransaction(q) \/ Drop(q) \/ FinishApply(q) \/ SaveUser(q)
        \/ \E u \in Users :
            \/ Earn(q, u) \/ DailyLogin(q, u) \/ OpenInvite(q, u)
            \/ \E cost \in Costs : Spend(q, u, cost)
            \/ \E c \in Codes : StartApply(q, u, c)
            \/ \E verified \in BOOLEAN, c \in Codes \cup {NoCode} : StartSave(q, u, verified, c)
        \/ \E c \in Codes : IssueCode(q, c)

Spec == Init /\ [][Next]_vars

-----------------------------------------------------------------------------
(* Properties *)

\* What request q has saved for u and not yet recorded as k.
InHand(q, u, k) ==
    IF job[q].step = "saved" /\ job[q].user = u /\ job[q].kind = k THEN job[q].amount ELSE 0
Pending(u, k) == Sum([q \in Requests |-> InHand(q, u, k)], Requests)
Flow(u) == [k \in Kinds |-> log[u][k] + Pending(u, k)]

(* The balance is what the log says, and lifetime_earned and lifetime_spent   *)
(* too: a referral paid while a request has the row in hand, a second ad and  *)
(* a download are all counted, unless a request was overtaken or died.        *)
BalanceIsLogged ==
    \A u \in Users \ (overwritten \cup unlogged) :
        LET gains == Sum(Flow(u), Kinds \ {"spend", "welcome"})
        IN  /\ reward[u].balance = Flow(u)["welcome"] + gains - Flow(u)["spend"]
            /\ reward[u].earned = gains
            /\ reward[u].spent = Flow(u)["spend"]

\* GetReferralSummary and GetReferralAdminStats.
VerifiedCount(u) == Cardinality({v \in Users : referral[v].by = u /\ referral[v].rewarded})
PointsEarned(u) == log[u]["invited"]
Totals ==
    [verified |-> Cardinality({v \in Users : referral[v].rewarded}),
     paid |-> Sum([v \in Users |-> log[v]["invited"] + log[v]["joined"]], Users)]

(* "Rewards are paid once, when the referred user becomes verified"           *)
(* (referral.go:8 of domain): whichever of the two verification paths and the *)
(* late application of a code runs, and however often, unless the row of the  *)
(* user was saved by a form or back to an old reading, which may verify him   *)
(* unpaid or have him paid again; and while no row was, the screens of the    *)
(* user and of the admin add up to what was paid.                             *)
ReferralsPaidOnce ==
    /\ \A u \in Users \ resaved :
        referral[u].rewarded <=> referral[u].by # Nobody /\ referral[u].verified
    /\ resaved = {} =>
        /\ \A u \in Users : PointsEarned(u) = Invited * VerifiedCount(u)
        /\ Totals.paid = (Invited + Joined) * Totals.verified

(* "Only set when still empty so two concurrent first-opens agree"            *)
(* (postgres/referral.go:54): no two users have a code in common, nobody whose *)
(* row was not saved over is ever shown one that is not his, and while no row *)
(* was, two users who did not apply at the same time never refer each other.  *)
InvitesAgree ==
    /\ \A u, v \in Users : u # v => code[u] = NoCode \/ code[u] # code[v]
    /\ \A u \in Users \ resaved : shown[u] \subseteq {code[u]}
    /\ ~crossed /\ resaved = {} => \A u, v \in Users : ~(u # v /\ referral[u].by = v /\ referral[v].by = u)

-----------------------------------------------------------------------------
(* What the properties rest on *)

(* A row that does not exist yet holds nothing, and a request carries a row   *)
(* that exists and can pay what it is about to take (GetOrCreate, Spend).     *)
RowInv ==
    /\ \A u \in Users : ~reward[u].exists => reward[u] = NoRow
    /\ \A q \in Requests : job[q].step = "read" =>
        /\ job[q].row.exists
        /\ job[q].kind = "spend" => job[q].amount <= job[q].row.balance

(* Nobody refers himself, in no row about to be saved either, and who is      *)
(* applying a code is locked by one request and still has no referrer,        *)
(* whatever is verified meanwhile.                                            *)
LockInv ==
    /\ \A u \in Users : referral[u].by # u
    /\ \A q \in Requests : job[q].step = "saving" => job[q].row.by # job[q].user
    /\ \A q \in Requests : job[q].step = "applying" =>
        /\ referral[job[q].user].by = Nobody /\ job[q].referrer # job[q].user
        /\ \A p \in Requests :
            job[p].step = "applying" /\ job[p].user = job[q].user => p = q

=============================================================================
