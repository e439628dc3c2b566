------------------------------ MODULE ProAccess -------------------------------
(***************************************************************************)
(* A user's Pro access: the is_pro and pro_expiry columns of the user row  *)
(* and the user_subscriptions rows behind them.  They are written by       *)
(* grantSubscription (payments and AdminGrantPro), the hourly sweeper      *)
(* ExpireSubscriptions, recomputePro inside a refund, and the admin's      *)
(* AdminSetExpiry and CreateUserSubscription.                              *)
(*                                                                         *)
(* Users do not share any of this state, so one user stands for all.       *)
(* grantSubscription locks the user row and is one step.  The others read  *)
(* without a lock and write later; each is a reading and a writing step.   *)
(***************************************************************************)
EXTENDS Naturals, Sequences, FiniteSets, Sums

CONSTANTS
    Plans,       \* duration_days of the dated plans
    GraceDays,   \* domain.GraceDays
    Sweepers,    \* tickers running ExpireSubscriptions, one for each instance
    Refunders,   \* admins recording refunds
    Editors,     \* admins adjusting subscriptions by hand
    EndDates,    \* end dates admins enter, 0 for none
    Horizon,     \* bound: the last day
    MaxRows      \* bound: user_subscriptions rows

ASSUME PlansAreDays == Plans \subseteq Nat \ {0}
ASSUME GraceIsDays == GraceDays \in Nat
ASSUME EndDatesAreDays == EndDates \subseteq Nat
ASSUME BoundsAreCounts == Horizon \in Nat /\ MaxRows \in Nat

VARIABLES
    now,         \* the day
    isPro,       \* users.is_pro
    proExpiry,   \* users.pro_expiry
    rows,        \* user_subscriptions, in order of created_at
    sweep,       \* sweepers that have read this user's id
    refund,      \* refunds in progress
    edit,        \* AdminSetExpiry calls in progress
    overtaken    \* history: a write followed a read that was no longer true

vars == <<now, isPro, proExpiry, rows, sweep, refund, edit, overtaken>>
user == <<isPro, proExpiry>>

Never == 0       \* a NULL date; days count from 1
Lifetime == 0    \* the duration of a lifetime plan
Dates == Nat

Row == [days : Plans \cup {Lifetime}, end : Dates, grace : Dates, refunded : BOOLEAN]
NoRefund == [step |-> "idle"]
Refunds == [step : {"read"}, row : Nat, seen : Seq(Row), at : Nat]
NoEdit == [step |-> "idle"]
Edits == [step : {"read"}, row : Nat, end : Dates, pro : BOOLEAN]

TypeOK ==
    /\ now \in 1..(Horizon + 1)
    /\ isPro \in BOOLEAN
    /\ proExpiry \in Dates
    /\ rows \in Seq(Row)
    /\ sweep \in SUBSET Sweepers
    /\ refund \in [Refunders -> Refunds \cup {NoRefund}]
    /\ edit \in [Editors -> Edits \cup {NoEdit}]
    /\ overtaken \in BOOLEAN

Init ==
    /\ now = 1
    /\ isPro = FALSE
    /\ proExpiry = Never
    /\ rows = <<>>
    /\ sweep = {}
    /\ refund = [r \in Refunders |-> NoRefund]
    /\ edit = [e \in Editors |-> NoEdit]
    /\ overtaken = FALSE

\* ComputeSubscriptionStatus says "pro".
HasAccess == isPro /\ (proExpiry = Never \/ proExpiry > now)

Tick ==
    /\ now <= Horizon
    /\ now' = now + 1
    /\ UNCHANGED <<user, rows, sweep, refund, edit, overtaken>>

-----------------------------------------------------------------------------
(* Granting *)

\* Mutant: a renewal stacks off the end of the grace window.
ExpiryWithGrace == IF rows = <<>> THEN proExpiry ELSE rows[Len(rows)].grace

\* The date a renewal stacks off: the end of the newest row, refunded or not.
CurrentExpiry == IF rows = <<>> THEN proExpiry ELSE rows[Len(rows)].end

Later(a, b) == IF a > b THEN a ELSE b

\* Mutant: a renewal starts over today.
StartsToday(days) ==
    IF days = Lifetime \/ (isPro /\ CurrentExpiry = Never) THEN Never ELSE now + days

SubscriptionEnd(days) ==
    IF days = Lifetime \/ (isPro /\ CurrentExpiry = Never)
    THEN Never
    ELSE days + (IF isPro THEN Later(now, CurrentExpiry) ELSE now)

\* Mutant: the window is put before the end date, a lifetime one not excepted.
GraceBefore(end) == end - GraceDays

GraceEnd(end) == IF end = Never THEN Never ELSE end + GraceDays

NewRow(days, end) ==
    [days |-> days, end |-> end, grace |-> GraceEnd(end), refunded |-> FALSE]

Insert(row) ==
    /\ Len(rows) < MaxRows
    /\ rows' = Append(rows, row)
    /\ isPro' = TRUE
    /\ proExpiry' = row.grace
    /\ UNCHANGED <<now, sweep, refund, edit, overtaken>>

GrantSubscription(days) == Insert(NewRow(days, SubscriptionEnd(days)))

-----------------------------------------------------------------------------
(* ExpireSubscriptions: SELECT the lapsed users, then UPDATE them by id *)

\* Mutant: the comparison is the wrong way round.
NotYetLapsed == isPro /\ proExpiry # Never /\ proExpiry > now

Lapsed == isPro /\ proExpiry # Never /\ proExpiry < now

ReadLapsed(s) ==
    /\ s \notin sweep
    /\ Lapsed
    /\ sweep' = sweep \cup {s}
    /\ UNCHANGED <<now, user, rows, refund, edit, overtaken>>

ClearPro(s) ==
    /\ s \in sweep
    /\ isPro' = FALSE
    /\ proExpiry' = Never
    /\ sweep' = sweep \ {s}
    /\ overtaken' = (overtaken \/ HasAccess)
    /\ UNCHANGED <<now, rows, refund, edit>>

-----------------------------------------------------------------------------
(* RefundSubscriptionPayment, as far as it touches access *)

MarkRefunded(rs, i) == IF i = 0 THEN rs ELSE [rs EXCEPT ![i].refunded = TRUE]

\* Mutant: refunded rows count as well.
RunningOrRefunded(rs, day) ==
    {rs[i] : i \in {j \in DOMAIN rs : rs[j].end = Never \/ rs[j].end > day}}

\* The rows recomputePro derives Pro from.
Running(rs, day) ==
    {rs[i] : i \in {j \in DOMAIN rs : ~rs[j].refunded /\ (rs[j].end = Never \/ rs[j].end > day)}}

\* pro_expiry: NULL without a running row or with a lifetime one, else the last end.
LastEnd(running) ==
    IF running = {} \/ \E r \in running : r.end = Never THEN Never
    ELSE (CHOOSE r \in running : \A q \in running : q.end <= r.end).end

\* Refund the payment of row i, or one that never granted anything (i = 0, a
\* needs_review payment); recomputePro reads the rows, this refund's own
\* refunded_at among them.
ReadForRefund(r, i) ==
    /\ refund[r] = NoRefund
    /\ i # 0 => ~rows[i].refunded /\ \A q \in Refunders : refund[q] # NoRefund => refund[q].row # i
    /\ refund' = [refund EXCEPT ![r] =
                     [step |-> "read", row |-> i, seen |-> MarkRefunded(rows, i), at |-> now]]
    /\ UNCHANGED <<now, user, rows, sweep, edit, overtaken>>

\* recomputePro's UPDATE of the user, and the commit.
CommitRefund(r) ==
    /\ refund[r] # NoRefund
    /\ LET running == Running(refund[r].seen, refund[r].at)
       IN  /\ isPro' = (running # {})
           /\ proExpiry' = LastEnd(running)
    /\ rows' = MarkRefunded(rows, refund[r].row)
    /\ refund' = [refund EXCEPT ![r] = NoRefund]
    /\ overtaken' = (overtaken \/ rows' # refund[r].seen)
    /\ UNCHANGED <<now, sweep, edit>>

\* The transaction is rolled back.
AbandonRefund(r) ==
    /\ refund[r] # NoRefund
    /\ refund' = [refund EXCEPT ![r] = NoRefund]
    /\ UNCHANGED <<now, user, rows, sweep, edit, overtaken>>

-----------------------------------------------------------------------------
(* Admins adjusting a subscription *)

\* Mutant: the grace window of the old end date is kept.
KeepGrace(row, end) == [row EXCEPT !.end = end]

\* A manual end date is exact: it has no grace window.
Adjusted(row, end) == [row EXCEPT !.end = end, !.grace = end]

\* AdminSetExpiry decides is_pro and looks up the newest row ...
ReadForEdit(e, end) ==
    /\ edit[e] = NoEdit
    /\ rows # <<>>
    /\ edit' = [edit EXCEPT ![e] = [step |-> "read", row |-> Len(rows), end |-> end,
                                    pro |-> end = Never \/ end > now]]
    /\ UNCHANGED <<now, user, rows, sweep, refund, overtaken>>

\* ... and overwrites its end date and the user's.
CommitEdit(e) ==
    /\ edit[e] # NoEdit
    /\ rows' = [rows EXCEPT ![edit[e].row] = Adjusted(@, edit[e].end)]
    /\ isPro' = edit[e].pro
    /\ proExpiry' = edit[e].end
    /\ edit' = [edit EXCEPT ![e] = NoEdit]
    /\ overtaken' = (overtaken \/ edit[e].row # Len(rows))
    /\ UNCHANGED <<now, sweep, refund>>

\* CreateUserSubscription takes the end date from the admin, whatever the user has.
CreateSubscription(end) ==
    /\ Editors # {}
    /\ \E days \in Plans \cup {Lifetime} : Insert(NewRow(days, end))

-----------------------------------------------------------------------------
Sweep(s) == ReadLapsed(s) \/ ClearPro(s)

\* What goes on whoever is at work in the office ...
Daily ==
    \/ Tick
    \/ \E days \in Plans \cup {Lifetime} : GrantSubscription(days)
    \/ \E s \in Sweepers : Sweep(s)

\* ... and what admins do.
Refunding ==
    \E r \in Refunders :
        CommitRefund(r) \/ AbandonRefund(r) \/ \E i \in 0..Len(rows) : ReadForRefund(r, i)

Editing ==
    \/ \E e \in Editors : CommitEdit(e) \/ \E end \in EndDates : ReadForEdit(e, end)
    \/ \E end \in EndDates : CreateSubscription(end)

Next == Daily \/ Refunding \/ Editing

Spec == Init /\ [][Next]_vars

\* The tickers of main.go keep firing.
FairSpec == Spec /\ \A s \in Sweepers : WF_vars(Sweep(s))

-----------------------------------------------------------------------------
(* Properties *)

Standing == {i \in DOMAIN rows : ~rows[i].refunded}
Covers(row) == row.end = Never \/ row.end > now
CoversWithGrace(row) == row.end = Never \/ row.grace > now

(* Whatever the order of purchases, refunds and sweeps, unless one of them    *)
(* overtook another's read: a user with a running subscription that was not   *)
(* refunded has access, and a user has access only under such a subscription  *)
(* or its grace window (recomputePro, grantSubscription, ExpireSubscriptions).*)
AccessFollowsRows ==
    ~overtaken =>
        /\ (\E i \in Standing : Covers(rows[i])) => HasAccess
        /\ HasAccess => \E i \in Standing : CoversWithGrace(rows[i])

(* "Renewals stack [...]; a lifetime user is never given a dated expiry"      *)
(* (docs/BILLING.md:15): subscriptions in force are paid for one after the    *)
(* other, no bought day is lost, and after a lifetime one all are.            *)
Stack(rs) ==
    \A j \in rs : \A i \in rs : i < j =>
        /\ rows[i].end = Never => rows[j].end = Never
        /\ rows[j].end # Never => rows[j].end >= rows[i].end + rows[j].days

RenewalsStack == ~overtaken => Stack(Standing)

\* No more days ahead than the days of the plans behind them.
PaidAhead(rs) ==
    (\A i \in rs : rows[i].days # Lifetime) =>
        \A i \in rs :
            /\ rows[i].end # Never
            /\ rows[i].end <= now + Sum([j \in rs |-> rows[j].days], rs)

(* Renewing during the grace window or in a row never gifts days              *)
(* (grantSubscription's comment, payment_service.go:449): what lies ahead of  *)
(* a user who was never refunded was paid for, even when a sweep hit him.     *)
NoGiftedDays == Standing = DOMAIN rows => PaidAhead(Standing)

(* After an admin's adjustment the newest row decides, to the day:            *)
(* AdminSetExpiry "keeps User.IsPro/ProExpiry in sync with it"                *)
(* (domain/subscription.go:104), until the next grant or sweep and after it.  *)
NewestRowDecides ==
    ~overtaken =>
        (HasAccess <=> rows # <<>> /\ CoversWithGrace(rows[Len(rows)]))

(* What the properties rest on, an invariant each step preserves: the first   *)
(* where no admin edits by hand, the second where none refunds.               *)

\* A user is Pro by a row that stands, never for longer than it allows.
ProByRow ==
    isPro => \E i \in Standing : rows[i].end = Never \/ (proExpiry # Never /\ proExpiry <= rows[i].grace)

\* While a standing row covers today the user is Pro until its end at least,
\* and no row bought later ends before it.
RowsCarry ==
    \A i \in Standing : Covers(rows[i]) =>
        /\ isPro
        /\ proExpiry # Never => rows[i].end # Never /\ proExpiry >= rows[i].end
        /\ \A j \in DOMAIN rows : i < j =>
               rows[j].end = Never \/ (rows[i].end # Never /\ rows[j].end >= rows[i].end)

GraceFollows == \A i \in DOMAIN rows : rows[i].grace = GraceEnd(rows[i].end)

RefundsReadPast ==
    \A r \in Refunders : refund[r] # NoRefund =>
        refund[r].at <= now /\ (rows = <<>> => refund[r].seen = <<>>)

GrantInv ==
    /\ GraceFollows
    /\ RefundsReadPast
    /\ rows = <<>> => ~isPro
    /\ ~overtaken => ProByRow /\ RowsCarry /\ Stack(Standing)
    /\ NoGiftedDays

EditInv ==
    /\ \A i \in DOMAIN rows : rows[i].grace = Never <=> rows[i].end = Never
    /\ \A e \in Editors : edit[e] # NoEdit =>
           /\ edit[e].row \in DOMAIN rows
           /\ edit[e].pro \/ (edit[e].end # Never /\ edit[e].end <= now)
    /\ ~overtaken =>
           IF isPro THEN rows # <<>> /\ proExpiry = rows[Len(rows)].grace
           ELSE rows = <<>> \/ ~CoversWithGrace(rows[Len(rows)])

(* A lapsed user does not stay is_pro for ever: a sweeper clears the flag, or *)
(* something granted access again.                                            *)
Overdue == isPro /\ proExpiry # Never /\ proExpiry < now

LapsedIsCleared == Overdue ~> ~Overdue

(* "the hourly sweeper expires it on time" (payment_service.go:617): access   *)
(* that was granted and not refunded lasts until its date.                    *)
SweptOnTime == (\E i \in Standing : Covers(rows[i])) => HasAccess
=============================================================================
