----------------------------- MODULE Entitlements -----------------------------
(***************************************************************************)
(* What a user may use, and how much of it: the features of the plan of    *)
(* the newest live subscription, the perks of the access grants that cover *)
(* the user, and the counters of capped features                           *)
(* (entitlement_service.go, access_grant.go, access_grant_handler.go).     *)
(*                                                                         *)
(* Consume reads the limit first and counts later: a request is a          *)
(* resolving and a counting step, between which plans and days change.     *)
(* Days stand for times; an end that never comes is the day Never.         *)
(***************************************************************************)
EXTENDS Integers, FiniteSets, SequencesExt

CONSTANTS
    Users, Plans, Nothing,  \* Nothing: a NULL id
    Offers,                 \* sets of entitlements an admin submits for a plan
    ProRows,                \* what a purchase, a refund or an edit leaves of a user
    Grants, Forms,          \* access grants, and the forms an admin submits for them
    Homes,                  \* where a student row places its user
    Requests,
    MaxDay, DaysPerMonth,   \* bound: the last day; length of a month
    Amounts                 \* uses a request asks for

VARIABLES
    today,
    home,        \* the university, department and batch of a user and of the student row
    pro,         \* users.is_pro and pro_expiry, and the newest live subscription
    plan,        \* plan_entitlements, by plan
    used,        \* usage_counters: rows as a function from their key
    grant,       \* access_grants
    request,     \* requests of a metered feature in progress
    peak         \* history: the highest limit a user had since the period of a counter began

vars == <<today, home, pro, plan, used, grant, request, peak>>

Never == MaxDay + 1
LimitUnlimited == -1
DefaultProFeatures == {"ad_free", "unlimited_downloads", "premium_content"}
Periods == {"none", "daily", "month"}
FeatureAccess == [allowed : BOOLEAN, limit : {LimitUnlimited} \cup Nat, period : Periods, remaining : {LimitUnlimited} \cup Nat]
PlanEntitlement == [feature : DefaultProFeatures, limit : {LimitUnlimited} \cup Nat, period : Periods]
NoGrant == [exists |-> FALSE]
IsGrant(g) == g.exists

\* The key of a counter: the feature and the period it counts.
periodKey(period, day) ==
    CASE period = "daily" -> <<"day", day>>
      [] period = "month" -> <<"month", day \div DaysPerMonth>>
      [] OTHER -> <<"all", 0>>
Keys == {periodKey(p, d) : p \in Periods, d \in 0..MaxDay}
UsageCounter == Users \X DefaultProFeatures \X Keys

TypeOK ==
    /\ today \in 0..MaxDay
    /\ \A u \in Users :
        /\ pro[u] \in [is : BOOLEAN, expiry : 0..Never, plan : Plans \cup {Nothing}]
        /\ home[u].student \in Homes \cup {Nothing}
    /\ \A p \in Plans : plan[p] \subseteq PlanEntitlement
    /\ used \in [UsageCounter -> Nat] /\ peak \in [UsageCounter -> Nat]
    /\ \A g \in Grants : IsGrant(grant[g]) => grant[g].starts \in 0..Never /\ grant[g].ends \in 0..Never
    /\ \A q \in Requests : request[q] = Nothing \/ request[q].limit \in Nat

Init ==
    /\ today = 0
    /\ home = [u \in Users |-> [created |-> 0, university |-> Nothing, department |-> Nothing, student |-> Nothing]]
    /\ pro = [u \in Users |-> [is |-> FALSE, expiry |-> Never, plan |-> Nothing]]
    /\ plan = [p \in Plans |-> {}]
    /\ used = [k \in UsageCounter |-> 0]
    /\ grant = [g \in Grants |-> NoGrant]
    /\ request = [q \in Requests |-> Nothing]
    /\ peak = [k \in UsageCounter |-> 0]

-----------------------------------------------------------------------------
(* Access grants *)

\* The student row fills what the user row leaves open, and gives the batch.
userScope(u) ==
    LET h == home[u]
        row == IF h.student = Nothing THEN [university |-> Nothing, department |-> Nothing, batch |-> Nothing] ELSE h.student
        fill(own, other) == IF own = Nothing THEN other ELSE own
    IN  [university |-> fill(h.university, row.university),
         department |-> fill(h.department, row.department),
         batch |-> row.batch]

\* The grants ResolveGrantPerks selects: started, not ended, for this user.
Matching(u) ==
    LET s == userScope(u)
        covers(g) == \/ g.type = "all"
                     \/ g.type = "user" /\ g.id = u
                     \/ g.type \in DOMAIN s /\ s[g.type] # Nothing /\ g.id = s[g.type]
    IN  {g \in Grants : /\ IsGrant(grant[g]) /\ grant[g].starts <= today /\ grant[g].ends > today
                        /\ covers(grant[g])}

\* A grant for new users ends that many days after the account was made.
grantUntil(g, created) ==
    IF g.newUserDays > 0 /\ created + g.newUserDays < g.ends THEN created + g.newUserDays ELSE g.ends

later(a, b) == a > b

NoPerks == [adFree |-> FALSE, adFreeUntil |-> Never, coinFree |-> FALSE, coinFreeUntil |-> Never,
            label |-> Nothing, labelUntil |-> Never]

\* Mutant: the last matching grant decides, not the longest.
LastWins(perks, g, created) ==
    LET until == grantUntil(grant[g], created)
    IN  IF until <= today THEN perks
        ELSE [perks EXCEPT !.adFree = @ \/ grant[g].adFree,
                           !.adFreeUntil = IF grant[g].adFree THEN until ELSE @]

Merged(perks, g, created) ==
    LET row == grant[g]
        until == grantUntil(row, created)
        ad == row.adFree /\ (~perks.adFree \/ later(until, perks.adFreeUntil))
        coin == row.coinFree /\ (~perks.coinFree \/ later(until, perks.coinFreeUntil))
        name == perks.label = Nothing \/ later(until, perks.labelUntil)
    IN  IF until <= today \/ (~row.adFree /\ ~row.coinFree) THEN perks
        ELSE [adFree |-> perks.adFree \/ ad,
              adFreeUntil |-> IF ad THEN until ELSE perks.adFreeUntil,
              coinFree |-> perks.coinFree \/ coin,
              coinFreeUntil |-> IF coin THEN until ELSE perks.coinFreeUntil,
              label |-> IF name THEN g ELSE perks.label,
              labelUntil |-> IF name THEN until ELSE perks.labelUntil]

\* The rows come in the order the database returns them.
ResolveGrantPerks(u, rows) == FoldLeft(LAMBDA acc, g : Merged(acc, g, home[u].created), NoPerks, rows)
Perks(u) == ResolveGrantPerks(u, SetToSeq(Matching(u)))

\* build: a label is given, a perk picked, the scope found, the end after the start.
Acceptable(form, starts) ==
    /\ form.adFree \/ form.coinFree
    /\ form.newUserDays >= 0
    /\ form.type = "all" \/ form.id # Nothing
    /\ form.ends > starts

Built(form, starts) ==
    [exists |-> TRUE, type |-> form.type, id |-> IF form.type = "all" THEN Nothing ELSE form.id,
     adFree |-> form.adFree, coinFree |-> form.coinFree,
     newUserDays |-> form.newUserDays, starts |-> starts, ends |-> form.ends]

notGrants == <<today, home, pro, plan, used, request, peak>>

CreateGrant(g, form) ==
    LET starts == IF form.starts = Nothing THEN today ELSE form.starts
    IN  /\ grant[g] = NoGrant /\ Acceptable(form, starts)
        /\ grant' = [grant EXCEPT ![g] = Built(form, starts)]
        /\ UNCHANGED notGrants

\* Every editable field is replaced; the start is kept unless a new one is sent.
UpdateGrant(g, form) ==
    LET starts == IF form.starts = Nothing THEN grant[g].starts ELSE form.starts
    IN  /\ IsGrant(grant[g]) /\ Acceptable(form, starts)
        /\ grant' = [grant EXCEPT ![g] = Built(form, starts)]
        /\ UNCHANGED notGrants

EndGrant(g) ==
    /\ IsGrant(grant[g]) /\ grant[g].ends > today
    /\ grant' = [grant EXCEPT ![g].ends = today]
    /\ UNCHANGED notGrants

DeleteGrant(g) ==
    /\ IsGrant(grant[g])
    /\ grant' = [grant EXCEPT ![g] = NoGrant]
    /\ UNCHANGED notGrants

\* The admin list: how many accounts the scope covers, whether the grant is active.
usersInScope(g) ==
    CASE g.type = "all" -> Cardinality(Users)
      [] g.type = "user" -> 1
      [] OTHER -> Cardinality({u \in Users :
            \/ g.type # "batch" /\ home[u][g.type] = g.id
            \/ home[u].student # Nothing /\ home[u].student[g.type] = g.id})
isActive(g) == g.starts <= today /\ g.ends > today

-----------------------------------------------------------------------------
(* Features *)

isPro(u) == pro[u].is /\ pro[u].expiry > today
activePlan(u) == IF isPro(u) THEN pro[u].plan ELSE Nothing

Unlimited(f) == [feature |-> f, limit |-> LimitUnlimited, period |-> "none"]

\* What the plan grants, and every default feature where it says nothing; the
\* perks of access grants replace it.
Granted(u) ==
    LET rows == IF activePlan(u) = Nothing THEN {} ELSE plan[activePlan(u)]
        byPlan == IF ~isPro(u) THEN {} ELSE IF rows = {} THEN {Unlimited(f) : f \in DefaultProFeatures} ELSE rows
        byPerk == {f \in {"ad_free", "unlimited_downloads"} :
                        IF f = "ad_free" THEN Perks(u).adFree ELSE Perks(u).coinFree}
    IN  {r \in byPlan : r.feature \notin byPerk} \cup {Unlimited(f) : f \in byPerk}

Denied == [allowed |-> FALSE, limit |-> 0, period |-> "none", remaining |-> 0]

\* One feature of resolve's answer: Check.
Check(u, f) ==
    LET of == {r \in Granted(u) : r.feature = f /\ r.limit # 0}
    IN  IF of = {} THEN Denied
        ELSE LET r == CHOOSE x \in of : TRUE
                 left == r.limit - used[<<u, f, periodKey(r.period, today)>>]
             IN  [allowed |-> TRUE, limit |-> r.limit, period |-> r.period,
                  remaining |-> IF r.limit = LimitUnlimited THEN LimitUnlimited ELSE IF left < 0 THEN 0 ELSE left]

RequireEntitlement(u, f) == Check(u, f).allowed /\ Check(u, f).remaining # 0

\* SetPlanEntitlements: no feature twice, a known period; an unlimited one has none.
Valid(items) ==
    /\ \A i \in items : i.limit >= LimitUnlimited /\ i.period \in Periods \cup {""}
    /\ \A i, j \in items : i.feature = j.feature => i = j
Normalised(items) ==
    {[i EXCEPT !.period = IF i.period = "" \/ i.limit = LimitUnlimited THEN "none" ELSE @] : i \in items}

\* The limits users have today, by counter.
Limits == UNION {{[key |-> <<u, r.feature, periodKey(r.period, today)>>, limit |-> r.limit] : r \in Granted(u)} : u \in Users}

\* The highest limits users are given from now on.  (\E names the set, so that TLC finds it once.)
Highest(S) == CHOOSE x \in S : \A y \in S : x >= y
RaisePeak ==
    \E limits \in {Limits'} :
        peak' = [k \in UsageCounter |-> Highest({peak[k]} \cup {l.limit : l \in {x \in limits : x.key = k}})]

SetPlanEntitlements(p, items) ==
    /\ Valid(items)
    /\ plan' = [plan EXCEPT ![p] = Normalised(items)]
    /\ UNCHANGED <<today, home, pro, used, grant, request>>
    /\ RaisePeak

\* A purchase, a refund or an edit makes another subscription the newest live one.
ChangePro(u, row) ==
    /\ row # pro[u]
    /\ pro' = [pro EXCEPT ![u] = row]
    /\ UNCHANGED <<today, home, plan, used, grant, request>>
    /\ RaisePeak

\* A profile is claimed or corrected.
Place(u, h) ==
    /\ h # home[u].student
    /\ home' = [home EXCEPT ![u].student = h]
    /\ UNCHANGED <<today, pro, plan, used, grant, request, peak>>

\* Consume resolves: a capped feature that is allowed goes on to be counted.
StartConsume(q, u, f, n) ==
    /\ request[q] = Nothing
    /\ n > 0 /\ RequireEntitlement(u, f) /\ Check(u, f).limit # LimitUnlimited
    /\ request' = [request EXCEPT ![q] = [user |-> u, feature |-> f, n |-> n, limit |-> Check(u, f).limit,
                                          period |-> Check(u, f).period]]
    /\ UNCHANGED <<today, home, pro, plan, used, grant, peak>>

\* Mutant: what resolve found left is trusted, and the counter just raised.
Trusted(count, n, limit) == TRUE

WithinLimit(count, n, limit) == count + n <= limit

\* The conditional UPDATE, on the counter of the period it is now.
FinishConsume(q) ==
    /\ request[q] # Nothing
    /\ LET r == request[q]
           key == <<r.user, r.feature, periodKey(r.period, today)>>
       IN  /\ used' = IF WithinLimit(used[key], r.n, r.limit) THEN [used EXCEPT ![key] = @ + r.n] ELSE used
           /\ peak' = [peak EXCEPT ![key] = Highest({@, r.limit})]
    /\ request' = [request EXCEPT ![q] = Nothing]
    /\ UNCHANGED <<today, home, pro, plan, grant>>

NextDay ==
    /\ today < MaxDay
    /\ today' = today + 1
    /\ UNCHANGED <<home, pro, plan, used, grant, request>>
    /\ RaisePeak

-----------------------------------------------------------------------------
GrantStep ==
    \/ \E g \in Grants :
        \/ EndGrant(g) \/ DeleteGrant(g)
        \/ \E form \in Forms : CreateGrant(g, form) \/ UpdateGrant(g, form)
    \/ \E u \in Users, h \in Homes : Place(u, h)

FeatureStep ==
    \/ \E p \in Plans, items \in Offers : SetPlanEntitlements(p, items)
    \/ \E u \in Users :
        \/ \E row \in ProRows : ChangePro(u, row)
        \/ \E q \in Requests, f \in DefaultProFeatures, n \in Amounts : StartConsume(q, u, f, n)
    \/ \E q \in Requests : FinishConsume(q)

Next == NextDay \/ GrantStep \/ FeatureStep

Spec == Init /\ [][Next]_vars

-----------------------------------------------------------------------------
(* Properties *)

\* Reference: the best end among the grants that switch a perk on.
Best(u, perk) == {grantUntil(grant[g], home[u].created) : g \in {x \in Matching(u) :
                      grant[x][perk] /\ grantUntil(grant[x], home[u].created) > today}}

(* "Each perk takes the latest end date among the grants that switch it on"   *)
(* (access_grant.go:74), in whatever order the rows come; nobody is reached   *)
(* by a grant the admin sees as inactive or whose users are not counted.      *)
PerksAreMerged ==
    \A u \in Users :
        /\ \A rows \in SetToSeqs(Matching(u)) :
             LET perks == ResolveGrantPerks(u, rows)
             IN  /\ perks.adFree = (Best(u, "adFree") # {})
                 /\ perks.adFree => perks.adFreeUntil = Highest(Best(u, "adFree"))
                 /\ perks.coinFree = (Best(u, "coinFree") # {})
                 /\ perks.coinFree => perks.coinFreeUntil = Highest(Best(u, "coinFree"))
                 /\ (perks.label # Nothing) =>
                        perks.labelUntil = Highest(Best(u, "adFree") \cup Best(u, "coinFree"))
        /\ \A g \in Matching(u) : isActive(grant[g]) /\ usersInScope(grant[g]) > 0

(* "The cap is enforced by a conditional UPDATE, so concurrent requests can't  *)
(* jointly exceed it" (entitlement_service.go:166): however requests, plan     *)
(* changes and periods interleave, nobody uses more in a period than the most  *)
(* a plan of his allowed in it, or allowed when the request was let in.        *)
CapHolds == \A k \in UsageCounter : used[k] <= peak[k]
=============================================================================
