------------------------------ MODULE MCAccounts ------------------------------
(* What a user has, may use and is: instances of ProAccess, of the coupon     *)
(* counters of SubscriptionPayments, and of Rewards, Entitlements, Sessions,  *)
(* Devices, StudentProfiles and Enrolment, which share no state.  A behaviour *)
(* is about one part and leaves the others alone.  A part that is too large   *)
(* as a whole is cut, and so are the states in which its history variables    *)
(* leave a property nothing to say.                                           *)
EXTENDS ProAccess, Integers

CONSTANTS
    Parts,          \* the parts looked at
    EditDays,       \* bound: the last day of ProAccess with editing
    u1, u2, None

VARIABLES
    part,
    \* SubscriptionPayments
    usedCount, active, checkout, couponOf, status, reserved, subs, subRefunded,
    journals, invoice, refundRow, age, gateway, payJob, couponEdit, retaken,
    \* Rewards
    reward, log, earnedToday, referral, code, shown, visit, overwritten, unlogged, crossed, resaved,
    \* Entitlements
    today, home, pro, plan, used, grant, metered, peak,
    \* Sessions
    time, account, access, refresh, resets, request, endings, raced, reverted,
    \* Devices
    device, fcm, mute, placed, installed, task, spoiled, moved, present,
    \* StudentProfiles and Enrolment
    person, profile, application, worker, written, doubled, strays,
    enrollment, moderators, drawn, hasty

couponVars == <<usedCount, active, checkout, couponOf, status, reserved, subs, subRefunded,
                journals, invoice, refundRow, age, gateway, payJob, couponEdit, retaken>>
rewardVars == <<reward, log, earnedToday, referral, code, shown, visit, overwritten, unlogged, crossed, resaved>>
featureVars == <<today, home, pro, plan, used, grant, metered, peak>>
accountVars == <<time, account, access, refresh, resets, request, endings, raced, reverted>>
tokenVars == <<device, fcm, mute, placed, installed, task, spoiled, moved, present>>
personVars == <<person, profile, application, worker, written, doubled, strays>>
placeVars == <<enrollment, moderators, drawn, hasty>>

Checkout == INSTANCE SubscriptionPayments WITH
    Payments <- {"p1", "p2"}, Coupons <- {"c1"}, MaxUses <- [c \in {"c1"} |-> 1],
    Clients <- {}, Reconcilers <- {"r1"}, Admins <- {"a1"},
    job <- payJob, edit <- couponEdit

Coins == INSTANCE Rewards WITH
    Users <- {u1, u2}, Nobody <- None, Codes <- {1, 2}, NoCode <- 0, Requests <- {1, 2},
    Costs <- {1}, Welcome <- 1, AdLimit <- 2, Invited <- 3, Joined <- 2, MaxCoins <- 2,
    today <- earnedToday, job <- visit

Form(type, id, adFree, coinFree, days, starts, ends) ==
    [type |-> type, id |-> id, adFree |-> adFree, coinFree |-> coinFree,
     newUserDays |-> days, starts |-> starts, ends |-> ends]
Item(limit, period) == [feature |-> "premium_content", limit |-> limit, period |-> period]

Features == INSTANCE Entitlements WITH
    Users <- {u1}, Plans <- {"monthly"}, Nothing <- None,
    Grants <- {"g1", "g2"}, Requests <- {1, 2}, Amounts <- {1}, MaxDay <- 2, DaysPerMonth <- 2,
    Offers <- {{Item(1, "daily")},
               {Item(2, "month"), [feature |-> "ad_free", limit |-> -1, period |-> "daily"]}},
    ProRows <- {[is |-> TRUE, expiry |-> d, plan |-> "monthly"] : d \in {2, 3}}
               \cup {[is |-> FALSE, expiry |-> 3, plan |-> None]},
    Homes <- {[university |-> "uni", department |-> "dept", batch |-> "batch"]},
    Forms <- {Form("all", None, TRUE, FALSE, 1, None, 3),
              Form("batch", "batch", TRUE, TRUE, 0, 1, 2),
              Form("user", u1, FALSE, TRUE, 0, None, 3),
              Form("department", "dept", TRUE, FALSE, 0, None, 2)},
    request <- metered

-----------------------------------------------------------------------------
(* Sessions, resets and devices. *)

Login == INSTANCE Sessions WITH
    Users <- {u1}, Admins <- {}, Passwords <- {"p", "q"}, Requests <- {1, 2}, MaxResetAttempts <- 1,
    MaxResetRequests <- 1, MaxTime <- 1, MaxVersion <- 3, now <- time
Forgotten == INSTANCE Sessions WITH
    Users <- {}, Admins <- {u2}, Passwords <- {"p"}, Requests <- {1, 2}, MaxResetAttempts <- 2,
    MaxResetRequests <- 2, MaxTime <- 2, MaxVersion <- 3, now <- time

PlacedIn(batch) == [university |-> None, department |-> "dept", batch |-> batch]
Installs == INSTANCE Devices WITH
    Users <- {u1, u2}, Admins <- {}, Passwords <- {"p"}, Requests <- {1}, MaxResetAttempts <- 1,
    MaxResetRequests <- 0, MaxTime <- 0, MaxVersion <- 2,
    Tokens <- {"t1"}, Nowhere <- None, Profiles <- {PlacedIn("batch"), PlacedIn(None)}, Workers <- {1, 2},
    now <- time, profile <- placed

-----------------------------------------------------------------------------
(* Profiles. *)

\* Rows a form leaves: one given away by hand, and one deleted and claimed.
Filled(batch) == [state |-> "live", owner |-> u1, claimed |-> FALSE, code |-> "c1", place |-> <<batch, "r1">>]
Spoilt(batch) == [Filled(batch) EXCEPT !.state = "trashed", !.owner = None, !.claimed = TRUE]
Signed == [live |-> TRUE, old |-> FALSE, verified |-> TRUE, role |-> "student", department |-> None]

\* With codes one profile is a teacher's, with requests both are students'.
Claims == INSTANCE StudentProfiles WITH
    Users <- {u1, u2}, Profiles <- {"s1", "s2"}, Applications <- {}, Codes <- {"c1", "c2"},
    Batches <- {"b1"}, Rolls <- {"r1"}, Workers <- {1, 2}, DepartmentOf <- [b \in {"b1"} |-> "d1"],
    KindOf <- [s \in {"s1", "s2"} |-> IF s = "s1" THEN "student" ELSE "teacher"],
    Rows <- {Filled("b1"), Spoilt("b1")}, Accounts <- {Signed, [Signed EXCEPT !.live = FALSE]},
    user <- person, overwritten <- written
Requested == INSTANCE StudentProfiles WITH
    Users <- {u1, u2}, Profiles <- {"s1", "s2"}, Applications <- {"q1", "q2"}, Codes <- {"c1"},
    Batches <- {"b1"}, Rolls <- {"r1"}, Workers <- {1, 2}, DepartmentOf <- [b \in {"b1"} |-> "d1"],
    KindOf <- [s \in {"s1", "s2"} |-> "student"],
    Rows <- {Filled("b1")}, Accounts <- {[Signed EXCEPT !.live = FALSE]},
    user <- person, overwritten <- written
Moves == INSTANCE Enrolment WITH
    Users <- {u1, u2}, Profiles <- {"s1"}, Applications <- {"q1"}, Codes <- {"c1"},
    Batches <- {"b1", "b2"}, Rolls <- {"r1"}, Workers <- {1, 2}, KindOf <- [s \in {"s1"} |-> "student"],
    DepartmentOf <- [b \in {"b1", "b2"} |-> IF b = "b1" THEN "d1" ELSE "d2"],
    University <- "un", MaxMoves <- 2, CodesPerHour <- 1,
    Rows <- {Filled("b2")}, Accounts <- {Signed},
    user <- person, overwritten <- written, raced <- hasty

-----------------------------------------------------------------------------
(* The parts *)

\* Refunding and editing by hand are looked at one at a time: an edit may give
\* days away and a refund then keep them, so with both at work the rows promise
\* little that is worth checking.
RefundSteps == Daily \/ Refunding
EditSteps == (Daily \/ Editing) /\ now' <= EditDays + 1

\* One user asks, who has referred the other.
CoinSteps ==
    /\ overwritten' = {} /\ unlogged' = {} /\ Coins!Next
    /\ \A q \in {1, 2} : visit'[q].step \in {"idle", "read", "saved"} /\ (visit'[q].step # "idle" => visit'[q].user = u1)
    /\ ~referral'[u1].verified /\ \A u \in {u1, u2} : referral'[u].young
InviteSteps ==
    /\ resaved = {} /\ Coins!Next
    /\ \A q \in {1, 2} : visit'[q].step \in {"idle", "applying", "issuing", "saving"}
    /\ visit'[1].step # "saving" /\ (visit'[2].step = "saving" => visit'[2].user = u1)
    /\ UNCHANGED <<earnedToday, unlogged>>

SessionSteps == reverted' = {} /\ Login!SessionStep /\ account'[u1].active
\* Two codes issued at once are such a race, so the second request issues none.
ResetSteps == raced' = {} /\ (Forgotten!ResetStep \/ Forgotten!Drop(1)) /\ request'[2].step # "issue"

\* Of the second user only the device is looked at; the first mutes the batch.
DeviceSteps ==
    \/ /\ spoiled' = {} /\ refresh = {u1, u2}
       /\ Installs!HandlerStep /\ endings'[u2] = 0
       /\ mute'[u2]["batch"] = "none" /\ placed'[u2] = placed[u2]
       /\ \A u \in {u1, u2} : mute'[u]["university"] = "none" /\ mute'[u]["department"] = "none"
       /\ \A w \in {1, 2} : w = 2 /\ task[1].step = "idle" => task'[2] = task[2]
    \/ spoiled' = {} /\ Installs!WorkerStep
    \/ device["t1"].state = "none" /\ moved' = {} /\ spoiled' = {} /\ Installs!LoginStep

\* The second request alone fills in forms.
FormsOfOne == worker'[1].step \notin {"edit", "account"}

\* Nobody claims a staff profile; an account ages where no code is at work too.
ClaimSteps ==
    /\ written = {} /\ strays = {}
    /\ Claims!CodeStep \/ Claims!SweepOrphans \/ Claims!Age(u1) \/ Claims!Drop(1)
    /\ FormsOfOne
    /\ \A w \in {1, 2} : worker'[w].step = "claim" => worker'[w].kind # "staff"
\* Forms, and what follows one, are looked at with one worker.
RequestSteps ==
    /\ strays = {} /\ Cardinality(written) < 2
    /\ \/ Requested!RequestStep \/ Requested!Drop(1)
       \/ part # "sweeps" /\ Requested!CodeStep /\ worker'[2] = worker[2]
       \/ part = "sweeps" /\ (Requested!SweepOrphans \/ Requested!Age(u1))
    /\ profile'["s2"].state # "free" => profile["s1"].state # "free"
    /\ application'["q2"].status # "none" => application["q1"].status # "none"
    /\ \A w \in {1, 2} : worker'[w].step = "claim" => worker'[w].kind # "staff"
    /\ IF part = "forms" THEN worker'[2] = Requested!Idle /\ application'["q2"].status = "none"
       ELSE written' = {} /\ worker'[1].step # "account" /\ (worker'[1].step = "edit" => worker'[1].row = worker'[1].was)
\* One moderates a batch, the other more.  A form is not filled in while the
\* other request works; a row saved as it was read is.
MoveSteps ==
    /\ written = {} /\ hasty = {}
    /\ Moves!MoveStep \/ Moves!ProfileStep
    /\ \A m \in moderators' : IF m.user = u1 THEN m.scope = "batch" ELSE m.scope # "batch" /\ m.term = "running"
    /\ FormsOfOne /\ worker'[1].step # "assign"
    /\ worker'[2].step \in {"edit", "account"} /\ worker'[2].row # worker'[2].was => worker'[1] = Moves!Idle

-----------------------------------------------------------------------------
MCInit ==
    /\ part \in Parts
    /\ Init
    /\ IF part = "coupons" THEN Checkout!Init
       ELSE /\ usedCount = None /\ active = None /\ checkout = None /\ couponOf = None /\ status = None
            /\ reserved = None /\ subs = None /\ subRefunded = None /\ journals = None /\ invoice = None
            /\ refundRow = None /\ age = None /\ gateway = None /\ payJob = None /\ couponEdit = None
            /\ retaken = None
    /\ IF part \in {"coins", "invites"}
       THEN Coins!Applied([u \in {u1, u2} |-> IF part = "coins" /\ u = u2 THEN u1 ELSE None])
       ELSE /\ reward = None /\ log = None /\ earnedToday = None /\ referral = None /\ code = None
            /\ shown = None /\ visit = None /\ overwritten = None /\ unlogged = None /\ crossed = None
            /\ resaved = None
    /\ IF part \in {"caps", "perks"} THEN Features!Init
       ELSE /\ today = None /\ home = None /\ pro = None /\ plan = None
            /\ used = None /\ grant = None /\ metered = None /\ peak = None
    /\ CASE part = "sessions" -> Login!Init
         [] part = "resets" -> Forgotten!Init
         [] part = "devices" -> Installs!Init /\ account[u1].exists /\ account[u2].exists
         [] OTHER -> /\ time = None /\ account = None /\ access = None /\ refresh = None /\ resets = None
                     /\ request = None /\ endings = None /\ raced = None /\ reverted = None
    /\ IF part = "devices" THEN Installs!DevicesInit /\ placed[u2] = PlacedIn(None)
       ELSE /\ device = None /\ fcm = None /\ mute = None /\ placed = None /\ installed = None
            /\ task = None /\ spoiled = None /\ moved = None /\ present = None
    /\ CASE part = "claims" -> Claims!ProfileInit
         [] part \in {"requests", "forms", "sweeps"} -> Requested!ProfileInit
         [] part = "moves" -> Moves!EnrolmentInit
         [] OTHER -> /\ person = None /\ profile = None /\ application = None /\ worker = None
                     /\ written = None /\ doubled = None /\ strays = None
    /\ IF part = "moves" THEN Moves!EnrolmentInit
       ELSE enrollment = None /\ moderators = None /\ drawn = None /\ hasty = None

inAccess(A) == A /\ UNCHANGED <<couponVars, rewardVars, featureVars, accountVars, tokenVars, personVars, placeVars>>
inCoupons(A) == A /\ UNCHANGED <<vars, rewardVars, featureVars, accountVars, tokenVars, personVars, placeVars>>
inRewards(A) == A /\ UNCHANGED <<vars, couponVars, featureVars, accountVars, tokenVars, personVars, placeVars>>
inFeatures(A) == A /\ UNCHANGED <<vars, couponVars, rewardVars, accountVars, tokenVars, personVars, placeVars>>
inAccount(A) == A /\ UNCHANGED <<vars, couponVars, rewardVars, featureVars, tokenVars, personVars, placeVars>>
inDevices(A) == A /\ UNCHANGED <<vars, couponVars, rewardVars, featureVars, personVars, placeVars>>
inProfiles(A) == A /\ UNCHANGED <<vars, couponVars, rewardVars, featureVars, accountVars, tokenVars>>

MCNext ==
    /\ UNCHANGED part
    /\ CASE part = "refunding" -> inAccess(RefundSteps)
         [] part = "editing" -> inAccess(EditSteps)
         [] part = "coupons" -> inCoupons(Checkout!Next)
         [] part = "coins" -> inRewards(CoinSteps)
         [] part = "invites" -> inRewards(InviteSteps)
         [] part = "caps" -> inFeatures(Features!FeatureStep \/ Features!NextDay)
         [] part = "perks" -> inFeatures(Features!GrantStep \/ Features!NextDay)
         [] part = "sessions" -> inAccount(SessionSteps)
         [] part = "resets" -> inAccount(ResetSteps)
         [] part = "devices" -> inDevices(DeviceSteps)
         [] part = "claims" -> inProfiles(ClaimSteps /\ UNCHANGED placeVars)
         [] part \in {"requests", "forms", "sweeps"} -> inProfiles(RequestSteps /\ UNCHANGED placeVars)
         [] part = "moves" -> inProfiles(MoveSteps)

all == <<part, vars, couponVars, rewardVars, featureVars, accountVars, tokenVars, personVars, placeVars>>
MCSpec == MCInit /\ [][MCNext]_all

\* Devices as they are, for a violation.
DeviceSpec == part = "devices" /\ MCInit /\ [][UNCHANGED part /\ inDevices(Installs!DevicesNext)]_all

-----------------------------------------------------------------------------
(* AccessFollowsRows, where the rows are those of grants and refunds          *)
(* (recomputePro, grantSubscription, ExpireSubscriptions).                    *)
FollowsRows == part = "refunding" => AccessFollowsRows

(* RenewalsStack, where no admin sets a date (docs/BILLING.md:15).            *)
Stacks == part = "refunding" => RenewalsStack

(* NoGiftedDays, where no admin gives any (payment_service.go:449).           *)
NoGifts == part = "refunding" => NoGiftedDays

(* NewestRowDecides, where no refund takes access away (AdminSetExpiry).      *)
NewestDecides == part = "editing" => NewestRowDecides

(* SubscriptionPayments!CounterWithinCap, with an admin who saves a coupon    *)
(* row loaded before its use was reserved, given back or taken again.         *)
CounterWithinCap == part = "coupons" => Checkout!CounterWithinCap

(* What Rewards promises: the coins add up, referrals are paid once, and      *)
(* codes are of one user each (reward_handler.go, referral.go).               *)
RewardsAddUp ==
    part \in {"coins", "invites"} =>
        Coins!TypeOK /\ Coins!BalanceIsLogged /\ Coins!ReferralsPaidOnce /\ Coins!InvitesAgree

(* What Entitlements promises: no use past the cap, and the perks of all the  *)
(* grants that cover a user (entitlement_service.go, access_grant.go).        *)
FeaturesAreMetered ==
    part \in {"caps", "perks"} => Features!TypeOK /\ Features!CapHolds /\ Features!PerksAreMerged

(* What Sessions promises: ended sessions stay out, and a reset code and its  *)
(* token are used once (auth_handler.go, password_reset_handler.go).          *)
LoginsAreSafe ==
    /\ part = "sessions" => Login!TypeOK /\ Login!EndedSessionsStayOut
    /\ part = "resets" => Forgotten!TypeOK /\ Forgotten!ResetsAreSingleUse

(* What Devices promises: the topics of an install are those of its owner     *)
(* (device_topic_service.go).                                                 *)
TopicsFollowOwner ==
    part = "devices" => Installs!TypeOK /\ Installs!DevicesTypeOK /\ Installs!TopicsFollowOwner

(* What StudentProfiles and Enrolment promise: profiles, accounts, requests   *)
(* and codes agree, and so do the history of a student, the role and the      *)
(* moderators (profile_claim.go, enrollment_handler.go, authz/moderator.go).  *)
PeopleAgree ==
    /\ part = "claims" => Claims!ProfileTypeOK /\ Claims!ProfilesAgree
    /\ part \in {"requests", "forms", "sweeps"} => Requested!ProfileTypeOK /\ Requested!ProfilesAgree
    /\ part = "moves" => Moves!ProfileTypeOK /\ Moves!EnrolmentTypeOK /\ Moves!EnrolmentsAgree

(* Devices!RegisteredIsReached (device_handler.go:95): a user who registered  *)
(* a device and did not log out of it since is found by the next notification.*)
RegisteredIsReached == Installs!RegisteredIsReached
=============================================================================
