--------------------------- MODULE StudentProfiles ---------------------------
(***************************************************************************)
(* Profiles of students, teachers and staff, and how an account comes to   *)
(* own one (student_verification_handler.go, profile_claim.go,             *)
(* student_handler.go): by a code, or by a request with two documents that *)
(* somebody approves.                                                      *)
(*                                                                         *)
(* A transaction that locks what it read is one step.  Approve is two: the *)
(* profile it did not find is not locked.  So are the handlers that load a *)
(* row and save every column of it, and those that check first and write   *)
(* later.                                                                  *)
(***************************************************************************)
EXTENDS Naturals, FiniteSets

CONSTANTS
    Users, Profiles, Applications, Codes, Batches, Rolls,
    Workers,       \* request goroutines
    KindOf,        \* "student", "teacher" or "staff", of a profile
    DepartmentOf,  \* of a batch
    Rows,          \* rows of a profile as an admin's form may leave them
    Accounts,      \* rows of an account as an admin's form may leave them
    None           \* no owner, no code, no linked profile

VARIABLES
    user,          \* users: is there, created long ago, is_verified, role, department_id
    profile,       \* rows of students, teachers and staffs
    application,   \* student_verification_requests
    worker,        \* requests in progress
    overwritten,   \* history: profiles and users saved over a row nobody had read, or rewritten by a form
    doubled,       \* history: places where a second student was entered unseen
    strays         \* history: profiles given to an account swept meanwhile

profileVars == <<user, profile, application, worker, overwritten, doubled, strays>>

Idle == [step |-> "idle"]
NoApplication == [status |-> "none"]
Place == Batches \X Rolls
Kinds == {"student", "teacher", "staff"}
Account == [live : BOOLEAN, old : BOOLEAN, verified : BOOLEAN, role : Kinds, department : {DepartmentOf[b] : b \in Batches} \cup {None}]
Row == [state : {"free", "live", "trashed"}, owner : Users \cup {None}, claimed : BOOLEAN,
        code : Codes \cup {None}, place : Place]
Application == [status : {"pending", "approved", "rejected"}, user : Users, place : Place,
                escalated : BOOLEAN, linked : Profiles \cup {None}]

ProfileTypeOK ==
    /\ user \in [Users -> Account]
    /\ profile \in [Profiles -> Row]
    /\ \A q \in Applications : application[q] = NoApplication \/ application[q] \in Application
    /\ DOMAIN worker = Workers
    /\ overwritten \subseteq Profiles \cup Users /\ doubled \subseteq Place /\ strays \subseteq Profiles

FreeRow == [state |-> "free", owner |-> None, claimed |-> FALSE, code |-> None,
            place |-> CHOOSE p \in Place : TRUE]

ProfileInit ==
    /\ user = [u \in Users |-> [live |-> TRUE, old |-> FALSE, verified |-> FALSE, role |-> "student", department |-> None]]
    /\ profile = [s \in Profiles |-> FreeRow]
    /\ application = [q \in Applications |-> NoApplication]
    /\ worker = [w \in Workers |-> Idle]
    /\ overwritten = {} /\ doubled = {} /\ strays = {}

Live(s) == profile[s].state = "live"
Pending == {q \in Applications : application[q].status = "pending"}
Unclaimed == {s \in Profiles : Live(s) /\ ~profile[s].claimed}

\* Rows a transaction in progress holds locked.
Approving == {worker[w].application : w \in {v \in Workers : worker[v].step = "approve"}}
Locked == {worker[w].match : w \in {v \in Workers : worker[v].step = "approve"}}

\* The profiles of a kind linked to an account; the unique index of user_id
\* counts those in the trash too.
Linked(u, kind) == {s \in Profiles : Live(s) /\ KindOf[s] = kind /\ profile[s].owner = u}
Indexed(u, kind) == {s \in Profiles : KindOf[s] = kind /\ profile[s].owner = u}

\* Students in a place: batch and roll.
InPlace(place) == {s \in Profiles : Live(s) /\ KindOf[s] = "student" /\ profile[s].place = place}

Give(s, u) == [profile[s] EXCEPT !.owner = u, !.claimed = TRUE, !.code = None]
\* users.is_verified, role and department, of an account that is still there.
Verified(u, kind, place) ==
    IF user[u].live
    THEN [user EXCEPT ![u] = [@ EXCEPT !.verified = TRUE, !.role = kind, !.department = DepartmentOf[place[1]]]]
    ELSE user

-----------------------------------------------------------------------------
(* Codes *)

\* A profile as it is entered to be claimed.
Entered(code, place) == [FreeRow EXCEPT !.state = "live", !.code = code, !.place = place]

\* Create, of a student, a teacher or a member of staff, binds every column;
\* the code is that of the form, or one drawn without a look at the others.
CreateProfile(s, row) ==
    /\ profile[s].state = "free" /\ row.code # None
    /\ row.owner = None \/ Indexed(row.owner, KindOf[s]) = {}
    /\ profile' = [profile EXCEPT ![s] = row]
    /\ overwritten' = IF row.owner = None /\ ~row.claimed THEN overwritten ELSE overwritten \cup {s}
    /\ doubled' = IF KindOf[s] = "student" /\ InPlace(row.place) # {} THEN doubled \cup {row.place} ELSE doubled
    /\ UNCHANGED <<user, application, worker, strays>>

\* What up to five draws end with: a code no other unclaimed profile has.
Drawn(s) ==
    LET unused == Codes \ {profile[t].code : t \in Unclaimed \ {s}}
    IN  IF unused = {} THEN Codes ELSE unused

StartGenerate(w, s) ==
    /\ worker[w] = Idle
    /\ s \in Unclaimed /\ KindOf[s] = "student"
    /\ \E code \in Drawn(s) :
          worker' = [worker EXCEPT ![w] = [step |-> "generate", profile |-> s, was |-> profile[s],
                                           row |-> [profile[s] EXCEPT !.code = code]]]
    /\ UNCHANGED <<user, profile, application, overwritten, doubled, strays>>

\* An admin's edit binds every column, the owner, the claim, the code, the
\* place and deleted_at included; UpdateMyStudent and UpdateMyAddress load and
\* save the row with none of these changed.
StartEdit(w, s, row) ==
    /\ worker[w] = Idle
    /\ Live(s)
    /\ worker' = [worker EXCEPT ![w] = [step |-> "edit", profile |-> s, was |-> profile[s], row |-> row]]
    /\ UNCHANGED <<user, profile, application, overwritten, doubled, strays>>

\* The row both of them save, whatever was committed since, but for the index:
\* no second profile for an account.
Saved(r) == r.row

SaveRow(w) ==
    /\ worker[w].step \in {"generate", "edit"}
    /\ LET r == worker[w]
       IN  /\ r.profile \notin Locked
           /\ Saved(r).owner = None \/ Indexed(Saved(r).owner, KindOf[r.profile]) \subseteq {r.profile}
           /\ profile' = [profile EXCEPT ![r.profile] = Saved(r)]
           /\ overwritten' = IF profile[r.profile] = r.was /\ (r.step = "generate" \/ r.row = r.was)
                             THEN overwritten ELSE overwritten \cup {r.profile}
    /\ worker' = [worker EXCEPT ![w] = Idle]
    /\ UNCHANGED <<user, application, doubled, strays>>

\* So does an admin's edit of an account: is_verified, the role, the
\* department and deleted_at.  (To delete an account is to set the last.)
\* UpdateMyUser and AdminResetPassword change none of these.
StartEditUser(w, u, row) ==
    /\ worker[w] = Idle
    /\ user[u].live
    /\ worker' = [worker EXCEPT ![w] = [step |-> "account", user |-> u, was |-> user[u], row |-> row]]
    /\ UNCHANGED <<user, profile, application, overwritten, doubled, strays>>

\* The whole row is saved, one that was swept meanwhile brought back; it has
\* grown no younger.
SaveUser(w) ==
    /\ worker[w].step = "account"
    /\ LET r == worker[w]
           u == r.user
       IN  /\ user' = [user EXCEPT ![u] = [r.row EXCEPT !.old = user[u].old]]
           /\ overwritten' = IF [user[u] EXCEPT !.old = r.was.old] = r.was /\ r.row = r.was
                             THEN overwritten ELSE overwritten \cup {u}
    /\ worker' = [worker EXCEPT ![w] = Idle]
    /\ UNCHANGED <<profile, application, doubled, strays>>

\* New codes for every unclaimed student, all different and none of the old.
RotateUnclaimedCodes ==
    LET S == {s \in Unclaimed : KindOf[s] = "student" /\ profile[s].owner = None}
        fresh == Codes \ {profile[s].code : s \in S}
    IN  /\ S # {} /\ S \cap Locked = {}
        /\ \E f \in [S -> fresh] :
              /\ \A s, t \in S : f[s] = f[t] => s = t
              /\ profile' = [s \in Profiles |-> IF s \in S THEN [profile[s] EXCEPT !.code = f[s]] ELSE profile[s]]
        /\ UNCHANGED <<user, application, worker, overwritten, doubled, strays>>

\* What VerifyCode shows for a code, and ClaimProfile takes.
Claimable(code, kind) == {s \in Unclaimed : KindOf[s] = kind /\ profile[s].code = code}

\* A signed-in account sends a code.
StartClaim(w, u, code, kind) ==
    /\ worker[w] = Idle /\ user[u].live
    /\ worker' = [worker EXCEPT ![w] = [step |-> "claim", user |-> u, code |-> code, kind |-> kind]]
    /\ UNCHANGED <<user, profile, application, overwritten, doubled, strays>>

\* claimProfile: the account may have been swept since; its row is updated
\* only if it is there.
claimProfile(w, kind) ==
    /\ worker[w].step = "claim" /\ worker[w].kind = kind
    /\ LET u == worker[w].user
       IN  /\ Indexed(u, kind) = {}
           /\ \E s \in Claimable(worker[w].code, kind) \ Locked :
                 /\ profile' = [profile EXCEPT ![s] = Give(s, u)]
                 /\ strays' = IF user[u].live THEN strays ELSE strays \cup {s}
                 /\ user' = Verified(u, kind, profile[s].place)
    /\ worker' = [worker EXCEPT ![w] = Idle]
    /\ UNCHANGED <<application, overwritten, doubled>>

ClaimStudent(w) == claimProfile(w, "student")
ClaimTeacher(w) == claimProfile(w, "teacher")
ClaimStaff(w) == claimProfile(w, "staff")

\* The trash keeps the owner of a profile, and its place in the index.
DeleteProfile(s) ==
    /\ Live(s) /\ s \notin Locked
    /\ profile' = [profile EXCEPT ![s].state = "trashed"]
    /\ UNCHANGED <<user, application, worker, overwritten, doubled, strays>>

RestoreProfile(s) ==
    /\ profile[s].state = "trashed"
    /\ profile' = [profile EXCEPT ![s].state = "live"]
    /\ doubled' = IF KindOf[s] = "student" /\ InPlace(profile[s].place) # {} THEN doubled \cup {profile[s].place} ELSE doubled
    /\ UNCHANGED <<user, application, worker, overwritten, strays>>

-----------------------------------------------------------------------------
(* Requests with documents *)

StartSubmit(w, u, place) ==
    /\ worker[w] = Idle /\ user[u].live
    /\ Linked(u, "student") = {}
    /\ \A q \in Pending : application[q].user # u
    /\ worker' = [worker EXCEPT ![w] = [step |-> "submit", user |-> u, place |-> place]]
    /\ UNCHANGED <<user, profile, application, overwritten, doubled, strays>>

Submit(w, q) ==
    /\ worker[w].step = "submit" /\ application[q] = NoApplication
    /\ application' = [application EXCEPT ![q] = [status |-> "pending", user |-> worker[w].user,
                          place |-> worker[w].place, escalated |-> FALSE, linked |-> None]]
    /\ worker' = [worker EXCEPT ![w] = Idle]
    /\ UNCHANGED <<user, profile, overwritten, doubled, strays>>

\* Mutant: a claimed profile is taken for a free one.
AnyProfile(s) == TRUE
Available(s) == profile[s].owner = None

\* Refused: the account or the roll has a profile or an owner already.
Conflict(q) ==
    \/ Linked(application[q].user, "student") # {}
    \/ \E s \in InPlace(application[q].place) : profile[s].owner # None

\* Approve has locked the request and the profile of its roll, if there is one.
StartApprove(w, q) ==
    /\ worker[w] = Idle
    /\ q \in Pending \ Approving
    /\ user[application[q].user].live
    /\ Linked(application[q].user, "student") = {}
    /\ LET S == InPlace(application[q].place)
       IN  \E s \in IF S = {} THEN {None} ELSE S \ Locked :
              /\ s # None => Available(s)
              /\ worker' = [worker EXCEPT ![w] = [step |-> "approve", application |-> q, match |-> s]]
    /\ UNCHANGED <<user, profile, application, overwritten, doubled, strays>>

\* The index of user_id refuses a second profile of the account.
Approve(w) ==
    /\ worker[w].step = "approve"
    /\ LET q == worker[w].application
           a == application[q]
           free == {s \in Profiles : profile[s].state = "free" /\ KindOf[s] = "student"}
       IN  /\ Indexed(a.user, "student") = {}
           /\ \E s \in IF worker[w].match = None THEN free ELSE {worker[w].match} :
                 /\ profile' = [profile EXCEPT ![s] = [Give(s, a.user) EXCEPT !.state = "live", !.place =
                                    IF worker[w].match = None THEN a.place ELSE profile[s].place]]
                 /\ application' = [application EXCEPT ![q] =
                       [a EXCEPT !.status = "approved", !.escalated = FALSE, !.linked = s]]
                 /\ strays' = IF user[a.user].live THEN strays ELSE strays \cup {s}
           /\ user' = Verified(a.user, "student", a.place)
           /\ doubled' = IF worker[w].match = None /\ InPlace(a.place) # {} THEN doubled \cup {a.place} ELSE doubled
    /\ worker' = [worker EXCEPT ![w] = Idle]
    /\ UNCHANGED overwritten

\* A moderator whose approval met a conflict sends the request to the admins.
Escalate(q) ==
    /\ q \in Pending \ Approving /\ Conflict(q) /\ ~application[q].escalated
    /\ application' = [application EXCEPT ![q].escalated = TRUE]
    /\ UNCHANGED <<user, profile, worker, overwritten, doubled, strays>>

Reject(q) ==
    /\ q \in Pending \ Approving
    /\ application' = [application EXCEPT ![q] = [@ EXCEPT !.status = "rejected", !.escalated = FALSE]]
    /\ UNCHANGED <<user, profile, worker, overwritten, doubled, strays>>

\* What a reviewer is shown next to a request.
Match(q) ==
    LET a == application[q]
        S == InPlace(a.place)
        s == CHOOSE t \in S : TRUE
    IN  IF S = {} THEN "none"
        ELSE IF a.linked = s THEN "linked"
        ELSE IF profile[s].owner \notin {None, a.user} THEN "conflict" ELSE "unclaimed"

OtherPendingCount(q) == Cardinality({r \in Pending \ {q} : application[r].place = application[q].place})

-----------------------------------------------------------------------------
Age(u) ==
    /\ user[u].live /\ ~user[u].old
    /\ user' = [user EXCEPT ![u].old = TRUE]
    /\ UNCHANGED <<profile, application, worker, overwritten, doubled, strays>>

\* The orphan sweep: old sign-ups never verified, placed or asked for.
SweepOrphans ==
    LET orphans == {u \in Users : /\ user[u].live /\ user[u].old /\ user[u].role = "student"
                                  /\ ~user[u].verified /\ user[u].department = None
                                  /\ \A q \in Applications : application[q] = NoApplication \/ application[q].user # u}
    IN  /\ orphans # {}
        /\ user' = [u \in Users |-> [user[u] EXCEPT !.live = @ /\ u \notin orphans]]
        /\ UNCHANGED <<profile, application, worker, overwritten, doubled, strays>>

\* A request is refused, fails or its instance stops.
Drop(w) ==
    /\ worker[w] # Idle
    /\ worker' = [worker EXCEPT ![w] = Idle]
    /\ UNCHANGED <<user, profile, application, overwritten, doubled, strays>>

CodeStep ==
    \/ \E s \in Profiles, row \in Rows \cup {Entered(c, p) : c \in Codes, p \in Place} : CreateProfile(s, row)
    \/ \E w \in Workers, s \in Profiles : StartGenerate(w, s) \/ \E row \in Rows \cup {profile[s]} : StartEdit(w, s, row)
    \/ \E w \in Workers, u \in Users : \E row \in Accounts \cup {user[u]} : StartEditUser(w, u, row)
    \/ RotateUnclaimedCodes
    \/ \E w \in Workers, u \in Users, code \in Codes, kind \in Kinds : StartClaim(w, u, code, kind)
    \/ \E w \in Workers : SaveRow(w) \/ SaveUser(w) \/ ClaimStudent(w) \/ ClaimTeacher(w) \/ ClaimStaff(w)
    \/ \E s \in Profiles : DeleteProfile(s) \/ RestoreProfile(s)

RequestStep ==
    \/ \E w \in Workers, u \in Users, p \in Place : StartSubmit(w, u, p)
    \/ \E w \in Workers, q \in Applications : Submit(w, q) \/ StartApprove(w, q)
    \/ \E w \in Workers : Approve(w)
    \/ \E q \in Applications : Escalate(q) \/ Reject(q)

ProfileNext ==
    \/ CodeStep \/ RequestStep \/ SweepOrphans
    \/ \E u \in Users : Age(u)
    \/ \E w \in Workers : Drop(w)

ProfileSpec == ProfileInit /\ [][ProfileNext]_profileVars

-----------------------------------------------------------------------------
(* Properties *)

(* One account for one profile (profile_claim.go:66, Approve), however        *)
(* claims, approvals, changes of code, edits and the sweep overlap. No        *)
(* account owns two profiles of a kind, whatever a form says.  A profile that *)
(* was not saved over a newer row nor rewritten by a form is claimed exactly  *)
(* when it has an owner, and then has no code; its owner, unless that account *)
(* was so saved or swept meanwhile, is there and verified; an approved        *)
(* request that names it is of its owner; and it shares its place with        *)
(* another such student only where one was entered unseen. A verified account *)
(* that was not so saved is there.  While no row was so saved, every verified *)
(* account owns a profile of its role and a reviewer is warned of every       *)
(* conflict an approval would meet.                                           *)
ProfilesAgree ==
    /\ \A s, t \in Profiles : profile[s].owner # None /\ profile[t].owner = profile[s].owner /\ KindOf[s] = KindOf[t] => s = t
    /\ \A s \in Profiles \ overwritten :
        /\ profile[s].claimed <=> profile[s].owner # None
        /\ profile[s].claimed => profile[s].code = None
        /\ profile[s].owner \notin overwritten \cup {None} /\ s \notin strays =>
              user[profile[s].owner].live /\ user[profile[s].owner].verified
    /\ \A q \in Applications : application[q].status = "approved" =>
        application[q].linked \in overwritten \/ profile[application[q].linked].owner = application[q].user
    /\ \A u \in Users \ overwritten : user[u].verified => user[u].live /\ (Indexed(u, user[u].role) # {} \/ overwritten # {})
    /\ \A p \in Place \ doubled : Cardinality(InPlace(p) \ overwritten) <= 1
    /\ \A q \in Pending : application[q].place \notin doubled /\ overwritten = {} =>
        (Conflict(q) <=> Match(q) = "conflict" \/ Linked(application[q].user, "student") # {})
=============================================================================
