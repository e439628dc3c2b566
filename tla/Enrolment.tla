------------------------------ MODULE Enrolment ------------------------------
(***************************************************************************)
(* Students who move between batches, and the moderators of a batch, a     *)
(* department or the university (enrollment_handler.go, authz/moderator.go,*)
(* moderator_admin_handler.go, moderation_handler.go).                     *)
(*                                                                         *)
(* Promote and Revert read the student without a lock and write later.     *)
(* There is one university; an assignment that was revoked is gone.        *)
(***************************************************************************)
EXTENDS StudentProfiles, Sequences

CONSTANTS
    University,
    MaxMoves,      \* bound: enrollments of a student
    CodesPerHour   \* code changes a moderator may make within an hour

VARIABLES
    enrollment,    \* earlier places of a student, oldest first
    moderators,    \* active rows of moderators
    drawn,         \* codes a moderator changed within the hour
    raced          \* history: students whose move or role was decided on an old reading

enrolmentVars == <<profileVars, enrollment, moderators, drawn, raced>>

Scopes == {"batch", "department", "university"}
ScopeIds == Batches \cup {DepartmentOf[b] : b \in Batches} \cup {University}
Moderator == [user : Users, scope : Scopes, id : ScopeIds, term : {"coming", "running", "over"}]

EnrolmentTypeOK ==
    /\ enrollment \in [Profiles -> Seq(Place)]
    /\ moderators \subseteq Moderator
    /\ drawn \in [Users -> 0..CodesPerHour]
    /\ raced \subseteq Profiles

EnrolmentInit ==
    /\ ProfileInit
    /\ enrollment = [s \in Profiles |-> <<>>]
    /\ moderators = {}
    /\ drawn = [u \in Users |-> 0]
    /\ raced = {}

othersUnchanged == UNCHANGED <<application, overwritten, doubled, strays, drawn>>

-----------------------------------------------------------------------------
(* Authorisation *)

permissions(scope) ==
    {"codes.view", "codes.regenerate", "verifications.review", "class_notices.manage", "class_slots.manage", "resources.edit"}
        \cup IF scope = "batch" THEN {} ELSE {"resources.review"}

ActiveModerator(m) == m.term = "running"

Target(batch) == [batch |-> batch, department |-> DepartmentOf[batch], university |-> University]
\* A resource is of a department and of no batch.
ResourceTarget(department) == [batch |-> None, department |-> department, university |-> University]

Covers(m, target) == target[m.scope] # None /\ m.id = target[m.scope]

Can(u, permission, target) ==
    \E m \in moderators : m.user = u /\ ActiveModerator(m) /\ Covers(m, target) /\ permission \in permissions(m.scope)

\* The assignments the lists of a moderator are built from: those that allow
\* the permission in their own scope.
authorizedScopes(u, permission) ==
    {m \in moderators : m.user = u /\ ActiveModerator(m) /\
        LET b == CHOOSE c \in Batches : m.id \in {c, DepartmentOf[c], University}
        IN  Can(u, permission, CASE m.scope = "batch" -> Target(m.id)
                                 [] m.scope = "department" -> ResourceTarget(m.id)
                                 [] m.scope = "university" -> [ResourceTarget(DepartmentOf[b]) EXCEPT !.department = None])}

\* Students and Verifications, and Resources, which filter by no batch.
addScopeOr(u, permission, target) == \E m \in authorizedScopes(u, permission) : Covers(m, target)
applyResourceScopeFilter(u, target) ==
    \E m \in authorizedScopes(u, "resources.review") : m.scope # "batch" /\ Covers(m, target)

\* NotifyModerators: those of the nearest scope that has any.
Notified(batch) ==
    LET of(scope) == {m.user : m \in {n \in moderators : n.scope = scope /\ ActiveModerator(n) /\ Covers(n, Target(batch))}}
    IN  IF of("batch") # {} THEN of("batch")
        ELSE IF of("department") # {} THEN of("department") ELSE of("university")

\* A moderator reviews another's request, and draws a code: only so many an hour.
ReviewByModerator(w, u, q) ==
    /\ q \in Pending /\ user[u].live /\ application[q].user # u
    /\ Can(u, "verifications.review", Target(application[q].place[1]))
    /\ StartApprove(w, q) \/ Escalate(q) \/ Reject(q)
    /\ UNCHANGED <<enrollment, moderators, drawn, raced>>

GenerateByModerator(w, u, s) ==
    /\ user[u].live /\ Live(s)
    /\ Can(u, "codes.regenerate", Target(profile[s].place[1]))
    /\ drawn[u] < CodesPerHour
    /\ StartGenerate(w, s)
    /\ drawn' = [drawn EXCEPT ![u] = @ + 1]
    /\ UNCHANGED <<enrollment, moderators, raced>>

OldestExpires(u) ==
    /\ drawn[u] > 0
    /\ drawn' = [drawn EXCEPT ![u] = @ - 1]
    /\ UNCHANGED <<profileVars, enrollment, moderators, raced>>

-----------------------------------------------------------------------------
(* Assignments *)

\* Create has read the student; the scope is that of the batch read.
StartAssign(w, u, scope) ==
    /\ worker[w] = Idle /\ user[u].live /\ user[u].role = "student"
    /\ \E s \in Linked(u, "student") :
          /\ profile[s].claimed
          /\ worker' = [worker EXCEPT ![w] = [step |-> "assign", user |-> u, profile |-> s, scope |-> scope,
                                              id |-> Target(profile[s].place[1])[scope]]]
    /\ UNCHANGED <<user, profile, enrollment, moderators, raced>> /\ othersUnchanged

Assign(w, term) ==
    /\ worker[w].step = "assign"
    /\ LET r == worker[w]
       IN  /\ ~\E m \in moderators : m.user = r.user /\ m.scope = r.scope /\ m.id = r.id
           /\ moderators' = moderators \cup {[user |-> r.user, scope |-> r.scope, id |-> r.id, term |-> term]}
           /\ raced' = IF r.scope = "batch" /\ profile[r.profile].place[1] # r.id THEN raced \cup {r.profile} ELSE raced
    /\ worker' = [worker EXCEPT ![w] = Idle]
    /\ UNCHANGED <<user, profile, enrollment>> /\ othersUnchanged

\* Update moves the term; time does too.
UpdateTerm(m, term) ==
    /\ m \in moderators /\ m.term # term
    /\ [m EXCEPT !.term = term] \notin moderators
    /\ moderators' = (moderators \ {m}) \cup {[m EXCEPT !.term = term]}
    /\ UNCHANGED <<user, profile, worker, enrollment, raced>> /\ othersUnchanged

Revoke(m) ==
    /\ m \in moderators
    /\ moderators' = moderators \ {m}
    /\ UNCHANGED <<user, profile, worker, enrollment, raced>> /\ othersUnchanged

-----------------------------------------------------------------------------
(* Promotion *)

StartPromote(w, s, batch) ==
    /\ worker[w] = Idle
    /\ Live(s) /\ KindOf[s] = "student" /\ profile[s].place[1] # batch
    /\ worker' = [worker EXCEPT ![w] = [step |-> "promote", profile |-> s, batch |-> batch, was |-> profile[s]]]
    /\ UNCHANGED <<user, profile, enrollment, moderators, raced>> /\ othersUnchanged

\* Mutant: the moderator of the old batch stays.
KeepModerators(u, batch) == moderators
\* A moderator of the old batch no longer belongs to it.
Without(u, batch) == {m \in moderators : ~(m.user = u /\ m.scope = "batch" /\ m.id = batch)}

\* Where the account is when its student goes from one batch to another.
Moved(u, from, to) ==
    IF u # None /\ DepartmentOf[from] # DepartmentOf[to] /\ user[u].live
    THEN [user EXCEPT ![u].department = DepartmentOf[to]] ELSE user

Promote(w, roll) ==
    /\ worker[w].step = "promote"
    /\ LET s == worker[w].profile
           was == worker[w].was
           to == worker[w].batch
       IN  /\ Len(enrollment[s]) < MaxMoves
           /\ s \notin Locked
           /\ enrollment' = [enrollment EXCEPT ![s] = Append(@, was.place)]
           /\ profile' = IF Live(s) THEN [profile EXCEPT ![s].place = <<to, roll>>] ELSE profile
           /\ user' = Moved(was.owner, was.place[1], to)
           /\ moderators' = IF was.owner = None THEN moderators ELSE Without(was.owner, was.place[1])
           /\ raced' = IF profile[s] = was THEN raced ELSE raced \cup {s}
    /\ worker' = [worker EXCEPT ![w] = Idle]
    /\ othersUnchanged

\* Revert has read the latest enrollment.
StartRevert(w, s) ==
    /\ worker[w] = Idle
    /\ Live(s) /\ enrollment[s] # <<>>
    /\ worker' = [worker EXCEPT ![w] = [step |-> "revert", profile |-> s, was |-> profile[s], latest |-> enrollment[s]]]
    /\ UNCHANGED <<user, profile, enrollment, moderators, raced>> /\ othersUnchanged

\* A role in the batch that is left is not revoked, nor the old one restored.
Revert(w) ==
    /\ worker[w].step = "revert"
    /\ LET s == worker[w].profile
           r == worker[w]
           back == r.latest[Len(r.latest)]
           n == Len(r.latest)
       IN  /\ Live(s) /\ s \notin Locked
           /\ profile' = [profile EXCEPT ![s].place = back]
           /\ user' = Moved(profile[s].owner, profile[s].place[1], back[1])
           /\ enrollment' = [enrollment EXCEPT ![s] =
                                IF Len(@) >= n /\ @[n] = back THEN SubSeq(@, 1, n - 1) \o SubSeq(@, n + 1, Len(@)) ELSE @]
           /\ raced' = IF (profile[s] = r.was /\ enrollment[s] = r.latest)
                          /\ ~\E m \in moderators : m.user = profile[s].owner /\ m.scope = "batch"
                       THEN raced ELSE raced \cup {s}
    /\ worker' = [worker EXCEPT ![w] = Idle]
    /\ UNCHANGED moderators /\ othersUnchanged

-----------------------------------------------------------------------------
MoveStep ==
    \/ \E w \in Workers, s \in Profiles : StartRevert(w, s) \/ \E b \in Batches : StartPromote(w, s, b)
    \/ \E w \in Workers, r \in Rolls : Promote(w, r)
    \/ \E w \in Workers : Revert(w)
    \/ \E w \in Workers, u \in Users, scope \in Scopes : StartAssign(w, u, scope)
    \/ \E w \in Workers, term \in {"coming", "running", "over"} : Assign(w, term)
    \/ \E m \in moderators : Revoke(m) \/ \E term \in {"coming", "running", "over"} : UpdateTerm(m, term)
    \/ \E w \in Workers, u \in Users, q \in Applications : ReviewByModerator(w, u, q)
    \/ \E w \in Workers, u \in Users, s \in Profiles : GenerateByModerator(w, u, s)
    \/ \E u \in Users : OldestExpires(u)

\* The steps of the profiles that are not reviews.
ProfileStep ==
    /\ \/ \E w \in Workers : Approve(w) \/ ClaimStudent(w) \/ SaveRow(w) \/ SaveUser(w) \/ Drop(w)
       \/ \E w \in Workers, s \in Profiles : \E row \in Rows \cup {profile[s]} : StartEdit(w, s, row)
       \/ \E w \in Workers, u \in Users : \E row \in Accounts \cup {user[u]} : StartEditUser(w, u, row)
       \/ \E w \in Workers, u \in Users, p \in Place : StartSubmit(w, u, p)
       \/ \E w \in Workers, q \in Applications : Submit(w, q)
       \/ \E w \in Workers, u \in Users, c \in Codes : StartClaim(w, u, c, "student")
       \/ \E s \in Profiles, row \in Rows \cup {Entered(c, p) : c \in Codes, p \in Place} : CreateProfile(s, row)
    /\ UNCHANGED <<enrollment, moderators, drawn, raced>>

EnrolmentNext == MoveStep \/ ProfileStep

EnrolmentSpec == EnrolmentInit /\ [][EnrolmentNext]_enrolmentVars

-----------------------------------------------------------------------------
(* Properties *)

(* Promote "snapshots the current columns into a row and repoints Student",   *)
(* Revert "undoes the latest promote" (enrollment_handler.go:20) and "a       *)
(* moderator of the old batch no longer belongs to it" (:119): unless two     *)
(* moves of a student overlap or a whole row was saved over its own or by a   *)
(* form, its latest enrollment is in another batch than the current one.      *)
(* While no row was saved so, after which a move under way may place an       *)
(* account by a profile it has lost, the account is in the department of its  *)
(* only profile and the moderator of a batch is a student of it.  The lists a *)
(* moderator sees hold what Can lets the same moderator act upon, and every   *)
(* batch with a moderator has one to notify.                                  *)
EnrolmentsAgree ==
    /\ \A s \in Profiles \ (raced \cup overwritten) :
        enrollment[s] # <<>> => enrollment[s][Len(enrollment[s])][1] # profile[s].place[1]
    /\ overwritten = {} => \A s \in Profiles \ raced :
        LET u == profile[s].owner
            batch == profile[s].place[1]
        IN  /\ u # None /\ Live(s) /\ user[u].live => user[u].department = DepartmentOf[batch]
            /\ \A m \in moderators : m.user = u /\ m.scope = "batch" => m.id = batch
    /\ \A u \in Users, b \in Batches :
        /\ \A p \in {"codes.view", "verifications.review"} : addScopeOr(u, p, Target(b)) <=> Can(u, p, Target(b))
        /\ applyResourceScopeFilter(u, ResourceTarget(DepartmentOf[b])) <=> Can(u, "resources.review", ResourceTarget(DepartmentOf[b]))
        /\ Can(u, "codes.view", Target(b)) => Notified(b) # {}
=============================================================================
