--------------------------- MODULE SchemaMigration ---------------------------
(***************************************************************************)
(* cmd/migrate: RunMigrations and its one-time steps, run by hand beside a *)
(* serving API (connection.go, cmd/migrate/main.go).                       *)
(*                                                                         *)
(* `once` reads the ledger, runs the step and records it; a step that      *)
(* fails is retried by the next run, and so is one that was not recorded.  *)
(* A step that ignores the error of a statement is recorded all the same.  *)
(* Indexes and columns that no row depends on are not modelled.  A legacy  *)
(* session is of a department and has a period.                            *)
(***************************************************************************)
EXTENDS Integers, Sequences

CONSTANTS
    Users,
    Batches,
    Departments,
    Periods,
    SessionRows,  \* ids of session rows, numbers in order of creation
    GraceDays,
    Horizon,      \* bound: the last day
    MaxRuns,      \* bound: runs of the command
    None

VARIABLES
    now,
    applied,      \* keys in schema_migrations
    run,          \* the command: its position and what a step has done
    runs,         \* runs so far
    legacy,       \* tables and columns of earlier schemas
    migrated,     \* AutoMigrate has added the columns of the models
    subscription, \* rows of a user, oldest first
    pro,          \* is_pro and pro_expiry of a user
    cr,           \* current CRs
    moderators,   \* users and batches
    revoked,      \* history: moderators an admin has revoked
    unnoticed,    \* history: what a step that succeeded failed to drop or insert
    imported,     \* CRs whose student has no account
    planned,      \* there is a subscription plan to attribute a row to
    before,       \* history: the periods of students and links at first
    session,      \* rows of sessions
    student,      \* the session a user's student row points at
    links         \* batch_sessions

migrationVars == <<now, applied, run, runs, legacy, migrated, subscription, pro, cr, moderators, revoked, unnoticed, imported, planned, before, session, student, links>>

Never == 0
Legacy == {"transports.route_name", "notifications.user_id", "users.fcm_token", "messages.deleted_by_user", "notes", "contacts.scope", "resources.uploader_id",
            "sessions.department_id"}

\* The steps in their order; "auto" is AutoMigrate, which every run repeats.
Steps == <<"cleanup_transports", "drop_notifications", "drop_fcm_token", "auto", "backfill_moderators", "drop_message_deleted",
           "drop_tables", "drop_contacts", "drop_uploader", "dedupe_slugs", "backfill_grace", "extend_access", "backfill_orphans",
           "globalize_sessions">>
Drops == [cleanup_transports |-> "transports.route_name", drop_notifications |-> "notifications.user_id",
          drop_fcm_token |-> "users.fcm_token", drop_message_deleted |-> "messages.deleted_by_user", drop_tables |-> "notes",
          drop_contacts |-> "contacts.scope", drop_uploader |-> "resources.uploader_id",
          globalize_sessions |-> "sessions.department_id"]
\* A key records two statements of one step, which no transaction joins.
Key(step) == IF step = "extend_access" THEN "backfill_grace" ELSE step

Subscription == [end : 0..Horizon, grace : 0..(Horizon + GraceDays), granted : BOOLEAN]
Pro == [is : BOOLEAN, expiry : 0..(Horizon + GraceDays)]
SessionRow == [department : Departments \cup {None}, period : Periods, live : BOOLEAN]

MigrationTypeOK ==
    /\ now \in 1..Horizon /\ runs \in 0..MaxRuns
    /\ applied \subseteq {Key(Steps[i]) : i \in DOMAIN Steps} \ {"auto"}
    /\ run = None \/ run \in [at : 1..Len(Steps), done : BOOLEAN]
    /\ legacy \subseteq Legacy /\ migrated \in BOOLEAN
    /\ subscription \in [Users -> Seq(Subscription)] /\ pro \in [Users -> Pro]
    /\ cr \subseteq Users \X Batches /\ moderators \subseteq Users \X Batches /\ revoked \subseteq Users \X Batches
    /\ unnoticed.legacy \subseteq Legacy /\ unnoticed.orphans \subseteq Users
    /\ imported \subseteq Users /\ planned \in BOOLEAN /\ before.student \in [Users -> Periods] /\ before.links \subseteq Batches \X Periods
    /\ session \in [SessionRows -> SessionRow \cup {None}]
    /\ student \in [Users -> SessionRows \cup {None}]
    /\ links \subseteq Batches \X SessionRows

\* A database of the schema before: dated rows have no grace, and the flag of a
\* lapsed user may await the hourly sweep.
MigrationInit ==
    /\ now = 1 /\ applied = {} /\ run = None /\ runs = 0 /\ migrated = FALSE
    /\ legacy = Legacy
    /\ pro \in [Users -> {[is |-> FALSE, expiry |-> Never], [is |-> TRUE, expiry |-> Never], [is |-> TRUE, expiry |-> 2]}]
    /\ subscription \in [Users -> {<<>>, <<[end |-> 2, grace |-> Never, granted |-> FALSE]>>}]
    /\ \A u \in Users : subscription[u] # <<>> => pro[u] = [is |-> TRUE, expiry |-> 2]
    /\ cr \in SUBSET (Users \X Batches) /\ moderators = {} /\ revoked = {}
    /\ unnoticed = [legacy |-> {}, orphans |-> {}]
    /\ imported \in SUBSET Users /\ planned \in BOOLEAN
    /\ session \in [SessionRows -> SessionRow]
    /\ \A s \in SessionRows : session[s].live /\ session[s].department # None
    /\ student \in [Users -> SessionRows]
    /\ links \in {{<<b, s>> : b \in Batches} : s \in SessionRows}
    /\ before = [student |-> [u \in Users |-> session[student[u]].period], links |-> {<<l[1], session[l[2]].period>> : l \in links}]

accessUnchanged == UNCHANGED <<subscription, pro>>
crUnchanged == UNCHANGED <<cr, moderators, revoked, imported, planned, before>>
sessionsUnchanged == UNCHANGED <<session, student, links>>

HasAccess(u) == pro[u].is /\ (pro[u].expiry = Never \/ pro[u].expiry > now)
Newest(u) == subscription[u][Len(subscription[u])]

-----------------------------------------------------------------------------
(* What the steps do *)

\* A CR without an account is passed over for good.
BackfillModerators ==
    /\ moderators' = moderators \cup {c \in cr : c[1] \notin imported}
    /\ UNCHANGED <<cr, revoked, imported, planned, before>>

\* A duplicate of a department goes to the Trash; what points at it stays.
DedupeSlugs ==
    session' = [s \in SessionRows |->
        IF \E o \in SessionRows : o < s /\ session[o].live /\ session[o].department = session[s].department
                                        /\ session[o].period = session[s].period
        THEN [session[s] EXCEPT !.live = FALSE] ELSE session[s]]

BackfillGrace ==
    subscription' = [u \in Users |-> [i \in DOMAIN subscription[u] |->
        LET r == subscription[u][i] IN IF r.end # Never /\ r.grace = Never THEN [r EXCEPT !.grace = r.end + GraceDays] ELSE r]]

\* By the flag, whatever the date.
ExtendAccess ==
    pro' = [u \in Users |-> IF pro[u].is /\ pro[u].expiry # Never /\ subscription[u] # <<>> /\ Newest(u).grace # Never
                            THEN [pro[u] EXCEPT !.expiry = Newest(u).grace] ELSE pro[u]]

\* Nobody, and it is recorded, while no plan exists.
BackfillOrphans(missed) ==
    subscription' = [u \in Users |->
        IF planned /\ pro[u].is /\ subscription[u] = <<>> /\ u \notin missed
        THEN <<[end |-> pro[u].expiry, grace |-> IF pro[u].expiry = Never THEN Never ELSE pro[u].expiry + GraceDays, granted |-> TRUE]>>
        ELSE subscription[u]]

\* Mutant: the oldest row is kept, but its duplicates' students are not moved.
Leave(s) == s
\* The row a period keeps: a live one if there is one, then the oldest.
Kept(s) ==
    LET same == {o \in SessionRows : session[o] # None /\ session[o].period = session[s].period}
        live == {o \in same : session[o].live}
    IN  CHOOSE o \in (IF live # {} THEN live ELSE same) : \A x \in (IF live # {} THEN live ELSE same) : o <= x
Repointed(s) == Kept(s)

GlobalizeSessions ==
    /\ student' = [u \in Users |-> IF student[u] = None THEN None ELSE Repointed(student[u])]
    /\ links' = {<<l[1], Repointed(l[2])>> : l \in links}
    /\ session' = [s \in SessionRows |-> IF session[s] # None /\ s = Kept(s)
                                         THEN [department |-> None, period |-> session[s].period, live |-> TRUE] ELSE None]

\* The columns of every model, which a run adds whatever the ledger says.
AutoMigrate == migrated' = TRUE

\* What a step may fail to drop, or to insert, and succeed.
MayKeep(step) == IF step \in DOMAIN Drops \ {"globalize_sessions"} THEN legacy \cap {Drops[step]} ELSE {}
MayMiss(step) == IF step = "backfill_orphans" THEN {u \in Users : planned /\ pro[u].is /\ subscription[u] = <<>>} ELSE {}

Apply(step) == \E kept \in SUBSET MayKeep(step), missed \in SUBSET MayMiss(step) :
    /\ unnoticed' = [legacy |-> unnoticed.legacy \cup kept, orphans |-> unnoticed.orphans \cup missed]
    /\ legacy' = (IF step \in DOMAIN Drops THEN legacy \ {Drops[step]} ELSE legacy) \cup kept
    /\ IF step = "auto" THEN AutoMigrate ELSE UNCHANGED migrated
    /\ IF step = "backfill_moderators" THEN BackfillModerators ELSE crUnchanged
    /\ CASE step = "backfill_grace" -> BackfillGrace /\ UNCHANGED pro
         [] step = "backfill_orphans" -> BackfillOrphans(missed) /\ UNCHANGED pro
         [] step = "extend_access" -> ExtendAccess /\ UNCHANGED subscription
         [] OTHER -> accessUnchanged
    /\ CASE step = "dedupe_slugs" -> DedupeSlugs /\ UNCHANGED <<student, links>>
         [] step = "globalize_sessions" -> GlobalizeSessions
         [] OTHER -> sessionsUnchanged

-----------------------------------------------------------------------------
(* The command *)

Start ==
    /\ run = None /\ runs < MaxRuns
    /\ run' = [at |-> 1, done |-> FALSE] /\ runs' = runs + 1
    /\ UNCHANGED <<now, applied, legacy, migrated, unnoticed>> /\ accessUnchanged /\ crUnchanged /\ sessionsUnchanged

NextStep == IF run.at = Len(Steps) THEN None ELSE [at |-> run.at + 1, done |-> FALSE]

Skip ==
    /\ run # None /\ ~run.done /\ Key(Steps[run.at]) \in applied
    /\ run' = NextStep
    /\ UNCHANGED <<now, applied, runs, legacy, migrated, unnoticed>> /\ accessUnchanged /\ crUnchanged /\ sessionsUnchanged

\* The two statements of backfill_grace follow one another without a record;
\* the slugs need the columns that globalize_sessions drops.
RunStep ==
    /\ run # None /\ ~run.done /\ Key(Steps[run.at]) \notin applied
    /\ Steps[run.at] = "dedupe_slugs" => "sessions.department_id" \in legacy
    /\ Apply(Steps[run.at])
    /\ run' = IF Steps[run.at] = "auto" \/ Steps[run.at] = "backfill_grace" THEN NextStep ELSE [run EXCEPT !.done = TRUE]
    /\ UNCHANGED <<now, applied, runs>>

\* It is logged, and the run goes on; AutoMigrate ends it.
StepFails ==
    /\ run # None /\ ~run.done /\ Key(Steps[run.at]) \notin applied
    /\ run' = CASE Steps[run.at] = "auto" -> None
                [] Steps[run.at] = "backfill_grace" -> [at |-> run.at + 2, done |-> FALSE]
                [] OTHER -> NextStep
    /\ UNCHANGED <<now, applied, runs, legacy, migrated, unnoticed>> /\ accessUnchanged /\ crUnchanged /\ sessionsUnchanged

Record(recorded) ==
    /\ run # None /\ run.done
    /\ applied' = IF recorded THEN applied \cup {Key(Steps[run.at])} ELSE applied
    /\ run' = NextStep
    /\ UNCHANGED <<now, runs, legacy, migrated, unnoticed>> /\ accessUnchanged /\ crUnchanged /\ sessionsUnchanged

Crash ==
    /\ run # None
    /\ run' = None
    /\ UNCHANGED <<now, applied, runs, legacy, migrated, unnoticed>> /\ accessUnchanged /\ crUnchanged /\ sessionsUnchanged

-----------------------------------------------------------------------------
(* The API meanwhile, which needs the columns of its models *)

Tick == now < Horizon /\ now' = now + 1 /\ UNCHANGED <<pro, subscription, moderators, revoked>>
Sweep(u) == pro[u].is /\ ~HasAccess(u) /\ pro' = [pro EXCEPT ![u].is = FALSE] /\ UNCHANGED <<now, subscription, moderators, revoked>>
Revoke(m) == m \in moderators /\ moderators' = moderators \ {m} /\ revoked' = revoked \cup {m} /\ UNCHANGED <<now, pro, subscription>>
Grant(u) ==
    /\ migrated /\ Len(subscription[u]) < 2
    /\ subscription' = [subscription EXCEPT ![u] = Append(@, [end |-> Horizon, grace |-> Horizon + GraceDays, granted |-> FALSE])]
    /\ pro' = [pro EXCEPT ![u] = [is |-> TRUE, expiry |-> Horizon + GraceDays]]
    /\ UNCHANGED <<now, moderators, revoked>>

ServeStep ==
    /\ Tick \/ \E u \in Users : Sweep(u) \/ Grant(u) \/ \E b \in Batches : Revoke(<<u, b>>)
    /\ UNCHANGED <<applied, run, runs, legacy, migrated, unnoticed, cr, imported, planned, before>> /\ sessionsUnchanged

CommandStep == Start \/ Skip \/ RunStep \/ StepFails \/ Crash \/ \E b \in BOOLEAN : Record(b)
MigrationNext == CommandStep \/ ServeStep

-----------------------------------------------------------------------------
(* Properties *)

\* What a step leaves when it is recorded, and the next ones do not undo.
SchemaHolds ==
    /\ \A step \in DOMAIN Drops : step \in applied => Drops[step] \notin legacy \ unnoticed.legacy
    /\ applied \subseteq {"cleanup_transports", "drop_notifications", "drop_fcm_token"} \/ migrated
ModeratorsHold == "backfill_moderators" \in applied => {c \in cr : c[1] \notin imported} \subseteq moderators \cup revoked
GraceHolds ==
    "backfill_grace" \in applied =>
        \A u \in Users : \A i \in DOMAIN subscription[u] : subscription[u][i].end = Never \/ subscription[u][i].grace # Never
OrphansHold ==
    "backfill_orphans" \in applied /\ planned =>
        \A u \in Users : pro[u].is => subscription[u] # <<>> \/ u \in unnoticed.orphans
PeriodsHold ==
    /\ \A u \in Users : session[student[u]] # None /\ session[student[u]].period = before.student[u]
    /\ \A l \in links : session[l[2]] # None
    /\ {<<l[1], session[l[2]].period>> : l \in links} = before.links
    /\ "globalize_sessions" \in applied =>
           /\ \A s \in SessionRows : session[s] # None => session[s].live
           /\ \A s, t \in SessionRows : session[s] # None /\ session[t] # None /\ session[s].period = session[t].period => s = t

\* Whatever fails, is cut short or is repeated on the way, what a recorded step
\* was for is done, but for the statements whose error the step ignored: the
\* schema has lost the old parts, a current CR is a moderator unless an admin
\* has revoked it, a dated row has its grace, whoever is Pro has a row, and
\* each period is one live session; students and batches keep their periods
\* throughout (connection.go:58-62).
MigrationsAgree == SchemaHolds /\ ModeratorsHold /\ GraceHolds /\ OrphansHold /\ PeriodsHold

MigrationSpec == MigrationInit /\ [][MigrationNext]_migrationVars
=============================================================================
