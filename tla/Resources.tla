------------------------------ MODULE Resources ------------------------------
(***************************************************************************)
(* Study resources: review, counters and ratings, the Trash and the stored *)
(* files (resource_handler.go, moderation_handler.go, generic_handler.go,  *)
(* trash_handler.go, upload_handler.go, resource_repository.go).           *)
(*                                                                         *)
(* Approve, Reject and Update load a row and save it whole; a row that was *)
(* deleted meanwhile is written back.  The forms of Create and Update bind *)
(* every column: the file, whether it exists or not, the counters and      *)
(* deleted_at included.  Who may review or edit is what module Enrolment   *)
(* calls Can.  A resource has one file here.                               *)
(***************************************************************************)
EXTENDS Integers, FiniteSets, Sums

CONSTANTS
    Resources,
    Users,
    Admins,       \* a subset of Users
    Reviewers,    \* users who may review resources
    Editors,      \* users who may edit those of others
    Files,
    Bodies,        \* rows as a form may leave them: a subset of Row
    Workers,      \* requests under way
    MaxCount,     \* bound: views, notices
    None

VARIABLES
    resource,     \* rows, those in the Trash included
    authored,     \* resources with rows of authors
    rating,       \* rows of ratings
    attachment,   \* rows of uploads: who uploaded a file, and whether it is private
    stored,       \* files in the bucket
    log,          \* newest entry of a deletion in the audit log
    job,          \* requests under way
    viewed,       \* history: views counted, from the number a form set on
    told,         \* history: times the batches were told of a resource
    withdrawn,    \* history: times a published resource ceased to be
    deleter,      \* history: who moved it to the Trash
    lost,         \* history: files removed on demand, or that a row came to name without their being there to stay
    raced         \* history: what was written from an old reading or by hand, per resource

resourceVars == <<resource, authored, rating, attachment, stored, log, job, viewed, told, withdrawn, deleter, lost, raced>>

Statuses == {"published", "pending", "rejected", "draft"}
Row == [status : Statuses, live : BOOLEAN, by : Users, file : Files, batches : BOOLEAN,
        views : 0..MaxCount, sum : Nat, count : 0..Cardinality(Users)]
Aspects == {"views", "rating", "notice", "log"}
Idle == [step |-> "idle"]

ResourceTypeOK ==
    /\ resource \in [Resources -> Row \cup {None}]
    /\ authored \subseteq Resources
    /\ rating \in [Resources -> [Users -> 0..5]]
    /\ attachment \in [Files -> [by : Users, private : BOOLEAN] \cup {None}]
    /\ stored \subseteq Files /\ lost \subseteq Files
    /\ log \in [Resources -> Users \cup {None}] /\ deleter \in [Resources -> Users \cup {None}]
    /\ \A w \in Workers : job[w] = Idle \/ job[w].step \in {"save", "tell", "rate", "delete", "record", "check", "remove"}
    /\ \A f \in {viewed, told, withdrawn} : f \in [Resources -> 0..MaxCount]
    /\ raced \subseteq Aspects \X Resources

ResourceInit ==
    /\ resource = [r \in Resources |-> None] /\ authored = {}
    /\ rating = [r \in Resources |-> [u \in Users |-> 0]]
    /\ attachment = [f \in Files |-> None] /\ stored = {} /\ lost = {}
    /\ log = [r \in Resources |-> None] /\ deleter = [r \in Resources |-> None]
    /\ job = [w \in Workers |-> Idle]
    /\ viewed = [r \in Resources |-> 0] /\ told = viewed /\ withdrawn = viewed
    /\ raced = {}

Live(r) == resource[r] # None /\ resource[r].live
InTrash(r) == resource[r] # None /\ ~resource[r].live
filesUnchanged == UNCHANGED <<attachment, stored, lost, log, deleter>>
signalsUnchanged == UNCHANGED <<rating, viewed>>

-----------------------------------------------------------------------------
(* Rows *)

\* A row that names a file which is not there.
Missing(f) == IF f \in stored THEN {} ELSE {f}
\* What a new row says that never happened.
Invented(row) ==
    {a \in Aspects : \/ a = "rating" /\ <<row.sum, row.count>> # <<0, 0>>
                     \/ a = "log" /\ ~row.live}

\* The caller is the uploader, and all else is what the form says.  The
\* batches are told once a resource is published, unless opted out.
Create(w, u, r, row, notify) ==
    /\ job[w] = Idle /\ resource[r] = None /\ deleter[r] = None /\ row.by = u
    /\ resource' = [resource EXCEPT ![r] = row]
    /\ viewed' = [viewed EXCEPT ![r] = row.views]
    /\ authored' \in {authored, authored \cup {r}}
    /\ raced' = raced \cup (Invented(row) \X {r})
    /\ lost' = lost \cup Missing(row.file)
    /\ job' = IF notify /\ row.status = "published" /\ row.batches THEN [job EXCEPT ![w] = [step |-> "tell", id |-> r]] ELSE job
    /\ UNCHANGED <<rating, told, withdrawn, attachment, stored, log, deleter>>

canEdit(u, r) == u \in Admins \/ resource[r].by = u \/ u \in Editors
authorizeResource(u, r) == u \in Admins \/ (resource[r].by # u /\ u \in Reviewers)

\* Mutant: an approval tells the batches each time.
Forgets(before) == FALSE
\* Whether the batches are to be told is not stored: approval tells them.
wasPublished(before) == before.status = "published"
TellsBatches(before) == ~wasPublished(before) /\ before.batches

Load(w, r, after, tell) ==
    /\ job[w] = Idle
    /\ job' = [job EXCEPT ![w] = [step |-> "save", id |-> r, before |-> resource[r], after |-> after, tell |-> tell]]
    /\ UNCHANGED <<resource, authored, told, withdrawn, raced>> /\ signalsUnchanged /\ filesUnchanged

ApproveResource(w, u, r) ==
    /\ Live(r) /\ authorizeResource(u, r)
    /\ Load(w, r, [resource[r] EXCEPT !.status = "published"], TellsBatches(resource[r]))

RejectResource(w, u, r) ==
    /\ Live(r) /\ authorizeResource(u, r)
    /\ Load(w, r, [resource[r] EXCEPT !.status = "rejected"], FALSE)

\* An edit may set any column.  (The row is read twice: for the right to
\* edit it and, here at once, for the form to be bound to it.)
Update(w, u, r, row) ==
    /\ Live(r) /\ canEdit(u, r)
    /\ Load(w, r, row, FALSE)

\* What a row written says that did not happen to the one there is: its
\* number of views is out of date, its ratings are others, a form or an old
\* reading moved it into or out of the Trash.
Wrong(before, now, after) ==
    {a \in Aspects :
        \/ a = "views" /\ after.views = before.views /\ (now = None \/ now.views # before.views)
        \/ a = "rating" /\ (now = None \/ <<now.sum, now.count>> # <<after.sum, after.count>>)
        \/ a = "notice" /\ (now = None \/ now.status # before.status)
        \/ a = "log" /\ (~after.live \/ (now # None /\ ~now.live))}

Save(w) ==
    /\ job[w].step = "save"
    /\ LET r == job[w].id
           now == resource[r]
           before == job[w].before
           after == job[w].after
           drops == now # None /\ now.status = "published" /\ after.status # "published"
       IN  /\ ~drops \/ withdrawn[r] < MaxCount
           /\ resource' = [resource EXCEPT ![r] = after]
           /\ viewed' = IF after.views # before.views THEN [viewed EXCEPT ![r] = after.views] ELSE viewed
           /\ withdrawn' = [withdrawn EXCEPT ![r] = @ + IF drops THEN 1 ELSE 0]
           /\ raced' = raced \cup (Wrong(before, now, after) \X {r})
           /\ lost' = lost \cup Missing(after.file)
           /\ job' = [job EXCEPT ![w] = IF job[w].tell THEN [step |-> "tell", id |-> r] ELSE Idle]
    /\ UNCHANGED <<authored, told, attachment, stored, log, deleter, rating>>

\* Best effort: a failure is logged.
notifyBatches(w, works) ==
    /\ job[w].step = "tell"
    /\ LET r == job[w].id
       IN  /\ told[r] < MaxCount
           /\ told' = [told EXCEPT ![r] = @ + IF works THEN 1 ELSE 0]
    /\ job' = [job EXCEPT ![w] = Idle]
    /\ UNCHANGED <<resource, authored, withdrawn, raced>> /\ signalsUnchanged /\ filesUnchanged

\* What a list shows: published rows, unless a status is asked for; those of
\* a batch only to its students, their uploader and admins.
GetAll(u, inBatch, status) ==
    {r \in Resources : Live(r) /\ resource[r].status = status
        /\ (~resource[r].batches \/ inBatch \/ u \in Admins \/ resource[r].by = u)}
ReviewQueue(u) == {r \in Resources : Live(r) /\ resource[r].status = "pending" /\ authorizeResource(u, r)}

-----------------------------------------------------------------------------
(* Counters and ratings *)

IncrementView(r) ==
    /\ Live(r) /\ viewed[r] < MaxCount /\ resource[r].views < MaxCount
    /\ resource' = [resource EXCEPT ![r].views = @ + 1]
    /\ viewed' = [viewed EXCEPT ![r] = @ + 1]
    /\ UNCHANGED <<authored, rating, job, told, withdrawn, raced>> /\ filesUnchanged

GetMyRating(u, r) == rating[r][u]
Rated(rows) == {u \in Users : rows[u] # 0}
\* Mutant: the aggregate is read before the rating is written.
Before(r, u, stars) == rating[r]
\* The committed rows with the caller's own.
Seen(r, u, stars) == [rating[r] EXCEPT ![u] = stars]

RateResource(w, u, r, stars) ==
    /\ job[w] = Idle /\ Live(r)
    /\ ~\E x \in Workers : job[x].step = "rate" /\ job[x].id = r /\ job[x].user = u
    /\ job' = [job EXCEPT ![w] = [step |-> "rate", id |-> r, user |-> u, stars |-> stars, seen |-> Seen(r, u, stars)]]
    /\ UNCHANGED <<resource, authored, told, withdrawn, raced>> /\ signalsUnchanged /\ filesUnchanged

\* The aggregate is written and the transaction commits.
CommitRating(w) ==
    /\ job[w].step = "rate"
    /\ LET r == job[w].id
           rows == [rating[r] EXCEPT ![job[w].user] = job[w].stars]
           seen == job[w].seen
       IN  /\ rating' = [rating EXCEPT ![r] = rows]
           /\ resource' = IF Live(r)
                          THEN [resource EXCEPT ![r].sum = Sum([u \in Rated(seen) |-> seen[u]], Rated(seen)),
                                                ![r].count = Cardinality(Rated(seen))]
                          ELSE resource
           /\ raced' = IF Live(r) /\ \A u \in Users \ {job[w].user} : seen[u] = rows[u]
                       THEN raced \ {<<"rating", r>>} ELSE raced \cup {<<"rating", r>>}
    /\ job' = [job EXCEPT ![w] = Idle]
    /\ UNCHANGED <<authored, viewed, told, withdrawn>> /\ filesUnchanged

-----------------------------------------------------------------------------
(* Files and the Trash *)

\* A private upload has no public address, so no resource holds it.
MyUploadImage(u, f, private, recorded) ==
    /\ f \notin stored /\ attachment[f] = None /\ f \notin lost
    /\ stored' = stored \cup {f}
    /\ attachment' = IF recorded THEN [attachment EXCEPT ![f] = [by |-> u, private |-> private]] ELSE attachment
    /\ UNCHANGED <<resource, authored, job, told, withdrawn, raced, log, deleter, lost>> /\ signalsUnchanged

MyGetUploadURL(u, f) == attachment[f] # None /\ (~attachment[f].private \/ attachment[f].by = u)

DeleteFile(f) ==
    /\ f \in stored
    /\ stored' = stored \ {f} /\ lost' = lost \cup {f}
    /\ attachment' = IF attachment[f] # None /\ ~attachment[f].private THEN [attachment EXCEPT ![f] = None] ELSE attachment
    /\ UNCHANGED <<resource, authored, job, told, withdrawn, raced, log, deleter>> /\ signalsUnchanged

Delete(w, u, r) ==
    /\ job[w] = Idle /\ Live(r) /\ canEdit(u, r)
    /\ job' = [job EXCEPT ![w] = [step |-> "delete", id |-> r, user |-> u]]
    /\ UNCHANGED <<resource, authored, told, withdrawn, raced>> /\ signalsUnchanged /\ filesUnchanged

\* The UPDATE passes a row that is gone by; the audit entry follows anyway.
SoftDelete(w) ==
    /\ job[w].step = "delete"
    /\ LET r == job[w].id
       IN  /\ resource' = IF Live(r) THEN [resource EXCEPT ![r].live = FALSE] ELSE resource
           /\ deleter' = IF Live(r) THEN [deleter EXCEPT ![r] = job[w].user] ELSE deleter
           /\ raced' = IF Live(r) /\ ~\E x \in Workers : job[x].step = "record" /\ job[x].id = r
                       THEN raced \ {<<"log", r>>} ELSE raced \cup {<<"log", r>>}
    /\ job' = [job EXCEPT ![w].step = "record"]
    /\ UNCHANGED <<authored, told, withdrawn, attachment, stored, lost, log>> /\ signalsUnchanged

\* RecordRequest: a failure goes to the system log.
Record(w, works) ==
    /\ job[w].step = "record"
    /\ log' = IF works THEN [log EXCEPT ![job[w].id] = job[w].user] ELSE log
    /\ raced' = IF works THEN raced ELSE raced \cup {<<"log", job[w].id>>}
    /\ job' = [job EXCEPT ![w] = Idle]
    /\ UNCHANGED <<resource, authored, told, withdrawn, attachment, stored, lost, deleter>> /\ signalsUnchanged

Restore(r) ==
    /\ InTrash(r)
    /\ resource' = [resource EXCEPT ![r].live = TRUE]
    /\ UNCHANGED <<authored, job, told, withdrawn, raced>> /\ signalsUnchanged /\ filesUnchanged

\* The row and its ratings go, and its file is looked up next.
Erase(w, r, u, authors) ==
    /\ job[w] = Idle /\ u \in Admins
    /\ resource' = [resource EXCEPT ![r] = None]
    /\ rating' = [rating EXCEPT ![r] = [x \in Users |-> 0]]
    /\ deleter' = [deleter EXCEPT ![r] = u]
    /\ authored' = authors
    /\ job' = [job EXCEPT ![w] = [step |-> "check", file |-> resource[r].file]]
    /\ UNCHANGED <<viewed, told, withdrawn, attachment, stored, lost, log, raced>>

HardDelete(w, u, r) == Live(r) /\ Erase(w, r, u, authored \ {r})
\* The rows of authors stay.
Purge(w, u, r) == InTrash(r) /\ Erase(w, r, u, authored)

\* Mutant: a row in the Trash does not count.
LiveOnly(f) == \E r \in Resources : Live(r) /\ resource[r].file = f
fileStillUsed(f) == \E r \in Resources : resource[r] # None /\ resource[r].file = f
Holders(f) == {r \in Resources : resource[r] # None /\ resource[r].file = f}

CheckFile(w) ==
    /\ job[w].step = "check"
    /\ job' = [job EXCEPT ![w] = IF fileStillUsed(job[w].file) THEN Idle ELSE
                                      [step |-> "remove", file |-> job[w].file, holders |-> Holders(job[w].file)]]
    /\ UNCHANGED <<resource, authored, told, withdrawn, raced>> /\ signalsUnchanged /\ filesUnchanged

RemoveFile(w) ==
    /\ job[w].step = "remove"
    /\ LET f == job[w].file
       IN  /\ stored' = stored \ {f}
           /\ lost' = IF Holders(f) \ job[w].holders # {} THEN lost \cup {f} ELSE lost
    /\ job' = [job EXCEPT ![w] = Idle]
    /\ UNCHANGED <<resource, authored, told, withdrawn, raced, attachment, log, deleter>> /\ signalsUnchanged

\* What the Trash lists, with who deleted it.
List == {<<r, log[r]>> : r \in {x \in Resources : InTrash(x)}}

-----------------------------------------------------------------------------
ReviewStep ==
    \/ \E w \in Workers, u \in Users, r \in Resources :
          \/ \E row \in Bodies, n \in BOOLEAN : Create(w, u, r, row, n)
          \/ ApproveResource(w, u, r)
          \/ RejectResource(w, u, r)
          \/ \E row \in Bodies : Update(w, u, r, row)
    \/ \E w \in Workers : Save(w) \/ \E b \in BOOLEAN : notifyBatches(w, b)

SignalStep ==
    \/ \E r \in Resources : IncrementView(r)
    \/ \E w \in Workers, u \in Users, r \in Resources, s \in 1..5 : RateResource(w, u, r, s)
    \/ \E w \in Workers : CommitRating(w)

FileStep ==
    \/ \E u \in Users, f \in Files, p \in BOOLEAN, b \in BOOLEAN : MyUploadImage(u, f, p, b)
    \/ \E f \in Files : DeleteFile(f)
    \/ \E w \in Workers, u \in Users, r \in Resources : Delete(w, u, r) \/ HardDelete(w, u, r) \/ Purge(w, u, r)
    \/ \E r \in Resources : Restore(r)
    \/ \E w \in Workers : SoftDelete(w) \/ CheckFile(w) \/ RemoveFile(w) \/ \E b \in BOOLEAN : Record(w, b)

ResourceNext == ReviewStep \/ SignalStep \/ FileStep
ResourceSpec == ResourceInit /\ [][ResourceNext]_resourceVars

-----------------------------------------------------------------------------
(* Properties *)

(* fileStillUsed: "purging one row can't take a file another resource uses"   *)
(* (resource_handler.go:517): the file of every row, those in the Trash       *)
(* included, is stored, unless it was removed on demand, was not there when   *)
(* the row came to name it, or was about to be removed then; and the Trash    *)
(* names the one who deleted a row, unless deletions of it overlapped, the    *)
(* audit entry failed, or a form wrote the deletion (the log calls that an    *)
(* update).                                                                   *)
TrashAgrees ==
    /\ \A r \in Resources : resource[r] # None => resource[r].file \in stored \cup lost
    /\ \A x \in List : <<"log", x[1]>> \in raced \/ x[2] = deleter[x[1]]
          \/ \E w \in Workers : job[w].step = "record" /\ job[w].id = x[1]

(* The views of a row are those counted from the number a form last gave it, *)
(* unless a whole row was written from an older reading of them; its ratings  *)
(* are those of its raters, unless a form, a whole row or an aggregate from   *)
(* an older reading was written since the last of them; and the batches are   *)
(* told of a resource once for each time it is published                      *)
(* (resource_handler.go:299, wasPublished).                                   *)
SignalsAgree ==
    \A r \in Resources : Live(r) =>
        /\ <<"views", r>> \in raced \/ resource[r].views = viewed[r]
        /\ <<"rating", r>> \in raced \/
              /\ resource[r].count = Cardinality(Rated(rating[r]))
              /\ resource[r].sum = Sum([u \in Users |-> GetMyRating(u, r)], Rated(rating[r]))
        /\ <<"notice", r>> \in raced \/ told[r] <= 1 + withdrawn[r]
=============================================================================
