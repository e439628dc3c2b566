----------------------------- MODULE ClassSchedule -----------------------------
(***************************************************************************)
(* The weekly schedule of one batch, seen through one of its slots, and    *)
(* the notices written to the batch or to its whole department.  Admins    *)
(* write everywhere, moderators where authz.Can lets them.                 *)
(*                                                                         *)
(* An occurrence of the slot on a date is held as scheduled unless a row   *)
(* overrides it.  Overrides are soft-deleted, and the unique index on      *)
(* (slot, date) counts the deleted ones.                                   *)
(***************************************************************************)
EXTENDS Integers, FiniteSets

CONSTANTS Dates, Notices, Requests, None

VARIABLES
    moderates, \* authz.Can answers yes to the moderator
    slot,      \* whether the slot is live, deleted or not created
    status,    \* a date's class_slot_statuses row
    notice,    \* a class notice's row
    job,       \* what a request has read
    answered,  \* history: what the last accepted request made of a date
    refused,   \* history: dates a request failed to set though no override was shown
    expired,   \* notices whose time is over
    revived    \* history: notices an edit brought back after their deletion

scheduleVars == <<moderates, slot, status, notice, job, answered, refused, expired, revived>>

Overrides == {"cancelled", "rescheduled"}
Callers == {"admin", "moderator"}
Status == [is : Overrides, deleted : BOOLEAN]
Notice == [wide : BOOLEAN, text : {"first", "edited"}, deleted : BOOLEAN]
Job ==
    [op : {"set"}, date : Dates, to : Overrides, found : {None}]
        \cup [op : {"set"}, date : Dates, to : Overrides, found : Status]
        \cup [op : {"revert"}, date : Dates]
        \cup [op : {"edit", "drop"}, notice : Notices, row : Notice]

ScheduleTypeOK ==
    /\ moderates \in BOOLEAN /\ slot \in {"none", "live", "deleted"}
    /\ status \in [Dates -> Status \cup {None}]
    /\ notice \in [Notices -> Notice \cup {None}]
    /\ job \in [Requests -> Job \cup {None}]
    /\ answered \in [Dates -> Overrides \cup {"held"}]
    /\ refused \subseteq Dates /\ expired \subseteq Notices /\ revived \subseteq Notices

ScheduleInit ==
    /\ moderates \in BOOLEAN /\ slot = "none"
    /\ status = [d \in Dates |-> None] /\ notice = [n \in Notices |-> None]
    /\ job = [w \in Requests |-> None]
    /\ answered = [d \in Dates |-> "held"]
    /\ refused = {} /\ expired = {} /\ revived = {}

slotFrame == UNCHANGED <<moderates, notice, expired, revived>>
noticeFrame == UNCHANGED <<moderates, slot, status, answered, refused>>

Open(w, j) == job[w] = None /\ job' = [job EXCEPT ![w] = j]
Close(w) == job' = [job EXCEPT ![w] = None]
Doing(w, op) == job[w] # None /\ job[w].op = op
\* authz.Can is asked when a request starts, not again when it writes.
authorize(caller) == caller = "admin" \/ moderates
\* Only an admin writes to a whole department.
mayNotify(caller, wide) == authorize(caller) /\ (wide => caller = "admin")

\* What readers see of a date and of a notice.
LiveStatus(d) == status[d] # None /\ ~status[d].deleted
ListStatus(d) == IF LiveStatus(d) THEN status[d].is ELSE "held"
LiveNotice(n) == notice[n] # None /\ ~notice[n].deleted
ListNotices == {n \in Notices : LiveNotice(n) /\ n \notin expired}

-----------------------------------------------------------------------------
(* The slot *)

CreateSlot == slot = "none" /\ (\E c \in Callers : authorize(c)) /\ slot' = "live" /\ UNCHANGED <<status, job, answered, refused>> /\ slotFrame
DeleteSlot == slot = "live" /\ (\E c \in Callers : authorize(c)) /\ slot' = "deleted" /\ UNCHANGED <<status, job, answered, refused>> /\ slotFrame
\* The Trash, or an edit that loaded the slot before its deletion.
RestoreSlot == slot = "deleted" /\ slot' = "live" /\ UNCHANGED <<status, job, answered, refused>> /\ slotFrame
\* A moderator is appointed or dismissed elsewhere.
Appoint == moderates' = ~moderates /\ UNCHANGED <<slot, status, notice, job, answered, refused, expired, revived>>

-----------------------------------------------------------------------------
(* Overrides *)

\* Mutant: the look-up reads deleted rows too.
Unscoped(d) == status[d]
\* The override a look-up under gorm's filter finds.
Existing(d) == IF LiveStatus(d) THEN status[d] ELSE None

FindStatus(w, caller, d, s) ==
    /\ slot = "live" /\ authorize(caller)
    /\ Open(w, [op |-> "set", date |-> d, to |-> s, found |-> Existing(d)])
    /\ UNCHANGED <<slot, status, answered, refused>> /\ slotFrame

\* Save writes the columns it was given with the Base it found; should no live
\* row have its id, it inserts the row anew.
SaveStatus(w) ==
    LET d == job[w].date
    IN  /\ Doing(w, "set") /\ job[w].found # None
        /\ status' = [status EXCEPT ![d] = [job[w].found EXCEPT !.is = job[w].to]]
        /\ answered' = [answered EXCEPT ![d] = job[w].to]
        /\ Close(w) /\ UNCHANGED <<slot, refused>> /\ slotFrame

\* Create is refused by the index when there is a row, deleted or not.
CreateStatus(w) ==
    LET d == job[w].date
        taken == status[d] # None
    IN  /\ Doing(w, "set") /\ job[w].found = None
        /\ status' = IF taken THEN status ELSE [status EXCEPT ![d] = [is |-> job[w].to, deleted |-> FALSE]]
        /\ answered' = IF taken THEN answered ELSE [answered EXCEPT ![d] = job[w].to]
        /\ refused' = IF taken /\ status[d].deleted THEN refused \cup {d} ELSE refused
        /\ Close(w) /\ UNCHANGED slot /\ slotFrame

SetStatus(w) == SaveStatus(w) \/ CreateStatus(w)

LoadStatus(w, caller, d) ==
    /\ LiveStatus(d) /\ slot = "live" /\ authorize(caller)
    /\ Open(w, [op |-> "revert", date |-> d])
    /\ UNCHANGED <<slot, status, answered, refused>> /\ slotFrame

DeleteStatus(w) ==
    LET d == job[w].date
    IN  /\ Doing(w, "revert")
        /\ status' = [status EXCEPT ![d].deleted = TRUE]
        /\ answered' = [answered EXCEPT ![d] = "held"]
        /\ Close(w) /\ UNCHANGED <<slot, refused>> /\ slotFrame

-----------------------------------------------------------------------------
(* Notices *)

CreateNotice(n, caller, wide) ==
    /\ notice[n] = None /\ mayNotify(caller, wide)
    /\ notice' = [notice EXCEPT ![n] = [wide |-> wide, text |-> "first", deleted |-> FALSE]]
    /\ UNCHANGED <<job, expired, revived>> /\ noticeFrame

Load(w, n, caller, op) ==
    /\ LiveNotice(n) /\ mayNotify(caller, notice[n].wide)
    /\ Open(w, [op |-> op, notice |-> n, row |-> notice[n]])
    /\ UNCHANGED <<notice, expired, revived>> /\ noticeFrame

UpdateNotice(w) ==
    LET n == job[w].notice
    IN  /\ Doing(w, "edit")
        /\ notice' = [notice EXCEPT ![n] = [job[w].row EXCEPT !.text = "edited"]]
        /\ revived' = IF notice[n].deleted THEN revived \cup {n} ELSE revived
        /\ Close(w) /\ UNCHANGED expired /\ noticeFrame

DeleteNotice(w) ==
    /\ Doing(w, "drop")
    /\ notice' = [notice EXCEPT ![job[w].notice].deleted = TRUE]
    /\ Close(w) /\ UNCHANGED <<expired, revived>> /\ noticeFrame

Expire(n) == n \in ListNotices /\ expired' = expired \cup {n} /\ UNCHANGED <<notice, job, revived>> /\ noticeFrame

-----------------------------------------------------------------------------

SlotStep == CreateSlot \/ DeleteSlot \/ RestoreSlot \/ Appoint
StatusStep ==
    \E w \in Requests :
        \/ SetStatus(w) \/ DeleteStatus(w)
        \/ \E d \in Dates, c \in Callers : LoadStatus(w, c, d) \/ \E s \in Overrides : FindStatus(w, c, d, s)
NoticeStep ==
    \/ \E n \in Notices : Expire(n) \/ \E c \in Callers, wide \in BOOLEAN : CreateNotice(n, c, wide)
    \/ \E w \in Requests :
        \/ UpdateNotice(w) \/ DeleteNotice(w)
        \/ \E n \in Notices, c \in Callers, op \in {"edit", "drop"} : Load(w, n, c, op)

ScheduleNext == SlotStep \/ StatusStep \/ NoticeStep
ScheduleSpec == ScheduleInit /\ [][ScheduleNext]_scheduleVars

-----------------------------------------------------------------------------
(* Properties *)

\* A date shows what the last accepted request made of it, in whatever order
\* two moderators, who each looked before the other wrote, set and reverted it.
ScheduleAgrees == \A d \in Dates : ListStatus(d) = answered[d]

\* SetStatus "creates or replaces the override for a slot's occurrence on a
\* date".  Once an override has been reverted no request can set one again:
\* the index refuses the row, and the look-up does not find the old one.
CreatesOrReplaces == refused = {}
=============================================================================
