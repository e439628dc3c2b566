------------------------------- MODULE Reminders -------------------------------
(***************************************************************************)
(* The two schedulers that push reminders, in every process of the API:    *)
(* one for the exams of the next day, whose rows admins edit meanwhile,    *)
(* and one for the reminders that students set on their job applications.  *)
(* The first reads what is due, pushes, and marks each exam afterwards;    *)
(* the second claims what is due in one transaction before it pushes.      *)
(* A process may stop between any two steps and forgets what it held.      *)
(***************************************************************************)
EXTENDS Integers, FiniteSets

CONSTANTS
    Processes,
    Exams,
    Reminders,
    Requests,
    BatchSize,  \* reminders claimed by one pass
    Horizon,    \* bound: the last day
    None

VARIABLES
    now,       \* the day
    exam,      \* an exam_notices row
    announce,  \* exams whose "new exam" push waits in a goroutine
    sweep,     \* what is left of a process's pass over the exams
    edit,      \* an admin's edit that has read its row
    reminder,  \* a career_reminders row
    claim,     \* what is left of a process's pass over the reminders
    reminded,  \* history: how often each exam was pushed for each day
    tried,     \* history: the days for which an exam's reminder was attempted
    delivered, \* history: how often a reminder was pushed
    slipped,   \* history: exams pushed but not marked, or whose mark was lost
    moved,     \* history: exams moved to another day once reminded or due
    stranded   \* history: reminders claimed by a pass that did not finish them

reminderVars == <<now, exam, announce, sweep, edit, reminder, claim,
    reminded, tried, delivered, slipped, moved, stranded>>

Days == 0..Horizon
Exam == [day : Days, sent : BOOLEAN, deleted : BOOLEAN]
Statuses == {"pending", "claimed", "sent", "cancelled"}
\* A pass: the exams left to push, and the one pushed but not yet marked.
Sweep == [todo : SUBSET Exams, day : Days, pushed : Exams \cup {None}]
Claim == [todo : SUBSET Reminders, pushed : Reminders \cup {None}]

ReminderTypeOK ==
    /\ now \in Days /\ announce \subseteq Exams
    /\ exam \in [Exams -> Exam \cup {None}]
    /\ sweep \in [Processes -> Sweep \cup {None}]
    /\ edit \in [Requests -> [of : Exams, row : Exam] \cup {None}]
    /\ reminder \in [Reminders -> [at : Days, status : Statuses] \cup {None}]
    /\ claim \in [Processes -> Claim \cup {None}]
    /\ reminded \in [Exams -> [Days -> Nat]] /\ tried \in [Exams -> SUBSET Days]
    /\ delivered \in [Reminders -> Nat]
    /\ slipped \subseteq Exams /\ moved \subseteq Exams /\ stranded \subseteq Reminders

ReminderInit ==
    /\ now = 0 /\ announce = {}
    /\ exam = [e \in Exams |-> None] /\ edit = [w \in Requests |-> None]
    /\ reminder = [r \in Reminders |-> None]
    /\ sweep = [p \in Processes |-> None] /\ claim = [p \in Processes |-> None]
    /\ reminded = [e \in Exams |-> [d \in Days |-> 0]] /\ tried = [e \in Exams |-> {}]
    /\ delivered = [r \in Reminders |-> 0]
    /\ slipped = {} /\ moved = {} /\ stranded = {}

examFrame == UNCHANGED <<now, reminder, claim, delivered, stranded>>
careerFrame == UNCHANGED <<now, exam, announce, sweep, edit, reminded, tried, slipped, moved>>

-----------------------------------------------------------------------------
(* Exam notices *)

LiveExam(e) == exam[e] # None /\ ~exam[e].deleted
\* A pass that has read an exam as due and has not marked it.
Holds(p, e) == sweep[p] # None /\ (e \in sweep[p].todo \/ e = sweep[p].pushed)
UnderWay(e) == \E p \in Processes : Holds(p, e)

CreateExam(e, day) ==
    /\ exam[e] = None
    /\ exam' = [exam EXCEPT ![e] = [day |-> day, sent |-> FALSE, deleted |-> FALSE]]
    /\ announce' = announce \cup {e}
    /\ UNCHANGED <<sweep, edit, reminded, tried, slipped, moved>> /\ examFrame

notifyNewExam(e) ==
    /\ e \in announce /\ announce' = announce \ {e}
    /\ UNCHANGED <<exam, sweep, edit, reminded, tried, slipped, moved>> /\ examFrame

ReadExam(w, e) ==
    /\ LiveExam(e) /\ edit[w] = None
    /\ edit' = [edit EXCEPT ![w] = [of |-> e, row |-> exam[e]]]
    /\ UNCHANGED <<exam, announce, sweep, reminded, tried, slipped, moved>> /\ examFrame

\* Save writes the row that was read, the mark of the reminder with it, and
\* inserts it again if it was deleted meanwhile.
UpdateExam(w, day) ==
    LET e == edit[w].of
        row == edit[w].row
    IN  /\ edit[w] # None
        /\ exam' = [exam EXCEPT ![e] = [day |-> day, sent |-> row.sent, deleted |-> FALSE]]
        /\ slipped' = IF exam[e].sent /\ ~row.sent THEN slipped \cup {e} ELSE slipped
        /\ moved' = IF day # exam[e].day /\ (row.sent \/ UnderWay(e)) THEN moved \cup {e} ELSE moved
        /\ edit' = [edit EXCEPT ![w] = None]
        /\ UNCHANGED <<announce, sweep, reminded, tried>> /\ examFrame

DeleteExam(e) ==
    /\ LiveExam(e) /\ exam' = [exam EXCEPT ![e].deleted = TRUE]
    /\ UNCHANGED <<announce, sweep, edit, reminded, tried, slipped, moved>> /\ examFrame

-----------------------------------------------------------------------------
(* ExamReminderScheduler *)

\* Mutant: a look at the date alone.
Again(e) == LiveExam(e) /\ exam[e].day = now + 1
Due(e) == LiveExam(e) /\ exam[e].day = now + 1 /\ ~exam[e].sent

tickExams(p) ==
    /\ sweep[p] = None /\ \E e \in Exams : Due(e)
    /\ sweep' = [sweep EXCEPT ![p] = [todo |-> {e \in Exams : Due(e)}, day |-> now + 1, pushed |-> None]]
    /\ slipped' = slipped \cup {e \in Exams : Due(e) /\ UnderWay(e)}
    /\ UNCHANGED <<exam, announce, edit, reminded, tried, moved>> /\ examFrame

\* A push can fail, and the exam is marked all the same.
remind(p, e, sent) ==
    LET d == sweep[p].day
    IN  /\ sweep[p] # None /\ e \in sweep[p].todo /\ sweep[p].pushed = None
        /\ sweep' = [sweep EXCEPT ![p].todo = @ \ {e}, ![p].pushed = e]
        /\ tried' = [tried EXCEPT ![e] = @ \cup {d}]
        /\ reminded' = IF sent THEN [reminded EXCEPT ![e][d] = @ + 1] ELSE reminded
        /\ UNCHANGED <<exam, announce, edit, slipped, moved>> /\ examFrame

Rest(p) == IF sweep[p].todo = {} THEN None ELSE [sweep[p] EXCEPT !.pushed = None]
markReminded(p, failed) ==
    LET e == sweep[p].pushed
    IN  /\ sweep[p] # None /\ e # None
        /\ exam' = IF failed \/ exam[e].deleted THEN exam ELSE [exam EXCEPT ![e].sent = TRUE]
        /\ slipped' = IF failed \/ exam[e].deleted THEN slipped \cup {e} ELSE slipped
        /\ sweep' = [sweep EXCEPT ![p] = Rest(p)]
        /\ UNCHANGED <<announce, edit, reminded, tried, moved>> /\ examFrame

-----------------------------------------------------------------------------
(* Career reminders *)

CreateMyReminder(r, at) ==
    /\ reminder[r] = None /\ at > now
    /\ reminder' = [reminder EXCEPT ![r] = [at |-> at, status |-> "pending"]]
    /\ UNCHANGED <<claim, delivered, stranded>> /\ careerFrame

\* The statement cancels a reminder that is still pending and no other.
CancelMyReminder(r) ==
    /\ reminder[r] # None /\ reminder[r].status = "pending"
    /\ reminder' = [reminder EXCEPT ![r].status = "cancelled"]
    /\ UNCHANGED <<claim, delivered, stranded>> /\ careerFrame

\* Mutant: a claimed reminder that was not sent is claimed again.
Unsent(r) == reminder[r].status \in {"pending", "claimed"}
Claimable(r) == reminder[r].status = "pending"
DueReminders == {r \in Reminders : reminder[r] # None /\ Claimable(r) /\ reminder[r].at <= now}
Earliest(batch) == \A r \in batch, s \in DueReminders \ batch : reminder[r].at <= reminder[s].at

ClaimDueReminders(p) ==
    /\ claim[p] = None
    /\ \E batch \in SUBSET DueReminders :
        /\ batch # {} /\ Earliest(batch)
        /\ Cardinality(batch) = BatchSize \/ (batch = DueReminders /\ Cardinality(batch) < BatchSize)
        /\ reminder' = [r \in Reminders |-> IF r \in batch THEN [reminder[r] EXCEPT !.status = "claimed"] ELSE reminder[r]]
        /\ claim' = [claim EXCEPT ![p] = [todo |-> batch, pushed |-> None]]
    /\ UNCHANGED <<delivered, stranded>> /\ careerFrame

Left(p) == IF claim[p].todo = {} THEN None ELSE [claim[p] EXCEPT !.pushed = None]
\* A delivery that fails leaves the reminder claimed: the pass goes on.
deliver(p, r) ==
    /\ claim[p] # None /\ r \in claim[p].todo /\ claim[p].pushed = None
    /\ claim' = [claim EXCEPT ![p].todo = @ \ {r}, ![p].pushed = r]
    /\ delivered' = [delivered EXCEPT ![r] = @ + 1]
    /\ UNCHANGED <<reminder, stranded>> /\ careerFrame

deliverFails(p, r) ==
    /\ claim[p] # None /\ r \in claim[p].todo /\ claim[p].pushed = None
    /\ claim' = [claim EXCEPT ![p] = IF claim[p].todo = {r} THEN None ELSE [claim[p] EXCEPT !.todo = @ \ {r}]]
    /\ stranded' = stranded \cup {r}
    /\ UNCHANGED <<reminder, delivered>> /\ careerFrame

MarkReminderSent(p, failed) ==
    LET r == claim[p].pushed
    IN  /\ claim[p] # None /\ r # None
        /\ reminder' = IF failed THEN reminder ELSE [reminder EXCEPT ![r].status = "sent"]
        /\ stranded' = IF failed THEN stranded \cup {r} ELSE stranded
        /\ claim' = [claim EXCEPT ![p] = Left(p)]
        /\ UNCHANGED delivered /\ careerFrame

-----------------------------------------------------------------------------

NextDay ==
    /\ now < Horizon /\ now' = now + 1
    /\ UNCHANGED <<exam, announce, sweep, edit, reminder, claim, reminded, tried, delivered, slipped, moved, stranded>>

\* A process stops: its passes, and the pushes of its goroutines, are gone.
Crash(p) ==
    LET lost == IF claim[p] = None THEN {} ELSE claim[p].todo \cup ({claim[p].pushed} \ {None})
    IN  /\ sweep[p] # None \/ claim[p] # None \/ announce # {}
        /\ slipped' = IF sweep[p] # None THEN slipped \cup ({sweep[p].pushed} \ {None}) ELSE slipped
        /\ stranded' = stranded \cup lost
        /\ sweep' = [sweep EXCEPT ![p] = None] /\ claim' = [claim EXCEPT ![p] = None]
        /\ announce' \in SUBSET announce
        /\ UNCHANGED <<now, exam, edit, reminder, reminded, tried, delivered, moved>>

ExamStep ==
    \/ \E e \in Exams : notifyNewExam(e) \/ DeleteExam(e) \/ \E d \in Days : CreateExam(e, d)
    \/ \E w \in Requests : (\E e \in Exams : ReadExam(w, e)) \/ \E d \in Days : UpdateExam(w, d)
SweepStep ==
    \E p \in Processes :
        \/ tickExams(p)
        \/ \E e \in Exams, sent \in BOOLEAN : remind(p, e, sent)
        \/ \E failed \in BOOLEAN : markReminded(p, failed)
CareerStep ==
    \/ \E r \in Reminders : CancelMyReminder(r) \/ \E at \in Days : CreateMyReminder(r, at)
    \/ \E p \in Processes :
        \/ ClaimDueReminders(p)
        \/ \E r \in Reminders : deliver(p, r) \/ deliverFails(p, r)
        \/ \E failed \in BOOLEAN : MarkReminderSent(p, failed)

ReminderNext == NextDay \/ ExamStep \/ SweepStep \/ CareerStep \/ \E p \in Processes : Crash(p)
ReminderSpec == ReminderInit /\ [][ReminderNext]_reminderVars

-----------------------------------------------------------------------------
(* Properties *)

\* An exam's students are reminded of a day at most once, except after a push
\* that was not marked, an edit that lost the mark, or two passes at once; and
\* an exam that counts as reminded has been tried for the day it is on, unless
\* it was moved after the reminder was due or an edit lost the mark.
ExamsAgree ==
    \A e \in Exams : exam[e] # None =>
        /\ e \notin slipped => \A d \in Days : reminded[e][d] <= 1
        /\ exam[e].sent /\ e \notin moved \cup slipped => exam[e].day \in tried[e]

\* A reminder is pushed at most once, whatever fails and however many
\* processes poll; never once cancelled; and one that stays claimed is held by
\* a pass or was stranded by one.
CareerAgrees ==
    \A r \in Reminders : reminder[r] # None =>
        /\ delivered[r] <= 1
        /\ reminder[r].status \in {"pending", "cancelled"} => delivered[r] = 0
        /\ reminder[r].status = "sent" => delivered[r] = 1
        /\ reminder[r].status = "claimed" =>
            r \in stranded \/ \E p \in Processes : claim[p] # None /\ r \in claim[p].todo \cup {claim[p].pushed}

RemindersAgree == ExamsAgree /\ CareerAgrees

\* "ReminderSentAt marks the one-day-before push as delivered, so
\* ExamReminderScheduler's hourly sweep never sends it twice."
NeverTwice == \A e \in Exams, d \in Days : reminded[e][d] <= 1
=============================================================================
