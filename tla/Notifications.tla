---------------------------- MODULE Notifications ----------------------------
(***************************************************************************)
(* Notifications: content rows, the row each recipient has, the sockets    *)
(* and pushes that announce them (notification_handler.go,                 *)
(* notification_service.go, notification_preference.go,                    *)
(* notification_hub.go, notification_ws.go, main.go).                      *)
(*                                                                         *)
(* A send answers at once and leaves a goroutine that writes the rows and  *)
(* one that pushes.  Which devices follow a topic is module Devices.       *)
(***************************************************************************)
EXTENDS Naturals, FiniteSets

CONSTANTS
    Users,
    Notifications,  \* bound: sends
    Batches,
    DepartmentOf,   \* the department of a batch
    Clients,        \* sockets, each used once
    None

VARIABLES
    student,        \* batch of the student record a user has claimed
    muted,          \* users who muted the category of the reminders
    notification,   \* content rows: whether they are past the retention period
    recipient,      \* rows of the recipients
    sending,        \* the goroutine that persists a send
    pushing,        \* the goroutine that pushes it, and to whom
    client,         \* the notification hub
    cleanup,        \* the retention job between its two statements
    spared,         \* history: who had muted a send when it was made
    dropped         \* history: rows that were deleted

notificationVars == <<student, muted, notification, recipient, sending, pushing, client, cleanup, spared, dropped>>

Departments == {DepartmentOf[b] : b \in Batches}
Targets == [kind : {"user"}, user : Users] \cup [kind : {"batch"}, id : Batches]
            \cup [kind : {"department"}, id : Departments] \cup [kind : {"university"}]
Scopes == {"user", "place", "custom", "reminder"}
Idle == [step |-> "idle"]

NotificationTypeOK ==
    /\ student \in [Users -> Batches \cup {None}]
    /\ muted \subseteq Users
    /\ notification \in [Notifications -> {None, "new", "old"}]
    /\ recipient \in [Notifications -> [Users -> {"none", "unread", "read"}]]
    /\ sending \in [Notifications -> [step : {"idle", "done"}] \cup [step : {"persist", "notify"}, to : SUBSET Users]]
    /\ pushing \in [Notifications -> [step : {"idle"}] \cup [step : {"topics", "tokens", "done"}, to : SUBSET Users]]
    /\ client \in [Clients -> [user : Users, on : BOOLEAN, told : SUBSET Notifications] \cup {None}]
    /\ cleanup \in BOOLEAN
    /\ spared \subseteq Notifications \X Users /\ dropped \subseteq Notifications \X Users

NotificationInit ==
    /\ student \in [Users -> Batches \cup {None}]
    /\ muted = {}
    /\ notification = [n \in Notifications |-> None]
    /\ recipient = [n \in Notifications |-> [u \in Users |-> "none"]]
    /\ sending = [n \in Notifications |-> Idle]
    /\ pushing = [n \in Notifications |-> Idle]
    /\ client = [k \in Clients |-> None]
    /\ cleanup = FALSE
    /\ spared = {} /\ dropped = {}

-----------------------------------------------------------------------------
(* Who a send is for *)

\* The rows of students that meet a target.
Meets(u, t) ==
    CASE t.kind = "user" -> u = t.user
      [] t.kind = "batch" -> student[u] = t.id
      [] t.kind = "department" -> student[u] # None /\ DepartmentOf[student[u]] = t.id
      [] t.kind = "university" -> student[u] # None
resolveRecipients(targets) == {u \in Users : \E t \in targets : Meets(u, t)}

\* Topics reach the devices that follow them, whoever holds those now: the
\* students of the place, and for every user the topic "all".
broadcastTopics(targets) == IF \E t \in targets : t.kind = "user" THEN {} ELSE targets
Followers(topics) == {u \in Users : \E t \in topics : t.kind = "university" \/ Meets(u, t)}

FilterMutedRecipients(users, emergency) == IF emergency THEN users ELSE users \ muted

-----------------------------------------------------------------------------
(* Sending *)

\* SendToUsers and SendToUsersViaTopics leave the two goroutines.
Queue(n, to, push) ==
    /\ sending[n] = Idle /\ to # {}
    /\ sending' = [sending EXCEPT ![n] = [step |-> "persist", to |-> to]]
    /\ pushing' = [pushing EXCEPT ![n] = push]

SendToUsersViaTopics(n, targets) ==
    /\ broadcastTopics(targets) # {}
    /\ Queue(n, resolveRecipients(targets), [step |-> "topics", to |-> Followers(broadcastTopics(targets))])
    /\ UNCHANGED <<student, muted, notification, recipient, client, cleanup, spared, dropped>>

\* A message to one user is not muted.
CreateForUser(n, u) ==
    /\ Queue(n, resolveRecipients({[kind |-> "user", user |-> u]}), [step |-> "tokens", to |-> {u}])
    /\ UNCHANGED <<student, muted, notification, recipient, client, cleanup, spared, dropped>>

\* The reminders and status messages of the other parts.
SendToUsers(n, users, emergency) ==
    LET to == FilterMutedRecipients(users, emergency)
    IN  /\ Queue(n, to, [step |-> "tokens", to |-> to])
        /\ spared' = spared \cup IF emergency THEN {} ELSE {n} \X muted
        /\ UNCHANGED <<student, muted, notification, recipient, client, cleanup, dropped>>

Persist(n) ==
    /\ sending[n].step = "persist"
    /\ notification' = [notification EXCEPT ![n] = "new"]
    /\ recipient' = [recipient EXCEPT ![n] = [u \in Users |-> IF u \in sending[n].to THEN "unread" ELSE "none"]]
    /\ sending' = [sending EXCEPT ![n].step = "notify"]
    /\ UNCHANGED <<student, muted, pushing, client, cleanup, spared, dropped>>

\* The transaction fails: the failure is logged and nobody is told.
PersistFails(n) ==
    /\ sending[n].step = "persist"
    /\ sending' = [sending EXCEPT ![n] = [step |-> "done"]]
    /\ UNCHANGED <<student, muted, notification, recipient, pushing, client, cleanup, spared, dropped>>

\* Mutant: the client of every recipient is told before the rows are written.
Early(n) == {u \in Users : sending[n].step \in {"persist", "notify"} /\ u \in sending[n].to}
\* Whom the callback of the commit has yet to tell.
ToTell(n) == IF sending[n].step = "notify" THEN sending[n].to ELSE {}

\* One recipient after the other, each on all of its clients.
SendToUser(n, u) ==
    /\ u \in ToTell(n)
    /\ client' = [k \in Clients |-> IF client[k] # None /\ client[k].on /\ client[k].user = u
                                    THEN [client[k] EXCEPT !.told = @ \cup {n}] ELSE client[k]]
    /\ sending' = [sending EXCEPT ![n] = IF @.to = {u} THEN [step |-> "done"] ELSE [step |-> "notify", to |-> @.to \ {u}]]
    /\ UNCHANGED <<student, muted, notification, recipient, pushing, cleanup, spared, dropped>>

\* It reads the devices, or publishes, whether or not the rows are written.
Push(n) ==
    /\ pushing[n].step \in {"topics", "tokens"}
    /\ pushing' = [pushing EXCEPT ![n].step = "done"]
    /\ UNCHANGED <<student, muted, notification, recipient, sending, client, cleanup, spared, dropped>>

-----------------------------------------------------------------------------
(* The inbox *)

Inbox(u) == {n \in Notifications : recipient[n][u] # "none"}
GetNotifications(u) == {n \in Inbox(u) : notification[n] # None}
RecipientCount(n) == Cardinality({u \in Users : recipient[n][u] # "none"})
ReadCount(n) == Cardinality({u \in Users : recipient[n][u] = "read"})

MarkAsRead(n, u) ==
    /\ recipient[n][u] = "unread"
    /\ recipient' = [recipient EXCEPT ![n][u] = "read"]
    /\ UNCHANGED <<student, muted, notification, sending, pushing, client, cleanup, spared, dropped>>

MarkAllAsRead(u) ==
    /\ \E n \in Notifications : recipient[n][u] = "unread"
    /\ recipient' = [n \in Notifications |-> [recipient[n] EXCEPT ![u] = IF @ = "unread" THEN "read" ELSE @]]
    /\ UNCHANGED <<student, muted, notification, sending, pushing, client, cleanup, spared, dropped>>

Rows(S) == {p \in Notifications \X Users : p[1] \in S /\ recipient[p[1]][p[2]] # "none"}

DeleteNotification(n, u) ==
    /\ recipient[n][u] # "none"
    /\ recipient' = [recipient EXCEPT ![n][u] = "none"]
    /\ dropped' = dropped \cup {<<n, u>>}
    /\ UNCHANGED <<student, muted, notification, sending, pushing, client, cleanup, spared>>

DeleteAdminNotification(n) ==
    /\ notification[n] # None
    /\ notification' = [notification EXCEPT ![n] = None]
    /\ recipient' = [recipient EXCEPT ![n] = [u \in Users |-> "none"]]
    /\ dropped' = dropped \cup Rows({n})
    /\ UNCHANGED <<student, muted, sending, pushing, client, cleanup, spared>>

-----------------------------------------------------------------------------
(* Retention *)

Age(n) ==
    /\ notification[n] = "new" /\ sending[n].step = "done"
    /\ notification' = [notification EXCEPT ![n] = "old"]
    /\ UNCHANGED <<student, muted, recipient, sending, pushing, client, cleanup, spared, dropped>>

Old == {n \in Notifications : notification[n] = "old"}

DeleteOldRecipients ==
    /\ ~cleanup /\ Old # {}
    /\ \/ /\ recipient' = [n \in Notifications |-> IF n \in Old THEN [u \in Users |-> "none"] ELSE recipient[n]]
          /\ dropped' = dropped \cup Rows(Old)
       \/ UNCHANGED <<recipient, dropped>>   \* the statement fails
    /\ cleanup' = TRUE
    /\ UNCHANGED <<student, muted, notification, sending, pushing, client, spared>>

\* Content rows that are old enough and have no recipients left.
Left == {n \in Old : RecipientCount(n) = 0}

DeleteOldContents ==
    /\ cleanup
    /\ notification' = [n \in Notifications |-> IF n \in Left THEN None ELSE notification[n]]
    /\ cleanup' = FALSE
    /\ UNCHANGED <<student, muted, recipient, sending, pushing, client, spared, dropped>>

-----------------------------------------------------------------------------
(* Users, sockets, the process *)

UpdatePreference(u) ==
    /\ muted' = IF u \in muted THEN muted \ {u} ELSE muted \cup {u}
    /\ UNCHANGED <<student, notification, recipient, sending, pushing, client, cleanup, spared, dropped>>

Move(u, b) ==
    /\ student[u] # b
    /\ student' = [student EXCEPT ![u] = b]
    /\ UNCHANGED <<muted, notification, recipient, sending, pushing, client, cleanup, spared, dropped>>

Register(k, u) ==
    /\ client[k] = None
    /\ client' = [client EXCEPT ![k] = [user |-> u, on |-> TRUE, told |-> {}]]
    /\ UNCHANGED <<student, muted, notification, recipient, sending, pushing, cleanup, spared, dropped>>

Unregister(k) ==
    /\ client[k] # None /\ client[k].on
    /\ client' = [client EXCEPT ![k].on = FALSE]
    /\ UNCHANGED <<student, muted, notification, recipient, sending, pushing, cleanup, spared, dropped>>

\* The goroutines end with the process: what was not persisted is lost.
Crash ==
    /\ \E n \in Notifications : sending[n].step \in {"persist", "notify"}
    /\ sending' = [n \in Notifications |-> IF sending[n] = Idle THEN Idle ELSE [step |-> "done"]]
    /\ pushing' = [n \in Notifications |-> IF pushing[n] = Idle THEN Idle ELSE [pushing[n] EXCEPT !.step = "done"]]
    /\ client' = [k \in Clients |-> IF client[k] = None THEN None ELSE [client[k] EXCEPT !.on = FALSE]]
    /\ cleanup' = FALSE
    /\ UNCHANGED <<student, muted, notification, recipient, spared, dropped>>

NotificationNext ==
    \/ \E n \in Notifications :
          \/ \E S \in SUBSET Targets : Cardinality(S) \in 1..2 /\ SendToUsersViaTopics(n, S)
          \/ \E u \in Users : CreateForUser(n, u) \/ SendToUser(n, u) \/ MarkAsRead(n, u) \/ DeleteNotification(n, u)
          \/ \E S \in SUBSET Users, emergency \in BOOLEAN : SendToUsers(n, S, emergency)
          \/ Persist(n) \/ PersistFails(n) \/ Push(n) \/ DeleteAdminNotification(n) \/ Age(n)
    \/ \E u \in Users : MarkAllAsRead(u) \/ UpdatePreference(u)
    \/ \E u \in Users, b \in Batches \cup {None} : Move(u, b)
    \/ \E k \in Clients : Unregister(k) \/ \E u \in Users : Register(k, u)
    \/ DeleteOldRecipients \/ DeleteOldContents \/ Crash

NotificationSpec == NotificationInit /\ [][NotificationNext]_notificationVars

-----------------------------------------------------------------------------
(* Properties *)

(* "Waiting for the commit ... is what keeps that guarantee even though       *)
(* persistence itself is now async" (notification_handler.go:242): a client   *)
(* is told of a notification only with a row to mark or to delete, its own    *)
(* and still there unless somebody deleted it since.  The count of an inbox   *)
(* is the count of what it lists, and nobody who had muted a send has it.     *)
InboxesAgree ==
    /\ \A k \in Clients : client[k] # None =>
        \A n \in client[k].told : n \in Inbox(client[k].user) \/ <<n, client[k].user>> \in dropped
    /\ \A u \in Users : GetNotifications(u) = Inbox(u)
    /\ \A n \in Notifications : ReadCount(n) <= RecipientCount(n)
    /\ \A p \in spared : recipient[p[1]][p[2]] = "none" /\ ~(pushing[p[1]].step # "idle" /\ p[2] \in pushing[p[1]].to)
=============================================================================
