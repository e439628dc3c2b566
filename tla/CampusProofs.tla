---------------------------- MODULE CampusProofs ----------------------------
(***************************************************************************)
(* Proofs about the modules that share no state with each other: the       *)
(* inboxes, clubs, profiles, threads, reminders and class dates, each an   *)
(* instance with a name of its own and each theorem about its own          *)
(* specification.  A variable or a constant that two of them have is that  *)
(* of the instance a lemma names.                                          *)
(***************************************************************************)
EXTENDS Integers, Sequences, FiniteSets, FiniteSetTheorems, TLAPS

CONSTANTS
    Users, None,                                        \* of every module
    Batches, DepartmentOf,                              \* of Notifications and StudentProfiles
    Notifications, Clients,
    Requests, MaxEvents,                                \* of Clubs
    Profiles, Applications, Codes, Rolls, Workers, KindOf, Rows, Accounts,
    Comments, Gone,                                     \* of Community
    Processes, Exams, Reminders, BatchSize, Horizon,    \* of Reminders
    Dates, Notices                                      \* of ClassSchedule

VARIABLES
    muted,                                              \* of Notifications and Clubs
    student, notification, recipient, sending,          \* of Notifications
    pushing, client, cleanup, spared, dropped,
    kind,                                               \* of Clubs and Community
    org, follows, member, manager, events, decided, drift, \* of Clubs
    job,                                                \* of Clubs, Community and ClassSchedule
    user, profile, application, worker,                 \* of StudentProfiles
    doubled, strays,
    overwritten,                                        \* of StudentProfiles and Community
    row, likers, readers, comment, commentLikers, spurious, \* of Community
    now, exam, announce, sweep, edit, reminder, claim,  \* of Reminders
    reminded, tried, delivered, slipped, moved, stranded,
    moderates, slot, status, notice, answered,          \* of ClassSchedule
    refused, expired, revived

Inbox == INSTANCE Notifications
Club == INSTANCE Clubs
Claims == INSTANCE StudentProfiles
Thread == INSTANCE Community
Timer == INSTANCE Reminders
Week == INSTANCE ClassSchedule

-----------------------------------------------------------------------------
(* Inboxes *)

(* The type of the inboxes, which the invariant below needs.                  *)
NoticeConstants == IsFiniteSet(Users) /\ None \notin {"new", "old"}

(* A send in progress holds either the people it is for or nothing.           *)
LEMMA SendingTyped ==
    ASSUME Inbox!NotificationTypeOK, NEW n \in Notifications
    PROVE  /\ sending[n].step \in {"idle", "done", "persist", "notify"}
           /\ sending[n].step = "idle" <=> sending[n] = Inbox!Idle
           /\ sending[n].step \in {"persist", "notify"} =>
                 /\ sending[n] \in [step : {"persist", "notify"}, to : SUBSET Users]
                 /\ sending[n].to \subseteq Users
BY DEF Inbox!NotificationTypeOK, Inbox!Idle

LEMMA PushingTyped ==
    ASSUME Inbox!NotificationTypeOK, NEW n \in Notifications
    PROVE  /\ pushing[n].step \in {"idle", "done", "topics", "tokens"}
           /\ pushing[n].step = "idle" <=> pushing[n] = Inbox!Idle
           /\ pushing[n].step # "idle" =>
                 /\ pushing[n] \in [step : {"topics", "tokens", "done"}, to : SUBSET Users]
                 /\ pushing[n].to \subseteq Users
BY DEF Inbox!NotificationTypeOK, Inbox!Idle

LEMMA NoticesTypedInitially == Inbox!NotificationInit => Inbox!NotificationTypeOK
<1> SUFFICES ASSUME Inbox!NotificationInit PROVE Inbox!NotificationTypeOK
    OBVIOUS
<1> USE DEF Inbox!NotificationInit, Inbox!Idle
<1>1. student \in [Users -> Batches \cup {None}] /\ muted \subseteq Users
    OBVIOUS
<1>2. notification \in [Notifications -> {None, "new", "old"}]
    OBVIOUS
<1>3. recipient \in [Notifications -> [Users -> {"none", "unread", "read"}]]
    OBVIOUS
<1>4. sending \in [Notifications -> [step : {"idle", "done"}] \cup [step : {"persist", "notify"}, to : SUBSET Users]]
    OBVIOUS
<1>5. pushing \in [Notifications -> [step : {"idle"}] \cup [step : {"topics", "tokens", "done"}, to : SUBSET Users]]
    OBVIOUS
<1>6. client \in [Clients -> [user : Users, on : BOOLEAN, told : SUBSET Notifications] \cup {None}]
    OBVIOUS
<1>7. cleanup \in BOOLEAN /\ spared \subseteq Notifications \X Users /\ dropped \subseteq Notifications \X Users
    OBVIOUS
<1> QED BY <1>1, <1>2, <1>3, <1>4, <1>5, <1>6, <1>7 DEF Inbox!NotificationTypeOK

LEMMA QueueTyped ==
    ASSUME Inbox!NotificationTypeOK, NEW n \in Notifications, NEW to \in SUBSET Users,
           NEW push \in [step : {"topics", "tokens"}, to : SUBSET Users], Inbox!Queue(n, to, push),
           NEW S \in SUBSET (Notifications \X Users), spared' = spared \cup S,
           UNCHANGED <<student, muted, notification, recipient, client, cleanup, dropped>>
    PROVE  Inbox!NotificationTypeOK'
BY DEF Inbox!NotificationTypeOK, Inbox!Queue

LEMMA PersistTyped ==
    ASSUME Inbox!NotificationTypeOK, NEW n \in Notifications,
           Inbox!Persist(n) \/ Inbox!PersistFails(n)
    PROVE  Inbox!NotificationTypeOK'
<1>1. CASE Inbox!Persist(n)
    <2>1. [sending[n] EXCEPT !.step = "notify"] \in [step : {"persist", "notify"}, to : SUBSET Users]
        BY <1>1, SendingTyped DEF Inbox!Persist
    <2> QED BY <1>1, <2>1 DEF Inbox!NotificationTypeOK, Inbox!Persist
<1>2. CASE Inbox!PersistFails(n)
    BY <1>2 DEF Inbox!NotificationTypeOK, Inbox!PersistFails
<1> QED BY <1>1, <1>2

LEMMA SendToUserTyped ==
    ASSUME Inbox!NotificationTypeOK, NEW n \in Notifications, NEW u \in Users, Inbox!SendToUser(n, u)
    PROVE  Inbox!NotificationTypeOK'
<1>1. sending[n].step = "notify" /\ sending[n] \in [step : {"persist", "notify"}, to : SUBSET Users]
    BY SendingTyped DEF Inbox!SendToUser, Inbox!ToTell
<1>2. [step |-> "notify", to |-> sending[n].to \ {u}] \in [step : {"persist", "notify"}, to : SUBSET Users]
    BY <1>1
<1>3. sending' \in [Notifications -> [step : {"idle", "done"}] \cup [step : {"persist", "notify"}, to : SUBSET Users]]
    BY <1>2 DEF Inbox!NotificationTypeOK, Inbox!SendToUser
<1>4. ASSUME NEW k \in Clients, client[k] # None
      PROVE  [client[k] EXCEPT !.told = @ \cup {n}] \in [user : Users, on : BOOLEAN, told : SUBSET Notifications]
    BY <1>4 DEF Inbox!NotificationTypeOK
<1>5. client' \in [Clients -> [user : Users, on : BOOLEAN, told : SUBSET Notifications] \cup {None}]
    BY <1>4 DEF Inbox!NotificationTypeOK, Inbox!SendToUser
<1> QED BY <1>3, <1>5 DEF Inbox!NotificationTypeOK, Inbox!SendToUser

LEMMA PushTyped ==
    ASSUME Inbox!NotificationTypeOK, NEW n \in Notifications, Inbox!Push(n)
    PROVE  Inbox!NotificationTypeOK'
<1>1. [pushing[n] EXCEPT !.step = "done"] \in [step : {"topics", "tokens", "done"}, to : SUBSET Users]
    BY PushingTyped DEF Inbox!Push
<1> QED BY <1>1 DEF Inbox!NotificationTypeOK, Inbox!Push

LEMMA RowsAreRows ==
    ASSUME NEW S \in SUBSET Notifications
    PROVE  Inbox!Rows(S) \subseteq Notifications \X Users
BY DEF Inbox!Rows

LEMMA InboxTyped ==
    ASSUME Inbox!NotificationTypeOK,
           \/ \E n \in Notifications, u \in Users : Inbox!MarkAsRead(n, u) \/ Inbox!DeleteNotification(n, u)
           \/ \E u \in Users : Inbox!MarkAllAsRead(u)
           \/ \E n \in Notifications : Inbox!DeleteAdminNotification(n)
    PROVE  Inbox!NotificationTypeOK'
<1>1. ASSUME NEW n \in Notifications, NEW u \in Users, Inbox!MarkAsRead(n, u)
      PROVE  Inbox!NotificationTypeOK'
    BY <1>1 DEF Inbox!NotificationTypeOK, Inbox!MarkAsRead
<1>2. ASSUME NEW u \in Users, Inbox!MarkAllAsRead(u)
      PROVE  Inbox!NotificationTypeOK'
    <2>1. ASSUME NEW m \in Notifications
          PROVE  [recipient[m] EXCEPT ![u] = IF @ = "unread" THEN "read" ELSE @] \in [Users -> {"none", "unread", "read"}]
        BY DEF Inbox!NotificationTypeOK
    <2> QED BY <1>2, <2>1 DEF Inbox!NotificationTypeOK, Inbox!MarkAllAsRead
<1>3. ASSUME NEW n \in Notifications, NEW u \in Users, Inbox!DeleteNotification(n, u)
      PROVE  Inbox!NotificationTypeOK'
    BY <1>3 DEF Inbox!NotificationTypeOK, Inbox!DeleteNotification
<1>4. ASSUME NEW n \in Notifications, Inbox!DeleteAdminNotification(n)
      PROVE  Inbox!NotificationTypeOK'
    <2>1. Inbox!Rows({n}) \subseteq Notifications \X Users
        BY RowsAreRows
    <2> QED BY <1>4, <2>1 DEF Inbox!NotificationTypeOK, Inbox!DeleteAdminNotification
<1> QED BY <1>1, <1>2, <1>3, <1>4

LEMMA RetentionTyped ==
    ASSUME Inbox!NotificationTypeOK,
           (\E n \in Notifications : Inbox!Age(n)) \/ Inbox!DeleteOldRecipients \/ Inbox!DeleteOldContents
    PROVE  Inbox!NotificationTypeOK'
<1>1. ASSUME NEW n \in Notifications, Inbox!Age(n)
      PROVE  Inbox!NotificationTypeOK'
    BY <1>1 DEF Inbox!NotificationTypeOK, Inbox!Age
<1>2. CASE Inbox!DeleteOldRecipients
    <2>1. Inbox!Rows(Inbox!Old) \subseteq Notifications \X Users
        BY RowsAreRows DEF Inbox!Old
    <2> QED BY <1>2, <2>1 DEF Inbox!NotificationTypeOK, Inbox!DeleteOldRecipients
<1>3. CASE Inbox!DeleteOldContents
    BY <1>3 DEF Inbox!NotificationTypeOK, Inbox!DeleteOldContents
<1> QED BY <1>1, <1>2, <1>3

LEMMA PeopleTyped ==
    ASSUME Inbox!NotificationTypeOK, NEW u \in Users,
           \/ Inbox!UpdatePreference(u)
           \/ \E b \in Batches \cup {None} : Inbox!Move(u, b)
           \/ \E k \in Clients : Inbox!Register(k, u)
    PROVE  Inbox!NotificationTypeOK'
<1>1. CASE Inbox!UpdatePreference(u)
    BY <1>1 DEF Inbox!NotificationTypeOK, Inbox!UpdatePreference
<1>2. ASSUME NEW b \in Batches \cup {None}, Inbox!Move(u, b)
      PROVE  Inbox!NotificationTypeOK'
    BY <1>2 DEF Inbox!NotificationTypeOK, Inbox!Move
<1>3. ASSUME NEW k \in Clients, Inbox!Register(k, u)
      PROVE  Inbox!NotificationTypeOK'
    BY <1>3 DEF Inbox!NotificationTypeOK, Inbox!Register
<1> QED BY <1>1, <1>2, <1>3

LEMMA UnregisterTyped ==
    ASSUME Inbox!NotificationTypeOK, NEW k \in Clients, Inbox!Unregister(k)
    PROVE  Inbox!NotificationTypeOK'
<1>1. [client[k] EXCEPT !.on = FALSE] \in [user : Users, on : BOOLEAN, told : SUBSET Notifications]
    BY DEF Inbox!NotificationTypeOK, Inbox!Unregister
<1> QED BY <1>1 DEF Inbox!NotificationTypeOK, Inbox!Unregister

LEMMA CrashTyped ==
    ASSUME Inbox!NotificationTypeOK, Inbox!Crash
    PROVE  Inbox!NotificationTypeOK'
<1>1. sending' \in [Notifications -> [step : {"idle", "done"}] \cup [step : {"persist", "notify"}, to : SUBSET Users]]
    BY DEF Inbox!Crash, Inbox!Idle
<1>2. ASSUME NEW n \in Notifications, pushing[n] # Inbox!Idle
      PROVE  [pushing[n] EXCEPT !.step = "done"] \in [step : {"topics", "tokens", "done"}, to : SUBSET Users]
    BY <1>2, PushingTyped
<1>3. pushing' \in [Notifications -> [step : {"idle"}] \cup [step : {"topics", "tokens", "done"}, to : SUBSET Users]]
    BY <1>2 DEF Inbox!Crash, Inbox!Idle
<1>4. ASSUME NEW k \in Clients, client[k] # None
      PROVE  [client[k] EXCEPT !.on = FALSE] \in [user : Users, on : BOOLEAN, told : SUBSET Notifications]
    BY <1>4 DEF Inbox!NotificationTypeOK
<1>5. client' \in [Clients -> [user : Users, on : BOOLEAN, told : SUBSET Notifications] \cup {None}]
    BY <1>4 DEF Inbox!Crash
<1> QED BY <1>1, <1>3, <1>5 DEF Inbox!NotificationTypeOK, Inbox!Crash

LEMMA NoticesTyped ==
    ASSUME Inbox!NotificationTypeOK, [Inbox!NotificationNext]_Inbox!notificationVars
    PROVE  Inbox!NotificationTypeOK'
<1>1. ASSUME NEW n \in Notifications, NEW S \in SUBSET Inbox!Targets, Inbox!SendToUsersViaTopics(n, S)
      PROVE  Inbox!NotificationTypeOK'
    <2>1. Inbox!resolveRecipients(S) \subseteq Users /\ Inbox!Followers(Inbox!broadcastTopics(S)) \subseteq Users
        BY DEF Inbox!resolveRecipients, Inbox!Followers
    <2> QED BY <1>1, <2>1, QueueTyped, spared' = spared \cup {} DEF Inbox!SendToUsersViaTopics
<1>2. ASSUME NEW n \in Notifications, NEW u \in Users, Inbox!CreateForUser(n, u)
      PROVE  Inbox!NotificationTypeOK'
    <2>1. Inbox!resolveRecipients({[kind |-> "user", user |-> u]}) \subseteq Users
        BY DEF Inbox!resolveRecipients
    <2> QED BY <1>2, <2>1, QueueTyped, spared' = spared \cup {} DEF Inbox!CreateForUser
<1>3. ASSUME NEW n \in Notifications, NEW S \in SUBSET Users, NEW emergency \in BOOLEAN,
             Inbox!SendToUsers(n, S, emergency)
      PROVE  Inbox!NotificationTypeOK'
    <2>1. Inbox!FilterMutedRecipients(S, emergency) \subseteq Users
        BY DEF Inbox!FilterMutedRecipients
    <2>2. (IF emergency THEN {} ELSE {n} \X muted) \in SUBSET (Notifications \X Users)
        BY DEF Inbox!NotificationTypeOK
    <2> QED BY <1>3, <2>1, <2>2, QueueTyped DEF Inbox!SendToUsers
<1>4. CASE UNCHANGED Inbox!notificationVars
    BY <1>4 DEF Inbox!NotificationTypeOK, Inbox!notificationVars
<1> QED BY <1>1, <1>2, <1>3, <1>4, PersistTyped, SendToUserTyped, PushTyped, InboxTyped, RetentionTyped,
           PeopleTyped, UnregisterTyped, CrashTyped DEF Inbox!NotificationNext

(* A notification a user was given: the row is there, or somebody deleted it. *)
Given(n, u) == recipient[n][u] # "none" \/ <<n, u>> \in dropped

Unwritten ==
    \A n \in Notifications : sending[n].step \in {"idle", "persist"} =>
        notification[n] = None /\ \A u \in Users : recipient[n][u] = "none"
RowsHaveContent ==
    \A n \in Notifications, u \in Users : recipient[n][u] # "none" => notification[n] # None
RecipientsHaveRows ==
    \A n \in Notifications : sending[n].step = "notify" => \A u \in sending[n].to : Given(n, u)
ToldHaveRows ==
    \A k \in Clients : client[k] # None => \A n \in client[k].told : Given(n, client[k].user)
SparedAreLeftOut ==
    \A n \in Notifications, u \in Users : <<n, u>> \in spared =>
        /\ sending[n].step # "idle" /\ (sending[n].step \in {"persist", "notify"} => u \notin sending[n].to)
        /\ pushing[n].step # "idle" /\ u \notin pushing[n].to
        /\ recipient[n][u] = "none"

NoticeParts == Unwritten /\ RowsHaveContent /\ RecipientsHaveRows /\ ToldHaveRows /\ SparedAreLeftOut
NoticeInv == Inbox!NotificationTypeOK /\ NoticeParts

(* Who was given a notification stays given it.                               *)
LEMMA TellingKept ==
    ASSUME NoticeInv, UNCHANGED client,
           \A n \in Notifications, u \in Users : Given(n, u) => Given(n, u)'
    PROVE  ToldHaveRows'
BY DEF NoticeInv, NoticeParts, ToldHaveRows, Inbox!NotificationTypeOK, Given

LEMMA QueueKeeps ==
    ASSUME NoticeConstants, NoticeInv, NEW n \in Notifications, NEW to \in SUBSET Users,
           NEW push \in [step : {"topics", "tokens"}, to : SUBSET Users], Inbox!Queue(n, to, push),
           NEW S \in SUBSET Users, S \cap to = {}, S \cap push.to = {}, spared' = spared \cup {n} \X S,
           UNCHANGED <<student, muted, notification, recipient, client, cleanup, dropped>>
    PROVE  NoticeParts'
<1> USE DEF NoticeInv, NoticeParts, Given
<1>1. sending[n].step = "idle" /\ sending'[n] = [step |-> "persist", to |-> to] /\ pushing'[n] = push
    BY DEF Inbox!Queue, Inbox!Idle, Inbox!NotificationTypeOK
<1>2. \A m \in Notifications : m # n => sending'[m] = sending[m] /\ pushing'[m] = pushing[m]
    BY DEF Inbox!Queue, Inbox!NotificationTypeOK
<1>3. Unwritten' /\ RowsHaveContent' /\ RecipientsHaveRows'
    BY <1>1, <1>2 DEF Unwritten, RowsHaveContent, RecipientsHaveRows
<1>4. ToldHaveRows'
    BY TellingKept
<1>5. SparedAreLeftOut'
    BY <1>1, <1>2 DEF Unwritten, SparedAreLeftOut
<1> QED BY <1>3, <1>4, <1>5

LEMMA PersistKeeps ==
    ASSUME NoticeConstants, NoticeInv, NEW n \in Notifications, Inbox!Persist(n)
    PROVE  NoticeParts'
<1> USE DEF NoticeInv, NoticeParts, Given
<1>1. sending[n].step = "persist" /\ sending'[n].step = "notify" /\ sending'[n].to = sending[n].to
    BY SendingTyped DEF Inbox!Persist, Inbox!NotificationTypeOK
<1>2. /\ \A m \in Notifications : m # n => sending'[m] = sending[m] /\ recipient'[m] = recipient[m]
                                           /\ notification'[m] = notification[m]
      /\ notification'[n] = "new"
      /\ \A u \in Users : recipient'[n][u] = IF u \in sending[n].to THEN "unread" ELSE "none"
    BY DEF Inbox!Persist, Inbox!NotificationTypeOK
<1>3. Unwritten' /\ RowsHaveContent'
    BY <1>1, <1>2 DEF Unwritten, RowsHaveContent, NoticeConstants
<1>4. RecipientsHaveRows'
    BY <1>1, <1>2, SendingTyped DEF RecipientsHaveRows, Inbox!Persist
<1>5. ToldHaveRows'
    BY <1>1, <1>2, TellingKept DEF Unwritten, Inbox!Persist
<1>6. SparedAreLeftOut'
    BY <1>1, <1>2 DEF SparedAreLeftOut, Inbox!Persist
<1> QED BY <1>3, <1>4, <1>5, <1>6

LEMMA PersistFailsKeeps ==
    ASSUME NoticeInv, NEW n \in Notifications, Inbox!PersistFails(n)
    PROVE  NoticeParts'
<1> USE DEF NoticeInv, NoticeParts, Given
<1>1. sending[n].step = "persist" /\ sending'[n].step = "done"
    BY DEF Inbox!PersistFails, Inbox!NotificationTypeOK
<1>2. \A m \in Notifications : m # n => sending'[m] = sending[m]
    BY DEF Inbox!PersistFails, Inbox!NotificationTypeOK
<1>3. Unwritten' /\ RowsHaveContent' /\ RecipientsHaveRows'
    BY <1>1, <1>2 DEF Unwritten, RowsHaveContent, RecipientsHaveRows, Inbox!PersistFails
<1>4. ToldHaveRows'
    BY TellingKept DEF Inbox!PersistFails
<1>5. SparedAreLeftOut'
    BY <1>1, <1>2 DEF SparedAreLeftOut, Inbox!PersistFails
<1> QED BY <1>3, <1>4, <1>5

LEMMA SendToUserKeeps ==
    ASSUME NoticeInv, NEW n \in Notifications, NEW u \in Users, Inbox!SendToUser(n, u)
    PROVE  NoticeParts'
<1> USE DEF NoticeInv, NoticeParts, Given
<1>1. sending[n].step = "notify" /\ u \in sending[n].to
    BY DEF Inbox!SendToUser, Inbox!ToTell
<1>2. \/ sending'[n].step = "done"
      \/ sending'[n].step = "notify" /\ sending'[n].to = sending[n].to \ {u}
    BY DEF Inbox!SendToUser, Inbox!NotificationTypeOK
<1>3. \A m \in Notifications : m # n => sending'[m] = sending[m]
    BY DEF Inbox!SendToUser, Inbox!NotificationTypeOK
<1>4. Unwritten' /\ RowsHaveContent' /\ RecipientsHaveRows'
    BY <1>1, <1>2, <1>3 DEF Unwritten, RowsHaveContent, RecipientsHaveRows, Inbox!SendToUser
<1>5. Given(n, u)
    BY <1>1 DEF RecipientsHaveRows
<1>6. ASSUME NEW k \in Clients, client'[k] # None, NEW m \in client'[k].told
      PROVE  Given(m, client[k].user)'
    <2>1. CASE client[k] # None /\ client[k].on /\ client[k].user = u
        <3>1. client'[k] = [client[k] EXCEPT !.told = @ \cup {n}]
            BY <2>1 DEF Inbox!SendToUser
        <3>2. client'[k].told = client[k].told \cup {n} /\ client'[k].user = u
            BY <2>1, <3>1 DEF Inbox!NotificationTypeOK
        <3> QED BY <1>5, <1>6, <2>1, <3>2 DEF ToldHaveRows, Inbox!SendToUser
    <2>2. CASE ~(client[k] # None /\ client[k].on /\ client[k].user = u)
        BY <1>6, <2>2 DEF ToldHaveRows, Inbox!SendToUser
    <2> QED BY <2>1, <2>2
<1>7. ToldHaveRows'
    BY <1>6 DEF ToldHaveRows
<1>8. SparedAreLeftOut'
    BY <1>1, <1>2, <1>3 DEF SparedAreLeftOut, Inbox!SendToUser
<1> QED BY <1>4, <1>7, <1>8

LEMMA PushKeeps ==
    ASSUME NoticeInv, NEW n \in Notifications, Inbox!Push(n)
    PROVE  NoticeParts'
<1> USE DEF NoticeInv, NoticeParts, Given
<1>1. Unwritten' /\ RowsHaveContent' /\ RecipientsHaveRows'
    BY DEF Unwritten, RowsHaveContent, RecipientsHaveRows, Inbox!Push
<1>2. ToldHaveRows'
    BY TellingKept DEF Inbox!Push
<1>3. pushing'[n].step = "done" /\ pushing'[n].to = pushing[n].to
    BY PushingTyped DEF Inbox!Push, Inbox!NotificationTypeOK
<1>4. \A m \in Notifications : m # n => pushing'[m] = pushing[m]
    BY DEF Inbox!Push, Inbox!NotificationTypeOK
<1>5. SparedAreLeftOut'
    BY <1>3, <1>4 DEF SparedAreLeftOut, Inbox!Push
<1> QED BY <1>1, <1>2, <1>5

(* The rows of a notification go only into those that were deleted.           *)
LEMMA DeletionKeeps ==
    ASSUME NoticeInv, Inbox!NotificationTypeOK', UNCHANGED <<sending, pushing, client, spared>>,
           \A n \in Notifications, u \in Users :
              \/ recipient'[n][u] = recipient[n][u]
              \/ recipient'[n][u] = "none"
              \/ recipient'[n][u] # "none" /\ recipient[n][u] # "none",
           \A n \in Notifications, u \in Users :
              <<n, u>> \in dropped \/ (recipient[n][u] # "none" /\ recipient'[n][u] = "none") => <<n, u>> \in dropped',
           \A n \in Notifications :
              \/ notification'[n] = notification[n]
              \/ notification'[n] = None /\ \A u \in Users : recipient'[n][u] = "none"
              \/ notification'[n] # None /\ sending[n].step = "done"
    PROVE  NoticeParts'
<1> USE DEF NoticeInv, NoticeParts
<1>1. ASSUME NEW n \in Notifications, NEW u \in Users, Given(n, u)
      PROVE  Given(n, u)'
    BY <1>1 DEF Given
<1>2. Unwritten'
    BY DEF Unwritten
<1>3. RowsHaveContent'
    BY DEF RowsHaveContent
<1>4. RecipientsHaveRows'
    BY <1>1, SendingTyped DEF RecipientsHaveRows
<1>5. ToldHaveRows'
    BY <1>1, TellingKept
<1>6. SparedAreLeftOut'
    BY DEF SparedAreLeftOut
<1> QED BY <1>2, <1>3, <1>4, <1>5, <1>6

LEMMA MarkKeeps ==
    ASSUME NoticeInv, Inbox!NotificationTypeOK', NEW u \in Users,
           Inbox!MarkAllAsRead(u) \/ \E n \in Notifications : Inbox!MarkAsRead(n, u)
    PROVE  NoticeParts'
<1>1. \A n \in Notifications, v \in Users :
          recipient'[n][v] = recipient[n][v] \/ (recipient[n][v] = "unread" /\ recipient'[n][v] = "read")
    <2>1. CASE \E n \in Notifications : Inbox!MarkAsRead(n, u)
        BY <2>1 DEF NoticeInv, Inbox!NotificationTypeOK, Inbox!MarkAsRead
    <2>2. CASE Inbox!MarkAllAsRead(u)
        <3>1. /\ recipient \in [Notifications -> [Users -> {"none", "unread", "read"}]]
              /\ recipient' = [n \in Notifications |-> [recipient[n] EXCEPT ![u] = IF @ = "unread" THEN "read" ELSE @]]
            BY <2>2 DEF NoticeInv, Inbox!NotificationTypeOK, Inbox!MarkAllAsRead
        <3> QED BY <3>1
    <2> QED BY <2>1, <2>2
<1> QED BY <1>1, DeletionKeeps DEF Inbox!MarkAsRead, Inbox!MarkAllAsRead

LEMMA DeleteKeeps ==
    ASSUME NoticeInv, Inbox!NotificationTypeOK', NEW n \in Notifications,
           Inbox!DeleteAdminNotification(n) \/ \E u \in Users : Inbox!DeleteNotification(n, u)
    PROVE  NoticeParts'
<1>1. CASE Inbox!DeleteAdminNotification(n)
    <2>1. \A m \in Notifications, v \in Users :
            /\ m # n => recipient'[m][v] = recipient[m][v] /\ notification'[m] = notification[m]
            /\ recipient'[n][v] = "none" /\ notification'[n] = None
        BY <1>1 DEF NoticeInv, Inbox!NotificationTypeOK, Inbox!DeleteAdminNotification
    <2>2. dropped \subseteq dropped' /\ \A v \in Users : recipient[n][v] # "none" => <<n, v>> \in dropped'
        BY <1>1 DEF Inbox!DeleteAdminNotification, Inbox!Rows
    <2>3. UNCHANGED <<sending, pushing, client, spared>>
        BY <1>1 DEF Inbox!DeleteAdminNotification
    <2>4. \A m \in Notifications :
              notification'[m] = notification[m] \/ (notification'[m] = None /\ \A v \in Users : recipient'[m][v] = "none")
        BY <1>1, <2>1 DEF NoticeInv, Inbox!NotificationTypeOK, Inbox!DeleteAdminNotification
    <2> QED BY <2>1, <2>2, <2>3, <2>4, DeletionKeeps
<1>2. ASSUME NEW u \in Users, Inbox!DeleteNotification(n, u)
      PROVE  NoticeParts'
    <2>1. \A m \in Notifications, v \in Users :
            recipient'[m][v] = IF m = n /\ v = u THEN "none" ELSE recipient[m][v]
        BY <1>2 DEF NoticeInv, Inbox!NotificationTypeOK, Inbox!DeleteNotification
    <2> QED BY <1>2, <2>1, DeletionKeeps DEF Inbox!DeleteNotification
<1> QED BY <1>1, <1>2

LEMMA AgeKeeps ==
    ASSUME NoticeConstants, NoticeInv, Inbox!NotificationTypeOK', NEW n \in Notifications, Inbox!Age(n)
    PROVE  NoticeParts'
<1>1. \A m \in Notifications : m # n => notification'[m] = notification[m]
    BY DEF NoticeInv, Inbox!NotificationTypeOK, Inbox!Age
<1>2. notification'[n] # None /\ sending[n].step = "done"
    BY DEF NoticeConstants, NoticeInv, Inbox!NotificationTypeOK, Inbox!Age
<1> QED BY <1>1, <1>2, DeletionKeeps DEF Inbox!Age

LEMMA DeleteOldRecipientsKeeps ==
    ASSUME NoticeInv, Inbox!NotificationTypeOK', Inbox!DeleteOldRecipients
    PROVE  NoticeParts'
<1>1. CASE UNCHANGED <<recipient, dropped>>
    BY <1>1, DeletionKeeps DEF Inbox!DeleteOldRecipients
<1>2. CASE /\ recipient' = [n \in Notifications |-> IF n \in Inbox!Old THEN [u \in Users |-> "none"] ELSE recipient[n]]
           /\ dropped' = dropped \cup Inbox!Rows(Inbox!Old)
    <2>1. \A m \in Notifications, v \in Users :
            recipient'[m][v] = IF m \in Inbox!Old THEN "none" ELSE recipient[m][v]
        BY <1>2
    <2>2. \A m \in Inbox!Old, v \in Users : recipient[m][v] # "none" => <<m, v>> \in dropped'
        BY <1>2 DEF Inbox!Rows, Inbox!Old
    <2> QED BY <1>2, <2>1, <2>2, DeletionKeeps DEF Inbox!DeleteOldRecipients
<1> QED BY <1>1, <1>2 DEF Inbox!DeleteOldRecipients

(* The cardinality of the inboxes is that of the standard module.             *)
LEMMA InboxCardinality ==
    ASSUME NEW S
    PROVE  Inbox!Cardinality(S) = Cardinality(S)
BY DEF Inbox!Cardinality, Cardinality

(* A content row is deleted only when nobody has a row of it: the count of    *)
(* recipients is zero only of the empty set.                                  *)
LEMMA DeleteOldContentsKeeps ==
    ASSUME NoticeConstants, NoticeInv, Inbox!NotificationTypeOK', Inbox!DeleteOldContents
    PROVE  NoticeParts'
<1>1. ASSUME NEW n \in Notifications, n \in Inbox!Left
      PROVE  \A u \in Users : recipient[n][u] = "none"
    <2> DEFINE S == {u \in Users : recipient[n][u] # "none"}
    <2>1. IsFiniteSet(S)
        BY FS_Subset DEF NoticeConstants
    <2>2. Inbox!RecipientCount(n) = 0
        BY <1>1 DEF Inbox!Left
    <2>3. Inbox!RecipientCount(n) = Cardinality(S)
        BY InboxCardinality DEF Inbox!RecipientCount
    <2>4. S = {}
        BY <2>1, <2>2, <2>3, FS_EmptySet
    <2> QED BY <2>4
<1>2. \A n \in Notifications :
          notification'[n] = notification[n] \/ (notification'[n] = None /\ \A u \in Users : recipient'[n][u] = "none")
    BY <1>1 DEF Inbox!DeleteOldContents
<1> QED BY <1>2, DeletionKeeps DEF Inbox!DeleteOldContents

LEMMA PeopleKeep ==
    ASSUME NoticeInv, NEW u \in Users,
           Inbox!UpdatePreference(u) \/ \E b \in Batches \cup {None} : Inbox!Move(u, b)
    PROVE  NoticeParts'
<1>1. UNCHANGED <<notification, recipient, sending, pushing, client, spared, dropped>>
    BY DEF Inbox!UpdatePreference, Inbox!Move
<1> QED BY <1>1 DEF NoticeInv, NoticeParts, Given, Unwritten, RowsHaveContent, RecipientsHaveRows, ToldHaveRows, SparedAreLeftOut

LEMMA SocketKeeps ==
    ASSUME NoticeInv, NEW k \in Clients,
           Inbox!Unregister(k) \/ \E u \in Users : Inbox!Register(k, u)
    PROVE  NoticeParts'
<1> USE DEF NoticeInv, NoticeParts, Given
<1>1. UNCHANGED <<notification, recipient, sending, pushing, spared, dropped>>
    BY DEF Inbox!Unregister, Inbox!Register
<1>2. Unwritten' /\ RowsHaveContent' /\ RecipientsHaveRows' /\ SparedAreLeftOut'
    BY <1>1 DEF Unwritten, RowsHaveContent, RecipientsHaveRows, SparedAreLeftOut
<1>3. \A c \in Clients : c # k => client'[c] = client[c]
    BY DEF Inbox!Unregister, Inbox!Register, Inbox!NotificationTypeOK
<1>4. \/ client'[k].told = {}
      \/ client[k] # None /\ client'[k].told = client[k].told /\ client'[k].user = client[k].user
    BY DEF Inbox!Unregister, Inbox!Register, Inbox!NotificationTypeOK
<1>5. ToldHaveRows'
    BY <1>1, <1>3, <1>4 DEF ToldHaveRows
<1> QED BY <1>2, <1>5

LEMMA CrashKeeps ==
    ASSUME NoticeInv, Inbox!Crash
    PROVE  NoticeParts'
<1> USE DEF NoticeInv, NoticeParts, Given
<1>1. \A n \in Notifications :
        /\ sending[n].step = "idle" => sending'[n].step = "idle"
        /\ sending[n].step # "idle" => sending'[n].step = "done"
    BY SendingTyped DEF Inbox!Crash, Inbox!Idle
<1>2. \A n \in Notifications : pushing[n].step # "idle" =>
        pushing'[n].step # "idle" /\ pushing'[n].to = pushing[n].to
    BY PushingTyped DEF Inbox!Crash, Inbox!Idle
<1>3. \A k \in Clients : client'[k] # None =>
        client[k] # None /\ client'[k].told = client[k].told /\ client'[k].user = client[k].user
    BY DEF Inbox!Crash, Inbox!NotificationTypeOK
<1>4. UNCHANGED <<notification, recipient, spared, dropped>>
    BY DEF Inbox!Crash
<1>5. Unwritten' /\ RowsHaveContent' /\ RecipientsHaveRows'
    BY <1>1, <1>4, SendingTyped DEF Unwritten, RowsHaveContent, RecipientsHaveRows
<1>6. ToldHaveRows'
    BY <1>3, <1>4 DEF ToldHaveRows
<1>7. SparedAreLeftOut'
    BY <1>1, <1>2, <1>4 DEF SparedAreLeftOut
<1> QED BY <1>5, <1>6, <1>7

LEMMA NoticesKept ==
    ASSUME NoticeConstants, NoticeInv, [Inbox!NotificationNext]_Inbox!notificationVars
    PROVE  NoticeInv'
<1> USE DEF NoticeInv
<1>0. Inbox!NotificationTypeOK'
    BY NoticesTyped
<1>1. ASSUME NEW n \in Notifications, NEW S \in SUBSET Inbox!Targets, Inbox!SendToUsersViaTopics(n, S)
      PROVE  NoticeParts'
    <2>1. Inbox!resolveRecipients(S) \subseteq Users /\ Inbox!Followers(Inbox!broadcastTopics(S)) \subseteq Users
        BY DEF Inbox!resolveRecipients, Inbox!Followers
    <2> DEFINE to == Inbox!resolveRecipients(S)
               push == [step |-> "topics", to |-> Inbox!Followers(Inbox!broadcastTopics(S))]
    <2>2. spared' = spared \cup {n} \X {} /\ Inbox!Queue(n, to, push)
        BY <1>1 DEF Inbox!SendToUsersViaTopics
    <2>3. UNCHANGED <<student, muted, notification, recipient, client, cleanup, dropped>>
        BY <1>1 DEF Inbox!SendToUsersViaTopics
    <2>4. to \in SUBSET Users /\ push \in [step : {"topics", "tokens"}, to : SUBSET Users]
        BY <2>1
    <2>5. {} \in SUBSET Users /\ {} \cap to = {} /\ {} \cap push.to = {}
        OBVIOUS
    <2> HIDE DEF to, push
    <2> QED BY <2>2, <2>3, <2>4, <2>5, QueueKeeps
<1>2. ASSUME NEW n \in Notifications, NEW u \in Users, Inbox!CreateForUser(n, u)
      PROVE  NoticeParts'
    <2>1. Inbox!resolveRecipients({[kind |-> "user", user |-> u]}) \subseteq Users
        BY DEF Inbox!resolveRecipients
    <2>2. spared' = spared \cup {n} \X {}
        BY <1>2 DEF Inbox!CreateForUser
    <2> QED BY <1>2, <2>1, <2>2, QueueKeeps DEF Inbox!CreateForUser
<1>3. ASSUME NEW n \in Notifications, NEW S \in SUBSET Users, NEW emergency \in BOOLEAN,
             Inbox!SendToUsers(n, S, emergency)
      PROVE  NoticeParts'
    <2> DEFINE to == Inbox!FilterMutedRecipients(S, emergency)
               out == IF emergency THEN {} ELSE muted
    <2>1. to \in SUBSET Users /\ out \in SUBSET Users /\ out \cap to = {}
        BY DEF Inbox!FilterMutedRecipients, Inbox!NotificationTypeOK
    <2>2. spared' = spared \cup {n} \X out
        BY <1>3 DEF Inbox!SendToUsers
    <2>3. Inbox!Queue(n, to, [step |-> "tokens", to |-> to])
        BY <1>3 DEF Inbox!SendToUsers
    <2>4. UNCHANGED <<student, muted, notification, recipient, client, cleanup, dropped>>
        BY <1>3 DEF Inbox!SendToUsers
    <2> HIDE DEF to, out
    <2> QED BY <2>1, <2>2, <2>3, <2>4, QueueKeeps
<1>4. CASE UNCHANGED Inbox!notificationVars
    <2>1. UNCHANGED <<notification, recipient, sending, pushing, client, spared, dropped>>
        BY <1>4 DEF Inbox!notificationVars
    <2> QED BY <1>0, <2>1 DEF NoticeParts, Given, Unwritten, RowsHaveContent, RecipientsHaveRows, ToldHaveRows,
                              SparedAreLeftOut
<1> QED BY <1>0, <1>1, <1>2, <1>3, <1>4, PersistKeeps, PersistFailsKeeps, SendToUserKeeps, PushKeeps, MarkKeeps,
           DeleteKeeps, AgeKeeps, DeleteOldRecipientsKeeps, DeleteOldContentsKeeps, PeopleKeep, SocketKeeps,
           CrashKeeps DEF Inbox!NotificationNext

LEMMA NoticesImply ==
    ASSUME NoticeConstants, NoticeInv
    PROVE  Inbox!InboxesAgree
<1> USE DEF NoticeInv, NoticeParts
<1>1. \A k \in Clients : client[k] # None =>
        \A n \in client[k].told : n \in Inbox!Inbox(client[k].user) \/ <<n, client[k].user>> \in dropped
    BY DEF ToldHaveRows, Given, Inbox!Inbox, Inbox!NotificationTypeOK
<1>2. \A u \in Users : Inbox!GetNotifications(u) = Inbox!Inbox(u)
    BY DEF RowsHaveContent, Inbox!GetNotifications, Inbox!Inbox
<1>3. ASSUME NEW n \in Notifications
      PROVE  Inbox!ReadCount(n) <= Inbox!RecipientCount(n)
    <2> DEFINE S == {u \in Users : recipient[n][u] # "none"}
               R == {u \in Users : recipient[n][u] = "read"}
    <2>1. R \subseteq S /\ IsFiniteSet(S)
        BY FS_Subset DEF NoticeConstants
    <2>2. Cardinality(R) <= Cardinality(S)
        BY <2>1, FS_Subset
    <2> QED BY <2>2, InboxCardinality DEF Inbox!ReadCount, Inbox!RecipientCount
<1>4. \A p \in spared : recipient[p[1]][p[2]] = "none" /\ ~(pushing[p[1]].step # "idle" /\ p[2] \in pushing[p[1]].to)
    BY DEF SparedAreLeftOut, Inbox!NotificationTypeOK
<1> QED BY <1>1, <1>2, <1>3, <1>4 DEF Inbox!InboxesAgree

(* InboxesAgree: whoever is told of a notification was given a row of it, an  *)
(* inbox lists what it counts, and nobody who had muted a send has it         *)
(* (notification_handler.go:242, notification_service.go).                    *)
THEOREM InboxesStayTrue ==
    ASSUME NoticeConstants
    PROVE  Inbox!NotificationSpec => [](Inbox!NotificationTypeOK /\ Inbox!InboxesAgree)
<1>1. Inbox!NotificationInit => NoticeInv
    <2> SUFFICES ASSUME Inbox!NotificationInit PROVE NoticeParts
        BY NoticesTypedInitially DEF NoticeInv
    <2> QED BY DEF Inbox!NotificationInit, Inbox!Idle, NoticeParts, Unwritten, RowsHaveContent, RecipientsHaveRows,
                   ToldHaveRows, SparedAreLeftOut
<1>2. NoticeInv /\ [Inbox!NotificationNext]_Inbox!notificationVars => NoticeInv'
    BY NoticesKept
<1>3. NoticeInv => Inbox!NotificationTypeOK /\ Inbox!InboxesAgree
    BY NoticesImply DEF NoticeInv
<1> QED BY <1>1, <1>2, <1>3, PTL DEF Inbox!NotificationSpec

-----------------------------------------------------------------------------
(* Clubs and associations *)

ClubConstants == IsFiniteSet(Users) /\ MaxEvents \in Nat /\ None \notin Club!Org /\ None \notin Club!Statuses

EventsTyped == \E n \in 0..MaxEvents : events \in [1..n -> Club!Event]
Decision == [active : BOOLEAN, verified : BOOLEAN, by : {"creation", "admin"}]
Overlaps == {"save", "leave", "trash"}

LEMMA JobTyped ==
    ASSUME Club!ClubTypeOK, NEW w \in Requests, job[w] # None
    PROVE  /\ job[w].op \in {"edit", "adminEdit"} => job[w].row \in Club!Org
           /\ job[w].op \in {"promote", "remove", "leave"} => job[w].of \in Users
           /\ job[w].op = "promote" => job[w].role \in Club!Roles
           /\ job[w].op = "leave" => job[w].status \in Club!Statuses
           /\ job[w].op = "tell" => job[w].event \in 1..MaxEvents
BY DEF Club!ClubTypeOK, Club!Job

LEMMA ClubTypedInitially == ASSUME ClubConstants PROVE Club!ClubInit => Club!ClubTypeOK
<1> SUFFICES ASSUME Club!ClubInit PROVE Club!ClubTypeOK
    OBVIOUS
<1>1. EventsTyped
    BY 0 \in 0..MaxEvents, events \in [1..0 -> Club!Event] DEF EventsTyped, Club!ClubInit, ClubConstants
<1> QED BY <1>1 DEF Club!ClubInit, Club!ClubTypeOK, EventsTyped

(* What a step leaves the type of.                                            *)
LEMMA ClubTypedStep ==
    ASSUME Club!ClubTypeOK, UNCHANGED <<kind, muted>>,
           org' \in Club!Org \cup {None}, follows' \subseteq Users,
           member' \in [Users -> Club!Statuses \cup {None}],
           manager' \in [Users -> Club!Manager \cup {None}], EventsTyped',
           job' \in [Requests -> Club!Job \cup {None}], decided' \in Decision, drift' \subseteq Overlaps
    PROVE  Club!ClubTypeOK'
BY DEF Club!ClubTypeOK, EventsTyped, Decision, Overlaps

LEMMA EventsStay ==
    ASSUME Club!ClubTypeOK, UNCHANGED events
    PROVE  EventsTyped'
BY DEF Club!ClubTypeOK, EventsTyped

LEMMA OpenTyped ==
    ASSUME Club!ClubTypeOK, NEW w \in Requests, NEW j \in Club!Job, Club!Open(w, j)
    PROVE  job' \in [Requests -> Club!Job \cup {None}]
BY DEF Club!ClubTypeOK, Club!Open

LEMMA CloseTyped ==
    ASSUME Club!ClubTypeOK, NEW w \in Requests, Club!Close(w)
    PROVE  job' \in [Requests -> Club!Job \cup {None}]
BY DEF Club!ClubTypeOK, Club!Close

(* A count goes up by one or, from more than zero, down by one, of a row that *)
(* is not in the Trash.                                                       *)
LEMMA CountedTyped ==
    ASSUME Club!ClubTypeOK, NEW field \in {"followers", "members"}, NEW by \in {1, -1}, Club!Counted(field, by)
    PROVE  org' \in Club!Org \cup {None} /\ drift' \subseteq Overlaps
<1>1. drift' \subseteq Overlaps
    BY DEF Club!Counted, Club!Drifted, Club!ClubTypeOK, Overlaps
<1>2. CASE org' = org
    BY <1>1, <1>2 DEF Club!ClubTypeOK
<1>3. CASE org' # org
    <2>1. org \in Club!Org /\ org' = [org EXCEPT ![field] = @ + by] /\ (by > 0 \/ org[field] > 0)
        BY <1>3 DEF Club!Counted, Club!Live, Club!ClubTypeOK
    <2>2. CASE field = "followers"
        BY <1>1, <2>1, <2>2 DEF Club!Org
    <2>3. CASE field = "members"
        BY <1>1, <2>1, <2>3 DEF Club!Org
    <2> QED BY <2>2, <2>3
<1> QED BY <1>2, <1>3

LEMMA CountedThere ==
    ASSUME ClubConstants, Club!ClubTypeOK, NEW field \in {"followers", "members"}, NEW by \in {1, -1},
           Club!Counted(field, by), org # None
    PROVE  org' # None
<1>1. org \in Club!Org
    BY DEF Club!ClubTypeOK
<1>2. CASE org' = org
    BY <1>2
<1>3. CASE org' # org
    <2>1. org' \in Club!Org
        <3>1. org' = [org EXCEPT ![field] = @ + by] /\ (by > 0 \/ org[field] > 0)
            BY <1>3 DEF Club!Counted
        <3>2. CASE field = "followers"
            BY <1>1, <3>1, <3>2 DEF Club!Org
        <3>3. CASE field = "members"
            BY <1>1, <3>1, <3>3 DEF Club!Org
        <3> QED BY <3>2, <3>3
    <2> QED BY <2>1 DEF ClubConstants
<1> QED BY <1>2, <1>3

(* The steps of ClubNext, by what they change.                                *)
RowSteps ==
    \/ \E active, suggested \in BOOLEAN :
          Club!CreateOrg(active, suggested) /\ (UNCHANGED manager \/ \E u \in Users : Club!Owned(u))
    \/ Club!DeleteOrg \/ Club!RestoreOrg
SaveSteps(w) == Club!SaveMyClub(w) \/ \E a, v \in BOOLEAN : Club!SaveOrg(w, a, v)
RosterSteps(u) ==
    \/ Club!FollowClub(u) \/ Club!UnfollowClub(u) \/ Club!JoinClub(u) \/ Club!LeaveClub(u)
    \/ Club!JoinAssociation(u) \/ Club!ApproveAssociationMember(u) \/ Club!RejectAssociationMember(u)
ReadSteps(w) == Club!ReadForUpdate(w) \/ \E u \in Users : Club!UpdateMyClub(w, u) \/ Club!ReadMembership(w, u)
ManagerSteps(w) ==
    \/ Club!StorePromotion(w) \/ Club!StoreRemoval(w)
    \/ \E u, of \in Users : Club!RemoveManager(w, u, of) \/ \E role \in Club!Roles : Club!PromoteManager(w, u, of, role)
PostSteps(w) ==
    \/ job[w] = None /\ \E published \in BOOLEAN : Club!Posted(w, published)
    \/ Club!notifyClubFollowers(w)
    \/ \E e \in DOMAIN events, published \in BOOLEAN : Club!UpdateClubEvent(e, published)
RequestSteps(w) == SaveSteps(w) \/ Club!LeaveAssociation(w) \/ ReadSteps(w) \/ ManagerSteps(w) \/ PostSteps(w)

LEMMA ClubSteps ==
    ASSUME Club!ClubNext
    PROVE  RowSteps \/ (\E u \in Users : RosterSteps(u)) \/ \E w \in Requests : RequestSteps(w)
<1> USE DEF RowSteps, RosterSteps, RequestSteps, SaveSteps, ReadSteps, ManagerSteps, PostSteps
<1>1. CASE Club!ClubRows \/ Club!AssociationRows \/ Club!AssociationSuggestions
    BY <1>1 DEF Club!ClubRows, Club!AssociationRows, Club!AssociationSuggestions, Club!CreateClub,
        Club!CreateAssociation, Club!UpdateClub, Club!UpdateAssociation, Club!SuggestClub, Club!SuggestAssociation
<1>2. CASE Club!ClubRoster \/ Club!AssociationFollows \/ Club!AssociationRoster
    BY <1>2 DEF Club!ClubRoster, Club!AssociationFollows, Club!AssociationRoster
<1>3. ASSUME NEW w \in Requests, Club!ManageStep(w) \/ Club!EditStep(w) PROVE RequestSteps(w)
    BY <1>3 DEF Club!ManageStep, Club!EditStep
<1>4. ASSUME NEW w \in Requests, Club!EventStep(w) \/ Club!PostStep(w) PROVE RequestSteps(w)
    BY <1>4 DEF Club!EventStep, Club!PostStep, Club!CreateClubEvent, Club!CreateMyClubEvent, Club!CreateClubPost
<1> QED BY <1>1, <1>2, <1>3, <1>4 DEF Club!ClubNext, Club!ClubManage, Club!AssociationStep, Club!AssociationManage,
           Club!AssociationEdit, Club!AssociationEvents, Club!AssociationPosts

LEMMA RowsTyped ==
    ASSUME Club!ClubTypeOK, RowSteps
    PROVE  Club!ClubTypeOK'
<1> USE DEF Club!others, Club!rostersUnchanged
<1>1. ASSUME NEW active \in BOOLEAN, NEW suggested \in BOOLEAN, Club!CreateOrg(active, suggested),
             UNCHANGED manager \/ \E u \in Users : Club!Owned(u)
      PROVE  Club!ClubTypeOK'
    <2>1. Club!Created(active) \in BOOLEAN
        BY DEF Club!Created
    <2>2. org' \in Club!Org \cup {None} /\ decided' \in Decision
        BY <1>1, <2>1 DEF Club!CreateOrg, Club!Org, Decision
    <2>3. manager' \in [Users -> Club!Manager \cup {None}]
        <3>1. [role |-> "owner", deleted |-> FALSE] \in Club!Manager
            BY DEF Club!Manager, Club!Roles
        <3>2. CASE UNCHANGED manager
            BY <3>2 DEF Club!ClubTypeOK
        <3>3. ASSUME NEW u \in Users, Club!Owned(u) PROVE manager' \in [Users -> Club!Manager \cup {None}]
            BY <3>1, <3>3 DEF Club!Owned, Club!ClubTypeOK
        <3> QED BY <1>1, <3>2, <3>3
    <2> QED BY <1>1, <2>2, <2>3, EventsStay, ClubTypedStep DEF Club!CreateOrg, Club!ClubTypeOK, Overlaps
<1>2. CASE Club!DeleteOrg \/ Club!RestoreOrg
    <2>1. org' \in Club!Org \cup {None}
        <3>1. org \in Club!Org /\ \E b \in BOOLEAN : org' = [org EXCEPT !.deleted = b]
            BY <1>2 DEF Club!DeleteOrg, Club!RestoreOrg, Club!Live, Club!ClubTypeOK
        <3> QED BY <3>1 DEF Club!Org
    <2> QED BY <1>2, <2>1, EventsStay, ClubTypedStep DEF Club!DeleteOrg, Club!RestoreOrg, Club!ClubTypeOK, Decision, Overlaps
<1> QED BY <1>1, <1>2 DEF RowSteps

LEMMA SavesTyped ==
    ASSUME Club!ClubTypeOK, NEW w \in Requests, SaveSteps(w)
    PROVE  Club!ClubTypeOK'
<1> USE DEF Club!others, Club!rostersUnchanged
<1>1. job[w] # None /\ job[w].op \in {"edit", "adminEdit"} /\ job[w].row \in Club!Org
    BY JobTyped DEF SaveSteps, Club!SaveMyClub, Club!SaveOrg
<1>2. PICK active \in BOOLEAN, verified \in BOOLEAN : Club!Saved(job[w].row, active, verified)
    BY <1>1 DEF SaveSteps, Club!SaveMyClub, Club!SaveOrg, Club!Org
<1>3. org' \in Club!Org \cup {None} /\ drift' \subseteq Overlaps
    BY <1>1, <1>2 DEF Club!Saved, Club!Org, Club!Drifted, Club!ClubTypeOK, Overlaps
<1>4. decided' \in Decision /\ job' \in [Requests -> Club!Job \cup {None}]
    BY CloseTyped DEF SaveSteps, Club!SaveMyClub, Club!SaveOrg, Decision, Club!ClubTypeOK
<1> QED BY <1>3, <1>4, EventsStay, ClubTypedStep DEF SaveSteps, Club!SaveMyClub, Club!SaveOrg, Club!ClubTypeOK

LEMMA RosterTyped ==
    ASSUME Club!ClubTypeOK, NEW u \in Users, RosterSteps(u)
    PROVE  Club!ClubTypeOK'
<1> USE DEF Club!FollowClub, Club!UnfollowClub, Club!JoinClub, Club!LeaveClub, Club!JoinAssociation,
            Club!ApproveAssociationMember, Club!RejectAssociationMember
<1>1. org' \in Club!Org \cup {None} /\ drift' \subseteq Overlaps
    BY CountedTyped DEF RosterSteps, Club!ClubTypeOK, Overlaps
<1>2. follows' \subseteq Users /\ member' \in [Users -> Club!Statuses \cup {None}]
    BY DEF RosterSteps, Club!ClubTypeOK, Club!Statuses
<1>3. UNCHANGED <<kind, muted, manager, events, decided, job>>
    BY DEF RosterSteps, Club!rosterFrame, Club!others
<1> QED BY <1>1, <1>2, <1>3, EventsStay, ClubTypedStep DEF Club!ClubTypeOK, Decision

LEMMA LeaveTyped ==
    ASSUME Club!ClubTypeOK, NEW w \in Requests, Club!LeaveAssociation(w)
    PROVE  Club!ClubTypeOK'
<1>1. job[w].of \in Users
    BY JobTyped DEF Club!LeaveAssociation
<1>2. org' \in Club!Org \cup {None}
    <2>1. CASE job[w].status = "approved" /\ Club!Live /\ org.members > 0
        BY <2>1 DEF Club!LeaveAssociation, Club!Live, Club!ClubTypeOK, Club!Org
    <2>2. CASE ~(job[w].status = "approved" /\ Club!Live /\ org.members > 0)
        BY <2>2 DEF Club!LeaveAssociation, Club!ClubTypeOK
    <2> QED BY <2>1, <2>2
<1>3. drift' \subseteq Overlaps
    BY DEF Club!LeaveAssociation, Club!ClubTypeOK, Overlaps
<1>4. member' \in [Users -> Club!Statuses \cup {None}]
    BY <1>1 DEF Club!LeaveAssociation, Club!ClubTypeOK
<1> QED BY <1>2, <1>3, <1>4, EventsStay, CloseTyped, ClubTypedStep
        DEF Club!LeaveAssociation, Club!rosterFrame, Club!others, Club!ClubTypeOK, Decision

LEMMA ReadsTyped ==
    ASSUME Club!ClubTypeOK, NEW w \in Requests, ReadSteps(w)
    PROVE  Club!ClubTypeOK'
<1>1. job' \in [Requests -> Club!Job \cup {None}]
    <2>1. ASSUME NEW op \in {"edit", "adminEdit"}, Club!Live
          PROVE  [op |-> op, row |-> org] \in Club!Job
        BY <2>1 DEF Club!Live, Club!Job, Club!ClubTypeOK
    <2>2. ASSUME NEW u \in Users, member[u] # None
          PROVE  [op |-> "leave", of |-> u, status |-> member[u]] \in Club!Job
        BY <2>2 DEF Club!Job, Club!ClubTypeOK
    <2> QED BY <2>1, <2>2, OpenTyped DEF ReadSteps, Club!ReadForUpdate, Club!UpdateMyClub, Club!ReadMembership
<1>2. UNCHANGED <<kind, muted, org, follows, member, manager, events, decided, drift>>
    BY DEF ReadSteps, Club!ReadForUpdate, Club!UpdateMyClub, Club!ReadMembership, Club!rowUnchanged,
           Club!rostersUnchanged, Club!rosterFrame, Club!others
<1> QED BY <1>1, <1>2, EventsStay, ClubTypedStep DEF Club!ClubTypeOK, Decision, Overlaps

LEMMA ManagersTyped ==
    ASSUME Club!ClubTypeOK, NEW w \in Requests, ManagerSteps(w)
    PROVE  Club!ClubTypeOK' /\ UNCHANGED <<kind, muted, org, follows, member, events, decided, drift>>
<1> USE DEF Club!StorePromotion, Club!StoreRemoval, Club!RemoveManager, Club!PromoteManager
<1>1. UNCHANGED <<kind, muted, org, follows, member, events, decided, drift>>
    BY DEF ManagerSteps, Club!rowUnchanged, Club!rostersUnchanged, Club!others
<1>2. CASE Club!StorePromotion(w) \/ Club!StoreRemoval(w)
    <2>1. job' \in [Requests -> Club!Job \cup {None}]
        BY <1>2, CloseTyped
    <2>2. job[w].of \in Users /\ (Club!StorePromotion(w) => job[w].role \in Club!Roles)
        BY <1>2, JobTyped
    <2> DEFINE held == manager[job[w].of]
    <2>3. ASSUME held # None
          PROVE  /\ [held EXCEPT !.deleted = TRUE] \in Club!Manager
                 /\ \A role \in Club!Roles : [held EXCEPT !.role = role] \in Club!Manager
        <3>1. held \in Club!Manager
            BY <2>2, <2>3 DEF Club!ClubTypeOK
        <3> HIDE DEF held
        <3> QED BY <3>1 DEF Club!Manager
    <2>4. Club!StorePromotion(w) => [role |-> job[w].role, deleted |-> FALSE] \in Club!Manager
        BY <2>2 DEF Club!Manager
    <2>5. manager \in [Users -> Club!Manager \cup {None}]
        BY DEF Club!ClubTypeOK
    <2>6. \E m \in Club!Manager \cup {None} : manager' = [manager EXCEPT ![job[w].of] = m]
        <3>1. CASE Club!StorePromotion(w)
            BY <2>2, <2>3, <2>4, <2>5, <3>1
        <3>2. CASE Club!StoreRemoval(w)
            BY <2>2, <2>3, <2>5, <3>2
        <3> QED BY <1>2, <3>1, <3>2
    <2>7. manager' \in [Users -> Club!Manager \cup {None}]
        BY <2>5, <2>6
    <2> QED BY <1>1, <2>1, <2>7, EventsStay, ClubTypedStep DEF Club!ClubTypeOK, Decision, Overlaps
<1>3. ASSUME NEW u \in Users, NEW of \in Users,
             Club!RemoveManager(w, u, of) \/ \E role \in Club!Roles : Club!PromoteManager(w, u, of, role)
      PROVE  Club!ClubTypeOK'
    <2>1. \A role \in Club!Roles : [op |-> "promote", of |-> of, role |-> role] \in Club!Job
        BY DEF Club!Job
    <2>2. [op |-> "remove", of |-> of] \in Club!Job
        BY DEF Club!Job
    <2>3. job' \in [Requests -> Club!Job \cup {None}] /\ UNCHANGED manager
        BY <1>3, <2>1, <2>2, OpenTyped
    <2> QED BY <1>1, <2>3, EventsStay, ClubTypedStep DEF Club!ClubTypeOK, Decision, Overlaps
<1> QED BY <1>1, <1>2, <1>3 DEF ManagerSteps

LEMMA PostsTyped ==
    ASSUME ClubConstants, Club!ClubTypeOK, NEW w \in Requests, PostSteps(w)
    PROVE  Club!ClubTypeOK' /\ UNCHANGED <<kind, muted, org, follows, member, manager, decided, drift>>
<1> USE DEF Club!PostFrame
<1>1. UNCHANGED <<kind, muted, org, follows, member, manager, decided, drift>>
    BY DEF PostSteps, Club!Posted, Club!notifyClubFollowers, Club!UpdateClubEvent, Club!rowUnchanged,
           Club!rostersUnchanged, Club!others
<1>2. PICK n \in 0..MaxEvents : events \in [1..n -> Club!Event]
    BY DEF Club!ClubTypeOK
<1>3. n \in Nat /\ Len(events) = n /\ DOMAIN events = 1..n
    BY <1>2 DEF ClubConstants
<1>4. ASSUME NEW published \in BOOLEAN, Club!Posted(w, published)
      PROVE  EventsTyped' /\ job' \in [Requests -> Club!Job \cup {None}]
    <2>1. n + 1 \in 0..MaxEvents /\ n + 1 \in 1..MaxEvents
        BY <1>3, <1>4 DEF Club!Posted, ClubConstants
    <2>2. [published |-> published, told |-> {}] \in Club!Event
        BY DEF Club!Event
    <2>3. events' \in [1..(n + 1) -> Club!Event]
        <3>1. events \in Seq(Club!Event) /\ events' = Append(events, [published |-> published, told |-> {}])
            BY <1>2, <1>3, <1>4 DEF Club!Posted
        <3>2. events' \in Seq(Club!Event) /\ Len(events') = n + 1
            BY <1>3, <2>2, <3>1
        <3> QED BY <3>2
    <2>4. [op |-> "tell", event |-> n + 1] \in Club!Job
        BY <2>1 DEF Club!Job
    <2>5. job' \in [Requests -> Club!Job \cup {None}]
        BY <1>3, <1>4, <2>4, OpenTyped DEF Club!Posted, Club!ClubTypeOK
    <2> QED BY <2>1, <2>3, <2>5 DEF EventsTyped
<1>5. ASSUME Club!notifyClubFollowers(w)
      PROVE  EventsTyped' /\ job' \in [Requests -> Club!Job \cup {None}]
    <2>1. events' \in [1..n -> Club!Event]
        <3>1. CASE job[w].event \in 1..n
            <4>1. [events[job[w].event] EXCEPT !.told = follows \ muted] \in Club!Event
                BY <1>2, <3>1 DEF Club!ClubTypeOK, Club!Event
            <4> QED BY <1>2, <1>5, <4>1 DEF Club!notifyClubFollowers
        <3>2. CASE job[w].event \notin 1..n
            BY <1>2, <1>5, <3>2 DEF Club!notifyClubFollowers
        <3> QED BY <3>1, <3>2
    <2> QED BY <1>5, <2>1, CloseTyped DEF Club!notifyClubFollowers, EventsTyped
<1>6. ASSUME NEW e \in DOMAIN events, NEW published \in BOOLEAN, Club!UpdateClubEvent(e, published)
      PROVE  EventsTyped' /\ job' \in [Requests -> Club!Job \cup {None}]
    <2>1. [events[e] EXCEPT !.published = published] \in Club!Event
        BY <1>2, <1>3 DEF Club!Event
    <2>2. events' \in [1..n -> Club!Event]
        BY <1>2, <1>3, <1>6, <2>1 DEF Club!UpdateClubEvent
    <2> QED BY <1>6, <2>2 DEF Club!UpdateClubEvent, EventsTyped, Club!ClubTypeOK
<1>7. EventsTyped' /\ job' \in [Requests -> Club!Job \cup {None}]
    BY <1>4, <1>5, <1>6 DEF PostSteps
<1> QED BY <1>1, <1>7, ClubTypedStep DEF Club!ClubTypeOK, Decision, Overlaps

LEMMA ClubTyped ==
    ASSUME ClubConstants, Club!ClubTypeOK, [Club!ClubNext]_Club!clubVars
    PROVE  Club!ClubTypeOK'
<1>1. CASE UNCHANGED Club!clubVars
    BY <1>1, EventsStay, ClubTypedStep DEF Club!clubVars, Club!ClubTypeOK, Decision, Overlaps
<1>2. CASE Club!ClubNext
    BY <1>2, ClubSteps, RowsTyped, RosterTyped, SavesTyped, LeaveTyped, ReadsTyped, ManagersTyped, PostsTyped DEF RequestSteps
<1> QED BY <1>1, <1>2

Members == {u \in Users : member[u] = "approved"}
NobodyBefore == org = None => follows = {} /\ \A u \in Users : member[u] = None
\* Only an association makes its members wait.
NobodyWaits == kind = "club" => \A u \in Users : member[u] # "pending"
CountsHold ==
    org # None /\ drift = {} =>
        /\ org.followers = Cardinality(follows) /\ org.members = Cardinality(Members)
        /\ org.active = decided.active /\ org.verified = decided.verified
ClubInv == Club!ClubTypeOK /\ NobodyBefore /\ NobodyWaits /\ CountsHold

LEMMA ClubFinite ==
    ASSUME ClubConstants, ClubInv
    PROVE  /\ IsFiniteSet(follows) /\ Cardinality(follows) \in Nat
           /\ IsFiniteSet(Members) /\ Cardinality(Members) \in Nat
<1>1. follows \subseteq Users /\ Members \subseteq Users
    BY DEF ClubInv, Club!ClubTypeOK, Members
<1> QED BY <1>1, FS_Subset, FS_CardinalityType DEF ClubConstants

LEMMA RowsKeep ==
    ASSUME ClubConstants, ClubInv, RowSteps
    PROVE  NobodyBefore' /\ CountsHold'
<1> USE DEF Club!others, Club!rostersUnchanged
<1>1. ASSUME NEW active \in BOOLEAN, NEW suggested \in BOOLEAN, Club!CreateOrg(active, suggested)
      PROVE  NobodyBefore' /\ CountsHold'
    <2>1. follows' = {} /\ Members' = {}
        BY <1>1 DEF Club!CreateOrg, ClubInv, NobodyBefore, Members, ClubConstants, Club!Statuses
    <2>2. /\ org' = [active |-> Club!Created(active), verified |-> FALSE, followers |-> 0, members |-> 0,
                     suggested |-> suggested, deleted |-> FALSE]
          /\ decided' = [active |-> Club!Created(active), verified |-> FALSE, by |-> "creation"]
        BY <1>1 DEF Club!CreateOrg
    <2>3. Cardinality(follows') = 0 /\ Cardinality(Members') = 0
        BY <2>1, FS_EmptySet
    <2>4. org' # None
        <3>1. org' \in Club!Org
            BY <2>2 DEF Club!Org, Club!Created
        <3> QED BY <3>1 DEF ClubConstants
    <2> QED BY <2>2, <2>3, <2>4 DEF NobodyBefore, CountsHold
<1>2. CASE Club!DeleteOrg \/ Club!RestoreOrg
    <2>1. org \in Club!Org /\ UNCHANGED <<follows, member, decided, drift>> /\ Members' = Members
        BY <1>2 DEF Club!DeleteOrg, Club!RestoreOrg, Club!Live, ClubInv, Club!ClubTypeOK, Members
    <2>2. /\ org'.followers = org.followers /\ org'.members = org.members
          /\ org'.active = org.active /\ org'.verified = org.verified /\ org' \in Club!Org
        BY <1>2, <2>1 DEF Club!DeleteOrg, Club!RestoreOrg, Club!Org
    <2>3. org # None /\ org' # None
        BY <2>1, <2>2 DEF ClubConstants
    <2> QED BY <2>1, <2>2, <2>3 DEF ClubInv, NobodyBefore, CountsHold
<1> QED BY <1>1, <1>2 DEF RowSteps

(* A row is saved as it is, or the save is recorded in drift.                 *)
LEMMA SavesKeep ==
    ASSUME ClubConstants, ClubInv, NEW w \in Requests, SaveSteps(w)
    PROVE  NobodyBefore' /\ CountsHold'
<1> DEFINE read == job[w].row
<1>1. read \in Club!Org
    BY JobTyped DEF SaveSteps, Club!SaveMyClub, Club!SaveOrg, ClubInv
<1>2. UNCHANGED <<follows, member>> /\ Members' = Members
    BY DEF SaveSteps, Club!SaveMyClub, Club!SaveOrg, Club!rostersUnchanged, Members
<1>3. PICK active \in BOOLEAN, verified \in BOOLEAN :
        /\ Club!Saved(read, active, verified)
        /\ \/ decided' = [active |-> active, verified |-> verified, by |-> "admin"]
           \/ decided' = decided /\ active = read.active /\ verified = read.verified
    BY <1>1 DEF SaveSteps, Club!SaveMyClub, Club!SaveOrg, Club!Org
<1> HIDE DEF read
<1>4. org' \in Club!Org /\ org'.followers = read.followers /\ org'.members = read.members
      /\ org'.active = active /\ org'.verified = verified
    BY <1>1, <1>3 DEF Club!Saved, Club!Org
<1>5. org' # None
    BY <1>4 DEF ClubConstants
<1>6. drift' = {} => drift = {} /\ org = read
    BY <1>3 DEF Club!Saved, Club!Drifted
<1>7. org = read => org # None
    BY <1>1 DEF ClubConstants
<1> QED BY <1>2, <1>3, <1>4, <1>5, <1>6, <1>7 DEF ClubInv, NobodyBefore, CountsHold

(* What a count becomes, where the row is not in the Trash.                   *)
LEMMA CountedFollowers ==
    ASSUME Club!ClubTypeOK, NEW by \in {1, -1}, Club!Counted("followers", by), org # None, drift' = {},
           by = 1 \/ org.followers > 0
    PROVE  /\ drift = {} /\ org' \in Club!Org /\ org'.followers = org.followers + by
           /\ org'.members = org.members /\ org'.active = org.active /\ org'.verified = org.verified
<1>1. org \in Club!Org /\ drift = {} /\ org.deleted = FALSE
    BY DEF Club!ClubTypeOK, Club!Counted, Club!Drifted, Club!Org
<1>2. org' = [org EXCEPT !.followers = @ + by]
    BY <1>1 DEF Club!Counted, Club!Live
<1> QED BY <1>1, <1>2 DEF Club!Org

LEMMA CountedMembers ==
    ASSUME Club!ClubTypeOK, NEW by \in {1, -1}, Club!Counted("members", by), org # None, drift' = {},
           by = 1 \/ org.members > 0
    PROVE  /\ drift = {} /\ org' \in Club!Org /\ org'.members = org.members + by
           /\ org'.followers = org.followers /\ org'.active = org.active /\ org'.verified = org.verified
<1>1. org \in Club!Org /\ drift = {} /\ org.deleted = FALSE
    BY DEF Club!ClubTypeOK, Club!Counted, Club!Drifted, Club!Org
<1>2. org' = [org EXCEPT !.members = @ + by]
    BY <1>1 DEF Club!Counted, Club!Live
<1> QED BY <1>1, <1>2 DEF Club!Org

LEMMA CountedLeaves ==
    ASSUME NEW field \in {"followers", "members"}, NEW by \in {1, -1}, Club!Counted(field, by)
    PROVE  drift \subseteq drift' /\ (org = None => org' = None)
BY DEF Club!Counted, Club!Drifted, Club!Live

LEMMA FollowKeeps ==
    ASSUME ClubConstants, ClubInv, NEW u \in Users, Club!FollowClub(u) \/ Club!UnfollowClub(u)
    PROVE  NobodyBefore' /\ CountsHold'
<1>1. org # None
    BY DEF ClubInv, NobodyBefore, Club!FollowClub, Club!UnfollowClub
<1>2. UNCHANGED <<member, decided>> /\ Members' = Members
    BY DEF Club!FollowClub, Club!UnfollowClub, Club!rosterFrame, Members
<1>3. CASE Club!FollowClub(u)
    <2>1. Club!Counted("followers", 1) /\ u \notin follows /\ follows' = follows \cup {u}
        BY <1>3 DEF Club!FollowClub
    <2>2. Cardinality(follows') = Cardinality(follows) + 1
        BY <2>1, ClubFinite, FS_AddElement
    <2>3. drift' = {} => /\ drift = {} /\ org' \in Club!Org /\ org'.followers = org.followers + 1
                         /\ org'.members = org.members /\ org'.active = org.active /\ org'.verified = org.verified
        BY <1>1, <2>1, CountedFollowers DEF ClubInv
    <2>4. CountsHold'
        BY <1>1, <1>2, <2>2, <2>3 DEF CountsHold, ClubInv
    <2>5. org' # None
        BY <1>1, <2>1, CountedThere DEF ClubInv
    <2> QED BY <2>4, <2>5 DEF NobodyBefore
<1>4. CASE Club!UnfollowClub(u)
    <2>1. Club!Counted("followers", -1) /\ u \in follows /\ follows' = follows \ {u}
        BY <1>4 DEF Club!UnfollowClub
    <2>2. Cardinality(follows') = Cardinality(follows) - 1 /\ Cardinality(follows) # 0
        BY <2>1, ClubFinite, FS_RemoveElement, FS_EmptySet
    <2>3. ASSUME drift' = {}
          PROVE /\ drift = {} /\ org' \in Club!Org /\ org'.followers = org.followers - 1
                /\ org'.members = org.members /\ org'.active = org.active /\ org'.verified = org.verified
        <3>1. drift = {}
            BY <2>1, <2>3, CountedLeaves
        <3>2. org.followers > 0
            BY <1>1, <2>2, <3>1, ClubFinite DEF ClubInv, CountsHold
        <3> QED BY <1>1, <2>1, <2>3, <3>2, CountedFollowers DEF ClubInv, Club!ClubTypeOK, Club!Org
    <2>4. CountsHold'
        BY <1>1, <1>2, <2>2, <2>3 DEF CountsHold, ClubInv
    <2>5. org' # None
        BY <1>1, <2>1 DEF Club!Counted, ClubInv, Club!ClubTypeOK, Club!Live, ClubConstants, Club!Org
    <2> QED BY <2>4, <2>5 DEF NobodyBefore
<1> QED BY <1>3, <1>4

(* A member more or less, of those who are approved.                          *)
LEMMA MemberAdded ==
    ASSUME ClubConstants, ClubInv, NEW u \in Users, member[u] # "approved", member' = [member EXCEPT ![u] = "approved"]
    PROVE  Cardinality(Members') = Cardinality(Members) + 1
<1>1. Members' = Members \cup {u} /\ u \notin Members
    BY DEF Members, ClubInv, Club!ClubTypeOK
<1> QED BY <1>1, ClubFinite, FS_AddElement

LEMMA MemberRemoved ==
    ASSUME ClubConstants, ClubInv, NEW u \in Users, member[u] = "approved", member' = [member EXCEPT ![u] = None]
    PROVE  Cardinality(Members') = Cardinality(Members) - 1 /\ Cardinality(Members) # 0
<1>1. Members' = Members \ {u} /\ u \in Members
    BY DEF Members, ClubInv, Club!ClubTypeOK, ClubConstants, Club!Statuses
<1> QED BY <1>1, ClubFinite, FS_RemoveElement, FS_EmptySet

LEMMA MembersSame ==
    ASSUME ClubConstants, ClubInv, NEW u \in Users, member[u] # "approved", NEW s, s # "approved",
           member' = [member EXCEPT ![u] = s]
    PROVE  Members' = Members
BY DEF Members, ClubInv, Club!ClubTypeOK

LEMMA JoinKeeps ==
    ASSUME ClubConstants, ClubInv, NEW u \in Users, Club!JoinClub(u) \/ Club!ApproveAssociationMember(u)
    PROVE  NobodyBefore' /\ CountsHold'
<1>1. member[u] # "approved" /\ Club!Counted("members", 1) /\ member' = [member EXCEPT ![u] = "approved"]
      /\ UNCHANGED <<follows, decided>>
    BY DEF Club!JoinClub, Club!ApproveAssociationMember, Club!AwaitsApproval, Club!GetPendingAssociationMembers,
           Club!GetAssociationByID, Club!rosterFrame, ClubConstants, Club!Statuses
<1>2. org # None
    BY DEF Club!JoinClub, Club!ApproveAssociationMember, Club!AwaitsApproval, Club!GetPendingAssociationMembers,
           Club!GetAssociationByID, ClubInv, NobodyBefore, ClubConstants, Club!Statuses
<1>3. Cardinality(Members') = Cardinality(Members) + 1
    BY <1>1, MemberAdded
<1>4. drift' = {} => /\ drift = {} /\ org' \in Club!Org /\ org'.members = org.members + 1
                     /\ org'.followers = org.followers /\ org'.active = org.active /\ org'.verified = org.verified
    BY <1>1, <1>2, CountedMembers DEF ClubInv
<1>5. CountsHold'
    BY <1>1, <1>2, <1>3, <1>4 DEF CountsHold, ClubInv
<1>6. org' # None
    BY <1>1, <1>2, CountedThere DEF ClubInv
<1> QED BY <1>5, <1>6 DEF NobodyBefore

LEMMA LeaveKeeps ==
    ASSUME ClubConstants, ClubInv, NEW u \in Users, Club!LeaveClub(u), member[u] = "approved"
    PROVE  NobodyBefore' /\ CountsHold'
<1>1. Club!Counted("members", -1) /\ member' = [member EXCEPT ![u] = None] /\ UNCHANGED <<follows, decided>>
    BY DEF Club!LeaveClub, Club!rosterFrame
<1>2. org # None
    BY DEF ClubInv, NobodyBefore, ClubConstants, Club!Statuses
<1>3. Cardinality(Members') = Cardinality(Members) - 1 /\ Cardinality(Members) # 0
    BY <1>1, MemberRemoved
<1>4. ASSUME drift' = {}
      PROVE /\ drift = {} /\ org' \in Club!Org /\ org'.members = org.members - 1
            /\ org'.followers = org.followers /\ org'.active = org.active /\ org'.verified = org.verified
    <2>1. drift = {}
        BY <1>1, <1>4, CountedLeaves
    <2>2. org.members > 0
        BY <1>2, <1>3, <2>1, ClubFinite DEF ClubInv, CountsHold
    <2> QED BY <1>1, <1>2, <1>4, <2>2, CountedMembers DEF ClubInv, Club!ClubTypeOK, Club!Org
<1>5. CountsHold'
    BY <1>1, <1>2, <1>3, <1>4 DEF CountsHold, ClubInv
<1>6. org' # None
    BY <1>1, <1>2, CountedThere DEF ClubInv
<1> QED BY <1>5, <1>6 DEF NobodyBefore

LEMMA AssociationRosterKeeps ==
    ASSUME ClubConstants, ClubInv, NEW u \in Users, Club!JoinAssociation(u) \/ Club!RejectAssociationMember(u)
    PROVE  NobodyBefore' /\ CountsHold'
<1> USE DEF Club!JoinAssociation, Club!RejectAssociationMember, Club!AwaitsApproval,
            Club!GetPendingAssociationMembers, Club!GetAssociationByID
<1>1. UNCHANGED <<org, drift, follows, decided>>
    BY DEF Club!rosterFrame
<1>2. member[u] # "approved" /\ org # None
    BY DEF ClubInv, NobodyBefore, ClubConstants, Club!Statuses
<1>3. PICK s \in {"pending", None} : member' = [member EXCEPT ![u] = s]
    OBVIOUS
<1>4. Members' = Members
    BY <1>2, <1>3, MembersSame DEF ClubConstants, Club!Statuses
<1> QED BY <1>1, <1>2, <1>4 DEF ClubInv, NobodyBefore, CountsHold

(* The status that was read is the one the row has, or the leave is recorded  *)
(* in drift.                                                                  *)
LEMMA LeaveAssociationKeeps ==
    ASSUME ClubConstants, ClubInv, NEW w \in Requests, Club!LeaveAssociation(w)
    PROVE  NobodyBefore' /\ CountsHold'
<1> DEFINE u == job[w].of
<1>1. u \in Users /\ job[w].status \in Club!Statuses
    BY JobTyped DEF Club!LeaveAssociation, ClubInv
<1>2. /\ member' = [member EXCEPT ![u] = None]
      /\ org' = IF job[w].status = "approved" /\ Club!Live /\ org.members > 0 THEN [org EXCEPT !.members = @ - 1] ELSE org
      /\ drift' = drift \cup (IF member[u] # job[w].status THEN {"leave"} ELSE {}) \cup (IF Club!Live THEN {} ELSE {"trash"})
      /\ UNCHANGED <<follows, decided>>
    BY DEF Club!LeaveAssociation, Club!rosterFrame
<1> HIDE DEF u
<1>3. org = None => org' = None
    BY <1>2 DEF Club!Live
<1>4. NobodyBefore'
    <2>1. ASSUME org' = None
          PROVE  org = None
        <3>1. CASE org \in Club!Org /\ org' # org
            BY <1>2, <2>1, <3>1 DEF Club!Org, ClubConstants
        <3>2. CASE org' = org
            BY <2>1, <3>2
        <3> QED BY <2>1, <3>1, <3>2 DEF ClubInv, Club!ClubTypeOK
    <2> QED BY <1>1, <1>2, <2>1 DEF ClubInv, NobodyBefore, Club!ClubTypeOK
<1>5. ASSUME org' # None, drift' = {}
      PROVE  CountsHold'
    <2>1. drift = {} /\ member[u] = job[w].status /\ Club!Live
        BY <1>2, <1>5
    <2>2. org \in Club!Org /\ org # None /\ org' # None
        BY <1>5, <2>1 DEF Club!Live, ClubInv, Club!ClubTypeOK
    <2>3. CASE job[w].status = "approved"
        <3>1. Cardinality(Members') = Cardinality(Members) - 1 /\ Cardinality(Members) # 0
            BY <1>1, <1>2, <2>1, <2>3, MemberRemoved
        <3>2. org.members > 0
            BY <2>1, <2>2, <3>1, ClubFinite DEF ClubInv, CountsHold
        <3>3. org' = [org EXCEPT !.members = @ - 1]
            BY <1>2, <2>1, <2>3, <3>2
        <3>4. /\ org'.members = org.members - 1 /\ org'.followers = org.followers
              /\ org'.active = org.active /\ org'.verified = org.verified
            BY <2>2, <3>3 DEF Club!Org
        <3> QED BY <1>2, <2>1, <2>2, <3>1, <3>4 DEF ClubInv, CountsHold
    <2>4. CASE job[w].status # "approved"
        <3>1. Members' = Members
            BY <1>1, <1>2, <2>1, <2>4, MembersSame DEF ClubConstants, Club!Statuses
        <3>2. org' = org
            BY <1>2, <2>4
        <3> QED BY <1>2, <2>1, <2>2, <3>1, <3>2 DEF ClubInv, CountsHold
    <2> QED BY <2>3, <2>4
<1> QED BY <1>4, <1>5 DEF CountsHold

LEMMA StatusesKept ==
    ASSUME ClubConstants, ClubInv, Club!ClubTypeOK', Club!ClubNext
    PROVE  NobodyWaits'
<1> USE DEF ClubInv, NobodyWaits
<1>1. CASE UNCHANGED <<kind, member>>
    BY <1>1
<1>2. ASSUME NEW u \in Users, RosterSteps(u) PROVE NobodyWaits'
    <2>1. kind' = kind /\ (Club!JoinAssociation(u) => kind = "association")
        BY <1>2 DEF RosterSteps, Club!FollowClub, Club!UnfollowClub, Club!JoinClub, Club!LeaveClub, Club!JoinAssociation,
            Club!ApproveAssociationMember, Club!RejectAssociationMember, Club!rosterFrame, Club!others
    <2>2. ~Club!JoinAssociation(u) =>
            member' = member \/ member' = [member EXCEPT ![u] = "approved"] \/ member' = [member EXCEPT ![u] = None]
        BY <1>2 DEF RosterSteps, Club!FollowClub, Club!UnfollowClub, Club!JoinClub, Club!LeaveClub,
            Club!ApproveAssociationMember, Club!RejectAssociationMember
    <2> QED BY <2>1, <2>2 DEF Club!ClubTypeOK, ClubConstants, Club!Statuses
<1>3. ASSUME NEW w \in Requests, Club!LeaveAssociation(w) PROVE NobodyWaits'
    BY <1>3, JobTyped DEF Club!LeaveAssociation, Club!rosterFrame, Club!others, Club!ClubTypeOK, ClubConstants, Club!Statuses
<1>4. ASSUME RowSteps \/ \E w \in Requests : SaveSteps(w) PROVE UNCHANGED <<kind, member>>
    BY <1>4 DEF RowSteps, SaveSteps, Club!CreateOrg, Club!DeleteOrg, Club!RestoreOrg, Club!SaveMyClub, Club!SaveOrg,
        Club!rostersUnchanged, Club!others
<1>5. ASSUME NEW w \in Requests, ReadSteps(w) PROVE UNCHANGED <<kind, member>>
    BY <1>5 DEF ReadSteps, Club!ReadForUpdate, Club!UpdateMyClub, Club!ReadMembership,
        Club!rostersUnchanged, Club!rosterFrame, Club!others
<1> QED BY <1>1, <1>2, <1>3, <1>4, <1>5, ClubSteps, ManagersTyped, PostsTyped DEF RequestSteps

LEMMA ClubKept ==
    ASSUME ClubConstants, ClubInv, [Club!ClubNext]_Club!clubVars
    PROVE  ClubInv'
<1>1. Club!ClubTypeOK'
    BY ClubTyped DEF ClubInv
<1>2. ASSUME UNCHANGED <<org, follows, member, decided, drift>>
      PROVE  NobodyBefore' /\ CountsHold'
    BY <1>2 DEF ClubInv, NobodyBefore, CountsHold, Members
<1>3. CASE UNCHANGED Club!clubVars
    BY <1>1, <1>2, <1>3 DEF Club!clubVars, ClubInv, NobodyWaits
<1>4. CASE Club!ClubNext
    <2>1. ASSUME RowSteps PROVE NobodyBefore' /\ CountsHold'
        BY <2>1, RowsKeep
    <2>2. ASSUME NEW u \in Users, RosterSteps(u) PROVE NobodyBefore' /\ CountsHold'
        <3>1. Club!LeaveClub(u) => member[u] = "approved"
            BY DEF Club!LeaveClub, ClubInv, Club!ClubTypeOK, NobodyWaits, Club!Statuses
        <3> QED BY <2>2, <3>1, FollowKeeps, JoinKeeps, LeaveKeeps, AssociationRosterKeeps DEF RosterSteps
    <2>3. ASSUME NEW w \in Requests, RequestSteps(w) PROVE NobodyBefore' /\ CountsHold'
        <3>1. CASE SaveSteps(w)
            BY <3>1, SavesKeep
        <3>2. CASE Club!LeaveAssociation(w)
            BY <3>2, LeaveAssociationKeeps
        <3>3. CASE ReadSteps(w)
            BY <1>2, <3>3 DEF ReadSteps, Club!ReadForUpdate, Club!UpdateMyClub, Club!ReadMembership, Club!rowUnchanged,
                Club!rostersUnchanged, Club!rosterFrame
        <3>4. CASE ManagerSteps(w)
            BY <1>2, <3>4, ManagersTyped DEF ClubInv
        <3>5. CASE PostSteps(w)
            BY <1>2, <3>5, PostsTyped DEF ClubInv
        <3> QED BY <2>3, <3>1, <3>2, <3>3, <3>4, <3>5 DEF RequestSteps
    <2>4. NobodyBefore' /\ CountsHold'
        BY <1>4, <2>1, <2>2, <2>3, ClubSteps
    <2>5. NobodyWaits'
        BY <1>1, <1>4, StatusesKept
    <2> QED BY <1>1, <2>4, <2>5 DEF ClubInv
<1> QED BY <1>3, <1>4

LEMMA ClubCardinality ==
    ASSUME NEW S
    PROVE  Club!Cardinality(S) = Cardinality(S)
BY DEF Club!Cardinality, Cardinality

LEMMA ClubImplies ==
    ASSUME ClubInv
    PROVE  Club!RostersAgree
<1>1. {u \in Users : Club!GetClubByID(u).following} = follows
    BY DEF Club!GetClubByID, ClubInv, Club!ClubTypeOK
<1>2. {u \in Users : Club!GetClubByID(u).member} = Members
    BY DEF Club!GetClubByID, Club!GetPublicClubMembers, Members
<1> QED BY <1>1, <1>2, ClubCardinality DEF Club!RostersAgree, ClubInv, CountsHold

(* RostersAgree: the counts of a club's row are those of its followers and    *)
(* members, and its flags those last set, under any overlap that is not       *)
(* recorded in drift (club_repository.go:113-175,                             *)
(* association_repository.go:164-216).                                        *)
THEOREM RostersStayTrue ==
    ASSUME ClubConstants
    PROVE  Club!ClubSpec => [](Club!ClubTypeOK /\ Club!RostersAgree)
<1>1. Club!ClubInit => ClubInv
    BY ClubTypedInitially DEF Club!ClubInit, ClubInv, NobodyBefore, NobodyWaits, CountsHold, ClubConstants, Club!Statuses
<1>2. ClubInv /\ [Club!ClubNext]_Club!clubVars => ClubInv'
    BY ClubKept
<1>3. ClubInv => Club!ClubTypeOK /\ Club!RostersAgree
    BY ClubImplies DEF ClubInv
<1> QED BY <1>1, <1>2, <1>3, PTL DEF Club!ClubSpec

-----------------------------------------------------------------------------
(* Profiles and the accounts that claim them *)

ProfileConstants ==
    /\ None \notin Users /\ None \notin Profiles
    /\ Batches # {} /\ Rolls # {}
    /\ KindOf \in [Profiles -> Claims!Kinds]
    /\ Rows \subseteq Claims!Row /\ (\A r \in Rows : r.state # "free") /\ Accounts \subseteq Claims!Account

Task ==
    [step : {"idle"}]
        \cup [step : {"generate", "edit"}, profile : Profiles, was : Claims!Row, row : Claims!Row]
        \cup [step : {"account"}, user : Users, was : Claims!Account, row : Claims!Account]
        \cup [step : {"claim"}, user : Users, code : Codes, kind : Claims!Kinds]
        \cup [step : {"submit"}, user : Users, place : Claims!Place]
        \cup [step : {"approve"}, application : Applications, match : Profiles \cup {None}]

ProfilesTyped ==
    /\ Claims!ProfileTypeOK
    /\ application \in [Applications -> Claims!Application \cup {Claims!NoApplication}]
    /\ worker \in [Workers -> Task]

LEMMA TaskTyped ==
    ASSUME ProfilesTyped, NEW w \in Workers
    PROVE  /\ worker[w].step \in {"idle", "generate", "edit", "account", "claim", "submit", "approve"}
           /\ worker[w].step = "account" =>
                worker[w].user \in Users /\ worker[w].was \in Claims!Account /\ worker[w].row \in Claims!Account
           /\ worker[w].step \in {"generate", "edit"} =>
                worker[w].profile \in Profiles /\ worker[w].was \in Claims!Row /\ worker[w].row \in Claims!Row
           /\ worker[w].step = "claim" => worker[w].user \in Users /\ worker[w].code \in Codes /\ worker[w].kind \in Claims!Kinds
           /\ worker[w].step = "submit" => worker[w].user \in Users /\ worker[w].place \in Claims!Place
           /\ worker[w].step = "approve" => worker[w].application \in Applications /\ worker[w].match \in Profiles \cup {None}
<1>1. worker[w] \in Task
    BY DEF ProfilesTyped
<1> HIDE DEF ProfilesTyped
<1> QED BY <1>1 DEF Task

LEMMA FreeRowTyped ==
    ASSUME ProfileConstants
    PROVE  Claims!FreeRow \in Claims!Row
<1>1. (CHOOSE p \in Claims!Place : TRUE) \in Claims!Place
    <2>1. PICK b \in Batches, r \in Rolls : TRUE
        BY DEF ProfileConstants
    <2>2. <<b, r>> \in Claims!Place
        BY DEF Claims!Place
    <2> QED BY <2>2
<1> QED BY <1>1 DEF Claims!FreeRow, Claims!Row

LEMMA ProfilesTypedInitially ==
    ASSUME ProfileConstants, Claims!ProfileInit
    PROVE  ProfilesTyped
<1>1. user \in [Users -> Claims!Account]
    BY DEF Claims!ProfileInit, Claims!Account, Claims!Kinds
<1>2. profile \in [Profiles -> Claims!Row]
    BY FreeRowTyped DEF Claims!ProfileInit
<1>3. application \in [Applications -> Claims!Application \cup {Claims!NoApplication}]
    BY DEF Claims!ProfileInit
<1>4. worker \in [Workers -> Task]
    BY DEF Claims!ProfileInit, Claims!Idle, Task
<1> QED BY <1>1, <1>2, <1>3, <1>4 DEF Claims!ProfileInit, Claims!ProfileTypeOK, ProfilesTyped

(* What a step leaves the type of.                                            *)
LEMMA ProfilesTypedStep ==
    ASSUME user' \in [Users -> Claims!Account], profile' \in [Profiles -> Claims!Row],
           application' \in [Applications -> Claims!Application \cup {Claims!NoApplication}],
           worker' \in [Workers -> Task],
           overwritten' \subseteq Profiles \cup Users, doubled' \subseteq Claims!Place, strays' \subseteq Profiles
    PROVE  ProfilesTyped'
BY DEF ProfilesTyped, Claims!ProfileTypeOK

LEMMA IdleTyped ==
    ASSUME ProfilesTyped, NEW w \in Workers, NEW t \in Task, worker' = [worker EXCEPT ![w] = t]
    PROVE  /\ worker' \in [Workers -> Task] /\ worker'[w] = t
           /\ \A v \in Workers : v # w => worker'[v] = worker[v]
BY DEF ProfilesTyped

LEMMA IdleIsTask == Claims!Idle \in Task
BY DEF Claims!Idle, Task

(* A profile that is given away.                                              *)
LEMMA GivenTyped ==
    ASSUME ProfilesTyped, NEW s \in Profiles, NEW u \in Users
    PROVE  /\ Claims!Give(s, u) \in Claims!Row
           /\ Claims!Give(s, u).state = profile[s].state /\ Claims!Give(s, u).place = profile[s].place
           /\ Claims!Give(s, u).owner = u /\ Claims!Give(s, u).claimed = TRUE /\ Claims!Give(s, u).code = None
<1> DEFINE was == profile[s]
<1>1. was \in Claims!Row
    BY DEF ProfilesTyped, Claims!ProfileTypeOK
<1>2. Claims!Give(s, u) = [was EXCEPT !.owner = u, !.claimed = TRUE, !.code = None]
    BY DEF Claims!Give
<1> HIDE DEF was
<1> DEFINE given == [was EXCEPT !.owner = u, !.claimed = TRUE, !.code = None]
<1>3. /\ given \in Claims!Row /\ given.state = was.state /\ given.owner = u /\ given.claimed = TRUE
      /\ given.code = None /\ given.place = was.place
    BY <1>1 DEF Claims!Row
<1> QED BY <1>2, <1>3 DEF was

LEMMA VerifiedTyped ==
    ASSUME ProfilesTyped, NEW u \in Users, NEW k \in Claims!Kinds, NEW place \in Claims!Place,
           user' = Claims!Verified(u, k, place)
    PROVE  /\ user' \in [Users -> Claims!Account]
           /\ \A v \in Users : v # u => user'[v] = user[v]
           /\ user[u].live => user'[u].live = TRUE /\ user'[u].verified = TRUE /\ user'[u].role = k
           /\ ~user[u].live => user'[u] = user[u]
<1>1. user[u] \in Claims!Account /\ user \in [Users -> Claims!Account]
    BY DEF ProfilesTyped, Claims!ProfileTypeOK
<1>2. place[1] \in Batches
    BY DEF Claims!Place
<1> DEFINE account == [user[u] EXCEPT !.verified = TRUE, !.role = k, !.department = DepartmentOf[place[1]]]
<1>3. account \in Claims!Account /\ account.live = user[u].live /\ account.verified = TRUE /\ account.role = k
    BY <1>1, <1>2 DEF Claims!Account
<1>4. user' = IF user[u].live THEN [user EXCEPT ![u] = account] ELSE user
    BY DEF Claims!Verified
<1> HIDE DEF account
<1>5. user[u].live \in BOOLEAN
    BY <1>1 DEF Claims!Account
<1> QED BY <1>1, <1>3, <1>4, <1>5

(* The invariant: what a new code is saved with is what was read, an approval *)
(* in progress still meets what it found, and then the parts of ProfilesAgree.*)
SavedRow(t) ==
    /\ profile[t.profile].state # "free" /\ t.row.state # "free"
    /\ t.step = "generate" =>
        /\ t.was.state = "live" /\ t.row.state = "live"
        /\ t.row.owner = t.was.owner /\ t.row.claimed = t.was.claimed /\ t.row.place = t.was.place
        /\ t.row.code = t.was.code \/ t.was.claimed = FALSE
SavesWhatWasRead == \A w \in Workers : worker[w].step \in {"generate", "edit"} => SavedRow(worker[w])
ApprovalsHold ==
    /\ \A w \in Workers : worker[w].step = "approve" =>
        /\ application[worker[w].application].status = "pending"
        /\ worker[w].match # None =>
            LET s == worker[w].match
            IN  profile[s].state = "live" /\ KindOf[s] = "student" /\ profile[s].owner = None
    /\ \A v, w \in Workers : v # w /\ worker[v].step = "approve" /\ worker[w].step = "approve" =>
        /\ worker[v].application # worker[w].application
        /\ worker[v].match = None \/ worker[v].match # worker[w].match
FreeRowsAreEmpty == \A s \in Profiles : profile[s].state = "free" => profile[s] = Claims!FreeRow
OwnersClaim ==
    \A s \in Profiles \ overwritten :
        /\ profile[s].claimed = TRUE <=> profile[s].owner # None
        /\ profile[s].claimed = TRUE => profile[s].code = None
OwnersVerified ==
    \A s \in Profiles \ overwritten : profile[s].owner \notin overwritten \cup {None} /\ s \notin strays =>
        user[profile[s].owner].live = TRUE /\ user[profile[s].owner].verified = TRUE
ApprovedLinked ==
    \A q \in Applications :
        /\ application[q].status = "pending" => application[q].linked = None
        /\ application[q].status = "approved" =>
            /\ application[q].linked \in Profiles
            /\ application[q].linked \in overwritten \/ profile[application[q].linked].owner = application[q].user
VerifiedOwn ==
    \A u \in Users \ overwritten : user[u].verified = TRUE =>
        user[u].live = TRUE /\ (overwritten = {} => \E s \in Profiles : KindOf[s] = user[u].role /\ profile[s].owner = u)
OnePerPlace ==
    \A p \in Claims!Place \ doubled : \A s, t \in Claims!InPlace(p) \ overwritten : s = t
OnePerAccount ==
    \A s, t \in Profiles : profile[s].owner # None /\ profile[t].owner = profile[s].owner /\ KindOf[s] = KindOf[t] => s = t

ProfileParts ==
    /\ SavesWhatWasRead /\ ApprovalsHold /\ FreeRowsAreEmpty /\ OwnersClaim /\ OwnersVerified
    /\ ApprovedLinked /\ VerifiedOwn /\ OnePerPlace /\ OnePerAccount
ProfileInv == ProfilesTyped /\ ProfileParts

(* What the steps that change rows have in common.  A row keeps its owner and *)
(* its claim, or is given to an account; or it is saved over a newer one.     *)
RowKept(s) ==
    \/ s \in overwritten'
    \/ /\ profile'[s].owner = profile[s].owner /\ profile'[s].claimed = profile[s].claimed
       /\ profile'[s].code = profile[s].code \/ profile[s].claimed = FALSE
    \/ /\ profile[s].owner = None /\ profile'[s].owner # None
       /\ profile'[s].claimed = TRUE /\ profile'[s].code = None
       /\ s \in strays' \/ (user'[profile'[s].owner].live = TRUE /\ user'[profile'[s].owner].verified = TRUE)
RowsStep ==
    \A s \in Profiles :
        /\ RowKept(s)
        /\ profile'[s].state = "free" => profile'[s] = profile[s]
\* Requests end; what an approval in progress has locked is left alone.
TasksStep ==
    \A w \in Workers :
        /\ worker'[w] = worker[w] \/ worker'[w].step \in {"idle", "claim", "submit"}
        /\ worker'[w].step = "approve" =>
            /\ application'[worker[w].application] = application[worker[w].application]
            /\ worker[w].match \in Profiles => profile'[worker[w].match] = profile[worker[w].match]
AccountsStep ==
    \A u \in Users \ overwritten' :
        /\ user[u].live = TRUE /\ user[u].verified = TRUE => user'[u].live = TRUE /\ user'[u].verified = TRUE
        /\ user'[u].verified = TRUE =>
            /\ user'[u].live = TRUE
            /\ \/ user[u].verified = TRUE /\ user'[u].role = user[u].role
               \/ \E s \in Profiles : KindOf[s] = user'[u].role /\ profile'[s].owner = u
ApplicationsStep ==
    \A q \in Applications :
        \/ application'[q] = application[q]
        \/ application'[q].status = "pending" /\ application'[q].linked = None
        \/ application'[q].status = "rejected"
        \/ /\ application'[q].status = "approved" /\ application'[q].linked \in Profiles
           /\ profile'[application'[q].linked].owner = application'[q].user
\* One row at most comes to a place, which is empty or doubled.
PlacesStep(s) ==
    /\ \A t \in Profiles \ {s} : t \in overwritten' \/
        (profile'[t].state = "live" => profile[t].state = "live" /\ profile'[t].place = profile[t].place)
    /\ \/ s \in overwritten'
       \/ profile'[s].state = "live" => profile[s].state = "live" /\ profile'[s].place = profile[s].place
       \/ KindOf[s] # "student" \/ profile'[s].place \in doubled' \/ Claims!InPlace(profile'[s].place) = {}
\* One row at most comes to an owner, who has no other of its kind.
OwnerStep(s) ==
    /\ \A t \in Profiles \ {s} : profile'[t].owner = profile[t].owner
    /\ \/ profile'[s].owner \in {None, profile[s].owner}
       \/ Claims!Indexed(profile'[s].owner, KindOf[s]) \subseteq {s}
HistoryGrows == overwritten \subseteq overwritten' /\ doubled \subseteq doubled' /\ strays \subseteq strays'

LEMMA OwnersKept ==
    ASSUME ProfileInv, RowsStep, HistoryGrows
    PROVE  \A s \in Profiles : s \notin overwritten' /\ profile[s].owner # None => profile'[s].owner = profile[s].owner
BY DEF RowsStep, RowKept, HistoryGrows

LEMMA TasksKept ==
    ASSUME ProfileInv, ProfilesTyped', RowsStep, TasksStep
    PROVE  SavesWhatWasRead' /\ ApprovalsHold'
<1> USE DEF ProfileInv, ProfileParts
<1>1. \A s \in Profiles : profile[s].state # "free" => profile'[s].state # "free"
    BY DEF RowsStep
<1>2. SavesWhatWasRead'
    <2>1. ASSUME NEW w \in Workers, worker'[w].step \in {"generate", "edit"}
          PROVE  SavedRow(worker[w])'
        <3>1. worker'[w] = worker[w]
            BY <2>1 DEF TasksStep
        <3>2. SavedRow(worker[w])
            BY <2>1, <3>1 DEF SavesWhatWasRead
        <3>3. worker[w].profile \in Profiles
            BY <2>1, <3>1, TaskTyped
        <3> QED BY <1>1, <3>1, <3>2, <3>3 DEF SavedRow
    <2> QED BY <2>1 DEF SavesWhatWasRead
<1>3. \A w \in Workers : worker'[w].step = "approve" => worker'[w] = worker[w]
    BY DEF TasksStep
<1>4. ASSUME NEW w \in Workers, worker'[w].step = "approve"
      PROVE  /\ application'[worker[w].application].status = "pending"
             /\ worker[w].match # None =>
                 LET s == worker[w].match
                 IN  profile'[s].state = "live" /\ KindOf[s] = "student" /\ profile'[s].owner = None
    BY <1>3, <1>4, TaskTyped DEF TasksStep, ApprovalsHold
<1>5. ApprovalsHold'
    BY <1>3, <1>4 DEF ApprovalsHold
<1> QED BY <1>2, <1>5

LEMMA OwnersClaimKept ==
    ASSUME ProfileInv, ProfilesTyped', RowsStep, AccountsStep, HistoryGrows
    PROVE  FreeRowsAreEmpty' /\ OwnersClaim' /\ OwnersVerified'
<1> USE DEF ProfileInv, ProfileParts
<1>1. FreeRowsAreEmpty'
    BY DEF FreeRowsAreEmpty, RowsStep
<1>2. OwnersClaim'
    BY DEF OwnersClaim, RowsStep, RowKept, HistoryGrows
<1>3. ASSUME NEW s \in Profiles, s \notin overwritten', profile'[s].owner \notin overwritten' \cup {None}, s \notin strays'
      PROVE  user'[profile'[s].owner].live = TRUE /\ user'[profile'[s].owner].verified = TRUE
    <2>1. /\ profile'[s].owner \in Users /\ s \notin overwritten /\ s \notin strays
          /\ profile'[s].owner \notin overwritten
        BY <1>3 DEF ProfilesTyped, Claims!ProfileTypeOK, Claims!Row, HistoryGrows
    <2>2. CASE profile[s].owner = None
        BY <1>3, <2>2 DEF RowsStep, RowKept
    <2>3. CASE profile[s].owner # None
        <3>1. profile'[s].owner = profile[s].owner
            BY <1>3, <2>3, OwnersKept
        <3>2. user[profile[s].owner].live = TRUE /\ user[profile[s].owner].verified = TRUE
            BY <2>1, <2>3, <3>1 DEF OwnersVerified
        <3> QED BY <1>3, <2>1, <3>1, <3>2 DEF AccountsStep
    <2> QED BY <2>2, <2>3
<1>4. OwnersVerified'
    BY <1>3 DEF OwnersVerified
<1> QED BY <1>1, <1>2, <1>4

LEMMA ApplicationsKept ==
    ASSUME ProfileConstants, ProfileInv, ProfilesTyped', RowsStep, ApplicationsStep, HistoryGrows
    PROVE  ApprovedLinked'
<1> USE DEF ProfileInv, ProfileParts
<1> SUFFICES ASSUME NEW q \in Applications
             PROVE  /\ application'[q].status = "pending" => application'[q].linked = None
                    /\ application'[q].status = "approved" =>
                        /\ application'[q].linked \in Profiles
                        /\ \/ application'[q].linked \in overwritten'
                           \/ profile'[application'[q].linked].owner = application'[q].user
    BY DEF ApprovedLinked
<1>1. CASE application'[q] = application[q]
    <2>1. ASSUME application[q].status = "approved", application[q].linked \notin overwritten'
          PROVE  profile'[application[q].linked].owner = application[q].user
        <3>1. application[q].linked \in Profiles /\ profile[application[q].linked].owner = application[q].user
            BY <2>1 DEF ApprovedLinked, HistoryGrows
        <3>2. application[q].user \in Users
            BY <2>1 DEF ProfilesTyped, Claims!Application, Claims!NoApplication
        <3> QED BY <2>1, <3>1, <3>2, OwnersKept DEF ProfileConstants
    <2> QED BY <1>1, <2>1 DEF ApprovedLinked
<1>2. CASE application'[q] # application[q]
    BY <1>2 DEF ApplicationsStep
<1> QED BY <1>1, <1>2

LEMMA AccountsKept ==
    ASSUME ProfileConstants, ProfileInv, ProfilesTyped', RowsStep, AccountsStep, HistoryGrows
    PROVE  VerifiedOwn'
<1> USE DEF ProfileInv, ProfileParts
<1> SUFFICES ASSUME NEW u \in Users \ overwritten', user'[u].verified = TRUE, overwritten' = {}
             PROVE  \E s \in Profiles : KindOf[s] = user'[u].role /\ profile'[s].owner = u
    BY DEF VerifiedOwn, AccountsStep
<1>1. overwritten = {}
    BY DEF HistoryGrows
<1>2. CASE user[u].verified = TRUE /\ user'[u].role = user[u].role
    <2>1. PICK s \in Profiles : KindOf[s] = user[u].role /\ profile[s].owner = u
        BY <1>1, <1>2 DEF VerifiedOwn
    <2>2. profile'[s].owner = u
        BY <2>1, OwnersKept DEF ProfileConstants
    <2> QED BY <1>2, <2>1, <2>2
<1>3. CASE ~(user[u].verified = TRUE /\ user'[u].role = user[u].role)
    BY <1>3 DEF AccountsStep
<1> QED BY <1>2, <1>3

LEMMA PlacesKept ==
    ASSUME ProfileInv, NEW s0 \in Profiles, PlacesStep(s0), HistoryGrows
    PROVE  OnePerPlace'
<1> USE DEF ProfileInv, ProfileParts
<1> SUFFICES ASSUME NEW p \in Claims!Place, p \notin doubled',
                    NEW s \in Profiles, NEW t \in Profiles, s # t, s \notin overwritten', t \notin overwritten',
                    s \in Claims!InPlace(p)', t \in Claims!InPlace(p)'
             PROVE  FALSE
    BY DEF OnePerPlace, Claims!InPlace
<1>1. \A r \in {s, t} : /\ r \notin overwritten /\ KindOf[r] = "student"
                        /\ profile'[r].state = "live" /\ profile'[r].place = p
    BY DEF Claims!InPlace, Claims!Live, HistoryGrows
<1>2. p \notin doubled
    BY DEF HistoryGrows
<1>3. \A r \in {s, t} : r # s0 => r \in Claims!InPlace(p)
    BY <1>1 DEF PlacesStep, Claims!InPlace, Claims!Live
<1>4. s0 \in {s, t} => s0 \in Claims!InPlace(p) \/ Claims!InPlace(p) = {}
    BY <1>1 DEF PlacesStep, Claims!InPlace, Claims!Live
<1> QED BY <1>1, <1>2, <1>3, <1>4 DEF OnePerPlace

LEMMA OwnersStayOne ==
    ASSUME ProfileInv, NEW s0 \in Profiles, OwnerStep(s0)
    PROVE  OnePerAccount'
<1> USE DEF ProfileInv, ProfileParts
<1> SUFFICES ASSUME NEW s \in Profiles, NEW t \in Profiles, profile'[s].owner # None,
                    profile'[t].owner = profile'[s].owner, KindOf[s] = KindOf[t], s # t
             PROVE  FALSE
    BY DEF OnePerAccount
<1>1. \A r \in {s, t} : r # s0 => profile[r].owner = profile'[r].owner
    BY DEF OwnerStep
<1>2. CASE profile'[s0].owner \in {None, profile[s0].owner}
    BY <1>1, <1>2 DEF OnePerAccount
<1>3. CASE Claims!Indexed(profile'[s0].owner, KindOf[s0]) \subseteq {s0}
    BY <1>1, <1>3 DEF OnePerAccount, Claims!Indexed
<1> QED BY <1>2, <1>3 DEF OwnerStep

(* What a step does that leaves a variable alone.                             *)
LEMMA RestUnchanged ==
    ASSUME ProfileInv
    PROVE  /\ UNCHANGED profile => RowsStep
           /\ UNCHANGED user /\ HistoryGrows => AccountsStep
           /\ UNCHANGED application => ApplicationsStep
           /\ UNCHANGED <<profile, overwritten, doubled>> => OnePerPlace'
           /\ UNCHANGED profile => OnePerAccount'
<1> USE DEF ProfileInv, ProfileParts
<1>1. UNCHANGED profile => RowsStep
    BY DEF RowsStep, RowKept
<1>2. UNCHANGED user /\ HistoryGrows => AccountsStep
    BY DEF AccountsStep, VerifiedOwn, HistoryGrows
<1>3. UNCHANGED application => ApplicationsStep
    BY DEF ApplicationsStep
<1>4. UNCHANGED <<profile, overwritten, doubled>> => OnePerPlace'
    BY DEF OnePerPlace, Claims!InPlace, Claims!Live
<1>5. UNCHANGED profile => OnePerAccount'
    BY DEF OnePerAccount
<1> QED BY <1>1, <1>2, <1>3, <1>4, <1>5

(* A step that changes no request and no row that is locked.                  *)
LEMMA LockedKept ==
    ASSUME ProfilesTyped, UNCHANGED application,
           \A s \in Claims!Locked \cap Profiles : profile'[s] = profile[s],
           \A w \in Workers : worker'[w] = worker[w] \/ worker'[w].step \in {"idle", "claim", "submit"}
    PROVE  TasksStep
<1> SUFFICES ASSUME NEW w \in Workers, worker'[w].step = "approve", worker[w].match \in Profiles
             PROVE  profile'[worker[w].match] = profile[worker[w].match]
    BY DEF TasksStep
<1>1. worker[w].step = "approve"
    OBVIOUS
<1> QED BY <1>1 DEF Claims!Locked

LEMMA FreeRowIs == Claims!FreeRow.state = "free" /\ Claims!FreeRow.owner = None /\ Claims!FreeRow.claimed = FALSE
BY DEF Claims!FreeRow

LEMMA FreeRowCode == Claims!FreeRow.code = None
BY DEF Claims!FreeRow

(* A row that is locked is a live profile without an owner.                   *)
LEMMA LockedRows ==
    ASSUME ProfileConstants, ProfileInv, NEW s \in Profiles, s \in Claims!Locked
    PROVE  profile[s].state = "live" /\ profile[s].owner = None
BY DEF ProfileConstants, ProfileInv, ProfileParts, ApprovalsHold, Claims!Locked

LEMMA RegularStep ==
    ASSUME ProfileConstants, ProfileInv, ProfilesTyped', RowsStep, TasksStep, AccountsStep, ApplicationsStep,
           HistoryGrows, OnePerPlace', OnePerAccount'
    PROVE  ProfileInv'
BY TasksKept, OwnersClaimKept, ApplicationsKept, AccountsKept DEF ProfileInv, ProfileParts

(* One lemma for each operation.                                              *)
LEMMA EnteredTyped ==
    ASSUME ProfileConstants, NEW code \in Codes, NEW p \in Claims!Place
    PROVE  Claims!Entered(code, p) \in Claims!Row /\ Claims!Entered(code, p).state # "free"
BY FreeRowTyped DEF Claims!Entered, Claims!Row, Claims!FreeRow

LEMMA CreateKeeps ==
    ASSUME ProfileConstants, ProfileInv,
           NEW s \in Profiles, NEW form \in Claims!Row, form.state # "free", Claims!CreateProfile(s, form)
    PROVE  ProfileInv'
<1>1. /\ profile[s].state = "free" /\ profile' = [profile EXCEPT ![s] = form]
      /\ form.owner = None \/ Claims!Indexed(form.owner, KindOf[s]) = {}
      /\ overwritten' = IF form.owner = None /\ ~form.claimed THEN overwritten ELSE overwritten \cup {s}
      /\ doubled' = IF KindOf[s] = "student" /\ Claims!InPlace(form.place) # {} THEN doubled \cup {form.place} ELSE doubled
      /\ UNCHANGED <<user, application, worker, strays>>
    BY DEF Claims!CreateProfile
<1>2. form.claimed \in BOOLEAN /\ form.place \in Claims!Place
    BY DEF Claims!Row
<1>3. profile[s].owner = None /\ profile[s].claimed = FALSE
    BY <1>1, FreeRowIs DEF ProfileInv, ProfileParts, FreeRowsAreEmpty
<1>4. profile'[s] = form /\ profile' \in [Profiles -> Claims!Row] /\ \A t \in Profiles \ {s} : profile'[t] = profile[t]
    BY <1>1, <1>2 DEF ProfileInv, ProfilesTyped, Claims!ProfileTypeOK
<1>5. ProfilesTyped'
    <2>1. overwritten' \subseteq Profiles \cup Users /\ doubled' \subseteq Claims!Place
        BY <1>1, <1>2 DEF ProfileInv, ProfilesTyped, Claims!ProfileTypeOK
    <2> QED BY <1>1, <1>4, <2>1, ProfilesTypedStep DEF ProfileInv, ProfilesTyped, Claims!ProfileTypeOK
<1>6. RowsStep
    BY <1>1, <1>2, <1>3, <1>4 DEF RowsStep, RowKept
<1>7. HistoryGrows /\ PlacesStep(s) /\ OwnerStep(s)
    BY <1>1, <1>2, <1>4 DEF HistoryGrows, PlacesStep, OwnerStep
<1>8. TasksStep
    <2>1. s \notin Claims!Locked
        BY <1>1, LockedRows
    <2> QED BY <1>1, <1>4, <2>1, LockedKept DEF ProfileInv
<1> QED BY <1>1, <1>5, <1>6, <1>7, <1>8, RestUnchanged, PlacesKept, OwnersStayOne, RegularStep

LEMMA SaveKeeps ==
    ASSUME ProfileConstants, ProfileInv, NEW w \in Workers, Claims!SaveRow(w)
    PROVE  ProfileInv'
<1> DEFINE r == worker[w]
           s == r.profile
<1>1. /\ r.step \in {"generate", "edit"} /\ s \notin Claims!Locked
      /\ r.row.owner = None \/ Claims!Indexed(r.row.owner, KindOf[s]) \subseteq {s}
      /\ profile' = [profile EXCEPT ![s] = r.row]
      /\ overwritten' = IF profile[s] = r.was /\ (r.step = "generate" \/ r.row = r.was)
                        THEN overwritten ELSE overwritten \cup {s}
      /\ worker' = [worker EXCEPT ![w] = Claims!Idle] /\ UNCHANGED <<user, application, doubled, strays>>
    BY DEF Claims!SaveRow, Claims!Saved
<1>2. s \in Profiles /\ r.was \in Claims!Row /\ r.row \in Claims!Row
    BY <1>1, TaskTyped DEF ProfileInv
<1>3. SavedRow(r)
    BY <1>1 DEF ProfileInv, ProfileParts, SavesWhatWasRead
<1> HIDE DEF s, r
<1>4. profile'[s] = r.row /\ profile' \in [Profiles -> Claims!Row] /\ \A t \in Profiles \ {s} : profile'[t] = profile[t]
    BY <1>1, <1>2 DEF ProfileInv, ProfilesTyped, Claims!ProfileTypeOK
<1>5. worker' \in [Workers -> Task] /\ \A v \in Workers : worker'[v] = worker[v] \/ worker'[v].step = "idle"
    BY <1>1, IdleTyped, IdleIsTask DEF ProfileInv, Claims!Idle
<1>6. ProfilesTyped'
    <2>1. overwritten' \subseteq Profiles \cup Users
        BY <1>1, <1>2 DEF ProfileInv, ProfilesTyped, Claims!ProfileTypeOK
    <2> QED BY <1>1, <1>4, <1>5, <2>1, ProfilesTypedStep DEF ProfileInv, ProfilesTyped, Claims!ProfileTypeOK
<1>7. s \in overwritten' \/ (profile[s] = r.was /\ (r.step = "generate" \/ r.row = profile[s]))
    BY <1>1
<1>8. RowsStep
    <2>1. profile'[s].state # "free"
        BY <1>3, <1>4 DEF SavedRow
    <2>2. RowKept(s)
        BY <1>3, <1>4, <1>7 DEF SavedRow, RowKept
    <2> QED BY <1>4, <2>1, <2>2 DEF RowsStep, RowKept
<1>9. HistoryGrows /\ OwnerStep(s)
    BY <1>1, <1>4 DEF HistoryGrows, OwnerStep
<1>10. PlacesStep(s)
    BY <1>3, <1>4, <1>7 DEF SavedRow, PlacesStep
<1>11. TasksStep
    BY <1>1, <1>4, <1>5, LockedKept DEF ProfileInv
<1> QED BY <1>1, <1>2, <1>6, <1>8, <1>9, <1>10, <1>11, RestUnchanged, PlacesKept, OwnersStayOne, RegularStep

LEMMA SaveUserKeeps ==
    ASSUME ProfileConstants, ProfileInv, NEW w \in Workers, Claims!SaveUser(w)
    PROVE  ProfileInv'
<1> DEFINE r == worker[w]
           u == r.user
           new == [r.row EXCEPT !.old = user[u].old]
<1>1. /\ r.step = "account" /\ user' = [user EXCEPT ![u] = new]
      /\ overwritten' = IF [user[u] EXCEPT !.old = r.was.old] = r.was /\ r.row = r.was
                        THEN overwritten ELSE overwritten \cup {u}
      /\ worker' = [worker EXCEPT ![w] = Claims!Idle] /\ UNCHANGED <<profile, application, doubled, strays>>
    BY DEF Claims!SaveUser
<1>2. u \in Users /\ r.was \in Claims!Account /\ r.row \in Claims!Account
    BY <1>1, TaskTyped DEF ProfileInv
<1>3. user[u] \in Claims!Account
    BY <1>2 DEF ProfileInv, ProfilesTyped, Claims!ProfileTypeOK
<1>4. /\ new \in Claims!Account /\ new.live = r.row.live /\ new.verified = r.row.verified /\ new.role = r.row.role
    BY <1>2, <1>3 DEF Claims!Account
<1>5. [user[u] EXCEPT !.old = r.was.old] = r.was =>
        r.was.live = user[u].live /\ r.was.verified = user[u].verified /\ r.was.role = user[u].role
    BY <1>3 DEF Claims!Account
<1> HIDE DEF u, r, new
<1>6. user' \in [Users -> Claims!Account] /\ user'[u] = new /\ \A v \in Users \ {u} : user'[v] = user[v]
    BY <1>1, <1>2, <1>4 DEF ProfileInv, ProfilesTyped, Claims!ProfileTypeOK
<1>7. worker' \in [Workers -> Task] /\ \A v \in Workers : worker'[v] = worker[v] \/ worker'[v].step = "idle"
    BY <1>1, IdleTyped, IdleIsTask DEF ProfileInv, Claims!Idle
<1>8. ProfilesTyped'
    <2>1. overwritten' \subseteq Profiles \cup Users
        BY <1>1, <1>2 DEF ProfileInv, ProfilesTyped, Claims!ProfileTypeOK
    <2> QED BY <1>1, <1>6, <1>7, <2>1, ProfilesTypedStep DEF ProfileInv, ProfilesTyped, Claims!ProfileTypeOK
<1>9. HistoryGrows /\ RowsStep /\ OnePerAccount'
    BY <1>1, RestUnchanged DEF HistoryGrows
<1>10. \A v \in Users \ overwritten' :
         user'[v].live = user[v].live /\ user'[v].verified = user[v].verified /\ user'[v].role = user[v].role
    BY <1>1, <1>2, <1>4, <1>5, <1>6
<1>11. AccountsStep
    BY <1>9, <1>10 DEF AccountsStep, HistoryGrows, ProfileInv, ProfileParts, VerifiedOwn
<1>12. TasksStep
    BY <1>1, <1>7, LockedKept DEF ProfileInv
<1>13. OnePerPlace'
    BY <1>1, <1>9 DEF OnePerPlace, HistoryGrows, ProfileInv, ProfileParts, Claims!InPlace, Claims!Live
<1> QED BY <1>1, <1>8, <1>9, <1>11, <1>12, <1>13, RestUnchanged, RegularStep

LEMMA RotateKeeps ==
    ASSUME ProfileConstants, ProfileInv, Claims!RotateUnclaimedCodes
    PROVE  ProfileInv'
<1> DEFINE S == {s \in Claims!Unclaimed : KindOf[s] = "student" /\ profile[s].owner = None}
           fresh == Codes \ {profile[s].code : s \in S}
<1>1. PICK f \in [S -> fresh] :
        profile' = [s \in Profiles |-> IF s \in S THEN [profile[s] EXCEPT !.code = f[s]] ELSE profile[s]]
    BY DEF Claims!RotateUnclaimedCodes
<1>2. S # {} /\ S \cap Claims!Locked = {} /\ UNCHANGED <<user, application, worker, overwritten, doubled, strays>>
    BY DEF Claims!RotateUnclaimedCodes
<1>3. S \subseteq Profiles /\ \A s \in S : profile[s].claimed # TRUE
    BY DEF Claims!Unclaimed
<1>4. \A s \in S : f[s] \in Codes
    BY <1>1
<1> HIDE DEF S, fresh
<1>5. \A s \in Profiles : profile[s] \in Claims!Row
    BY DEF ProfileInv, ProfilesTyped, Claims!ProfileTypeOK
<1>6. ASSUME NEW s \in S
      PROVE  /\ profile'[s] \in Claims!Row /\ profile'[s].state = profile[s].state /\ profile'[s].owner = profile[s].owner
             /\ profile'[s].claimed = profile[s].claimed /\ profile'[s].place = profile[s].place
             /\ profile[s].claimed = FALSE
             /\ profile'[s].state # "free"
    <2>1. profile'[s] = [profile[s] EXCEPT !.code = f[s]]
        BY <1>1, <1>3
    <2>2. s \in Profiles /\ profile[s] \in Claims!Row /\ f[s] \in Codes
        BY <1>3, <1>4, <1>5
    <2>3. profile[s].state = "live"
        BY DEF S, Claims!Unclaimed, Claims!Live
    <2> QED BY <1>3, <2>1, <2>2, <2>3 DEF Claims!Row
<1>7. \A s \in Profiles \ S : profile'[s] = profile[s]
    BY <1>1
<1>8. profile' \in [Profiles -> Claims!Row]
    <2>1. \A s \in Profiles : profile'[s] \in Claims!Row
        BY <1>5, <1>6, <1>7
    <2> QED BY <1>1, <2>1
<1>9. ProfilesTyped'
    BY <1>2, <1>8, ProfilesTypedStep DEF ProfileInv, ProfilesTyped, Claims!ProfileTypeOK
<1>10. RowsStep
    BY <1>6, <1>7 DEF RowsStep, RowKept
<1>11. PICK s0 \in S : TRUE
    BY <1>2
<1>12. HistoryGrows /\ PlacesStep(s0) /\ s0 \in Profiles /\ OwnerStep(s0)
    BY <1>2, <1>3, <1>6, <1>7 DEF HistoryGrows, PlacesStep, OwnerStep
<1>13. TasksStep
    BY <1>2, <1>7, LockedKept DEF ProfileInv
<1> QED BY <1>2, <1>9, <1>10, <1>12, <1>13, RestUnchanged, PlacesKept, OwnersStayOne, RegularStep

LEMMA ClaimKeeps ==
    ASSUME ProfileConstants, ProfileInv, NEW w \in Workers, NEW k \in Claims!Kinds, Claims!claimProfile(w, k)
    PROVE  ProfileInv'
<1> DEFINE u == worker[w].user
<1>1. PICK s \in Claims!Claimable(worker[w].code, k) \ Claims!Locked :
        /\ profile' = [profile EXCEPT ![s] = Claims!Give(s, u)]
        /\ strays' = IF user[u].live THEN strays ELSE strays \cup {s}
        /\ user' = Claims!Verified(u, k, profile[s].place)
    BY DEF Claims!claimProfile
<1>2. /\ worker[w].step = "claim" /\ worker' = [worker EXCEPT ![w] = Claims!Idle]
      /\ UNCHANGED <<application, overwritten, doubled>>
    BY DEF Claims!claimProfile
<1>3. u \in Users /\ u # None
    BY <1>2, TaskTyped DEF ProfileInv, ProfileConstants
<1>4. s \in Profiles /\ s \notin Claims!Locked /\ KindOf[s] = k /\ profile[s].state = "live" /\ profile[s].claimed # TRUE
    BY <1>1 DEF Claims!Claimable, Claims!Unclaimed, Claims!Live
<1> HIDE DEF u
<1>5. profile[s] \in Claims!Row /\ profile[s].place \in Claims!Place
    BY <1>4 DEF ProfileInv, ProfilesTyped, Claims!ProfileTypeOK, Claims!Row
<1>6. /\ profile' \in [Profiles -> Claims!Row] /\ \A t \in Profiles \ {s} : profile'[t] = profile[t]
      /\ profile'[s].state = "live" /\ profile'[s].place = profile[s].place
      /\ profile'[s].owner = u /\ profile'[s].claimed = TRUE /\ profile'[s].code = None
    <2>1. profile'[s] = Claims!Give(s, u)
        BY <1>1, <1>4 DEF ProfileInv, ProfilesTyped, Claims!ProfileTypeOK
    <2> QED BY <1>1, <1>3, <1>4, <2>1, GivenTyped DEF ProfileInv, ProfilesTyped, Claims!ProfileTypeOK
<1>7. worker' \in [Workers -> Task] /\ \A v \in Workers : worker'[v] = worker[v] \/ worker'[v].step = "idle"
    BY <1>2, IdleTyped, IdleIsTask DEF ProfileInv, Claims!Idle
<1>8. /\ user' \in [Users -> Claims!Account] /\ \A v \in Users : v # u => user'[v] = user[v]
      /\ user[u].live => user'[u].live = TRUE /\ user'[u].verified = TRUE /\ user'[u].role = k
      /\ ~user[u].live => user'[u] = user[u]
    BY <1>1, <1>3, <1>5, VerifiedTyped DEF ProfileInv
<1>9. ProfilesTyped'
    <2>1. strays' \subseteq Profiles
        BY <1>1, <1>4 DEF ProfileInv, ProfilesTyped, Claims!ProfileTypeOK
    <2> QED BY <1>2, <1>6, <1>7, <1>8, <2>1, ProfilesTypedStep DEF ProfileInv, ProfilesTyped, Claims!ProfileTypeOK
<1>10. RowsStep
    <2>1. s \in overwritten' \/ profile[s].owner = None
        BY <1>2, <1>4 DEF ProfileInv, ProfileParts, OwnersClaim
    <2>2. s \in strays' \/ (user'[u].live = TRUE /\ user'[u].verified = TRUE)
        BY <1>1, <1>8
    <2>3. RowKept(s)
        BY <1>3, <1>6, <2>1, <2>2 DEF RowKept
    <2> QED BY <1>6, <2>3 DEF RowsStep, RowKept
<1>11. AccountsStep
    <2> SUFFICES ASSUME NEW v \in Users, v \notin overwritten
                 PROVE  /\ user[v].live = TRUE /\ user[v].verified = TRUE => user'[v].live = TRUE /\ user'[v].verified = TRUE
                        /\ user'[v].verified = TRUE =>
                            /\ user'[v].live = TRUE
                            /\ \/ user[v].verified = TRUE /\ user'[v].role = user[v].role
                               \/ \E t \in Profiles : KindOf[t] = user'[v].role /\ profile'[t].owner = v
        BY <1>2 DEF AccountsStep
    <2>1. user[v].verified = TRUE => user[v].live = TRUE
        BY DEF ProfileInv, ProfileParts, VerifiedOwn
    <2>2. CASE user'[v] = user[v]
        BY <2>1, <2>2
    <2>3. CASE user'[v] # user[v]
        <3>1. v = u /\ user'[v].live = TRUE /\ user'[v].verified = TRUE /\ user'[v].role = KindOf[s]
            BY <1>4, <1>8, <2>3
        <3> QED BY <1>4, <1>6, <3>1
    <2> QED BY <2>2, <2>3
<1>12. HistoryGrows /\ PlacesStep(s) /\ OwnerStep(s)
    <2>1. Claims!Indexed(u, KindOf[s]) = {}
        BY <1>4 DEF Claims!claimProfile, u
    <2> QED BY <1>1, <1>2, <1>4, <1>6, <2>1 DEF HistoryGrows, PlacesStep, OwnerStep
<1>13. TasksStep
    BY <1>2, <1>4, <1>6, <1>7, LockedKept DEF ProfileInv
<1> QED BY <1>2, <1>4, <1>9, <1>10, <1>11, <1>12, <1>13, RestUnchanged, PlacesKept, OwnersStayOne, RegularStep

LEMMA TrashKeeps ==
    ASSUME ProfileConstants, ProfileInv, NEW s \in Profiles, Claims!DeleteProfile(s) \/ Claims!RestoreProfile(s)
    PROVE  ProfileInv'
<1> DEFINE Moved(x) == [profile[s] EXCEPT !.state = x]
<1>1. PICK x \in {"live", "trashed"} : profile' = [profile EXCEPT ![s] = Moved(x)]
    BY DEF Claims!DeleteProfile, Claims!RestoreProfile
<1>2. /\ s \notin Claims!Locked /\ UNCHANGED <<user, application, worker, overwritten, strays>>
      /\ doubled' = doubled \/ doubled' = doubled \cup {profile[s].place}
      /\ \/ profile'[s].state = "trashed"
         \/ KindOf[s] # "student" \/ profile[s].place \in doubled' \/ Claims!InPlace(profile[s].place) = {}
    <2>1. profile[s] \in Claims!Row /\ s \in DOMAIN profile
        BY DEF ProfileInv, ProfilesTyped, Claims!ProfileTypeOK
    <2>2. CASE Claims!DeleteProfile(s)
        BY <2>1, <2>2 DEF Claims!DeleteProfile, Claims!Row
    <2>3. CASE Claims!RestoreProfile(s)
        BY <2>3, LockedRows DEF Claims!RestoreProfile
    <2> QED BY <2>2, <2>3
<1>3. /\ profile[s] \in Claims!Row /\ Moved(x) \in Claims!Row /\ Moved(x).state = x /\ Moved(x).owner = profile[s].owner
      /\ Moved(x).claimed = profile[s].claimed /\ Moved(x).code = profile[s].code /\ Moved(x).place = profile[s].place
    <2>1. profile[s] \in Claims!Row
        BY DEF ProfileInv, ProfilesTyped, Claims!ProfileTypeOK
    <2> QED BY <2>1 DEF Claims!Row
<1> HIDE DEF Moved
<1>4. profile'[s] = Moved(x) /\ profile' \in [Profiles -> Claims!Row] /\ \A t \in Profiles \ {s} : profile'[t] = profile[t]
    BY <1>1, <1>3 DEF ProfileInv, ProfilesTyped, Claims!ProfileTypeOK
<1>5. ProfilesTyped'
    <2>1. doubled' \subseteq Claims!Place
        BY <1>2, <1>3 DEF ProfileInv, ProfilesTyped, Claims!ProfileTypeOK, Claims!Row
    <2> QED BY <1>2, <1>4, <2>1, ProfilesTypedStep DEF ProfileInv, ProfilesTyped, Claims!ProfileTypeOK
<1>6. RowsStep
    BY <1>1, <1>3, <1>4 DEF RowsStep, RowKept
<1>7. HistoryGrows /\ PlacesStep(s) /\ OwnerStep(s)
    BY <1>2, <1>3, <1>4 DEF HistoryGrows, PlacesStep, OwnerStep
<1>8. TasksStep
    BY <1>2, <1>4, LockedKept DEF ProfileInv
<1> QED BY <1>2, <1>5, <1>6, <1>7, <1>8, RestUnchanged, PlacesKept, OwnersStayOne, RegularStep

LEMMA ApproveKeeps ==
    ASSUME ProfileConstants, ProfileInv, NEW w \in Workers, Claims!Approve(w)
    PROVE  ProfileInv'
<1> DEFINE q == worker[w].application
           a == application[q]
           m == worker[w].match
           free == {s \in Profiles : profile[s].state = "free" /\ KindOf[s] = "student"}
           given(s) == [Claims!Give(s, a.user) EXCEPT !.state = "live", !.place = IF m = None THEN a.place ELSE profile[s].place]
           approved(s) == [a EXCEPT !.status = "approved", !.escalated = FALSE, !.linked = s]
<1>1. PICK s \in IF m = None THEN free ELSE {m} :
        /\ profile' = [profile EXCEPT ![s] = given(s)]
        /\ application' = [application EXCEPT ![q] = approved(s)]
        /\ strays' = IF user[a.user].live THEN strays ELSE strays \cup {s}
    BY DEF Claims!Approve
<1>2. /\ worker[w].step = "approve" /\ worker' = [worker EXCEPT ![w] = Claims!Idle]
      /\ user' = Claims!Verified(a.user, "student", a.place) /\ overwritten' = overwritten
      /\ doubled' = IF m = None /\ Claims!InPlace(a.place) # {} THEN doubled \cup {a.place} ELSE doubled
    BY DEF Claims!Approve
<1>3. q \in Applications /\ m \in Profiles \cup {None} /\ a \in Claims!Application /\ a.status = "pending"
    BY <1>2, TaskTyped DEF ProfileInv, ProfileParts, ApprovalsHold, ProfilesTyped, Claims!NoApplication
<1>4. a.user \in Users /\ a.user # None /\ a.place \in Claims!Place
    BY <1>3 DEF Claims!Application, ProfileConstants
<1>5. s \in Profiles /\ KindOf[s] = "student" /\ profile[s].owner = None
    <2>1. CASE m = None
        BY <1>1, <2>1, FreeRowIs DEF ProfileInv, ProfileParts, FreeRowsAreEmpty
    <2>2. CASE m # None
        BY <1>1, <1>2, <1>3, <2>2 DEF ProfileInv, ProfileParts, ApprovalsHold
    <2> QED BY <2>1, <2>2
<1>6. m # None => s = m /\ profile[s].state = "live"
    BY <1>1, <1>2 DEF ProfileInv, ProfileParts, ApprovalsHold
<1>7. m = None => profile[s].state = "free"
    BY <1>1
<1> HIDE DEF q, m, a, free
<1>8. /\ given(s) \in Claims!Row /\ given(s).state = "live" /\ given(s).owner = a.user /\ given(s).claimed = TRUE
      /\ given(s).code = None /\ given(s).place = IF m = None THEN a.place ELSE profile[s].place
    <2> DEFINE place == IF m = None THEN a.place ELSE profile[s].place
    <2>1. place \in Claims!Place
        BY <1>4, <1>5 DEF ProfileInv, ProfilesTyped, Claims!ProfileTypeOK, Claims!Row
    <2>2. given(s) = [Claims!Give(s, a.user) EXCEPT !.state = "live", !.place = place]
        OBVIOUS
    <2>3. /\ Claims!Give(s, a.user) \in Claims!Row /\ Claims!Give(s, a.user).owner = a.user
          /\ Claims!Give(s, a.user).claimed = TRUE /\ Claims!Give(s, a.user).code = None
        BY <1>4, <1>5, GivenTyped DEF ProfileInv
    <2> HIDE DEF place, given
    <2>4. /\ given(s) \in Claims!Row /\ given(s).state = "live" /\ given(s).owner = a.user /\ given(s).claimed = TRUE
          /\ given(s).code = None /\ given(s).place = place
        BY <2>1, <2>2, <2>3 DEF Claims!Row
    <2> QED BY <2>4 DEF place
<1> HIDE DEF given
<1>9. profile'[s] = given(s) /\ profile' \in [Profiles -> Claims!Row] /\ \A t \in Profiles \ {s} : profile'[t] = profile[t]
    BY <1>1, <1>5, <1>8 DEF ProfileInv, ProfilesTyped, Claims!ProfileTypeOK
<1>10. /\ approved(s) \in Claims!Application /\ approved(s).status = "approved" /\ approved(s).linked = s
       /\ approved(s).user = a.user
    BY <1>3, <1>5 DEF Claims!Application
<1> HIDE DEF approved
<1>11. /\ application' \in [Applications -> Claims!Application \cup {Claims!NoApplication}]
       /\ application'[q] = approved(s) /\ \A p \in Applications \ {q} : application'[p] = application[p]
    BY <1>1, <1>3, <1>10 DEF ProfileInv, ProfilesTyped
<1>12. /\ worker' \in [Workers -> Task] /\ worker'[w].step = "idle"
       /\ \A v \in Workers : v # w => worker'[v] = worker[v]
    BY <1>2, IdleTyped, IdleIsTask DEF ProfileInv, Claims!Idle
<1>13. /\ user' \in [Users -> Claims!Account] /\ \A v \in Users : v # a.user => user'[v] = user[v]
       /\ user[a.user].live => /\ user'[a.user].live = TRUE /\ user'[a.user].verified = TRUE
                               /\ user'[a.user].role = "student"
       /\ ~user[a.user].live => user'[a.user] = user[a.user]
    BY <1>2, <1>4, VerifiedTyped DEF ProfileInv, Claims!Kinds
<1>14. ProfilesTyped'
    <2>1. strays' \subseteq Profiles /\ overwritten' \subseteq Profiles \cup Users /\ doubled' \subseteq Claims!Place
        BY <1>1, <1>2, <1>4, <1>5 DEF ProfileInv, ProfilesTyped, Claims!ProfileTypeOK
    <2> QED BY <1>9, <1>11, <1>12, <1>13, <2>1, ProfilesTypedStep
<1>15. RowsStep
    <2>1. s \in strays' \/ (user'[a.user].live = TRUE /\ user'[a.user].verified = TRUE)
        BY <1>1, <1>13
    <2>2. RowKept(s)
        BY <1>4, <1>5, <1>8, <1>9, <2>1 DEF RowKept
    <2> QED BY <1>8, <1>9, <2>2 DEF RowsStep, RowKept
<1>16. AccountsStep
    <2> SUFFICES ASSUME NEW v \in Users, v \notin overwritten
                 PROVE  /\ user[v].live = TRUE /\ user[v].verified = TRUE => user'[v].live = TRUE /\ user'[v].verified = TRUE
                        /\ user'[v].verified = TRUE =>
                            /\ user'[v].live = TRUE
                            /\ \/ user[v].verified = TRUE /\ user'[v].role = user[v].role
                               \/ \E t \in Profiles : KindOf[t] = user'[v].role /\ profile'[t].owner = v
        BY <1>2 DEF AccountsStep
    <2>1. user[v].verified = TRUE => user[v].live = TRUE
        BY DEF ProfileInv, ProfileParts, VerifiedOwn
    <2>2. CASE user'[v] = user[v]
        BY <2>1, <2>2
    <2>3. CASE user'[v] # user[v]
        <3>1. v = a.user /\ user'[v].live = TRUE /\ user'[v].verified = TRUE /\ user'[v].role = KindOf[s]
            BY <1>5, <1>13, <2>3
        <3> QED BY <1>5, <1>8, <1>9, <3>1
    <2> QED BY <2>2, <2>3
<1>17. ApplicationsStep
    BY <1>5, <1>8, <1>9, <1>10, <1>11 DEF ApplicationsStep
<1>18. HistoryGrows /\ PlacesStep(s) /\ OwnerStep(s)
    <2>1. Claims!Indexed(a.user, "student") = {}
        BY DEF Claims!Approve, a, q
    <2>2. OwnerStep(s)
        BY <1>5, <1>8, <1>9, <2>1 DEF OwnerStep
    <2> QED BY <1>1, <1>2, <1>6, <1>7, <1>8, <1>9, <2>2 DEF HistoryGrows, PlacesStep
<1>19. TasksStep
    <2> SUFFICES ASSUME NEW v \in Workers, worker'[v].step = "approve"
                 PROVE  /\ application'[worker[v].application] = application[worker[v].application]
                        /\ worker[v].match \in Profiles => profile'[worker[v].match] = profile[worker[v].match]
        BY <1>12 DEF TasksStep
    <2>1. v # w /\ worker[v].step = "approve"
        BY <1>12
    <2>2. worker[v].application # q /\ worker[v].application \in Applications
        BY <1>2, <2>1, TaskTyped DEF ProfileInv, ProfileParts, ApprovalsHold, q
    <2>3. worker[v].match \in Profiles => worker[v].match # s
        <3>1. m = None \/ worker[v].match = None \/ worker[v].match # m
            BY <1>2, <2>1 DEF ProfileInv, ProfileParts, ApprovalsHold, m
        <3>2. worker[v].match \in Profiles => profile[worker[v].match].state = "live"
            BY <2>1 DEF ProfileInv, ProfileParts, ApprovalsHold, ProfileConstants
        <3> QED BY <1>6, <1>7, <3>1, <3>2 DEF ProfileConstants
    <2> QED BY <1>9, <1>11, <2>2, <2>3
<1> QED BY <1>5, <1>14, <1>15, <1>16, <1>17, <1>18, <1>19, PlacesKept, OwnersStayOne, RegularStep

LEMMA SubmitKeeps ==
    ASSUME ProfileConstants, ProfileInv, NEW w \in Workers, NEW q \in Applications, Claims!Submit(w, q)
    PROVE  ProfileInv'
<1> DEFINE new == [status |-> "pending", user |-> worker[w].user, place |-> worker[w].place,
                   escalated |-> FALSE, linked |-> None]
<1>1. /\ worker[w].step = "submit" /\ application[q] = Claims!NoApplication
      /\ application' = [application EXCEPT ![q] = new] /\ worker' = [worker EXCEPT ![w] = Claims!Idle]
      /\ UNCHANGED <<user, profile, overwritten, doubled, strays>>
    BY DEF Claims!Submit
<1>2. new \in Claims!Application /\ new.status = "pending" /\ new.linked = None
    BY <1>1, TaskTyped DEF ProfileInv, Claims!Application
<1> HIDE DEF new
<1>3. /\ application' \in [Applications -> Claims!Application \cup {Claims!NoApplication}]
      /\ application'[q] = new /\ \A p \in Applications \ {q} : application'[p] = application[p]
    BY <1>1, <1>2 DEF ProfileInv, ProfilesTyped
<1>4. worker' \in [Workers -> Task] /\ \A v \in Workers : worker'[v] = worker[v] \/ worker'[v].step = "idle"
    BY <1>1, IdleTyped, IdleIsTask DEF ProfileInv, Claims!Idle
<1>5. ProfilesTyped'
    BY <1>1, <1>3, <1>4, ProfilesTypedStep DEF ProfileInv, ProfilesTyped, Claims!ProfileTypeOK
<1>6. TasksStep
    <2> SUFFICES ASSUME NEW v \in Workers, worker[v].step = "approve"
                 PROVE  application'[worker[v].application] = application[worker[v].application]
        BY <1>1, <1>4 DEF TasksStep
    <2>1. worker[v].application \in Applications /\ application[worker[v].application].status = "pending"
        BY TaskTyped DEF ProfileInv, ProfileParts, ApprovalsHold
    <2>2. worker[v].application # q
        BY <1>1, <2>1 DEF Claims!NoApplication
    <2> QED BY <1>3, <2>1, <2>2
<1>7. ApplicationsStep
    BY <1>2, <1>3 DEF ApplicationsStep
<1>8. HistoryGrows
    BY <1>1 DEF HistoryGrows
<1> QED BY <1>1, <1>5, <1>6, <1>7, <1>8, RestUnchanged, RegularStep

LEMMA ReviewKeeps ==
    ASSUME ProfileConstants, ProfileInv, NEW q \in Applications, Claims!Escalate(q) \/ Claims!Reject(q)
    PROVE  ProfileInv'
<1>1. q \in Claims!Pending \ Claims!Approving /\ UNCHANGED <<user, profile, worker, overwritten, doubled, strays>>
    BY DEF Claims!Escalate, Claims!Reject
<1>2. application[q] \in Claims!Application /\ application[q].status = "pending" /\ application[q].linked = None
    BY <1>1 DEF Claims!Pending, ProfileInv, ProfileParts, ApprovedLinked, ProfilesTyped, Claims!NoApplication
<1>3. PICK a \in Claims!Application :
        /\ application' = [application EXCEPT ![q] = a]
        /\ a.status = "rejected" \/ (a.status = "pending" /\ a.linked = None)
    <2>1. CASE Claims!Escalate(q)
        <3>1. application' = [application EXCEPT ![q] = [application[q] EXCEPT !.escalated = TRUE]]
            BY <2>1 DEF Claims!Escalate
        <3> DEFINE a == [application[q] EXCEPT !.escalated = TRUE]
        <3>2. a \in Claims!Application /\ a.status = "pending" /\ a.linked = None
            BY <1>2 DEF Claims!Application
        <3> QED BY <3>1, <3>2
    <2>2. CASE Claims!Reject(q)
        <3>1. application' = [application EXCEPT ![q] = [application[q] EXCEPT !.status = "rejected", !.escalated = FALSE]]
            BY <2>2 DEF Claims!Reject
        <3> DEFINE a == [application[q] EXCEPT !.status = "rejected", !.escalated = FALSE]
        <3>2. a \in Claims!Application /\ a.status = "rejected"
            BY <1>2 DEF Claims!Application
        <3> QED BY <3>1, <3>2
    <2> QED BY <2>1, <2>2
<1>4. /\ application' \in [Applications -> Claims!Application \cup {Claims!NoApplication}]
      /\ application'[q] = a /\ \A p \in Applications \ {q} : application'[p] = application[p]
    BY <1>3 DEF ProfileInv, ProfilesTyped
<1>5. ProfilesTyped'
    BY <1>1, <1>4, ProfilesTypedStep DEF ProfileInv, ProfilesTyped, Claims!ProfileTypeOK
<1>6. TasksStep
    <2> SUFFICES ASSUME NEW v \in Workers, worker[v].step = "approve"
                 PROVE  application'[worker[v].application] = application[worker[v].application]
        BY <1>1 DEF TasksStep
    <2>1. worker[v].application \in Applications
        BY TaskTyped DEF ProfileInv
    <2>2. worker[v].application # q
        BY <1>1 DEF Claims!Approving
    <2> QED BY <1>4, <2>1, <2>2
<1>7. ApplicationsStep
    BY <1>3, <1>4 DEF ApplicationsStep
<1>8. HistoryGrows
    BY <1>1 DEF HistoryGrows
<1> QED BY <1>1, <1>5, <1>6, <1>7, <1>8, RestUnchanged, RegularStep

(* Steps that change the account of a user and nothing else.                  *)
LEMMA SweepKeeps ==
    ASSUME ProfileConstants, ProfileInv, Claims!SweepOrphans \/ \E u \in Users : Claims!Age(u)
    PROVE  ProfileInv'
<1>1. UNCHANGED <<profile, application, worker, overwritten, doubled, strays>>
    BY DEF Claims!SweepOrphans, Claims!Age
<1>2. \A u \in Users : user[u] \in Claims!Account
    BY DEF ProfileInv, ProfilesTyped, Claims!ProfileTypeOK
<1>3. /\ user' \in [Users -> Claims!Account]
      /\ \A u \in Users : /\ user'[u].verified = user[u].verified /\ user'[u].role = user[u].role
                          /\ user[u].verified = TRUE => user'[u].live = user[u].live
    <2>1. CASE Claims!SweepOrphans
        <3> DEFINE Kept(u) == [user[u] EXCEPT !.live = user[u].live /\ u \notin
                {v \in Users : /\ user[v].live /\ user[v].old /\ user[v].role = "student"
                               /\ ~user[v].verified /\ user[v].department = None
                               /\ \A q \in Applications : application[q] = Claims!NoApplication \/ application[q].user # v}]
        <3>1. user' = [u \in Users |-> Kept(u)]
            BY <2>1 DEF Claims!SweepOrphans
        <3>2. \A u \in Users : /\ Kept(u) \in Claims!Account /\ Kept(u).verified = user[u].verified
                               /\ Kept(u).role = user[u].role
                               /\ user[u].verified = TRUE => Kept(u).live = user[u].live
            BY <1>2 DEF Claims!Account
        <3> HIDE DEF Kept
        <3> QED BY <3>1, <3>2
    <2>2. ASSUME NEW v \in Users, Claims!Age(v) PROVE <1>3!1 /\ <1>3!2
        <3> DEFINE Aged == [user[v] EXCEPT !.old = TRUE]
        <3>1. user' = [user EXCEPT ![v] = Aged]
            BY <2>2 DEF Claims!Age
        <3>2. Aged \in Claims!Account /\ Aged.verified = user[v].verified /\ Aged.role = user[v].role /\ Aged.live = user[v].live
            BY <1>2 DEF Claims!Account
        <3> HIDE DEF Aged
        <3> QED BY <3>1, <3>2 DEF ProfileInv, ProfilesTyped, Claims!ProfileTypeOK
    <2> QED BY <2>1, <2>2
<1>4. ProfilesTyped'
    BY <1>1, <1>3, ProfilesTypedStep DEF ProfileInv, ProfilesTyped, Claims!ProfileTypeOK
<1>5. AccountsStep
    BY <1>1, <1>3 DEF AccountsStep, ProfileInv, ProfileParts, VerifiedOwn
<1>6. TasksStep /\ HistoryGrows
    BY <1>1 DEF TasksStep, HistoryGrows
<1> QED BY <1>1, <1>4, <1>5, <1>6, RestUnchanged, RegularStep

(* Steps that only move a request.  One that begins to save or to approve     *)
(* starts from what it has just read and locked.                              *)
LEMMA WorkersKeep ==
    ASSUME ProfileConstants, ProfileInv, NEW w \in Workers, NEW t \in Task,
           worker' = [worker EXCEPT ![w] = t],
           UNCHANGED <<user, profile, application, overwritten, doubled, strays>>,
           t.step \in {"generate", "edit"} => SavedRow(t),
           t.step = "approve" =>
               /\ application[t.application].status = "pending" /\ t.application \notin Claims!Approving
               /\ t.match # None =>
                   /\ profile[t.match].state = "live" /\ KindOf[t.match] = "student" /\ profile[t.match].owner = None
                   /\ t.match \notin Claims!Locked
    PROVE  ProfileInv'
<1>1. worker' \in [Workers -> Task] /\ worker'[w] = t /\ \A v \in Workers : v # w => worker'[v] = worker[v]
    BY IdleTyped DEF ProfileInv
<1>2. ProfilesTyped'
    BY <1>1, ProfilesTypedStep DEF ProfileInv, ProfilesTyped, Claims!ProfileTypeOK
<1>3. SavesWhatWasRead'
    <2> SUFFICES ASSUME NEW v \in Workers, worker'[v].step \in {"generate", "edit"}
                 PROVE  SavedRow(worker[v])'
        BY DEF SavesWhatWasRead
    <2>1. SavedRow(worker'[v])
        BY <1>1 DEF ProfileInv, ProfileParts, SavesWhatWasRead
    <2> QED BY <2>1 DEF SavedRow
<1>4. ApprovalsHold'
    <2>1. \A v \in Workers : v # w /\ worker[v].step = "approve" =>
            worker[v].application \in Claims!Approving /\ worker[v].match \in Claims!Locked
        BY DEF Claims!Approving, Claims!Locked
    <2>2. \A v \in Workers : worker'[v].step = "approve" =>
            /\ application[worker'[v].application].status = "pending"
            /\ worker'[v].match # None =>
                LET s == worker'[v].match
                IN  profile[s].state = "live" /\ KindOf[s] = "student" /\ profile[s].owner = None
        BY <1>1 DEF ProfileInv, ProfileParts, ApprovalsHold
    <2>3. \A u, v \in Workers : u # v /\ worker'[u].step = "approve" /\ worker'[v].step = "approve" =>
            /\ worker'[u].application # worker'[v].application
            /\ worker'[u].match = None \/ worker'[u].match # worker'[v].match
        BY <1>1, <2>1 DEF ProfileInv, ProfileParts, ApprovalsHold
    <2> QED BY <2>2, <2>3 DEF ApprovalsHold
<1>5. FreeRowsAreEmpty' /\ OwnersClaim' /\ OwnersVerified' /\ ApprovedLinked' /\ VerifiedOwn' /\ OnePerPlace' /\ OnePerAccount'
    BY RestUnchanged DEF ProfileInv, ProfileParts, FreeRowsAreEmpty, OwnersClaim, OwnersVerified, ApprovedLinked, VerifiedOwn
<1> QED BY <1>2, <1>3, <1>4, <1>5 DEF ProfileInv, ProfileParts

LEMMA StartsKeep ==
    ASSUME ProfileConstants, ProfileInv, NEW w \in Workers,
           \/ \E s \in Profiles : Claims!StartGenerate(w, s) \/ \E form \in Rows \cup {profile[s]} : Claims!StartEdit(w, s, form)
           \/ \E u \in Users : \E form \in Accounts \cup {user[u]} : Claims!StartEditUser(w, u, form)
           \/ \E u \in Users, code \in Codes, k \in Claims!Kinds : Claims!StartClaim(w, u, code, k)
           \/ \E u \in Users, p \in Claims!Place : Claims!StartSubmit(w, u, p)
           \/ \E q \in Applications : Claims!StartApprove(w, q)
           \/ Claims!Drop(w)
    PROVE  ProfileInv'
<1> USE DEF Task
<1>1. UNCHANGED <<user, profile, application, overwritten, doubled, strays>>
    BY DEF Claims!StartGenerate, Claims!StartEdit, Claims!StartEditUser, Claims!StartClaim, Claims!StartSubmit, Claims!StartApprove, Claims!Drop
<1>2. \A s \in Profiles : profile[s] \in Claims!Row
    BY DEF ProfileInv, ProfilesTyped, Claims!ProfileTypeOK
<1>3. ASSUME NEW s \in Profiles, Claims!StartGenerate(w, s)
      PROVE  ProfileInv'
    <2>1. PICK code \in Claims!Drawn(s) :
            worker' = [worker EXCEPT ![w] = [step |-> "generate", profile |-> s, was |-> profile[s],
                                             row |-> [profile[s] EXCEPT !.code = code]]]
        BY <1>3 DEF Claims!StartGenerate
    <2>2. code \in Codes /\ profile[s].state = "live" /\ profile[s].claimed = FALSE /\ profile[s] \in Claims!Row
        BY <1>2, <1>3 DEF Claims!StartGenerate, Claims!Drawn, Claims!Unclaimed, Claims!Live, Claims!Row
    <2> DEFINE coded == [profile[s] EXCEPT !.code = code]
               t == [step |-> "generate", profile |-> s, was |-> profile[s], row |-> coded]
    <2>3. /\ coded \in Claims!Row /\ coded.state = "live" /\ coded.owner = profile[s].owner
          /\ coded.claimed = profile[s].claimed /\ coded.place = profile[s].place
        BY <2>2 DEF Claims!Row
    <2> HIDE DEF coded
    <2>4. /\ t \in Task /\ t.step = "generate" /\ t.profile = s /\ t.was = profile[s] /\ t.row = coded
        BY <2>2, <2>3
    <2>5. worker' = [worker EXCEPT ![w] = t]
        BY <2>1 DEF coded
    <2> HIDE DEF t
    <2>6. SavedRow(t)
        BY <2>2, <2>3, <2>4 DEF SavedRow
    <2> QED BY <1>1, <2>4, <2>5, <2>6, WorkersKeep
<1>4. ASSUME NEW s \in Profiles, NEW form \in Rows \cup {profile[s]}, Claims!StartEdit(w, s, form)
      PROVE  ProfileInv'
    <2> DEFINE t == [step |-> "edit", profile |-> s, was |-> profile[s], row |-> form]
    <2>1. worker' = [worker EXCEPT ![w] = t] /\ profile[s].state = "live"
        BY <1>4 DEF Claims!StartEdit, Claims!Live
    <2>2. form \in Claims!Row /\ form.state # "free"
        BY <1>2, <2>1 DEF ProfileConstants
    <2>3. /\ t \in Task /\ t.step = "edit" /\ t.profile = s /\ t.was = profile[s] /\ t.row = form
        BY <1>2, <2>2
    <2> HIDE DEF t
    <2>4. SavedRow(t)
        BY <2>1, <2>2, <2>3 DEF SavedRow
    <2> QED BY <1>1, <2>1, <2>3, <2>4, WorkersKeep
<1>10. ASSUME NEW u \in Users, NEW form \in Accounts \cup {user[u]}, Claims!StartEditUser(w, u, form)
       PROVE  ProfileInv'
    <2> DEFINE t == [step |-> "account", user |-> u, was |-> user[u], row |-> form]
    <2>1. worker' = [worker EXCEPT ![w] = t]
        BY <1>10 DEF Claims!StartEditUser
    <2>2. user[u] \in Claims!Account /\ form \in Claims!Account
        BY DEF ProfileConstants, ProfileInv, ProfilesTyped, Claims!ProfileTypeOK
    <2>3. t \in Task /\ t.step = "account"
        BY <2>2
    <2> HIDE DEF t
    <2> QED BY <1>1, <2>1, <2>3, WorkersKeep
<1>5. ASSUME NEW t \in Task, t.step \in {"idle", "claim", "submit"}, worker' = [worker EXCEPT ![w] = t]
      PROVE  ProfileInv'
    BY <1>1, <1>5, WorkersKeep
<1>6. ASSUME NEW u \in Users, NEW code \in Codes, NEW k \in Claims!Kinds, Claims!StartClaim(w, u, code, k)
      PROVE  ProfileInv'
    BY <1>5, <1>6 DEF Claims!StartClaim
<1>7. ASSUME NEW u \in Users, NEW p \in Claims!Place, Claims!StartSubmit(w, u, p)
      PROVE  ProfileInv'
    BY <1>5, <1>7 DEF Claims!StartSubmit
<1>8. ASSUME NEW q \in Applications, Claims!StartApprove(w, q)
      PROVE  ProfileInv'
    <2> DEFINE S == Claims!InPlace(application[q].place)
    <2>1. PICK s \in IF S = {} THEN {None} ELSE S \ Claims!Locked :
            /\ s # None => Claims!Available(s)
            /\ worker' = [worker EXCEPT ![w] = [step |-> "approve", application |-> q, match |-> s]]
        BY <1>8 DEF Claims!StartApprove
    <2>2. s # None => /\ s \in Profiles /\ profile[s].state = "live" /\ KindOf[s] = "student"
                      /\ profile[s].owner = None /\ s \notin Claims!Locked
        BY <2>1 DEF Claims!InPlace, Claims!Available, Claims!Live
    <2>3. application[q].status = "pending" /\ q \notin Claims!Approving
        BY <1>8 DEF Claims!StartApprove, Claims!Pending
    <2> DEFINE t == [step |-> "approve", application |-> q, match |-> s]
    <2>4. t \in Task /\ t.step = "approve" /\ t.application = q /\ t.match = s
        BY <2>2
    <2>5. worker' = [worker EXCEPT ![w] = t]
        BY <2>1
    <2> HIDE DEF t, S
    <2> QED BY <1>1, <2>2, <2>3, <2>4, <2>5, WorkersKeep
<1>9. ASSUME Claims!Drop(w)
      PROVE  ProfileInv'
    BY <1>5, <1>9 DEF Claims!Drop, Claims!Idle
<1> QED BY <1>3, <1>4, <1>6, <1>7, <1>8, <1>9, <1>10

LEMMA ProfileKept ==
    ASSUME ProfileConstants, ProfileInv, [Claims!ProfileNext]_Claims!profileVars
    PROVE  ProfileInv'
<1>1. CASE UNCHANGED Claims!profileVars
    BY <1>1 DEF Claims!profileVars, ProfileInv, ProfileParts, ProfilesTyped, Claims!ProfileTypeOK, SavesWhatWasRead,
        ApprovalsHold, FreeRowsAreEmpty, OwnersClaim, OwnersVerified, ApprovedLinked, VerifiedOwn, OnePerPlace,
        OnePerAccount, SavedRow, Claims!InPlace, Claims!Live
<1>2. CASE Claims!CodeStep
    <2>1. \A w \in Workers : Claims!ClaimStudent(w) \/ Claims!ClaimTeacher(w) \/ Claims!ClaimStaff(w) => ProfileInv'
        BY ClaimKeeps DEF Claims!ClaimStudent, Claims!ClaimTeacher, Claims!ClaimStaff, Claims!Kinds
    <2>2. ASSUME NEW s \in Profiles,
                 NEW form \in Rows \cup {Claims!Entered(c, p) : c \in Codes, p \in Claims!Place}, Claims!CreateProfile(s, form)
          PROVE  ProfileInv'
        <3>1. form \in Claims!Row /\ form.state # "free"
            BY EnteredTyped DEF ProfileConstants
        <3> QED BY <2>2, <3>1, CreateKeeps
    <2> QED BY <1>2, <2>1, <2>2, StartsKeep, RotateKeeps, SaveKeeps, SaveUserKeeps, TrashKeeps DEF Claims!CodeStep
<1>3. CASE Claims!RequestStep
    BY <1>3, StartsKeep, SubmitKeeps, ApproveKeeps, ReviewKeeps DEF Claims!RequestStep
<1>4. CASE Claims!SweepOrphans \/ \E u \in Users : Claims!Age(u)
    BY <1>4, SweepKeeps
<1>5. CASE \E w \in Workers : Claims!Drop(w)
    BY <1>5, StartsKeep
<1> QED BY <1>1, <1>2, <1>3, <1>4, <1>5 DEF Claims!ProfileNext

LEMMA ProfileInitially ==
    ASSUME ProfileConstants, Claims!ProfileInit
    PROVE  ProfileInv
<1> USE DEF Claims!ProfileInit
<1>1. SavesWhatWasRead /\ ApprovalsHold
    BY DEF SavesWhatWasRead, ApprovalsHold, Claims!Idle
<1>2. FreeRowsAreEmpty /\ OwnersClaim /\ OwnersVerified
    BY FreeRowIs, FreeRowCode DEF FreeRowsAreEmpty, OwnersClaim, OwnersVerified
<1>3. ApprovedLinked /\ VerifiedOwn
    BY DEF ApprovedLinked, VerifiedOwn, Claims!NoApplication
<1>4. OnePerPlace /\ OnePerAccount
    BY FreeRowIs DEF OnePerPlace, OnePerAccount, Claims!InPlace, Claims!Live
<1> QED BY <1>1, <1>2, <1>3, <1>4, ProfilesTypedInitially DEF ProfileInv, ProfileParts

(* What a reviewer is shown is what an approval would meet.                   *)
LEMMA ReviewersAreWarned ==
    ASSUME ProfileConstants, ProfileInv, NEW q \in Claims!Pending,
           application[q].place \notin doubled, overwritten = {}
    PROVE  Claims!Conflict(q) <=> Claims!Match(q) = "conflict" \/ Claims!Linked(application[q].user, "student") # {}
<1> DEFINE a == application[q]
           S == Claims!InPlace(a.place)
           s == CHOOSE t \in S : TRUE
<1>1. a \in Claims!Application /\ a.linked = None /\ a.user \in Users
    BY DEF Claims!Pending, ProfileInv, ProfileParts, ApprovedLinked, ProfilesTyped, Claims!NoApplication, Claims!Application
<1>2. Claims!Match(q) = IF S = {} THEN "none"
                        ELSE IF a.linked = s THEN "linked"
                        ELSE IF profile[s].owner \notin {None, a.user} THEN "conflict" ELSE "unclaimed"
    BY DEF Claims!Match
<1>3. CASE S = {}
    BY <1>2, <1>3 DEF Claims!Conflict
<1>4. CASE S # {}
    <2>1. s \in S
        BY <1>4
    <2>2. s \in Profiles /\ profile[s].state = "live" /\ KindOf[s] = "student"
        BY <2>1 DEF Claims!InPlace, Claims!Live
    <2>3. \A t \in S : t = s
        <3>1. a.place \in Claims!Place
            BY <1>1 DEF Claims!Application
        <3> HIDE DEF s
        <3> QED BY <2>1, <3>1 DEF ProfileInv, ProfileParts, OnePerPlace
    <2>4. Claims!Match(q) = "conflict" <=> profile[s].owner \notin {None, a.user}
        BY <1>1, <1>2, <1>4, <2>2 DEF ProfileConstants
    <2>5. Claims!Conflict(q) <=> Claims!Linked(a.user, "student") # {} \/ profile[s].owner # None
        BY <2>1, <2>3 DEF Claims!Conflict
    <2>6. profile[s].owner = a.user => Claims!Linked(a.user, "student") # {}
        BY <2>2 DEF Claims!Linked, Claims!Live
    <2> HIDE DEF s, S, a
    <2> QED BY <1>1, <2>4, <2>5, <2>6 DEF ProfileConstants, a
<1> QED BY <1>3, <1>4

LEMMA ProfileImplies ==
    ASSUME ProfileConstants, ProfileInv
    PROVE  Claims!ProfilesAgree
<1> USE DEF ProfileInv, ProfileParts
<1>1. ASSUME NEW s \in Profiles \ overwritten
      PROVE  /\ profile[s].claimed <=> profile[s].owner # None
             /\ profile[s].claimed => profile[s].code = None
             /\ profile[s].owner \notin overwritten \cup {None} /\ s \notin strays =>
                    user[profile[s].owner].live /\ user[profile[s].owner].verified
    <2>1. profile[s].claimed \in BOOLEAN
        BY DEF ProfilesTyped, Claims!ProfileTypeOK, Claims!Row
    <2> QED BY <2>1 DEF OwnersClaim, OwnersVerified
<1>2. ASSUME NEW q \in Applications, application[q].status = "approved"
      PROVE  application[q].linked \in overwritten \/ profile[application[q].linked].owner = application[q].user
    BY <1>2 DEF ApprovedLinked
<1>3. ASSUME NEW u \in Users \ overwritten, user[u].verified
      PROVE  user[u].live /\ (Claims!Indexed(u, user[u].role) # {} \/ overwritten # {})
    <2>1. user[u].verified = TRUE
        BY <1>3 DEF ProfilesTyped, Claims!ProfileTypeOK, Claims!Account
    <2> QED BY <2>1 DEF VerifiedOwn, Claims!Indexed
<1>4. ASSUME NEW p \in Claims!Place \ doubled
      PROVE  Claims!Cardinality(Claims!InPlace(p) \ overwritten) <= 1
    <2> DEFINE S == Claims!InPlace(p) \ overwritten
    <2>1. \A s, t \in S : s = t
        BY DEF OnePerPlace
    <2> HIDE DEF S
    <2>2. S = {} \/ \E s \in S : S = {s}
        BY <2>1
    <2>3. Cardinality(S) = 0 \/ Cardinality(S) = 1
        BY <2>2, FS_EmptySet, FS_Singleton
    <2>4. Claims!Cardinality(S) = Cardinality(S)
        BY DEF Claims!Cardinality, Cardinality
    <2> QED BY <2>3, <2>4 DEF S
<1>5. ASSUME NEW q \in Claims!Pending, application[q].place \notin doubled, overwritten = {}
      PROVE  Claims!Conflict(q) <=> Claims!Match(q) = "conflict" \/ Claims!Linked(application[q].user, "student") # {}
    BY <1>5, ReviewersAreWarned
<1>6. OnePerAccount
    OBVIOUS
<1> QED BY <1>1, <1>2, <1>3, <1>4, <1>5, <1>6 DEF Claims!ProfilesAgree, OnePerAccount

(* ProfilesAgree: however claims, approvals, new codes, edits of profiles and *)
(* accounts, the trash and the sweep overlap, no account owns two profiles of *)
(* a kind, whatever an admin's form says; and where no form rewrote the owner,*)
(* the claim or the account and nothing was saved over a newer row, the two   *)
(* belong to each other, an approved request is of the owner of its profile,  *)
(* a place is shared only where that was recorded, and a reviewer is warned   *)
(* of every conflict (profile_claim.go:66, student_verification_handler.go    *)
(* Approve, generic_handler.go:210).                                          *)
THEOREM ProfilesStayTrue ==
    ASSUME ProfileConstants
    PROVE  Claims!ProfileSpec => [](Claims!ProfileTypeOK /\ Claims!ProfilesAgree)
<1>1. Claims!ProfileInit => ProfileInv
    BY ProfileInitially
<1>2. ProfileInv /\ [Claims!ProfileNext]_Claims!profileVars => ProfileInv'
    BY ProfileKept
<1>3. ProfileInv => Claims!ProfileTypeOK /\ Claims!ProfilesAgree
    BY ProfileImplies DEF ProfileInv, ProfilesTyped
<1> QED BY <1>1, <1>2, <1>3, PTL DEF Claims!ProfileSpec

-----------------------------------------------------------------------------
(* Community posts and notices *)

ThreadConstants ==
    /\ IsFiniteSet(Users) /\ IsFiniteSet(Comments)
    /\ None # Gone /\ None \notin Thread!Comment /\ Gone \notin Thread!Comment
    /\ None \notin Thread!Row /\ Gone \notin Thread!Row /\ None \notin Thread!Job

Spurious == [likes : Nat, comments : Nat, of : [Comments -> Nat]]
ThreadTyped == Thread!CommunityTypeOK /\ spurious \in Spurious

(* What a request under way holds.                                            *)
LEMMA ThreadJobTyped ==
    ASSUME ThreadTyped, NEW w \in Requests, job[w] # None
    PROVE  /\ job[w].op \in {"edit", "rewrite", "drop"}
           /\ job[w].op = "edit" => job[w].row \in Thread!Row
           /\ job[w].op \in {"rewrite", "drop"} => job[w].row \in Thread!Comment /\ job[w].of \in Comments
<1>1. job[w] \in Thread!Job
    BY DEF ThreadTyped, Thread!CommunityTypeOK
<1> QED BY <1>1 DEF Thread!Job

LEMMA ThreadTypedStep ==
    ASSUME kind' \in {"post", "notice"}, row' \in Thread!Row \cup {None, Gone},
           likers' \subseteq Users, readers' \subseteq Users,
           comment' \in [Comments -> Thread!Comment \cup {None, Gone}],
           commentLikers' \in [Comments -> SUBSET Users],
           job' \in [Requests -> Thread!Job \cup {None}],
           spurious' \in Spurious, overwritten' \subseteq Comments \cup {"row", "trash"}
    PROVE  ThreadTyped'
BY DEF ThreadTyped, Thread!CommunityTypeOK, Spurious

LEMMA ThreadTypedInitially == Thread!CommunityInit => ThreadTyped
BY DEF Thread!CommunityInit, ThreadTyped, Thread!CommunityTypeOK, Spurious

(* A count that goes up or down, where the row is not deleted.                *)
LEMMA ThreadCounted ==
    ASSUME ThreadTyped, NEW f \in {"likes", "comments"}, NEW by \in {1, -1}, Thread!Counted(f, by)
    PROVE  /\ row' \in Thread!Row \cup {None, Gone}
           /\ row \notin Thread!Row => row' = row
           /\ row \in Thread!Row =>
                /\ row' \in Thread!Row /\ row'.deleted = row.deleted /\ row'.views = row.views
                /\ row'.likes = row.likes \/ f = "likes"
                /\ row'.comments = row.comments \/ f = "comments"
                /\ row.deleted = FALSE => row'[f] = row[f] + by
<1> DEFINE more == [row EXCEPT ![f] = row[f] + by]
<1>1. CASE row \notin Thread!Row
    BY <1>1 DEF ThreadTyped, Thread!CommunityTypeOK, Thread!Counted, Thread!Live, Thread!Exists
<1>2. CASE row \in Thread!Row
    <2>1. /\ more \in Thread!Row /\ more.deleted = row.deleted /\ more.views = row.views
          /\ more.likes = row.likes \/ f = "likes"
          /\ more.comments = row.comments \/ f = "comments"
          /\ more[f] = row[f] + by
        <3>1. CASE f = "likes"
            BY <1>2, <3>1 DEF Thread!Row
        <3>2. CASE f = "comments"
            BY <1>2, <3>2 DEF Thread!Row
        <3> QED BY <3>1, <3>2
    <2>2. row' = IF row.deleted THEN row ELSE more
        BY <1>2 DEF Thread!Counted, Thread!Live, Thread!Exists
    <2> HIDE DEF more
    <2>3. row.deleted \in BOOLEAN
        BY <1>2 DEF Thread!Row
    <2> QED BY <1>2, <2>1, <2>2, <2>3
<1> QED BY <1>1, <1>2

(* A count that never falls below zero.                                       *)
LEMMA ThreadCountedDown ==
    ASSUME NEW f \in {"likes", "comments"}, Thread!CountedDown(f)
    PROVE  Thread!Counted(f, -1) \/ (row' = row /\ (row \in Thread!Row => row.deleted = TRUE \/ ~(row[f] > 0)))
BY DEF Thread!Counted, Thread!CountedDown, Thread!Live, Thread!Exists, Thread!Row

(* The invariant: before there is a row there is nothing about it, a comment  *)
(* that was never written has no likes, a post is never in the Trash, and a   *)
(* comment that is to be rewritten was read while it was live; and the counts.*)
NothingBefore ==
    row = None =>
        /\ likers = {} /\ readers = {} /\ spurious.likes = 0 /\ spurious.comments = 0
        /\ \A c \in Comments : comment[c] = None
        /\ \A w \in Requests : job[w] = None
UnwrittenAreUnliked == \A c \in Comments : comment[c] = None => commentLikers[c] = {} /\ spurious.of[c] = 0
PostsStayOut == kind = "post" /\ row \in Thread!Row => row.deleted = FALSE
RewritesWereLive == \A w \in Requests : job[w] # None /\ job[w].op = "rewrite" => job[w].row.deleted = FALSE
ThreadParts == NothingBefore /\ UnwrittenAreUnliked /\ PostsStayOut /\ RewritesWereLive

LikesHold ==
    row \in Thread!Row /\ overwritten = {} =>
        /\ kind = "post" => row.likes = Cardinality(likers) - spurious.likes
        /\ kind = "notice" => row.likes = Cardinality(likers) /\ row.views = Cardinality(readers)
CommentsHold ==
    row \in Thread!Row /\ overwritten = {} =>
        /\ kind = "post" => row.comments = Cardinality(Thread!LiveComments) - spurious.comments
        /\ kind = "notice" => /\ 0 <= row.comments /\ row.comments <= Cardinality(Thread!LiveComments)
                              /\ row.comments >= Cardinality(Thread!LiveComments) - spurious.comments
CommentLikesHold ==
    row \in Thread!Row /\ overwritten = {} /\ kind = "post" =>
        \A c \in Thread!LiveComments : comment[c].likes = Cardinality(commentLikers[c]) - spurious.of[c]
CountsAgree == LikesHold /\ CommentsHold /\ CommentLikesHold
ThreadInv == ThreadTyped /\ ThreadParts /\ CountsAgree

LEMMA ThreadPartsKept ==
    ASSUME ThreadInv, kind' = kind,
           row' = None => row = None /\ UNCHANGED <<likers, readers, spurious, comment, job>>,
           \A c \in Comments : comment'[c] = None =>
               comment[c] = None /\ commentLikers'[c] = commentLikers[c] /\ spurious'.of[c] = spurious.of[c],
           kind = "post" /\ row' \in Thread!Row => row'.deleted = FALSE,
           \A w \in Requests : job'[w] # None /\ job'[w].op = "rewrite" => job'[w] = job[w] \/ job'[w].row.deleted = FALSE
    PROVE  ThreadParts'
<1> USE DEF ThreadInv, ThreadParts
<1>1. NothingBefore'
    BY DEF NothingBefore
<1>2. UnwrittenAreUnliked'
    BY DEF UnwrittenAreUnliked
<1>3. PostsStayOut' /\ RewritesWereLive'
    BY DEF PostsStayOut, RewritesWereLive
<1> QED BY <1>1, <1>2, <1>3

LEMMA LiveCommentsAre ==
    /\ Thread!LiveComments = {c \in Comments : comment[c] \in Thread!Comment /\ ~comment[c].deleted}
    /\ Thread!LiveComments' = {c \in Comments : comment'[c] \in Thread!Comment /\ ~comment'[c].deleted}
BY DEF Thread!LiveComments, Thread!LiveComment, Thread!Written

LEMMA ThreadFinite ==
    ASSUME ThreadConstants, ThreadTyped
    PROVE  /\ IsFiniteSet(likers) /\ IsFiniteSet(readers) /\ IsFiniteSet(Thread!LiveComments)
           /\ Cardinality(likers) \in Nat /\ Cardinality(readers) \in Nat /\ Cardinality(Thread!LiveComments) \in Nat
           /\ \A c \in Comments : IsFiniteSet(commentLikers[c]) /\ Cardinality(commentLikers[c]) \in Nat
<1>1. likers \subseteq Users /\ readers \subseteq Users /\ \A c \in Comments : commentLikers[c] \subseteq Users
    BY DEF ThreadTyped, Thread!CommunityTypeOK
<1>2. Thread!LiveComments \subseteq Comments
    BY LiveCommentsAre
<1> QED BY <1>1, <1>2, FS_Subset, FS_CardinalityType DEF ThreadConstants

(* Reading changes nothing.                                                   *)
LEMMA ThreadReadsKeep ==
    ASSUME ThreadConstants, ThreadInv, NEW w \in Requests,
           \/ Thread!GetByID(w)
           \/ \E c \in Comments : Thread!GetCommentByID(w, c, "drop") \/ Thread!GetCommentByID(w, c, "rewrite")
    PROVE  ThreadInv'
<1>1. UNCHANGED <<kind, row, likers, readers, comment, commentLikers, spurious, overwritten>>
    BY DEF Thread!GetByID, Thread!GetCommentByID, Thread!rowFrame, Thread!commentFrame
<1>2. PICK j \in Thread!Job : /\ job' = [job EXCEPT ![w] = j]
                              /\ j.op = "rewrite" => j.row.deleted = FALSE
    <2>1. CASE Thread!GetByID(w)
        <3> DEFINE j == [op |-> "edit", row |-> row]
        <3>1. j \in Thread!Job /\ j.op = "edit"
            BY <2>1 DEF Thread!GetByID, Thread!Live, Thread!Exists, Thread!Job
        <3> QED BY <2>1, <3>1 DEF Thread!GetByID, Thread!Open
    <2>2. ASSUME NEW c \in Comments, NEW op \in {"drop", "rewrite"}, Thread!GetCommentByID(w, c, op)
          PROVE  \E j \in Thread!Job : job' = [job EXCEPT ![w] = j] /\ (j.op = "rewrite" => j.row.deleted = FALSE)
        <3> DEFINE j == [op |-> op, of |-> c, row |-> comment[c]]
        <3>1. comment[c] \in Thread!Comment /\ comment[c].deleted = FALSE
            BY <2>2 DEF Thread!GetCommentByID, Thread!LiveComment, Thread!Written, Thread!Comment
        <3>2. j \in Thread!Job /\ j.row.deleted = FALSE
            BY <3>1 DEF Thread!Job
        <3> QED BY <2>2, <3>2 DEF Thread!GetCommentByID, Thread!Open
    <2> QED BY <2>1, <2>2
<1>3. row # None
    <2>1. CASE Thread!GetByID(w)
        BY <2>1 DEF Thread!GetByID, Thread!Live, Thread!Exists, ThreadConstants
    <2>2. ASSUME NEW c \in Comments, NEW op, Thread!GetCommentByID(w, c, op)
          PROVE  row # None
        BY <2>2 DEF Thread!GetCommentByID, Thread!LiveComment, Thread!Written, ThreadConstants, ThreadInv, ThreadParts, NothingBefore
    <2> QED BY <2>1, <2>2
<1>4. ThreadTyped'
    BY <1>1, <1>2 DEF ThreadInv, ThreadTyped, Thread!CommunityTypeOK, Spurious
<1>5. ThreadParts'
    <2>1. \A v \in Requests : job'[v] = job[v] \/ job'[v] = j
        BY <1>2 DEF ThreadInv, ThreadTyped, Thread!CommunityTypeOK
    <2> QED BY <1>1, <1>2, <1>3, <2>1, ThreadPartsKept DEF ThreadInv, ThreadParts, PostsStayOut
<1>6. CountsAgree'
    BY <1>1, LiveCommentsAre DEF ThreadInv, CountsAgree, LikesHold, CommentsHold, CommentLikesHold
<1> QED BY <1>4, <1>5, <1>6 DEF ThreadInv

(* A request that ends.                                                       *)
LEMMA ThreadCloses ==
    ASSUME ThreadTyped, NEW w \in Requests, Thread!Close(w)
    PROVE  /\ job' \in [Requests -> Thread!Job \cup {None}]
           /\ \A v \in Requests : job'[v] = job[v] \/ job'[v] = None
BY DEF ThreadTyped, Thread!CommunityTypeOK, Thread!Close

(* Operations on the row: it keeps its counts, or the save is recorded.       *)
LEMMA ThreadRowKeeps ==
    ASSUME ThreadConstants, ThreadInv,
           \/ Thread!CreatePost \/ Thread!CreateNotice \/ Thread!DeletePost \/ Thread!Delete \/ Thread!HardDelete
           \/ Thread!Restore \/ \E w \in Requests : Thread!UpdatePost(w) \/ Thread!Update(w)
    PROVE  ThreadInv'
<1>1. UNCHANGED <<kind, likers, readers, commentLikers, spurious>>
    BY DEF Thread!CreatePost, Thread!CreateNotice, Thread!Create, Thread!UpdatePost, Thread!Update, Thread!DeletePost,
        Thread!Delete, Thread!HardDelete, Thread!Restore, Thread!rowFrame
<1>2. job' = job \/ \E w \in Requests : job[w] # None /\ Thread!Close(w)
    BY DEF Thread!CreatePost, Thread!CreateNotice, Thread!Create, Thread!UpdatePost, Thread!Update, Thread!DeletePost,
        Thread!Delete, Thread!HardDelete, Thread!Restore
<1>3. job' \in [Requests -> Thread!Job \cup {None}] /\ \A v \in Requests : job'[v] = job[v] \/ job'[v] = None
    BY <1>2, ThreadCloses DEF ThreadInv, ThreadTyped, Thread!CommunityTypeOK
<1>4. /\ comment' = comment \/ (row' = Gone /\ row \in Thread!Row)
      /\ comment' \in [Comments -> Thread!Comment \cup {None, Gone}]
      /\ \A c \in Comments : comment'[c] = None => comment[c] = None
    <2>1. CASE comment' = comment
        BY <2>1 DEF ThreadInv, ThreadTyped, Thread!CommunityTypeOK
    <2>2. CASE Thread!DeletePost
        BY <2>2 DEF Thread!DeletePost, Thread!Exists, ThreadInv, ThreadTyped, Thread!CommunityTypeOK, Thread!Written, ThreadConstants
    <2> QED BY <2>1, <2>2 DEF Thread!CreatePost, Thread!CreateNotice, Thread!Create, Thread!UpdatePost, Thread!Update,
            Thread!Delete, Thread!HardDelete, Thread!Restore, Thread!rowFrame
<1>5. /\ row' \in Thread!Row \cup {None, Gone} /\ overwritten' \subseteq Comments \cup {"row", "trash"}
      /\ overwritten' = {} => overwritten = {}
      /\ row' = None => row = None /\ UNCHANGED <<comment, job>>
      /\ kind = "post" /\ row' \in Thread!Row => row'.deleted = FALSE
      /\ row' \in Thread!Row /\ overwritten' = {} =>
            \/ row = None /\ row'.likes = 0 /\ row'.comments = 0 /\ row'.views = 0
            \/ row \in Thread!Row /\ row'.likes = row.likes /\ row'.comments = row.comments /\ row'.views = row.views
    <2> USE DEF ThreadInv, ThreadTyped, Thread!CommunityTypeOK
    <2>1. CASE Thread!CreatePost \/ Thread!CreateNotice
        <3> DEFINE new == [content |-> "first", likes |-> 0, comments |-> 0, views |-> 0, deleted |-> FALSE]
        <3>1. row = None /\ row' = new /\ overwritten' = overwritten
            BY <2>1 DEF Thread!CreatePost, Thread!CreateNotice, Thread!Create
        <3>2. new \in Thread!Row /\ new.likes = 0 /\ new.comments = 0 /\ new.views = 0 /\ new.deleted = FALSE
            BY DEF Thread!Row
        <3> HIDE DEF new
        <3> QED BY <3>1, <3>2 DEF ThreadConstants
    <2>2. CASE Thread!DeletePost \/ Thread!HardDelete
        BY <2>2 DEF Thread!DeletePost, Thread!HardDelete, ThreadConstants
    <2>3. CASE Thread!Delete \/ Thread!Restore
        <3>1. PICK x \in BOOLEAN : row \in Thread!Row /\ row' = [row EXCEPT !.deleted = x]
            BY <2>3 DEF Thread!Delete, Thread!Restore, Thread!Live, Thread!Exists
        <3>2. /\ row' \in Thread!Row /\ row'.likes = row.likes /\ row'.comments = row.comments /\ row'.views = row.views
            BY <3>1 DEF Thread!Row
        <3>3. kind = "notice" /\ overwritten' = overwritten
            BY <2>3 DEF Thread!Delete, Thread!Restore
        <3> QED BY <3>1, <3>2, <3>3 DEF ThreadConstants
    <2>4. ASSUME NEW w \in Requests, Thread!UpdatePost(w)
          PROVE  <1>5!1 /\ <1>5!2 /\ <1>5!3 /\ <1>5!4 /\ <1>5!5
        <3>1. overwritten' = overwritten /\ kind = "post" /\ job[w] # None
            BY <2>4 DEF Thread!UpdatePost
        <3>2. row' = row \/ (row \in Thread!Row /\ row' = [row EXCEPT !.content = "edited"])
            BY <2>4 DEF Thread!UpdatePost, Thread!Edited, Thread!Live, Thread!Exists
        <3>3. row \in Thread!Row => row' \in Thread!Row /\ row'.likes = row.likes /\ row'.comments = row.comments
                                    /\ row'.views = row.views /\ row'.deleted = row.deleted
            BY <3>2 DEF Thread!Row
        <3>4. row # None
            BY <3>1 DEF ThreadParts, NothingBefore
        <3> QED BY <3>1, <3>2, <3>3, <3>4 DEF ThreadParts, PostsStayOut, ThreadConstants
    <2>5. ASSUME NEW w \in Requests, Thread!Update(w)
          PROVE  <1>5!1 /\ <1>5!2 /\ <1>5!3 /\ <1>5!4 /\ <1>5!5
        <3>1. /\ row' = [job[w].row EXCEPT !.content = "edited", !.deleted = FALSE] /\ kind = "notice"
              /\ job[w] # None /\ job[w].op = "edit"
              /\ overwritten' = IF row # job[w].row THEN overwritten \cup {"row"} ELSE overwritten
            BY <2>5 DEF Thread!Update, Thread!Marked
        <3> DEFINE was == job[w].row
        <3>2. was \in Thread!Row
            BY <3>1, ThreadJobTyped
        <3> HIDE DEF was
        <3>3. row' = [was EXCEPT !.content = "edited", !.deleted = FALSE]
            BY <3>1 DEF was
        <3>4. /\ row' \in Thread!Row /\ row'.likes = was.likes /\ row'.comments = was.comments /\ row'.views = was.views
            BY <3>2, <3>3 DEF Thread!Row
        <3> QED BY <3>1, <3>2, <3>4 DEF was, ThreadConstants
    <2> QED BY <2>1, <2>2, <2>3, <2>4, <2>5
<1>6. ThreadTyped'
    BY <1>1, <1>3, <1>4, <1>5 DEF ThreadInv, ThreadTyped, Thread!CommunityTypeOK, Spurious
<1>7. ThreadParts'
    BY <1>1, <1>3, <1>4, <1>5, ThreadPartsKept
<1>8. CountsAgree'
    <2> SUFFICES ASSUME row' \in Thread!Row, overwritten' = {} PROVE CountsAgree'
        BY DEF CountsAgree, LikesHold, CommentsHold, CommentLikesHold
    <2>1. comment' = comment /\ Thread!LiveComments' = Thread!LiveComments /\ overwritten = {}
        BY <1>4, <1>5, LiveCommentsAre DEF ThreadConstants
    <2>2. CASE row = None
        <3>1. likers = {} /\ readers = {} /\ spurious.likes = 0 /\ spurious.comments = 0 /\ \A c \in Comments : comment[c] = None
            BY <2>2 DEF ThreadInv, ThreadParts, NothingBefore
        <3>2. Thread!LiveComments = {} /\ Cardinality({}) = 0
            BY <3>1, LiveCommentsAre, FS_EmptySet DEF ThreadConstants
        <3>3. row'.likes = 0 /\ row'.comments = 0 /\ row'.views = 0
            BY <1>5, <2>2 DEF ThreadConstants
        <3> QED BY <1>1, <2>1, <3>1, <3>2, <3>3 DEF CountsAgree, LikesHold, CommentsHold, CommentLikesHold
    <2>3. CASE row # None
        BY <1>1, <1>5, <2>1, <2>3 DEF ThreadInv, CountsAgree, LikesHold, CommentsHold, CommentLikesHold
    <2> QED BY <2>2, <2>3
<1> QED BY <1>6, <1>7, <1>8 DEF ThreadInv

LEMMA TrashMarked ==
    ASSUME ThreadTyped, Thread!InTrash
    PROVE  /\ overwritten' \subseteq Comments \cup {"row", "trash"}
           /\ overwritten' = {} => overwritten = {} /\ (row \in Thread!Row => row.deleted = FALSE)
BY DEF ThreadTyped, Thread!CommunityTypeOK, Thread!InTrash, Thread!Marked, Thread!Exists, Thread!Row

(* Where the likes of a row stay, or the comments, so do their counts.        *)
LEMMA ThreadLikesStay ==
    ASSUME ThreadInv, UNCHANGED <<kind, likers, readers>>, spurious'.likes = spurious.likes,
           overwritten' = {} => overwritten = {},
           row' \in Thread!Row => row \in Thread!Row /\ row'.likes = row.likes /\ row'.views = row.views
    PROVE  LikesHold'
BY DEF ThreadInv, CountsAgree, LikesHold

LEMMA ThreadCommentsStay ==
    ASSUME ThreadInv, UNCHANGED <<kind, comment, commentLikers>>,
           spurious'.comments = spurious.comments, spurious'.of = spurious.of,
           overwritten' = {} => overwritten = {},
           row' \in Thread!Row => row \in Thread!Row /\ row'.comments = row.comments
    PROVE  CommentsHold' /\ CommentLikesHold'
BY LiveCommentsAre DEF ThreadInv, CountsAgree, CommentsHold, CommentLikesHold

LEMMA SpuriousMore ==
    ASSUME ThreadTyped, NEW f \in {"likes", "comments"}, spurious' = [spurious EXCEPT ![f] = @ + 1]
    PROVE  /\ spurious' \in Spurious /\ spurious'.of = spurious.of /\ spurious'[f] = spurious[f] + 1
           /\ f # "likes" => spurious'.likes = spurious.likes
           /\ f # "comments" => spurious'.comments = spurious.comments
BY DEF ThreadTyped, Spurious

LEMMA ThreadLikesKeep ==
    ASSUME ThreadConstants, ThreadInv, NEW u \in Users,
           \/ Thread!LikePost(u) \/ Thread!UnlikePost(u)
           \/ Thread!LikeNotice(u) \/ Thread!UnlikeNotice(u) \/ Thread!ViewNotice(u)
    PROVE  ThreadInv'
<1>1. row # None /\ UNCHANGED <<kind, comment, commentLikers, job>>
    BY DEF Thread!LikePost, Thread!UnlikePost, Thread!LikeNotice, Thread!UnlikeNotice, Thread!ViewNotice, Thread!likeFrame
<1>2. ThreadTyped /\ Thread!CommunityTypeOK
    BY DEF ThreadInv, ThreadTyped
<1> USE ThreadFinite
<1>3. ASSUME row' \in Thread!Row \cup {None, Gone},
             row' \in Thread!Row => row \in Thread!Row /\ row'.deleted = row.deleted /\ row'.comments = row.comments,
             row' \notin Thread!Row => row' = row,
             likers' \subseteq Users, readers' \subseteq Users,
             spurious' \in Spurious, spurious'.comments = spurious.comments, spurious'.of = spurious.of,
             overwritten' \subseteq Comments \cup {"row", "trash"}, overwritten' = {} => overwritten = {},
             LikesHold'
      PROVE  ThreadInv'
    <2>1. ThreadTyped'
        BY <1>1, <1>2, <1>3, ThreadTypedStep DEF Thread!CommunityTypeOK
    <2>2. ThreadParts'
        <3>1. row' # None
            BY <1>1, <1>3 DEF ThreadConstants
        <3> QED BY <1>1, <1>3, <3>1, ThreadPartsKept DEF ThreadInv, ThreadParts, PostsStayOut
    <2> QED BY <1>1, <1>3, <2>1, <2>2, ThreadCommentsStay DEF ThreadInv, CountsAgree
<1>4. CASE Thread!LikePost(u)
    <2>1. /\ kind = "post" /\ u \notin likers /\ likers' = likers \cup {u} /\ Thread!Counted("likes", 1)
          /\ UNCHANGED <<readers, spurious, overwritten>>
        BY <1>4 DEF Thread!LikePost
    <2>2. Cardinality(likers') = Cardinality(likers) + 1
        BY <1>2, <2>1, FS_AddElement
    <2>3. LikesHold'
        <3>1. row' \in Thread!Row => row \in Thread!Row /\ row.deleted = FALSE /\ row'.likes = row.likes + 1
            BY <1>2, <2>1, ThreadCounted DEF ThreadInv, ThreadParts, PostsStayOut
        <3>2. row \in Thread!Row => row.likes \in Int
            BY DEF Thread!Row
        <3> QED BY <1>1, <1>2, <2>1, <2>2, <3>1, <3>2 DEF ThreadInv, CountsAgree, LikesHold, ThreadTyped, Spurious
    <2> QED BY <1>2, <1>3, <2>1, <2>3, ThreadCounted DEF Thread!CommunityTypeOK, ThreadTyped
<1>5. CASE Thread!UnlikePost(u)
    <2>1. /\ kind = "post" /\ likers' = likers \ {u} /\ Thread!Counted("likes", -1)
          /\ spurious' = IF u \notin likers /\ Thread!Live THEN [spurious EXCEPT !.likes = @ + 1] ELSE spurious
          /\ UNCHANGED <<readers, overwritten>>
        BY <1>5 DEF Thread!UnlikePost
    <2>2. Cardinality(likers') = IF u \in likers THEN Cardinality(likers) - 1 ELSE Cardinality(likers)
        BY <1>2, <2>1, FS_RemoveElement
    <2>3. /\ spurious' \in Spurious /\ spurious'.comments = spurious.comments /\ spurious'.of = spurious.of
          /\ u \notin likers /\ Thread!Live => spurious'.likes = spurious.likes + 1
          /\ ~(u \notin likers /\ Thread!Live) => spurious'.likes = spurious.likes
        BY <1>2, <2>1, SpuriousMore DEF ThreadTyped
    <2>4. LikesHold'
        <3>1. row' \in Thread!Row => row \in Thread!Row /\ Thread!Live /\ row'.likes = row.likes - 1
            BY <1>2, <2>1, ThreadCounted DEF ThreadInv, ThreadParts, PostsStayOut, Thread!Live, Thread!Exists
        <3>2. row \in Thread!Row => row.likes \in Int
            BY DEF Thread!Row
        <3> QED BY <1>1, <1>2, <2>1, <2>2, <2>3, <3>1, <3>2 DEF ThreadInv, CountsAgree, LikesHold, ThreadTyped, Spurious
    <2> QED BY <1>2, <1>3, <2>1, <2>3, <2>4, ThreadCounted DEF Thread!CommunityTypeOK
<1>6. CASE Thread!LikeNotice(u)
    <2>1. /\ kind = "notice" /\ u \notin likers /\ likers' = likers \cup {u} /\ Thread!Counted("likes", 1)
          /\ Thread!InTrash /\ UNCHANGED <<readers, spurious>>
        BY <1>6 DEF Thread!LikeNotice
    <2>2. Cardinality(likers') = Cardinality(likers) + 1
        BY <1>2, <2>1, FS_AddElement
    <2>3. LikesHold'
        <3>1. row' \in Thread!Row /\ overwritten' = {} =>
                row \in Thread!Row /\ overwritten = {} /\ row'.likes = row.likes + 1 /\ row'.views = row.views
            BY <1>2, <2>1, ThreadCounted, TrashMarked
        <3> QED BY <1>1, <1>2, <2>1, <2>2, <3>1 DEF ThreadInv, CountsAgree, LikesHold
    <2> QED BY <1>2, <1>3, <2>1, <2>3, ThreadCounted, TrashMarked DEF Thread!CommunityTypeOK, ThreadTyped
<1>7. CASE Thread!UnlikeNotice(u)
    <2>1. /\ kind = "notice" /\ u \in likers /\ likers' = likers \ {u} /\ Thread!CountedDown("likes")
          /\ Thread!InTrash /\ UNCHANGED <<readers, spurious>>
        BY <1>7 DEF Thread!UnlikeNotice
    <2>2. Cardinality(likers') = Cardinality(likers) - 1 /\ Cardinality(likers) > 0
        <3>1. Cardinality(likers) # 0
            BY <1>2, <2>1, FS_EmptySet
        <3>2. Cardinality(likers \ {u}) = Cardinality(likers) - 1
            BY <1>2, <2>1, FS_RemoveElement
        <3>3. Cardinality(likers) \in Nat
            BY <1>2
        <3> QED BY <2>1, <3>1, <3>2, <3>3
    <2>3. Thread!Counted("likes", -1) \/ (row' = row /\ (row \in Thread!Row => row.deleted = TRUE \/ ~(row.likes > 0)))
        BY <2>1, ThreadCountedDown
    <2>4. LikesHold'
        <3> SUFFICES ASSUME row' \in Thread!Row, overwritten' = {} PROVE LikesHold'
            BY DEF LikesHold
        <3>1. row \in Thread!Row /\ overwritten = {} /\ row.deleted = FALSE
            BY <1>2, <2>1, <2>3, ThreadCounted, TrashMarked
        <3>2. row.likes = Cardinality(likers) /\ row.views = Cardinality(readers)
            BY <2>1, <3>1 DEF ThreadInv, CountsAgree, LikesHold
        <3>3. row'.likes = row.likes - 1 /\ row'.views = row.views
            BY <1>2, <2>2, <2>3, <3>1, <3>2, ThreadCounted
        <3> QED BY <1>1, <2>1, <2>2, <3>2, <3>3 DEF LikesHold
    <2> QED BY <1>2, <1>3, <2>1, <2>3, <2>4, ThreadCounted, TrashMarked DEF Thread!CommunityTypeOK, ThreadTyped
<1>8. CASE Thread!ViewNotice(u)
    <2>1. /\ kind = "notice" /\ u \notin readers /\ readers' = readers \cup {u} /\ Thread!Counted("views", 1)
          /\ Thread!InTrash /\ UNCHANGED <<likers, spurious>>
        BY <1>8 DEF Thread!ViewNotice
    <2>2. Cardinality(readers') = Cardinality(readers) + 1
        BY <1>2, <2>1, FS_AddElement
    <2>3. /\ row' \in Thread!Row \cup {None, Gone}
          /\ row \notin Thread!Row => row' = row
          /\ row \in Thread!Row =>
                /\ row' \in Thread!Row /\ row'.deleted = row.deleted /\ row'.likes = row.likes /\ row'.comments = row.comments
                /\ row.deleted = FALSE => row'.views = row.views + 1
        BY <1>2, <2>1 DEF Thread!CommunityTypeOK, Thread!Counted, Thread!Live, Thread!Exists, Thread!Row
    <2>4. LikesHold'
        <3>1. row' \in Thread!Row /\ overwritten' = {} =>
                row \in Thread!Row /\ overwritten = {} /\ row'.views = row.views + 1 /\ row'.likes = row.likes
            BY <1>2, <2>1, <2>3, TrashMarked
        <3> QED BY <1>1, <1>2, <2>1, <2>2, <3>1 DEF ThreadInv, CountsAgree, LikesHold
    <2> QED BY <1>2, <1>3, <2>1, <2>3, <2>4, TrashMarked DEF Thread!CommunityTypeOK, ThreadTyped
<1> QED BY <1>4, <1>5, <1>6, <1>7, <1>8

(* What every step about comments leaves to show.                             *)
LEMMA ThreadTalkKeeps ==
    ASSUME ThreadConstants, ThreadInv, UNCHANGED <<kind, likers, readers>>, row # None,
           row' \in Thread!Row \cup {None, Gone},
           row' \in Thread!Row => row \in Thread!Row /\ row'.deleted = row.deleted /\ row'.likes = row.likes /\ row'.views = row.views,
           row' \notin Thread!Row => row' = row,
           comment' \in [Comments -> Thread!Comment \cup {None, Gone}],
           commentLikers' \in [Comments -> SUBSET Users],
           \A c \in Comments : comment'[c] = None =>
               comment[c] = None /\ commentLikers'[c] = commentLikers[c] /\ spurious'.of[c] = spurious.of[c],
           job' \in [Requests -> Thread!Job \cup {None}], \A v \in Requests : job'[v] = job[v] \/ job'[v] = None,
           spurious' \in Spurious, spurious'.likes = spurious.likes,
           overwritten' \subseteq Comments \cup {"row", "trash"}, overwritten' = {} => overwritten = {},
           CommentsHold', CommentLikesHold'
    PROVE  ThreadInv'
<1>1. ThreadTyped'
    BY ThreadTypedStep DEF ThreadInv, ThreadTyped, Thread!CommunityTypeOK
<1>2. ThreadParts'
    <2>1. row' # None
        BY DEF ThreadConstants
    <2>2. kind = "post" /\ row' \in Thread!Row => row'.deleted = FALSE
        BY DEF ThreadInv, ThreadParts, PostsStayOut
    <2> QED BY <2>1, <2>2, ThreadPartsKept
<1>3. LikesHold'
    BY ThreadLikesStay
<1> QED BY <1>1, <1>2, <1>3 DEF ThreadInv, CountsAgree

LEMMA AddCommentKeeps ==
    ASSUME ThreadConstants, ThreadInv, NEW c \in Comments, Thread!AddComment(c) \/ Thread!AddNoticeComment(c)
    PROVE  ThreadInv'
<1>1. PICK parent \in Comments \cup {None} :
        /\ comment[c] = None /\ comment' = [comment EXCEPT ![c] = [parent |-> parent, likes |-> 0, deleted |-> FALSE]]
        /\ Thread!Counted("comments", 1) /\ Thread!InTrash
        /\ UNCHANGED <<commentLikers, job, spurious, kind, likers, readers>> /\ row # None
    BY DEF Thread!AddComment, Thread!AddNoticeComment, Thread!CreateComment, Thread!commentFrame, Thread!LiveComments
<1> DEFINE new == [parent |-> parent, likes |-> 0, deleted |-> FALSE]
<1>2. new \in Thread!Comment /\ new.likes = 0 /\ new.deleted = FALSE
    BY DEF Thread!Comment
<1>3. comment' = [comment EXCEPT ![c] = new]
    BY <1>1
<1> HIDE DEF new
<1>4. ThreadTyped /\ Thread!CommunityTypeOK
    BY DEF ThreadInv, ThreadTyped
<1>5. /\ comment' \in [Comments -> Thread!Comment \cup {None, Gone}] /\ comment'[c] = new
      /\ \A d \in Comments \ {c} : comment'[d] = comment[d]
    BY <1>2, <1>3, <1>4 DEF Thread!CommunityTypeOK
<1>6. c \notin Thread!LiveComments /\ Thread!LiveComments' = Thread!LiveComments \cup {c}
    BY <1>1, <1>2, <1>5, LiveCommentsAre DEF ThreadConstants
<1>7. Cardinality(Thread!LiveComments') = Cardinality(Thread!LiveComments) + 1 /\ Cardinality(Thread!LiveComments) \in Nat
    BY <1>4, <1>6, ThreadFinite, FS_AddElement
<1>8. row' \in Thread!Row /\ overwritten' = {} =>
        row \in Thread!Row /\ overwritten = {} /\ row'.comments = row.comments + 1
    BY <1>1, <1>4, ThreadCounted, TrashMarked
<1>9. CommentsHold'
    <2>1. row \in Thread!Row => row.comments \in Int
        BY DEF Thread!Row
    <2>2. spurious.comments \in Nat
        BY <1>4 DEF ThreadTyped, Spurious
    <2> QED BY <1>1, <1>7, <1>8, <2>1, <2>2 DEF ThreadInv, CountsAgree, CommentsHold
<1>10. CommentLikesHold'
    <2> SUFFICES ASSUME row' \in Thread!Row, overwritten' = {}, kind = "post", NEW d \in Thread!LiveComments'
                 PROVE  comment'[d].likes = Cardinality(commentLikers[d]) - spurious.of[d]
        BY <1>1 DEF CommentLikesHold
    <2>1. CASE d = c
        <3>1. commentLikers[c] = {} /\ spurious.of[c] = 0
            BY <1>1 DEF ThreadInv, ThreadParts, UnwrittenAreUnliked
        <3> QED BY <1>2, <1>5, <2>1, <3>1, FS_EmptySet
    <2>2. CASE d # c
        <3>1. d \in Thread!LiveComments /\ d \in Comments
            BY <1>6, <2>2, LiveCommentsAre
        <3> QED BY <1>5, <1>8, <2>2, <3>1 DEF ThreadInv, CountsAgree, CommentLikesHold
    <2> QED BY <2>1, <2>2
<1>11. \A d \in Comments : comment'[d] = None => comment[d] = None
    BY <1>1
<1> QED BY <1>1, <1>4, <1>5, <1>9, <1>10, <1>11, ThreadCounted, TrashMarked, ThreadTalkKeeps DEF ThreadTyped, Thread!CommunityTypeOK

(* Two deletes of one comment: the count falls twice, and spurious says so.   *)
LEMMA DropKeeps ==
    ASSUME ThreadConstants, ThreadInv, NEW w \in Requests, Thread!DeleteComment(w) \/ Thread!DeleteNoticeComment(w)
    PROVE  ThreadInv'
<1> DEFINE c == job[w].of
           twice == ~Thread!LiveComment(c)
           dropped1 == [comment[c] EXCEPT !.deleted = TRUE]
<1>1. /\ job[w] # None /\ job[w].op = "drop"
      /\ comment' = IF twice THEN comment ELSE [comment EXCEPT ![c] = dropped1]
      /\ spurious' = IF twice /\ Thread!Live THEN [spurious EXCEPT !.comments = @ + 1] ELSE spurious
      /\ Thread!InTrash /\ Thread!Close(w) /\ UNCHANGED <<commentLikers, kind, likers, readers>>
      /\ \/ kind = "post" /\ Thread!Counted("comments", -1)
         \/ kind = "notice" /\ Thread!CountedDown("comments")
    BY DEF Thread!DeleteComment, Thread!DeleteNoticeComment, Thread!Drop, Thread!commentFrame
<1>2. ThreadTyped /\ Thread!CommunityTypeOK
    BY DEF ThreadInv, ThreadTyped
<1>3. c \in Comments /\ row # None
    BY <1>1, <1>2, ThreadJobTyped DEF ThreadInv, ThreadParts, NothingBefore
<1>4. ~twice => comment[c] \in Thread!Comment /\ comment[c].deleted = FALSE
    BY DEF Thread!LiveComment, Thread!Written, Thread!Comment
<1>5. comment[c] \in Thread!Comment => dropped1 \in Thread!Comment /\ dropped1.deleted = TRUE
    BY DEF Thread!Comment
<1>6. twice => c \notin Thread!LiveComments
    BY DEF Thread!LiveComments
<1>7. ~twice => c \in Thread!LiveComments
    BY <1>3 DEF Thread!LiveComments
<1> HIDE DEF c, twice, dropped1
<1>8. /\ comment' \in [Comments -> Thread!Comment \cup {None, Gone}]
      /\ \A d \in Comments \ {c} : comment'[d] = comment[d]
      /\ twice => comment' = comment
      /\ ~twice => comment'[c] \in Thread!Comment /\ comment'[c].deleted = TRUE
    BY <1>1, <1>2, <1>3, <1>4, <1>5 DEF Thread!CommunityTypeOK
<1>9. Thread!LiveComments' = Thread!LiveComments \ {c}
    BY <1>6, <1>8, LiveCommentsAre
<1>10. /\ Cardinality(Thread!LiveComments') = IF twice THEN Cardinality(Thread!LiveComments) ELSE Cardinality(Thread!LiveComments) - 1
       /\ Cardinality(Thread!LiveComments) \in Nat /\ Cardinality(Thread!LiveComments') \in Nat
    <2>1. IsFiniteSet(Thread!LiveComments) /\ Cardinality(Thread!LiveComments) \in Nat
        BY <1>2, ThreadFinite
    <2>2. /\ IsFiniteSet(Thread!LiveComments \ {c})
          /\ Cardinality(Thread!LiveComments \ {c}) = IF c \in Thread!LiveComments THEN Cardinality(Thread!LiveComments) - 1
                                                      ELSE Cardinality(Thread!LiveComments)
        BY <2>1, FS_RemoveElement
    <2> QED BY <1>6, <1>7, <1>9, <2>1, <2>2, FS_CardinalityType
<1>11. /\ spurious' \in Spurious /\ spurious'.likes = spurious.likes /\ spurious'.of = spurious.of
       /\ twice /\ Thread!Live => spurious'.comments = spurious.comments + 1
       /\ ~(twice /\ Thread!Live) => spurious'.comments = spurious.comments
    BY <1>1, <1>2, SpuriousMore DEF ThreadTyped
<1>12. Thread!Counted("comments", -1) \/ (row' = row /\ kind = "notice" /\ (row \in Thread!Row => row.deleted = TRUE \/ ~(row.comments > 0)))
    BY <1>1, ThreadCountedDown
<1>13. /\ row' \in Thread!Row \cup {None, Gone}
       /\ row' \in Thread!Row => row \in Thread!Row /\ row'.deleted = row.deleted /\ row'.likes = row.likes /\ row'.views = row.views
       /\ row' \notin Thread!Row => row' = row
    BY <1>2, <1>12, ThreadCounted DEF Thread!CommunityTypeOK
<1>14. CommentsHold'
    <2> SUFFICES ASSUME row' \in Thread!Row, overwritten' = {} PROVE CommentsHold'
        BY DEF CommentsHold
    <2>1. row \in Thread!Row /\ overwritten = {} /\ row.deleted = FALSE /\ Thread!Live
        BY <1>1, <1>2, <1>13, TrashMarked DEF Thread!Live, Thread!Exists
    <2>2. row'.comments = row.comments - 1 \/ (row' = row /\ kind = "notice" /\ ~(row.comments > 0))
        BY <1>2, <1>12, <2>1, ThreadCounted
    <2>3. row.comments \in Int /\ spurious.comments \in Nat
        BY <1>2, <2>1 DEF Thread!Row, ThreadTyped, Spurious
    <2>4. CASE kind = "post"
        <3>1. row.comments = Cardinality(Thread!LiveComments) - spurious.comments /\ row'.comments = row.comments - 1
            BY <2>1, <2>2, <2>4 DEF ThreadInv, CountsAgree, CommentsHold
        <3> QED BY <1>1, <1>10, <1>11, <2>1, <2>3, <2>4, <3>1 DEF CommentsHold
    <2>5. CASE kind = "notice"
        <3>1. /\ 0 <= row.comments /\ row.comments <= Cardinality(Thread!LiveComments)
              /\ row.comments >= Cardinality(Thread!LiveComments) - spurious.comments
            BY <2>1, <2>5 DEF ThreadInv, CountsAgree, CommentsHold
        <3>2. CASE row'.comments = row.comments - 1 /\ row.comments > 0
            <4>1. row.comments <= Cardinality(Thread!LiveComments')
                  \/ Cardinality(Thread!LiveComments') = Cardinality(Thread!LiveComments) - 1
                BY <1>10, <3>1
            <4> QED BY <1>1, <1>10, <1>11, <2>1, <2>3, <2>5, <3>1, <3>2 DEF CommentsHold
        <3>3. CASE row' = row /\ ~(row.comments > 0)
            BY <1>1, <1>10, <1>11, <2>1, <2>3, <2>5, <3>1, <3>3 DEF CommentsHold
        <3>4. Thread!Counted("comments", -1) => row.comments > 0 \/ row' = row
            BY <1>1, <2>1, <2>5 DEF Thread!CountedDown
        <3> QED BY <2>2, <2>3, <3>1, <3>2, <3>3, <1>1, <2>5 DEF Thread!CountedDown
    <2> QED BY <1>2, <2>4, <2>5 DEF Thread!CommunityTypeOK
<1>15. CommentLikesHold'
    <2> SUFFICES ASSUME row' \in Thread!Row, overwritten' = {}, kind = "post", NEW d \in Thread!LiveComments'
                 PROVE  comment'[d].likes = Cardinality(commentLikers[d]) - spurious.of[d]
        BY <1>1, <1>11 DEF CommentLikesHold
    <2>1. d \in Thread!LiveComments /\ d # c /\ d \in Comments
        BY <1>9, LiveCommentsAre
    <2>2. row \in Thread!Row /\ overwritten = {}
        BY <1>1, <1>2, <1>13, TrashMarked
    <2> QED BY <1>8, <2>1, <2>2 DEF ThreadInv, CountsAgree, CommentLikesHold
<1>16. \A d \in Comments : comment'[d] = None => comment[d] = None
    BY <1>8 DEF ThreadConstants
<1>17. job' \in [Requests -> Thread!Job \cup {None}] /\ \A v \in Requests : job'[v] = job[v] \/ job'[v] = None
    BY <1>1, <1>2, ThreadCloses
<1> QED BY <1>1, <1>2, <1>3, <1>8, <1>11, <1>13, <1>14, <1>15, <1>16, <1>17, TrashMarked, ThreadTalkKeeps
        DEF Thread!CommunityTypeOK

LEMMA RewriteKeeps ==
    ASSUME ThreadConstants, ThreadInv, NEW w \in Requests, Thread!UpdateComment(w)
    PROVE  ThreadInv'
<1> DEFINE c == job[w].of
           was == job[w].row
           new == [was EXCEPT !.deleted = FALSE]
<1>1. /\ job[w] # None /\ job[w].op = "rewrite" /\ kind = "post"
      /\ comment' = [comment EXCEPT ![c] = new]
      /\ overwritten' = IF comment[c] # was THEN overwritten \cup {c} ELSE overwritten
      /\ Thread!Close(w) /\ UNCHANGED <<row, commentLikers, spurious, kind, likers, readers>>
    BY DEF Thread!UpdateComment, Thread!Marked, Thread!commentFrame
<1>2. ThreadTyped /\ Thread!CommunityTypeOK
    BY DEF ThreadInv, ThreadTyped
<1>3. c \in Comments /\ was \in Thread!Comment /\ was.deleted = FALSE /\ row # None
    BY <1>1, <1>2, ThreadJobTyped DEF ThreadInv, ThreadParts, NothingBefore, RewritesWereLive
<1>4. new \in Thread!Comment /\ new = was
    BY <1>3 DEF Thread!Comment
<1> HIDE DEF c, was, new
<1>5. /\ comment' \in [Comments -> Thread!Comment \cup {None, Gone}]
      /\ \A d \in Comments : comment'[d] = None => comment[d] = None
      /\ overwritten' = {} => comment' = comment /\ overwritten = {}
    BY <1>1, <1>2, <1>3, <1>4 DEF Thread!CommunityTypeOK, ThreadConstants
<1>6. CommentsHold' /\ CommentLikesHold'
    BY <1>1, <1>5, LiveCommentsAre DEF ThreadInv, CountsAgree, CommentsHold, CommentLikesHold
<1>7. job' \in [Requests -> Thread!Job \cup {None}] /\ \A v \in Requests : job'[v] = job[v] \/ job'[v] = None
    BY <1>1, <1>2, ThreadCloses
<1>8. overwritten' \subseteq Comments \cup {"row", "trash"}
    BY <1>1, <1>2, <1>3 DEF Thread!CommunityTypeOK
<1> QED BY <1>1, <1>2, <1>3, <1>5, <1>6, <1>7, <1>8, ThreadTalkKeeps DEF ThreadTyped, Thread!CommunityTypeOK

LEMMA LikeCommentKeeps ==
    ASSUME ThreadConstants, ThreadInv, NEW u \in Users, NEW c \in Comments,
           Thread!LikeComment(u, c) \/ Thread!UnlikeComment(u, c)
    PROVE  ThreadInv'
<1>1. /\ kind = "post" /\ comment[c] \in Thread!Comment
      /\ UNCHANGED <<row, job, overwritten, kind, likers, readers>>
    BY DEF Thread!LikeComment, Thread!UnlikeComment, Thread!Written, Thread!commentFrame
<1>2. ThreadTyped /\ Thread!CommunityTypeOK
    BY DEF ThreadInv, ThreadTyped
<1>3. row # None
    BY <1>1 DEF ThreadInv, ThreadParts, NothingBefore, ThreadConstants
<1>4. PICK by \in {1, -1} :
        comment' = IF Thread!LiveComment(c) THEN [comment EXCEPT ![c] = [comment[c] EXCEPT !.likes = comment[c].likes + by]]
                   ELSE comment
    BY DEF Thread!LikeComment, Thread!UnlikeComment
<1> DEFINE liked == [comment[c] EXCEPT !.likes = comment[c].likes + by]
<1>5. liked \in Thread!Comment /\ liked.likes = comment[c].likes + by /\ liked.deleted = comment[c].deleted
      /\ comment[c].deleted \in BOOLEAN /\ comment[c].likes \in Int
    BY <1>1 DEF Thread!Comment
<1>6. comment' = IF Thread!LiveComment(c) THEN [comment EXCEPT ![c] = liked] ELSE comment
    BY <1>4
<1> HIDE DEF liked
<1>7. /\ comment' \in [Comments -> Thread!Comment \cup {None, Gone}]
      /\ comment'[c] = IF Thread!LiveComment(c) THEN liked ELSE comment[c]
      /\ \A d \in Comments \ {c} : comment'[d] = comment[d]
    BY <1>2, <1>5, <1>6 DEF Thread!CommunityTypeOK
<1>8. Thread!LiveComments' = Thread!LiveComments
    BY <1>1, <1>5, <1>7, LiveCommentsAre
<1>9. Thread!LiveComment(c) <=> c \in Thread!LiveComments
    BY DEF Thread!LiveComments
<1>10. /\ commentLikers' \in [Comments -> SUBSET Users]
       /\ \A d \in Comments \ {c} : commentLikers'[d] = commentLikers[d]
    BY <1>2 DEF Thread!LikeComment, Thread!UnlikeComment, Thread!CommunityTypeOK
<1>11. /\ spurious' \in Spurious /\ spurious'.likes = spurious.likes /\ spurious'.comments = spurious.comments
       /\ \A d \in Comments \ {c} : spurious'.of[d] = spurious.of[d]
       /\ Thread!LikeComment(u, c) => spurious' = spurious
       /\ Thread!UnlikeComment(u, c) =>
            spurious'.of[c] = IF Thread!LiveComment(c) /\ u \notin commentLikers[c] THEN spurious.of[c] + 1 ELSE spurious.of[c]
    <2>1. spurious \in Spurious
        BY <1>2 DEF ThreadTyped
    <2>2. CASE Thread!UnlikeComment(u, c) /\ Thread!LiveComment(c) /\ u \notin commentLikers[c]
        <3> DEFINE of == [spurious.of EXCEPT ![c] = spurious.of[c] + 1]
        <3>1. of \in [Comments -> Nat] /\ of[c] = spurious.of[c] + 1 /\ \A d \in Comments \ {c} : of[d] = spurious.of[d]
            BY <2>1 DEF Spurious
        <3>2. spurious' = [spurious EXCEPT !.of = of]
            BY <2>2 DEF Thread!UnlikeComment
        <3> HIDE DEF of
        <3>3. spurious' \in Spurious /\ spurious'.likes = spurious.likes /\ spurious'.comments = spurious.comments /\ spurious'.of = of
            BY <2>1, <3>1, <3>2 DEF Spurious
        <3>4. Thread!LikeComment(u, c) => spurious' = spurious
            BY DEF Thread!LikeComment
        <3> QED BY <2>2, <3>1, <3>3, <3>4
    <2>3. CASE ~(Thread!UnlikeComment(u, c) /\ Thread!LiveComment(c) /\ u \notin commentLikers[c])
        <3>1. spurious' = spurious
            BY <2>3 DEF Thread!LikeComment, Thread!UnlikeComment
        <3> QED BY <2>1, <2>3, <3>1
    <2> QED BY <2>2, <2>3
<1>12. Thread!LiveComment(c) =>
        comment'[c].likes - (Cardinality(commentLikers'[c]) - spurious'.of[c])
            = comment[c].likes - (Cardinality(commentLikers[c]) - spurious.of[c])
    <2>1. IsFiniteSet(commentLikers[c]) /\ Cardinality(commentLikers[c]) \in Nat
        BY <1>2, ThreadFinite
    <2>2. spurious.of[c] \in Nat
        BY <1>2 DEF ThreadTyped, Spurious
    <2>3. CASE Thread!LikeComment(u, c)
        <3>1. u \notin commentLikers[c] /\ commentLikers'[c] = commentLikers[c] \cup {u}
            BY <1>2, <2>3 DEF Thread!LikeComment, Thread!CommunityTypeOK
        <3>2. Cardinality(commentLikers'[c]) = Cardinality(commentLikers[c]) + 1
            BY <2>1, <3>1, FS_AddElement
        <3>3. Thread!LiveComment(c) => comment'[c].likes = comment[c].likes + 1
            BY <1>1, <1>2, <2>3 DEF Thread!LikeComment, Thread!CommunityTypeOK, Thread!Comment
        <3> QED BY <1>5, <1>11, <2>1, <2>2, <2>3, <3>2, <3>3
    <2>4. CASE Thread!UnlikeComment(u, c)
        <3>1. commentLikers'[c] = commentLikers[c] \ {u}
            BY <1>2, <2>4 DEF Thread!UnlikeComment, Thread!CommunityTypeOK
        <3>2. Cardinality(commentLikers'[c]) = IF u \in commentLikers[c] THEN Cardinality(commentLikers[c]) - 1
                                               ELSE Cardinality(commentLikers[c])
            BY <2>1, <3>1, FS_RemoveElement
        <3>3. Thread!LiveComment(c) => comment'[c].likes = comment[c].likes - 1
            BY <1>1, <1>2, <2>4 DEF Thread!UnlikeComment, Thread!CommunityTypeOK, Thread!Comment
        <3> QED BY <1>5, <1>11, <2>1, <2>2, <2>4, <3>2, <3>3
    <2> QED BY <2>3, <2>4
<1>13. CommentsHold'
    BY <1>1, <1>8, <1>11 DEF ThreadInv, CountsAgree, CommentsHold
<1>14. CommentLikesHold'
    <2> SUFFICES ASSUME row \in Thread!Row, overwritten = {}, NEW d \in Thread!LiveComments
                 PROVE  comment'[d].likes = Cardinality(commentLikers'[d]) - spurious'.of[d]
        BY <1>1, <1>8 DEF CommentLikesHold
    <2>1. comment[d].likes = Cardinality(commentLikers[d]) - spurious.of[d] /\ d \in Comments
        BY <1>1, LiveCommentsAre DEF ThreadInv, CountsAgree, CommentLikesHold
    <2>2. CASE d # c
        BY <1>7, <1>10, <1>11, <2>1, <2>2
    <2>3. CASE d = c
        <3>1. Cardinality(commentLikers[c]) \in Nat /\ spurious.of[c] \in Nat /\ spurious'.of[c] \in Nat
            BY <1>2, <1>11, ThreadFinite DEF ThreadTyped, Spurious
        <3>2. IsFiniteSet(commentLikers'[c])
            BY <1>10, FS_Subset DEF ThreadConstants
        <3>3. Cardinality(commentLikers'[c]) \in Nat
            BY <3>2, FS_CardinalityType
        <3>4. comment'[c].likes \in Int
            BY <1>1, <1>5, <1>7
        <3> QED BY <1>5, <1>9, <1>12, <2>1, <2>3, <3>1, <3>3, <3>4
    <2> QED BY <2>2, <2>3
<1>15. \A d \in Comments : comment'[d] = None =>
        comment[d] = None /\ commentLikers'[d] = commentLikers[d] /\ spurious'.of[d] = spurious.of[d]
    BY <1>1, <1>5, <1>7, <1>10, <1>11 DEF ThreadConstants
<1> QED BY <1>1, <1>2, <1>3, <1>7, <1>10, <1>11, <1>13, <1>14, <1>15, ThreadTalkKeeps DEF Thread!CommunityTypeOK

LEMMA ThreadKept ==
    ASSUME ThreadConstants, ThreadInv, [Thread!CommunityNext]_Thread!threadVars
    PROVE  ThreadInv'
<1>1. CASE UNCHANGED Thread!threadVars
    BY <1>1, LiveCommentsAre DEF Thread!threadVars, ThreadInv, ThreadTyped, Thread!CommunityTypeOK, Spurious, ThreadParts, NothingBefore,
        UnwrittenAreUnliked, PostsStayOut, RewritesWereLive, CountsAgree, LikesHold, CommentsHold, CommentLikesHold
<1>2. CASE Thread!GenericStep \/ Thread!PostStep
    BY <1>2, ThreadRowKeeps, ThreadReadsKeep DEF Thread!GenericStep, Thread!PostStep
<1>3. CASE Thread!LikeStep
    BY <1>3, ThreadLikesKeep DEF Thread!LikeStep
<1>4. CASE Thread!CommentStep
    BY <1>4, AddCommentKeeps, LikeCommentKeeps, ThreadReadsKeep DEF Thread!CommentStep
<1>5. CASE Thread!CommentWrite
    BY <1>5, DropKeeps, RewriteKeeps DEF Thread!CommentWrite
<1> QED BY <1>1, <1>2, <1>3, <1>4, <1>5 DEF Thread!CommunityNext

LEMMA ThreadInitially ==
    ASSUME ThreadConstants, Thread!CommunityInit
    PROVE  ThreadInv
<1>1. ThreadParts
    BY DEF Thread!CommunityInit, ThreadParts, NothingBefore, UnwrittenAreUnliked, PostsStayOut, RewritesWereLive, ThreadConstants
<1>2. CountsAgree
    BY DEF Thread!CommunityInit, CountsAgree, LikesHold, CommentsHold, CommentLikesHold, ThreadConstants
<1> QED BY <1>1, <1>2, ThreadTypedInitially DEF ThreadInv

LEMMA ThreadImplies ==
    ASSUME ThreadInv
    PROVE  Thread!ThreadsAgree
<1>1. \A S : Thread!Cardinality(S) = Cardinality(S)
    BY DEF Thread!Cardinality, Cardinality
<1>2. Thread!PostCountsAgree
    BY <1>1 DEF Thread!PostCountsAgree, Thread!Exists, ThreadInv, CountsAgree, LikesHold, CommentsHold, CommentLikesHold
<1>3. Thread!NoticeCountsAgree
    <2> SUFFICES ASSUME kind = "notice", row \in Thread!Row, overwritten = {}
                 PROVE  /\ row.likes = Cardinality(likers) /\ row.views = Cardinality(readers)
                        /\ row.comments \in 0..Cardinality(Thread!LiveComments)
                        /\ row.comments >= Cardinality(Thread!LiveComments) - spurious.comments
        BY <1>1 DEF Thread!NoticeCountsAgree, Thread!Exists
    <2>1. row.comments \in Int
        BY DEF Thread!Row
    <2> QED BY <2>1 DEF ThreadInv, CountsAgree, LikesHold, CommentsHold
<1> QED BY <1>2, <1>3 DEF Thread!ThreadsAgree

(* ThreadsAgree: the likes, views and comments that stand on a post or a      *)
(* notice are those its tables hold, whatever overlaps that is not recorded   *)
(* (community_post_repository.go, notice_handler.go).                         *)
THEOREM ThreadsStayTrue ==
    ASSUME ThreadConstants
    PROVE  Thread!CommunitySpec => [](Thread!CommunityTypeOK /\ Thread!ThreadsAgree)
<1>1. Thread!CommunityInit => ThreadInv
    BY ThreadInitially
<1>2. ThreadInv /\ [Thread!CommunityNext]_Thread!threadVars => ThreadInv'
    BY ThreadKept
<1>3. ThreadInv => Thread!CommunityTypeOK /\ Thread!ThreadsAgree
    BY ThreadImplies DEF ThreadInv, ThreadTyped
<1> QED BY <1>1, <1>2, <1>3, PTL DEF Thread!CommunitySpec

-----------------------------------------------------------------------------
(* Exam and career reminders *)

ReminderConstants ==
    /\ Horizon \in Nat /\ None \notin Exams /\ None \notin Reminders
    /\ None \notin Timer!Exam /\ None \notin Timer!Sweep /\ None \notin Timer!Claim
    /\ None \notin [of : Exams, row : Timer!Exam]
    /\ None \notin [at : Timer!Days, status : Timer!Statuses]

Unreminded(e) == \A d \in Timer!Days : reminded[e][d] = 0
Pushes(p, e) == sweep[p] # None /\ sweep[p].pushed = e

\* A pass has read rows that exist, for the day they are on unless moved.
PassesHold ==
    \A p \in Processes, e \in Exams : Timer!Holds(p, e) =>
        exam[e] # None /\ (e \notin moved => exam[e].day = sweep[p].day)
PushesWereTried ==
    \A p \in Processes, e \in Exams : Pushes(p, e) => sweep[p].day \in tried[e]
\* At most one pass holds an exam, and it holds it before its first push.
OnePass ==
    \A e \in Exams \ slipped :
        /\ \A p, q \in Processes : Timer!Holds(p, e) /\ Timer!Holds(q, e) => p = q
        /\ \A p \in Processes : sweep[p] # None /\ e \in sweep[p].todo => Unreminded(e)
RemindedOnce ==
    \A e \in Exams :
        /\ exam[e] = None => Unreminded(e)
        /\ e \notin slipped => \A d \in Timer!Days : reminded[e][d] <= 1
        /\ e \notin slipped /\ exam[e] # None /\ exam[e].sent = FALSE /\ (\A p \in Processes : ~Pushes(p, e)) =>
                Unreminded(e)
MarksWereTried ==
    \A e \in Exams : exam[e] # None /\ exam[e].sent = TRUE /\ e \notin moved \cup slipped => exam[e].day \in tried[e]
\* A mark that an edit has read is still there, unless another edit lost it.
EditsKeepMarks ==
    \A w \in Requests : edit[w] # None =>
        /\ exam[edit[w].of] # None
        /\ edit[w].row.sent = TRUE /\ edit[w].of \notin slipped => exam[edit[w].of].sent = TRUE

ExamTyped ==
    /\ exam \in [Exams -> Timer!Exam \cup {None}]
    /\ sweep \in [Processes -> Timer!Sweep \cup {None}]
    /\ edit \in [Requests -> [of : Exams, row : Timer!Exam] \cup {None}]
    /\ reminded \in [Exams -> [Timer!Days -> Nat]] /\ tried \in [Exams -> SUBSET Timer!Days]
    /\ announce \subseteq Exams /\ slipped \subseteq Exams /\ moved \subseteq Exams
ExamInv ==
    /\ ExamTyped /\ PassesHold /\ PushesWereTried /\ OnePass /\ RemindedOnce /\ MarksWereTried /\ EditsKeepMarks

LEMMA ExamRowTyped ==
    ASSUME ExamTyped, NEW e \in Exams, exam[e] # None
    PROVE  exam[e] \in Timer!Exam /\ exam[e].day \in Timer!Days /\ exam[e].sent \in BOOLEAN
BY DEF ExamTyped, Timer!Exam

LEMMA SweepTyped ==
    ASSUME ExamTyped, NEW p \in Processes, sweep[p] # None
    PROVE  /\ sweep[p] \in Timer!Sweep /\ sweep[p].todo \subseteq Exams /\ sweep[p].day \in Timer!Days
           /\ sweep[p].pushed \in Exams \cup {None}
BY DEF ExamTyped, Timer!Sweep

LEMMA EditTyped ==
    ASSUME ExamTyped, NEW w \in Requests, edit[w] # None
    PROVE  edit[w].of \in Exams /\ edit[w].row \in Timer!Exam /\ edit[w].row.sent \in BOOLEAN
BY DEF ExamTyped, Timer!Exam

(* Steps that leave the passes and the histories of the exams alone.          *)
LEMMA ExamCreated ==
    ASSUME ReminderConstants, ExamInv, NEW e \in Exams, NEW day \in Timer!Days, Timer!CreateExam(e, day)
    PROVE  ExamInv'
<1> DEFINE r == [day |-> day, sent |-> FALSE, deleted |-> FALSE]
<1>1. /\ exam[e] = None /\ exam' = [exam EXCEPT ![e] = r] /\ announce' = announce \cup {e}
      /\ UNCHANGED <<sweep, edit, reminded, tried, slipped, moved>>
    BY DEF Timer!CreateExam
<1>2. r \in Timer!Exam /\ r # None /\ r.sent = FALSE
    <2>1. r \in Timer!Exam /\ r.sent = FALSE
        BY DEF Timer!Exam
    <2> QED BY <2>1 DEF ReminderConstants
<1> HIDE DEF r
<1>3. ExamTyped'
    BY <1>1, <1>2 DEF ExamInv, ExamTyped
<1>4. /\ exam'[e] = r /\ \A f \in Exams \ {e} : exam'[f] = exam[f]
      /\ \A f \in Exams : exam[f] # None => exam'[f] = exam[f]
    BY <1>1 DEF ExamInv, ExamTyped
<1>5. PassesHold' /\ PushesWereTried'
    BY <1>1, <1>4 DEF ExamInv, PassesHold, PushesWereTried, Pushes, Timer!Holds
<1>6. OnePass'
    BY <1>1 DEF ExamInv, OnePass, Unreminded, Timer!Holds
<1>7. RemindedOnce'
    BY <1>1, <1>2, <1>4 DEF ExamInv, RemindedOnce, Unreminded, Pushes
<1>8. MarksWereTried'
    BY <1>1, <1>2, <1>4 DEF ExamInv, MarksWereTried
<1>9. EditsKeepMarks'
    BY <1>1, <1>4, EditTyped DEF ExamInv, EditsKeepMarks
<1> QED BY <1>3, <1>5, <1>6, <1>7, <1>8, <1>9 DEF ExamInv

LEMMA ExamDeleted ==
    ASSUME ReminderConstants, ExamInv, NEW e \in Exams, Timer!DeleteExam(e)
    PROVE  ExamInv'
<1> DEFINE r == [exam[e] EXCEPT !.deleted = TRUE]
<1>1. /\ exam[e] # None /\ exam' = [exam EXCEPT ![e] = r]
      /\ UNCHANGED <<announce, sweep, edit, reminded, tried, slipped, moved>>
    BY DEF Timer!DeleteExam, Timer!LiveExam
<1>2. r \in Timer!Exam /\ r # None /\ r.sent = exam[e].sent /\ r.day = exam[e].day
    BY <1>1, ExamRowTyped DEF Timer!Exam, ReminderConstants, ExamInv
<1> HIDE DEF r
<1>3. ExamTyped'
    BY <1>1, <1>2 DEF ExamInv, ExamTyped
<1>4. \A f \in Exams : /\ exam'[f] = None <=> exam[f] = None
                       /\ exam[f] # None => exam'[f].sent = exam[f].sent /\ exam'[f].day = exam[f].day
    BY <1>1, <1>2 DEF ExamInv, ExamTyped
<1>5. PassesHold' /\ PushesWereTried'
    BY <1>1, <1>4 DEF ExamInv, PassesHold, PushesWereTried, Pushes, Timer!Holds
<1>6. OnePass'
    BY <1>1 DEF ExamInv, OnePass, Unreminded, Timer!Holds
<1>7. RemindedOnce'
    BY <1>1, <1>4 DEF ExamInv, RemindedOnce, Unreminded, Pushes
<1>8. MarksWereTried'
    BY <1>1, <1>4 DEF ExamInv, MarksWereTried
<1>9. EditsKeepMarks'
    BY <1>1, <1>4, EditTyped DEF ExamInv, EditsKeepMarks
<1> QED BY <1>3, <1>5, <1>6, <1>7, <1>8, <1>9 DEF ExamInv

LEMMA ExamRead ==
    ASSUME ReminderConstants, ExamInv, NEW w \in Requests, NEW e \in Exams, Timer!ReadExam(w, e)
    PROVE  ExamInv'
<1> DEFINE t == [of |-> e, row |-> exam[e]]
<1>1. /\ exam[e] # None /\ edit' = [edit EXCEPT ![w] = t]
      /\ UNCHANGED <<exam, announce, sweep, reminded, tried, slipped, moved>>
    BY DEF Timer!ReadExam, Timer!LiveExam
<1>2. t \in [of : Exams, row : Timer!Exam] /\ t.of = e /\ t.row = exam[e]
    BY <1>1, ExamRowTyped DEF ExamInv
<1> HIDE DEF t
<1>3. ExamTyped'
    BY <1>1, <1>2 DEF ExamInv, ExamTyped
<1>4. PassesHold' /\ PushesWereTried' /\ OnePass' /\ RemindedOnce' /\ MarksWereTried'
    BY <1>1 DEF ExamInv, PassesHold, PushesWereTried, OnePass, RemindedOnce, MarksWereTried, Unreminded, Pushes, Timer!Holds
<1>5. EditsKeepMarks'
    <2>1. edit'[w] = t /\ \A v \in Requests \ {w} : edit'[v] = edit[v]
        BY <1>1 DEF ExamInv, ExamTyped
    <2> QED BY <1>1, <1>2, <2>1 DEF ExamInv, EditsKeepMarks
<1> QED BY <1>3, <1>4, <1>5 DEF ExamInv

(* An edit that writes a row back writes the mark it read: it loses a newer   *)
(* mark, and then the exam counts as slipped.                                 *)
LEMMA ExamUpdated ==
    ASSUME ReminderConstants, ExamInv, NEW w \in Requests, NEW day \in Timer!Days, Timer!UpdateExam(w, day)
    PROVE  ExamInv'
<1> DEFINE e == edit[w].of
           mark == edit[w].row.sent
           r == [day |-> day, sent |-> edit[w].row.sent, deleted |-> FALSE]
<1>1. /\ edit[w] # None /\ exam' = [exam EXCEPT ![e] = r] /\ edit' = [edit EXCEPT ![w] = None]
      /\ slipped' = IF exam[e].sent /\ ~mark THEN slipped \cup {e} ELSE slipped
      /\ moved' = IF day # exam[e].day /\ (mark \/ Timer!UnderWay(e)) THEN moved \cup {e} ELSE moved
      /\ UNCHANGED <<announce, sweep, reminded, tried>>
    BY DEF Timer!UpdateExam
<1>2. /\ e \in Exams /\ mark \in BOOLEAN /\ exam[e] # None /\ exam[e].sent \in BOOLEAN
      /\ mark = TRUE /\ e \notin slipped => exam[e].sent = TRUE
    BY <1>1, EditTyped, ExamRowTyped DEF ExamInv, EditsKeepMarks
<1>3. r \in Timer!Exam /\ r.sent = mark /\ r.day = day
    BY <1>2 DEF Timer!Exam
<1>4. r # None
    BY <1>3 DEF ReminderConstants
<1> HIDE DEF r, mark, e
<1>5. /\ exam'[e] = r /\ \A f \in Exams \ {e} : exam'[f] = exam[f]
      /\ edit'[w] = None /\ \A v \in Requests \ {w} : edit'[v] = edit[v]
    BY <1>1, <1>2 DEF ExamInv, ExamTyped
<1>6. /\ slipped \subseteq slipped' /\ moved \subseteq moved' /\ slipped' \subseteq Exams /\ moved' \subseteq Exams
      /\ \A f \in Exams \ {e} : (f \in slipped' <=> f \in slipped) /\ (f \in moved' <=> f \in moved)
      /\ e \notin slipped' => exam[e].sent = mark
      /\ e \notin moved' => day = exam[e].day \/ (mark = FALSE /\ ~Timer!UnderWay(e))
    BY <1>1, <1>2 DEF ExamInv, ExamTyped
<1>7. ExamTyped'
    BY <1>1, <1>3, <1>6 DEF ExamInv, ExamTyped
<1>8. PassesHold'
    <2> SUFFICES ASSUME NEW p \in Processes, NEW f \in Exams, Timer!Holds(p, f)
                 PROVE  exam'[f] # None /\ (f \notin moved' => exam'[f].day = sweep[p].day)
        BY <1>1 DEF PassesHold, Timer!Holds
    <2>1. exam[f] # None /\ (f \notin moved => exam[f].day = sweep[p].day)
        BY DEF ExamInv, PassesHold
    <2>2. f = e => Timer!UnderWay(e)
        BY DEF Timer!UnderWay
    <2> QED BY <1>3, <1>4, <1>5, <1>6, <2>1, <2>2
<1>9. PushesWereTried'
    BY <1>1 DEF ExamInv, PushesWereTried, Pushes
<1>10. OnePass'
    BY <1>1, <1>6 DEF ExamInv, OnePass, Unreminded, Timer!Holds
<1>11. RemindedOnce'
    <2>1. \A f \in Exams : /\ exam'[f] = None => exam[f] = None
                           /\ f \notin slipped' /\ exam'[f] # None => exam'[f].sent = exam[f].sent /\ exam[f] # None
        BY <1>2, <1>3, <1>4, <1>5, <1>6
    <2> QED BY <1>1, <1>6, <2>1 DEF ExamInv, RemindedOnce, Unreminded, Pushes
<1>12. MarksWereTried'
    <2> SUFFICES ASSUME NEW f \in Exams, exam'[f] # None, exam'[f].sent = TRUE, f \notin moved' \cup slipped'
                 PROVE  exam'[f].day \in tried[f]
        BY <1>1 DEF MarksWereTried
    <2>1. exam[f] # None /\ exam[f].sent = TRUE /\ exam'[f].day = exam[f].day
        BY <1>2, <1>3, <1>5, <1>6
    <2> QED BY <1>6, <2>1 DEF ExamInv, MarksWereTried
<1>13. EditsKeepMarks'
    <2> SUFFICES ASSUME NEW v \in Requests, edit'[v] # None
                 PROVE  /\ exam'[edit'[v].of] # None
                        /\ edit'[v].row.sent = TRUE /\ edit'[v].of \notin slipped' => exam'[edit'[v].of].sent = TRUE
        BY DEF EditsKeepMarks
    <2>1. edit'[v] = edit[v] /\ edit[v].of \in Exams
        BY <1>5, EditTyped DEF ExamInv
    <2>2. /\ exam[edit[v].of] # None
          /\ edit[v].row.sent = TRUE /\ edit[v].of \notin slipped => exam[edit[v].of].sent = TRUE
        BY <2>1 DEF ExamInv, EditsKeepMarks
    <2> QED BY <1>3, <1>4, <1>5, <1>6, <2>1, <2>2
<1> QED BY <1>7, <1>8, <1>9, <1>10, <1>11, <1>12, <1>13 DEF ExamInv

(* A pass takes the exams due; those of a pass under way count as slipped.    *)
LEMMA PassStarted ==
    ASSUME ReminderConstants, ExamInv, now \in Timer!Days, NEW p \in Processes, Timer!tickExams(p)
    PROVE  ExamInv'
<1> DEFINE D == {e \in Exams : Timer!Due(e)}
           s == [todo |-> D, day |-> now + 1, pushed |-> None]
<1>1. /\ sweep[p] = None /\ D # {} /\ sweep' = [sweep EXCEPT ![p] = s]
      /\ slipped' = slipped \cup {e \in Exams : Timer!Due(e) /\ Timer!UnderWay(e)}
      /\ UNCHANGED <<exam, announce, edit, reminded, tried, moved>>
    BY DEF Timer!tickExams
<1>2. \A e \in D : exam[e] # None /\ exam[e].day = now + 1 /\ exam[e].sent = FALSE
    BY ExamRowTyped DEF Timer!Due, Timer!LiveExam, ExamInv
<1>3. s \in Timer!Sweep /\ s.todo = D /\ s.day = now + 1 /\ s.pushed = None
    BY <1>1, <1>2, ExamRowTyped DEF Timer!Sweep, ExamInv
<1>4. s # None
    BY <1>3 DEF ReminderConstants
<1>5. /\ slipped \subseteq slipped' /\ slipped' \subseteq Exams
      /\ \A e \in D : e \notin slipped' => ~Timer!UnderWay(e)
    BY <1>1 DEF ExamInv, ExamTyped
<1>6. D \subseteq Exams /\ None \notin Exams
    BY DEF ReminderConstants
<1> HIDE DEF s, D
<1>7. sweep'[p] = s /\ \A q \in Processes \ {p} : sweep'[q] = sweep[q]
    BY <1>1 DEF ExamInv, ExamTyped
<1>8. \A e \in Exams : /\ Timer!Holds(p, e)' <=> e \in D
                       /\ ~Timer!Holds(p, e)
                       /\ \A q \in Processes \ {p} : Timer!Holds(q, e)' <=> Timer!Holds(q, e)
                       /\ \A q \in Processes : Pushes(q, e)' <=> Pushes(q, e)
    BY <1>1, <1>3, <1>4, <1>6, <1>7 DEF Timer!Holds, Pushes
<1>9. ExamTyped'
    BY <1>1, <1>3, <1>5 DEF ExamInv, ExamTyped
<1>10. PassesHold'
    BY <1>1, <1>2, <1>3, <1>7, <1>8 DEF ExamInv, PassesHold
<1>11. PushesWereTried'
    BY <1>1, <1>7, <1>8 DEF ExamInv, PushesWereTried, Pushes
<1>12. OnePass'
    <2> SUFFICES ASSUME NEW e \in Exams \ slipped'
                 PROVE  /\ \A q, x \in Processes : Timer!Holds(q, e)' /\ Timer!Holds(x, e)' => q = x
                        /\ \A q \in Processes : sweep'[q] # None /\ e \in sweep'[q].todo => Unreminded(e)'
        BY DEF OnePass
    <2>1. /\ \A q, x \in Processes : Timer!Holds(q, e) /\ Timer!Holds(x, e) => q = x
          /\ \A q \in Processes : sweep[q] # None /\ e \in sweep[q].todo => Unreminded(e)
        BY <1>5 DEF ExamInv, OnePass
    <2>2. e \in D => \A q \in Processes : ~Timer!Holds(q, e) /\ ~Pushes(q, e)
        BY <1>5 DEF Timer!UnderWay, Timer!Holds, Pushes
    <2>3. e \in D => Unreminded(e)
        BY <1>2, <1>5, <2>2 DEF ExamInv, RemindedOnce
    <2>4. \A q, x \in Processes : Timer!Holds(q, e)' /\ Timer!Holds(x, e)' => q = x
        BY <1>8, <2>1, <2>2
    <2>5. Unreminded(e)' <=> Unreminded(e)
        BY <1>1 DEF Unreminded
    <2>6. \A q \in Processes : sweep'[q] # None /\ e \in sweep'[q].todo => Unreminded(e)
        BY <1>3, <1>7, <2>1, <2>3
    <2> QED BY <2>4, <2>5, <2>6
<1>13. RemindedOnce'
    <2>1. \A e \in Exams : Unreminded(e)' <=> Unreminded(e)
        BY <1>1 DEF Unreminded
    <2> QED BY <1>1, <1>5, <1>8, <2>1 DEF ExamInv, RemindedOnce
<1>14. MarksWereTried' /\ EditsKeepMarks'
    BY <1>1, <1>5 DEF ExamInv, MarksWereTried, EditsKeepMarks
<1> QED BY <1>9, <1>10, <1>11, <1>12, <1>13, <1>14 DEF ExamInv

(* A push: the exam was in no other pass, or it had slipped.                  *)
LEMMA ExamReminded ==
    ASSUME ReminderConstants, ExamInv, NEW p \in Processes, NEW e \in Exams, NEW sent \in BOOLEAN,
           Timer!remind(p, e, sent)
    PROVE  ExamInv'
<1> DEFINE d == sweep[p].day
           s == [sweep[p] EXCEPT !.todo = @ \ {e}, !.pushed = e]
<1>1. /\ sweep[p] # None /\ e \in sweep[p].todo /\ sweep[p].pushed = None
      /\ sweep' = [sweep EXCEPT ![p].todo = @ \ {e}, ![p].pushed = e]
      /\ tried' = [tried EXCEPT ![e] = @ \cup {d}]
      /\ reminded' = IF sent THEN [reminded EXCEPT ![e][d] = @ + 1] ELSE reminded
      /\ UNCHANGED <<exam, announce, edit, slipped, moved>>
    BY DEF Timer!remind
<1>2. sweep[p] \in Timer!Sweep /\ d \in Timer!Days /\ sweep[p].todo \subseteq Exams
    BY <1>1, SweepTyped DEF ExamInv
<1>3. /\ s \in Timer!Sweep /\ s.todo = sweep[p].todo \ {e} /\ s.day = d /\ s.pushed = e
    BY <1>2 DEF Timer!Sweep
<1>4. s # None /\ e # None
    BY <1>3 DEF ReminderConstants
<1>5. sweep'[p] = s /\ sweep' \in [Processes -> Timer!Sweep \cup {None}] /\ \A q \in Processes \ {p} : sweep'[q] = sweep[q]
    BY <1>1, <1>3 DEF ExamInv, ExamTyped
<1> HIDE DEF s, d
<1>6. \A f \in Exams : /\ \A q \in Processes : Timer!Holds(q, f)' => Timer!Holds(q, f)
                       /\ f # e => \A q \in Processes : Pushes(q, f)' <=> Pushes(q, f)
                       /\ \A q \in Processes \ {p} : Pushes(q, f)' <=> Pushes(q, f)
    <2> SUFFICES ASSUME NEW f \in Exams, NEW q \in Processes
                 PROVE  /\ Timer!Holds(q, f)' => Timer!Holds(q, f)
                        /\ f # e => (Pushes(q, f)' <=> Pushes(q, f))
                        /\ q # p => (Pushes(q, f)' <=> Pushes(q, f))
        OBVIOUS
    <2>1. None \notin Exams
        BY DEF ReminderConstants
    <2> QED BY <1>1, <1>3, <1>4, <1>5, <2>1 DEF Timer!Holds, Pushes
<1>7. /\ Pushes(p, e)' /\ Timer!Holds(p, e)
      /\ \A q \in Processes \ {p} : e \notin slipped => ~Timer!Holds(q, e)
    BY <1>1, <1>3, <1>4, <1>5 DEF Pushes, Timer!Holds, ExamInv, OnePass
<1>8. /\ reminded' \in [Exams -> [Timer!Days -> Nat]]
      /\ \A f \in Exams \ {e} : reminded'[f] = reminded[f]
      /\ \A x \in Timer!Days : reminded'[e][x] = reminded[e][x] \/ reminded'[e][x] = reminded[e][x] + 1
    <2>1. CASE sent
        BY <1>1, <1>2, <2>1 DEF ExamInv, ExamTyped
    <2>2. CASE ~sent
        BY <1>1, <2>2 DEF ExamInv, ExamTyped
    <2> QED BY <2>1, <2>2
<1>9. /\ tried' \in [Exams -> SUBSET Timer!Days] /\ d \in tried'[e]
      /\ \A f \in Exams : tried[f] \subseteq tried'[f]
    BY <1>1, <1>2 DEF ExamInv, ExamTyped
<1>10. ExamTyped'
    BY <1>1, <1>5, <1>8, <1>9 DEF ExamInv, ExamTyped
<1>11. PassesHold'
    <2>1. \A q \in Processes : sweep'[q] # None => sweep[q] # None /\ sweep'[q].day = sweep[q].day
        BY <1>1, <1>3, <1>5 DEF d
    <2>2. \A q \in Processes, f \in Exams : Timer!Holds(q, f)' => sweep'[q] # None
        BY DEF Timer!Holds
    <2> QED BY <1>1, <1>6, <2>1, <2>2 DEF ExamInv, PassesHold
<1>12. PushesWereTried'
    <2> SUFFICES ASSUME NEW q \in Processes, NEW f \in Exams, Pushes(q, f)'
                 PROVE  sweep'[q].day \in tried'[f]
        BY DEF PushesWereTried
    <2>1. CASE q = p
        BY <1>3, <1>5, <1>9, <2>1 DEF Pushes
    <2>2. CASE q # p
        BY <1>5, <1>6, <1>9, <2>2 DEF ExamInv, PushesWereTried
    <2> QED BY <2>1, <2>2
<1>13. OnePass'
    <2> SUFFICES ASSUME NEW f \in Exams \ slipped
                 PROVE  /\ \A q, x \in Processes : Timer!Holds(q, f)' /\ Timer!Holds(x, f)' => q = x
                        /\ \A q \in Processes : sweep'[q] # None /\ f \in sweep'[q].todo => Unreminded(f)'
        BY <1>1 DEF OnePass
    <2>1. /\ \A q, x \in Processes : Timer!Holds(q, f) /\ Timer!Holds(x, f) => q = x
          /\ \A q \in Processes : sweep[q] # None /\ f \in sweep[q].todo => Unreminded(f)
        BY DEF ExamInv, OnePass
    <2>2. ASSUME NEW q \in Processes, sweep'[q] # None, f \in sweep'[q].todo
          PROVE  Unreminded(f)'
        <3>1. f # e
            BY <1>3, <1>5, <1>7, <2>2 DEF Timer!Holds
        <3>2. sweep[q] # None /\ f \in sweep[q].todo
            BY <1>1, <1>3, <1>5, <2>2
        <3> QED BY <1>8, <2>1, <3>1, <3>2 DEF Unreminded
    <2> QED BY <1>6, <2>1, <2>2
<1>14. RemindedOnce'
    <2> SUFFICES ASSUME NEW f \in Exams
                 PROVE  /\ exam[f] = None => Unreminded(f)'
                        /\ f \notin slipped => \A x \in Timer!Days : reminded'[f][x] <= 1
                        /\ f \notin slipped /\ exam[f] # None /\ exam[f].sent = FALSE /\ (\A q \in Processes : ~Pushes(q, f)') =>
                                Unreminded(f)'
        BY <1>1 DEF RemindedOnce
    <2>1. CASE f = e
        <3>1. exam[e] # None
            BY <1>7 DEF ExamInv, PassesHold
        <3>2. e \notin slipped => Unreminded(e)
            BY <1>1 DEF ExamInv, OnePass
        <3> QED BY <1>7, <1>8, <2>1, <3>1, <3>2 DEF Unreminded
    <2>2. CASE f # e
        <3>1. Unreminded(f) => Unreminded(f)'
            BY <1>8, <2>2 DEF Unreminded
        <3> QED BY <1>6, <1>8, <2>2, <3>1 DEF ExamInv, RemindedOnce
    <2> QED BY <2>1, <2>2
<1>15. MarksWereTried' /\ EditsKeepMarks'
    BY <1>1, <1>9 DEF ExamInv, MarksWereTried, EditsKeepMarks
<1> QED BY <1>10, <1>11, <1>12, <1>13, <1>14, <1>15 DEF ExamInv

(* A pass that ends, or goes on with what is left of it: what it pushed last  *)
(* was marked for the day it is on, or has slipped.                           *)
LEMMA PassGoesOn ==
    ASSUME ReminderConstants, ExamInv, ExamTyped', NEW p \in Processes, sweep[p] # None,
           UNCHANGED <<edit, reminded, tried, moved>>, slipped \subseteq slipped',
           \A q \in Processes \ {p} : sweep'[q] = sweep[q],
           sweep'[p] # None => /\ sweep'[p].todo \subseteq sweep[p].todo /\ sweep'[p].day = sweep[p].day
                               /\ sweep'[p].pushed = None,
           \A f \in Exams : /\ exam[f] = None => exam'[f] = None
                            /\ exam[f] # None => /\ exam'[f] # None /\ exam'[f].day = exam[f].day
                                                 /\ exam[f].sent = TRUE => exam'[f].sent = TRUE,
           \A f \in Exams : exam[f] # None /\ exam[f].sent = FALSE /\ exam'[f].sent = TRUE => Pushes(p, f),
           \A f \in Exams : Pushes(p, f) => f \in slipped' \/ exam'[f].sent = TRUE
    PROVE  ExamInv'
<1>1. \A f \in Exams : /\ \A q \in Processes : Timer!Holds(q, f)' => Timer!Holds(q, f)
                       /\ \A q \in Processes \ {p} : Pushes(q, f)' <=> Pushes(q, f)
    <2>1. None \notin Exams
        BY DEF ReminderConstants
    <2> QED BY <2>1 DEF Timer!Holds, Pushes
<1>2. \A f \in Exams, q \in Processes : Pushes(q, f)' => Pushes(q, f)
    <2>1. \A f \in Exams : ~Pushes(p, f)'
        BY DEF Pushes, ReminderConstants
    <2> QED BY <1>1, <2>1
<1>3. \A q \in Processes : sweep'[q] # None => /\ sweep[q] # None /\ sweep'[q].day = sweep[q].day
                                               /\ sweep'[q].todo \subseteq sweep[q].todo
    OBVIOUS
<1>4. \A f \in Exams : Unreminded(f)' <=> Unreminded(f)
    BY DEF Unreminded
<1>5. PassesHold'
    <2>1. \A q \in Processes, f \in Exams : Timer!Holds(q, f)' => sweep'[q] # None
        BY DEF Timer!Holds
    <2> QED BY <1>1, <1>3, <2>1 DEF ExamInv, PassesHold
<1>6. PushesWereTried'
    <2>1. \A q \in Processes, f \in Exams : Pushes(q, f)' => sweep'[q] # None
        BY DEF Pushes
    <2> QED BY <1>2, <1>3, <2>1 DEF ExamInv, PushesWereTried
<1>7. OnePass'
    <2> SUFFICES ASSUME NEW f \in Exams \ slipped'
                 PROVE  /\ \A q, x \in Processes : Timer!Holds(q, f)' /\ Timer!Holds(x, f)' => q = x
                        /\ \A q \in Processes : sweep'[q] # None /\ f \in sweep'[q].todo => Unreminded(f)'
        BY DEF OnePass
    <2>1. f \in Exams \ slipped
        OBVIOUS
    <2> QED BY <1>1, <1>3, <1>4, <2>1 DEF ExamInv, OnePass
<1>8. RemindedOnce'
    <2> SUFFICES ASSUME NEW f \in Exams
                 PROVE  /\ exam'[f] = None => Unreminded(f)
                        /\ f \notin slipped' => \A x \in Timer!Days : reminded[f][x] <= 1
                        /\ f \notin slipped' /\ exam'[f] # None /\ exam'[f].sent = FALSE /\ (\A q \in Processes : ~Pushes(q, f)') =>
                                Unreminded(f)
        BY <1>4 DEF RemindedOnce
    <2>1. /\ exam[f] = None => Unreminded(f)
          /\ f \notin slipped => \A x \in Timer!Days : reminded[f][x] <= 1
          /\ f \notin slipped /\ exam[f] # None /\ exam[f].sent = FALSE /\ (\A q \in Processes : ~Pushes(q, f)) => Unreminded(f)
        BY DEF ExamInv, RemindedOnce
    <2>2. ASSUME f \notin slipped', exam'[f] # None, exam'[f].sent = FALSE, \A q \in Processes : ~Pushes(q, f)'
          PROVE  Unreminded(f)
        <3>1. exam[f] # None /\ exam[f].sent = FALSE
            BY <2>2, ExamRowTyped DEF ExamInv
        <3>2. \A q \in Processes : ~Pushes(q, f)
            BY <1>1, <2>2
        <3> QED BY <2>1, <2>2, <3>1, <3>2
    <2> QED BY <2>1, <2>2
<1>9. MarksWereTried'
    <2> SUFFICES ASSUME NEW f \in Exams, exam'[f] # None, exam'[f].sent = TRUE, f \notin moved \cup slipped'
                 PROVE  exam'[f].day \in tried[f]
        BY DEF MarksWereTried
    <2>1. exam[f] # None /\ exam'[f].day = exam[f].day /\ exam[f].sent \in BOOLEAN
        BY ExamRowTyped DEF ExamInv
    <2>2. CASE exam[f].sent = TRUE
        BY <2>1, <2>2 DEF ExamInv, MarksWereTried
    <2>3. CASE exam[f].sent = FALSE
        <3>1. Pushes(p, f)
            BY <2>1, <2>3
        <3>2. Timer!Holds(p, f)
            BY <3>1 DEF Pushes, Timer!Holds
        <3>3. exam[f].day = sweep[p].day
            BY <3>2 DEF ExamInv, PassesHold
        <3> QED BY <2>1, <3>1, <3>3 DEF ExamInv, PushesWereTried
    <2> QED BY <2>1, <2>2, <2>3
<1>10. EditsKeepMarks'
    <2> SUFFICES ASSUME NEW w \in Requests, edit[w] # None
                 PROVE  /\ exam'[edit[w].of] # None
                        /\ edit[w].row.sent = TRUE /\ edit[w].of \notin slipped' => exam'[edit[w].of].sent = TRUE
        BY DEF EditsKeepMarks
    <2>1. edit[w].of \in Exams
        BY EditTyped DEF ExamInv
    <2> QED BY <2>1 DEF ExamInv, EditsKeepMarks
<1> QED BY <1>5, <1>6, <1>7, <1>8, <1>9, <1>10 DEF ExamInv

LEMMA ExamMarked ==
    ASSUME ReminderConstants, ExamInv, NEW p \in Processes, NEW failed \in BOOLEAN, Timer!markReminded(p, failed)
    PROVE  ExamInv'
<1> DEFINE e == sweep[p].pushed
           lost == failed \/ exam[e].deleted
           r == [exam[e] EXCEPT !.sent = TRUE]
           s == Timer!Rest(p)
<1>1. /\ sweep[p] # None /\ e # None
      /\ exam' = IF lost THEN exam ELSE [exam EXCEPT ![e] = r]
      /\ slipped' = IF lost THEN slipped \cup {e} ELSE slipped
      /\ sweep' = [sweep EXCEPT ![p] = s]
      /\ UNCHANGED <<announce, edit, reminded, tried, moved>>
    BY DEF Timer!markReminded
<1>2. sweep[p] \in Timer!Sweep /\ e \in Exams
    BY <1>1, SweepTyped DEF ExamInv
<1>3. exam[e] \in Timer!Exam
    <2>1. Timer!Holds(p, e)
        BY <1>1 DEF Timer!Holds
    <2>2. exam[e] # None
        BY <1>2, <2>1 DEF ExamInv, PassesHold
    <2> QED BY <1>2, <2>2, ExamRowTyped DEF ExamInv
<1>4. r \in Timer!Exam /\ r.day = exam[e].day /\ r.sent = TRUE
    BY <1>3 DEF Timer!Exam
<1>5. r # None /\ exam[e] # None
    BY <1>3, <1>4 DEF ReminderConstants
<1>6. /\ s \in Timer!Sweep \cup {None}
      /\ s # None => s.todo = sweep[p].todo /\ s.day = sweep[p].day /\ s.pushed = None
    BY <1>2 DEF Timer!Rest, Timer!Sweep
<1> HIDE DEF s, r, lost
<1>7. sweep'[p] = s /\ \A q \in Processes \ {p} : sweep'[q] = sweep[q]
    BY <1>1 DEF ExamInv, ExamTyped
<1>8. \A f \in Exams : /\ f # e \/ lost => exam'[f] = exam[f]
                       /\ f = e /\ ~lost => exam'[f] = r
    BY <1>1, <1>2 DEF ExamInv, ExamTyped
<1>9. ExamTyped'
    <2>1. exam' \in [Exams -> Timer!Exam \cup {None}] /\ slipped' \subseteq Exams
        BY <1>1, <1>2, <1>4 DEF ExamInv, ExamTyped
    <2>2. sweep' \in [Processes -> Timer!Sweep \cup {None}]
        BY <1>1, <1>6 DEF ExamInv, ExamTyped
    <2> QED BY <1>1, <2>1, <2>2 DEF ExamInv, ExamTyped
<1>10. \A f \in Exams : Pushes(p, f) <=> f = e
    BY <1>1 DEF Pushes
<1>11. \A f \in Exams : f = e => f \in slipped' \/ exam'[f].sent = TRUE
    BY <1>1, <1>4, <1>8
<1>12. \A f \in Exams : /\ exam[f] = None => exam'[f] = None
                        /\ exam[f] # None => /\ exam'[f] # None /\ exam'[f].day = exam[f].day
                                             /\ exam[f].sent = TRUE => exam'[f].sent = TRUE
                        /\ exam[f] # None /\ exam[f].sent = FALSE /\ exam'[f].sent = TRUE => f = e
    BY <1>4, <1>5, <1>8
<1>13. slipped \subseteq slipped'
    BY <1>1
<1>14. sweep'[p] # None => /\ sweep'[p].todo \subseteq sweep[p].todo /\ sweep'[p].day = sweep[p].day
                           /\ sweep'[p].pushed = None
    BY <1>6, <1>7
<1> QED BY <1>1, <1>7, <1>9, <1>10, <1>11, <1>12, <1>13, <1>14, PassGoesOn

(* A crash forgets the pass: what was pushed and not marked has slipped.      *)
LEMMA PassLost ==
    ASSUME ReminderConstants, ExamInv, NEW p \in Processes, Timer!Crash(p)
    PROVE  ExamInv'
<1>1. /\ slipped' = IF sweep[p] # None THEN slipped \cup ({sweep[p].pushed} \ {None}) ELSE slipped
      /\ sweep' = [sweep EXCEPT ![p] = None] /\ announce' \in SUBSET announce
      /\ UNCHANGED <<exam, edit, reminded, tried, moved>>
    BY DEF Timer!Crash
<1>2. CASE sweep[p] = None
    <2>1. sweep' = sweep /\ slipped' = slipped
        BY <1>1, <1>2 DEF ExamInv, ExamTyped
    <2> QED BY <1>1, <2>1 DEF ExamInv, ExamTyped, PassesHold, PushesWereTried, OnePass, RemindedOnce, MarksWereTried,
            EditsKeepMarks, Unreminded, Pushes, Timer!Holds
<1>3. CASE sweep[p] # None
    <2>1. sweep[p].pushed \in Exams \cup {None}
        BY <1>3, SweepTyped DEF ExamInv
    <2>2. ExamTyped' /\ slipped \subseteq slipped'
        BY <1>1, <1>3, <2>1 DEF ExamInv, ExamTyped
    <2>3. sweep'[p] = None /\ \A q \in Processes \ {p} : sweep'[q] = sweep[q]
        BY <1>1 DEF ExamInv, ExamTyped
    <2>4. \A f \in Exams : Pushes(p, f) => f \in slipped'
        BY <1>1, <1>3 DEF Pushes, ReminderConstants
    <2>5. UNCHANGED <<edit, reminded, tried, moved>> /\ exam' = exam
        BY <1>1
    <2>6. \A f \in Exams : /\ exam[f] = None => exam'[f] = None
                           /\ exam[f] # None => /\ exam'[f] # None /\ exam'[f].day = exam[f].day
                                                /\ exam[f].sent = TRUE => exam'[f].sent = TRUE
                           /\ exam[f] # None /\ exam[f].sent = FALSE /\ exam'[f].sent = TRUE => Pushes(p, f)
        BY <2>5
    <2> QED BY <1>3, <2>2, <2>3, <2>4, <2>5, <2>6, PassGoesOn
<1> QED BY <1>2, <1>3

Takes(p, r) == claim[p] # None /\ (r \in claim[p].todo \/ claim[p].pushed = r)

\* What a pass holds is claimed; it was pushed once if it waits for its mark.
ClaimsHold ==
    \A p \in Processes, r \in Reminders : Takes(p, r) =>
        /\ reminder[r] # None /\ reminder[r].status = "claimed"
        /\ r \in claim[p].todo => delivered[r] = 0
        /\ claim[p].pushed = r => delivered[r] = 1
OneClaim ==
    \A p, q \in Processes, r \in Reminders : Takes(p, r) /\ Takes(q, r) => p = q
PushedOnce ==
    \A r \in Reminders :
        /\ delivered[r] <= 1
        /\ reminder[r] = None => delivered[r] = 0
        /\ reminder[r] # None =>
            /\ reminder[r].status \in {"pending", "cancelled"} => delivered[r] = 0
            /\ reminder[r].status = "sent" => delivered[r] = 1
            /\ reminder[r].status = "claimed" => r \in stranded \/ \E p \in Processes : Takes(p, r)

CareerTyped ==
    /\ now \in Timer!Days
    /\ reminder \in [Reminders -> [at : Timer!Days, status : Timer!Statuses] \cup {None}]
    /\ claim \in [Processes -> Timer!Claim \cup {None}]
    /\ delivered \in [Reminders -> Nat] /\ stranded \subseteq Reminders
CareerInv == CareerTyped /\ ClaimsHold /\ OneClaim /\ PushedOnce

LEMMA ReminderTyped ==
    ASSUME CareerTyped, NEW r \in Reminders, reminder[r] # None
    PROVE  /\ reminder[r] \in [at : Timer!Days, status : Timer!Statuses]
           /\ reminder[r].status \in Timer!Statuses
BY DEF CareerTyped

LEMMA ClaimTyped ==
    ASSUME CareerTyped, NEW p \in Processes, claim[p] # None
    PROVE  /\ claim[p] \in Timer!Claim /\ claim[p].todo \subseteq Reminders
           /\ claim[p].pushed \in Reminders \cup {None}
BY DEF CareerTyped, Timer!Claim

(* A reminder that no pass holds gets a state in which it was not pushed.     *)
LEMMA ReminderWritten ==
    ASSUME ReminderConstants, CareerInv, NEW r \in Reminders, NEW x \in [at : Timer!Days, status : Timer!Statuses],
           reminder' = [reminder EXCEPT ![r] = x], x.status \in {"pending", "cancelled"},
           reminder[r] = None \/ reminder[r].status = "pending", UNCHANGED <<now, claim, delivered, stranded>>
    PROVE  CareerInv'
<1>1. CareerTyped'
    BY DEF CareerInv, CareerTyped
<1>2. reminder'[r] = x /\ x # None /\ \A s \in Reminders \ {r} : reminder'[s] = reminder[s]
    <2>1. reminder'[r] = x /\ \A s \in Reminders \ {r} : reminder'[s] = reminder[s]
        BY DEF CareerInv, CareerTyped
    <2> QED BY <2>1 DEF ReminderConstants
<1>3. delivered[r] = 0 /\ \A p \in Processes : ~Takes(p, r)
    BY DEF CareerInv, PushedOnce, ClaimsHold
<1>4. \A p \in Processes, s \in Reminders : Takes(p, s)' <=> Takes(p, s)
    BY DEF Takes
<1>5. ClaimsHold'
    <2> SUFFICES ASSUME NEW p \in Processes, NEW s \in Reminders, Takes(p, s)
                 PROVE  /\ reminder'[s] # None /\ reminder'[s].status = "claimed"
                        /\ s \in claim[p].todo => delivered[s] = 0
                        /\ claim[p].pushed = s => delivered[s] = 1
        BY <1>4 DEF ClaimsHold
    <2>1. s # r
        BY <1>3
    <2> QED BY <1>2, <2>1 DEF CareerInv, ClaimsHold
<1>6. OneClaim'
    BY <1>4 DEF CareerInv, OneClaim
<1>7. PushedOnce'
    <2> SUFFICES ASSUME NEW s \in Reminders
                 PROVE  /\ delivered[s] <= 1
                        /\ reminder'[s] = None => delivered[s] = 0
                        /\ reminder'[s] # None =>
                            /\ reminder'[s].status \in {"pending", "cancelled"} => delivered[s] = 0
                            /\ reminder'[s].status = "sent" => delivered[s] = 1
                            /\ reminder'[s].status = "claimed" => s \in stranded \/ \E p \in Processes : Takes(p, s)
        BY <1>4 DEF PushedOnce
    <2> QED BY <1>2, <1>3 DEF CareerInv, PushedOnce
<1> QED BY <1>1, <1>5, <1>6, <1>7 DEF CareerInv

LEMMA ReminderCreated ==
    ASSUME ReminderConstants, CareerInv, NEW r \in Reminders, NEW at \in Timer!Days,
           Timer!CreateMyReminder(r, at) \/ Timer!CancelMyReminder(r)
    PROVE  CareerInv'
<1>1. CASE Timer!CreateMyReminder(r, at)
    <2> DEFINE x == [at |-> at, status |-> "pending"]
    <2>1. x \in [at : Timer!Days, status : Timer!Statuses] /\ x.status = "pending"
        BY DEF Timer!Statuses
    <2>2. reminder[r] = None /\ reminder' = [reminder EXCEPT ![r] = x] /\ UNCHANGED <<now, claim, delivered, stranded>>
        BY <1>1 DEF Timer!CreateMyReminder, Timer!careerFrame
    <2> HIDE DEF x
    <2> QED BY <2>1, <2>2, ReminderWritten
<1>2. CASE Timer!CancelMyReminder(r)
    <2> DEFINE x == [reminder[r] EXCEPT !.status = "cancelled"]
    <2>1. /\ reminder[r] # None /\ reminder[r].status = "pending" /\ reminder' = [reminder EXCEPT ![r] = x]
          /\ UNCHANGED <<now, claim, delivered, stranded>>
        BY <1>2 DEF Timer!CancelMyReminder, Timer!careerFrame
    <2>2. x \in [at : Timer!Days, status : Timer!Statuses] /\ x.status = "cancelled"
        BY <2>1, ReminderTyped DEF CareerInv, Timer!Statuses
    <2> HIDE DEF x
    <2> QED BY <2>1, <2>2, ReminderWritten
<1> QED BY <1>1, <1>2

(* A pass claims pending reminders only, so no other pass holds one of them.  *)
LEMMA RemindersClaimed ==
    ASSUME ReminderConstants, CareerInv, NEW p \in Processes, Timer!ClaimDueReminders(p)
    PROVE  CareerInv'
<1>1. PICK batch \in SUBSET Timer!DueReminders :
        /\ reminder' = [r \in Reminders |-> IF r \in batch THEN [reminder[r] EXCEPT !.status = "claimed"] ELSE reminder[r]]
        /\ claim' = [claim EXCEPT ![p] = [todo |-> batch, pushed |-> None]]
    BY DEF Timer!ClaimDueReminders
<1>2. claim[p] = None /\ UNCHANGED <<now, delivered, stranded>>
    BY DEF Timer!ClaimDueReminders, Timer!careerFrame
<1> DEFINE c == [todo |-> batch, pushed |-> None]
<1>3. batch \subseteq Reminders /\ \A r \in batch : reminder[r] # None /\ reminder[r].status = "pending"
    BY DEF Timer!DueReminders, Timer!Claimable
<1>4. c \in Timer!Claim /\ c.todo = batch /\ c.pushed = None
    BY <1>3 DEF Timer!Claim
<1>5. c # None /\ None \notin Reminders
    BY <1>4 DEF ReminderConstants
<1>6. claim' = [claim EXCEPT ![p] = c]
    BY <1>1
<1> HIDE DEF c
<1>7. claim'[p] = c /\ \A q \in Processes \ {p} : claim'[q] = claim[q]
    BY <1>6 DEF CareerInv, CareerTyped
<1>8. \A r \in Reminders \ batch : reminder'[r] = reminder[r]
    BY <1>1
<1>9. \A r \in batch : /\ reminder'[r] \in [at : Timer!Days, status : Timer!Statuses]
                       /\ reminder'[r].status = "claimed"
    <2> SUFFICES ASSUME NEW r \in batch
                 PROVE  /\ reminder'[r] \in [at : Timer!Days, status : Timer!Statuses]
                        /\ reminder'[r].status = "claimed"
        OBVIOUS
    <2>1. reminder'[r] = [reminder[r] EXCEPT !.status = "claimed"]
        BY <1>1, <1>3
    <2>2. reminder[r] \in [at : Timer!Days, status : Timer!Statuses]
        BY <1>3, ReminderTyped DEF CareerInv
    <2> QED BY <2>1, <2>2 DEF Timer!Statuses
<1>10. \A r \in batch : reminder'[r] # None
    BY <1>9 DEF ReminderConstants
<1>11. CareerTyped'
    <2>1. reminder' \in [Reminders -> [at : Timer!Days, status : Timer!Statuses] \cup {None}]
        <3>1. \A r \in Reminders : reminder'[r] \in [at : Timer!Days, status : Timer!Statuses] \cup {None}
            BY <1>8, <1>9 DEF CareerInv, CareerTyped
        <3>2. reminder' = [r \in Reminders |-> reminder'[r]]
            BY <1>1
        <3> QED BY <3>1, <3>2
    <2>2. claim' \in [Processes -> Timer!Claim \cup {None}]
        BY <1>4, <1>6 DEF CareerInv, CareerTyped
    <2> QED BY <1>2, <2>1, <2>2 DEF CareerInv, CareerTyped
<1>12. \A r \in Reminders : /\ Takes(p, r)' <=> r \in batch
                            /\ ~Takes(p, r)
                            /\ \A q \in Processes \ {p} : Takes(q, r)' <=> Takes(q, r)
    BY <1>2, <1>4, <1>5, <1>7 DEF Takes
<1>13. \A r \in batch : delivered[r] = 0 /\ \A q \in Processes : ~Takes(q, r)
    BY <1>3 DEF CareerInv, PushedOnce, ClaimsHold
<1>14. ClaimsHold'
    <2> SUFFICES ASSUME NEW q \in Processes, NEW r \in Reminders, Takes(q, r)'
                 PROVE  /\ reminder'[r] # None /\ reminder'[r].status = "claimed"
                        /\ r \in claim'[q].todo => delivered[r] = 0
                        /\ claim'[q].pushed = r => delivered[r] = 1
        BY <1>2 DEF ClaimsHold
    <2>1. CASE q = p
        BY <1>4, <1>5, <1>7, <1>9, <1>10, <1>12, <1>13, <2>1
    <2>2. CASE q # p
        <3>1. Takes(q, r) /\ r \notin batch
            BY <1>12, <1>13, <2>2
        <3> QED BY <1>7, <1>8, <2>2, <3>1 DEF CareerInv, ClaimsHold
    <2> QED BY <2>1, <2>2
<1>15. OneClaim'
    <2> SUFFICES ASSUME NEW q \in Processes, NEW x \in Processes, NEW r \in Reminders, Takes(q, r)', Takes(x, r)'
                 PROVE  q = x
        BY DEF OneClaim
    <2> QED BY <1>12, <1>13 DEF CareerInv, OneClaim
<1>16. PushedOnce'
    <2> SUFFICES ASSUME NEW r \in Reminders
                 PROVE  /\ delivered[r] <= 1
                        /\ reminder'[r] = None => delivered[r] = 0
                        /\ reminder'[r] # None =>
                            /\ reminder'[r].status \in {"pending", "cancelled"} => delivered[r] = 0
                            /\ reminder'[r].status = "sent" => delivered[r] = 1
                            /\ reminder'[r].status = "claimed" => r \in stranded \/ \E q \in Processes : Takes(q, r)'
        BY <1>2 DEF PushedOnce
    <2>1. CASE r \in batch
        BY <1>9, <1>10, <1>12, <1>13, <2>1
    <2>2. CASE r \notin batch
        <3>1. reminder'[r] = reminder[r] /\ \A q \in Processes : Takes(q, r) => Takes(q, r)'
            BY <1>8, <1>12, <2>2
        <3> QED BY <3>1 DEF CareerInv, PushedOnce
    <2> QED BY <2>1, <2>2
<1> QED BY <1>11, <1>14, <1>15, <1>16 DEF CareerInv

(* A pass that ends, or goes on with what is left: what it lets go is sent,   *)
(* or counts as stranded.                                                     *)
LEMMA ClaimGoesOn ==
    ASSUME ReminderConstants, CareerInv, CareerTyped', NEW p \in Processes, claim[p] # None,
           delivered' = delivered, stranded \subseteq stranded',
           \A q \in Processes \ {p} : claim'[q] = claim[q],
           claim'[p] # None => claim'[p].todo \subseteq claim[p].todo /\ claim'[p].pushed = None,
           \A r \in Reminders : \/ reminder'[r] = reminder[r]
                                \/ /\ claim[p].pushed = r /\ r \notin claim[p].todo
                                   /\ reminder'[r] # None /\ reminder'[r].status = "sent",
           \A r \in Reminders : Takes(p, r) /\ ~Takes(p, r)' => r \in stranded' \/ reminder'[r].status = "sent"
    PROVE  CareerInv'
<1>1. \A r \in Reminders : /\ Takes(p, r)' => Takes(p, r) /\ r \in claim'[p].todo /\ r \in claim[p].todo
                           /\ \A q \in Processes \ {p} : Takes(q, r)' <=> Takes(q, r)
    BY DEF Takes, ReminderConstants
<1>2. \A r \in Reminders, q \in Processes : Takes(q, r)' => Takes(q, r) /\ reminder'[r] = reminder[r]
    <2> SUFFICES ASSUME NEW r \in Reminders, NEW q \in Processes, Takes(q, r)'
                 PROVE  Takes(q, r) /\ reminder'[r] = reminder[r]
        OBVIOUS
    <2>1. Takes(q, r)
        BY <1>1
    <2>2. CASE q = p
        BY <1>1, <2>1, <2>2
    <2>3. CASE q # p
        <3>1. claim[p].pushed # r
            BY <2>1, <2>3 DEF CareerInv, OneClaim, Takes
        <3> QED BY <2>1, <3>1
    <2> QED BY <2>2, <2>3
<1>3. ClaimsHold'
    <2> SUFFICES ASSUME NEW q \in Processes, NEW r \in Reminders, Takes(q, r)'
                 PROVE  /\ reminder'[r] # None /\ reminder'[r].status = "claimed"
                        /\ r \in claim'[q].todo => delivered[r] = 0
                        /\ claim'[q].pushed = r => delivered[r] = 1
        BY DEF ClaimsHold
    <2>1. Takes(q, r) /\ reminder'[r] = reminder[r]
        BY <1>2
    <2>2. CASE q = p
        <3>1. r \in claim[p].todo /\ claim'[p].pushed = None
            BY <1>1, <2>2 DEF Takes
        <3> QED BY <2>1, <2>2, <3>1 DEF CareerInv, ClaimsHold, ReminderConstants
    <2>3. CASE q # p
        BY <2>1, <2>3 DEF CareerInv, ClaimsHold
    <2> QED BY <2>2, <2>3
<1>4. OneClaim'
    BY <1>2 DEF CareerInv, OneClaim
<1>5. PushedOnce'
    <2> SUFFICES ASSUME NEW r \in Reminders
                 PROVE  /\ delivered[r] <= 1
                        /\ reminder'[r] = None => delivered[r] = 0
                        /\ reminder'[r] # None =>
                            /\ reminder'[r].status \in {"pending", "cancelled"} => delivered[r] = 0
                            /\ reminder'[r].status = "sent" => delivered[r] = 1
                            /\ reminder'[r].status = "claimed" => r \in stranded' \/ \E q \in Processes : Takes(q, r)'
        BY DEF PushedOnce
    <2>1. CASE reminder'[r] = reminder[r]
        <3>1. ASSUME NEW q \in Processes, Takes(q, r), reminder[r].status = "claimed"
              PROVE  r \in stranded' \/ \E x \in Processes : Takes(x, r)'
            BY <1>1, <2>1, <3>1
        <3> QED BY <2>1, <3>1 DEF CareerInv, PushedOnce
    <2>2. CASE /\ claim[p].pushed = r /\ r \notin claim[p].todo
               /\ reminder'[r] # None /\ reminder'[r].status = "sent"
        <3>1. delivered[r] = 1
            BY <2>2 DEF CareerInv, ClaimsHold, Takes
        <3> QED BY <2>2, <3>1
    <2> QED BY <2>1, <2>2
<1> QED BY <1>3, <1>4, <1>5 DEF CareerInv

LEMMA ReminderDelivered ==
    ASSUME ReminderConstants, CareerInv, NEW p \in Processes, NEW r \in Reminders, Timer!deliver(p, r)
    PROVE  CareerInv'
<1> DEFINE c == [claim[p] EXCEPT !.todo = @ \ {r}, !.pushed = r]
<1>1. /\ claim[p] # None /\ r \in claim[p].todo /\ claim[p].pushed = None
      /\ claim' = [claim EXCEPT ![p].todo = @ \ {r}, ![p].pushed = r]
      /\ delivered' = [delivered EXCEPT ![r] = @ + 1] /\ UNCHANGED <<now, reminder, stranded>>
    BY DEF Timer!deliver, Timer!careerFrame
<1>2. claim[p] \in Timer!Claim
    BY <1>1, ClaimTyped DEF CareerInv
<1>3. c \in Timer!Claim /\ c.todo = claim[p].todo \ {r} /\ c.pushed = r
    BY <1>2 DEF Timer!Claim
<1>4. c # None
    BY <1>3 DEF ReminderConstants
<1>5. claim'[p] = c /\ claim' \in [Processes -> Timer!Claim \cup {None}] /\ \A q \in Processes \ {p} : claim'[q] = claim[q]
    BY <1>1, <1>3 DEF CareerInv, CareerTyped
<1> HIDE DEF c
<1>6. /\ Takes(p, r) /\ reminder[r] # None /\ reminder[r].status = "claimed" /\ delivered[r] = 0
      /\ \A q \in Processes \ {p} : ~Takes(q, r)
    BY <1>1 DEF Takes, CareerInv, ClaimsHold, OneClaim
<1>7. /\ delivered'[r] = 1 /\ \A s \in Reminders \ {r} : delivered'[s] = delivered[s]
      /\ delivered' \in [Reminders -> Nat]
    BY <1>1, <1>6 DEF CareerInv, CareerTyped
<1>8. \A s \in Reminders, q \in Processes : Takes(q, s)' <=> Takes(q, s)
    <2>1. None \notin Reminders
        BY DEF ReminderConstants
    <2>2. \A s \in Reminders : Takes(p, s)' <=> Takes(p, s)
        BY <1>1, <1>3, <1>4, <1>5, <2>1 DEF Takes
    <2>3. \A s \in Reminders, q \in Processes \ {p} : Takes(q, s)' <=> Takes(q, s)
        BY <1>5 DEF Takes
    <2> QED BY <2>2, <2>3
<1>9. CareerTyped'
    BY <1>1, <1>5, <1>7 DEF CareerInv, CareerTyped
<1>10. ClaimsHold'
    <2> SUFFICES ASSUME NEW q \in Processes, NEW s \in Reminders, Takes(q, s)
                 PROVE  /\ reminder[s] # None /\ reminder[s].status = "claimed"
                        /\ s \in claim'[q].todo => delivered'[s] = 0
                        /\ claim'[q].pushed = s => delivered'[s] = 1
        BY <1>1, <1>8 DEF ClaimsHold
    <2>1. /\ reminder[s] # None /\ reminder[s].status = "claimed"
          /\ s \in claim[q].todo => delivered[s] = 0
          /\ claim[q].pushed = s => delivered[s] = 1
        BY DEF CareerInv, ClaimsHold
    <2>2. CASE q = p
        BY <1>1, <1>3, <1>5, <1>7, <2>1, <2>2
    <2>3. CASE q # p
        <3>1. s # r
            BY <1>6, <2>3
        <3> QED BY <1>5, <1>7, <2>1, <2>3, <3>1
    <2> QED BY <2>2, <2>3
<1>11. OneClaim'
    BY <1>8 DEF CareerInv, OneClaim
<1>12. PushedOnce'
    <2> SUFFICES ASSUME NEW s \in Reminders
                 PROVE  /\ delivered'[s] <= 1
                        /\ reminder[s] = None => delivered'[s] = 0
                        /\ reminder[s] # None =>
                            /\ reminder[s].status \in {"pending", "cancelled"} => delivered'[s] = 0
                            /\ reminder[s].status = "sent" => delivered'[s] = 1
                            /\ reminder[s].status = "claimed" => s \in stranded \/ \E q \in Processes : Takes(q, s)
        BY <1>1, <1>8 DEF PushedOnce
    <2>1. CASE s = r
        BY <1>6, <1>7, <2>1
    <2>2. CASE s # r
        BY <1>7, <2>2 DEF CareerInv, PushedOnce
    <2> QED BY <2>1, <2>2
<1> QED BY <1>9, <1>10, <1>11, <1>12 DEF CareerInv

LEMMA DeliveryFailed ==
    ASSUME ReminderConstants, CareerInv, NEW p \in Processes, NEW r \in Reminders, Timer!deliverFails(p, r)
    PROVE  CareerInv'
<1> DEFINE c == IF claim[p].todo = {r} THEN None ELSE [claim[p] EXCEPT !.todo = @ \ {r}]
<1>1. /\ claim[p] # None /\ r \in claim[p].todo /\ claim[p].pushed = None
      /\ claim' = [claim EXCEPT ![p] = c]
      /\ stranded' = stranded \cup {r} /\ UNCHANGED <<now, reminder, delivered>>
    BY DEF Timer!deliverFails, Timer!careerFrame
<1>2. claim[p] \in Timer!Claim
    BY <1>1, ClaimTyped DEF CareerInv
<1>3. claim' = [claim EXCEPT ![p] = c]
    BY <1>1
<1>4. /\ c \in Timer!Claim \cup {None}
      /\ c # None => c.todo = claim[p].todo \ {r} /\ c.pushed = None
      /\ c = None => claim[p].todo = {r}
    <2>1. CASE claim[p].todo = {r}
        BY <2>1
    <2>2. CASE claim[p].todo # {r}
        <3>1. c \in Timer!Claim /\ c.todo = claim[p].todo \ {r} /\ c.pushed = None
            BY <1>1, <1>2, <2>2 DEF Timer!Claim
        <3> QED BY <3>1 DEF ReminderConstants
    <2> QED BY <2>1, <2>2
<1> HIDE DEF c
<1>5. claim'[p] = c /\ \A q \in Processes \ {p} : claim'[q] = claim[q]
    BY <1>3 DEF CareerInv, CareerTyped
<1>6. CareerTyped'
    <2>1. claim' \in [Processes -> Timer!Claim \cup {None}]
        BY <1>3, <1>4 DEF CareerInv, CareerTyped
    <2> QED BY <1>1, <2>1 DEF CareerInv, CareerTyped
<1>7. \A s \in Reminders : Takes(p, s) /\ ~Takes(p, s)' => s \in stranded'
    BY <1>1, <1>4, <1>5 DEF Takes, ReminderConstants
<1>8. /\ claim'[p] # None => claim'[p].todo \subseteq claim[p].todo /\ claim'[p].pushed = None
      /\ \A s \in Reminders : reminder'[s] = reminder[s]
      /\ delivered' = delivered /\ stranded \subseteq stranded'
    BY <1>1, <1>4, <1>5
<1> QED BY <1>1, <1>5, <1>6, <1>7, <1>8, ClaimGoesOn

LEMMA ReminderMarked ==
    ASSUME ReminderConstants, CareerInv, NEW p \in Processes, NEW failed \in BOOLEAN, Timer!MarkReminderSent(p, failed)
    PROVE  CareerInv'
<1> DEFINE r == claim[p].pushed
           x == [reminder[r] EXCEPT !.status = "sent"]
           c == Timer!Left(p)
<1>1. /\ claim[p] # None /\ r # None
      /\ reminder' = IF failed THEN reminder ELSE [reminder EXCEPT ![r].status = "sent"]
      /\ stranded' = IF failed THEN stranded \cup {r} ELSE stranded
      /\ claim' = [claim EXCEPT ![p] = c] /\ UNCHANGED <<now, delivered>>
    BY DEF Timer!MarkReminderSent, Timer!careerFrame
<1>2. claim[p] \in Timer!Claim /\ r \in Reminders
    BY <1>1, ClaimTyped DEF CareerInv
<1>3. reminder[r] # None /\ delivered[r] = 1 /\ r \notin claim[p].todo
    BY <1>1, <1>2 DEF Takes, CareerInv, ClaimsHold
<1>4. x \in [at : Timer!Days, status : Timer!Statuses] /\ x.status = "sent"
    BY <1>2, <1>3, ReminderTyped DEF CareerInv, Timer!Statuses
<1>5. x # None
    BY <1>4 DEF ReminderConstants
<1>6. /\ c \in Timer!Claim \cup {None}
      /\ c # None => c.todo = claim[p].todo /\ c.pushed = None
      /\ c = None => claim[p].todo = {}
    <2>1. CASE claim[p].todo = {}
        BY <2>1 DEF Timer!Left
    <2>2. CASE claim[p].todo # {}
        <3>1. c \in Timer!Claim /\ c.todo = claim[p].todo /\ c.pushed = None
            BY <1>2, <2>2 DEF Timer!Left, Timer!Claim
        <3> QED BY <3>1, <2>2 DEF ReminderConstants
    <2> QED BY <2>1, <2>2
<1>7. reminder' = IF failed THEN reminder ELSE [reminder EXCEPT ![r] = x]
    BY <1>1
<1> HIDE DEF c, x, r
<1>8. claim'[p] = c /\ \A q \in Processes \ {p} : claim'[q] = claim[q]
    BY <1>1 DEF CareerInv, CareerTyped
<1>9. CareerTyped'
    <2>1. claim' \in [Processes -> Timer!Claim \cup {None}]
        BY <1>1, <1>6 DEF CareerInv, CareerTyped
    <2>2. reminder' \in [Reminders -> [at : Timer!Days, status : Timer!Statuses] \cup {None}]
        BY <1>4, <1>7 DEF CareerInv, CareerTyped
    <2>3. stranded' \subseteq Reminders
        BY <1>1, <1>2 DEF CareerInv, CareerTyped
    <2> QED BY <1>1, <2>1, <2>2, <2>3 DEF CareerInv, CareerTyped
<1>10. /\ \A s \in Reminders \ {r} : reminder'[s] = reminder[s]
       /\ failed => reminder'[r] = reminder[r]
       /\ ~failed => reminder'[r] = x
    BY <1>2, <1>7 DEF CareerInv, CareerTyped
<1>11. \A s \in Reminders : \/ reminder'[s] = reminder[s]
                            \/ /\ claim[p].pushed = s /\ s \notin claim[p].todo
                               /\ reminder'[s] # None /\ reminder'[s].status = "sent"
    BY <1>3, <1>4, <1>5, <1>10 DEF r
<1>12. \A s \in Reminders : Takes(p, s) /\ ~Takes(p, s)' => s = r
    BY <1>1, <1>6, <1>8 DEF Takes, r
<1>13. r \in stranded' \/ reminder'[r].status = "sent"
    BY <1>1, <1>4, <1>10
<1>14. /\ claim'[p] # None => claim'[p].todo \subseteq claim[p].todo /\ claim'[p].pushed = None
       /\ stranded \subseteq stranded' /\ delivered' = delivered
    BY <1>1, <1>6, <1>8
<1> QED BY <1>1, <1>8, <1>9, <1>11, <1>12, <1>13, <1>14, ClaimGoesOn

LEMMA ClaimLost ==
    ASSUME ReminderConstants, CareerInv, NEW p \in Processes, Timer!Crash(p)
    PROVE  CareerInv'
<1>1. /\ stranded' = stranded \cup (IF claim[p] = None THEN {} ELSE claim[p].todo \cup ({claim[p].pushed} \ {None}))
      /\ claim' = [claim EXCEPT ![p] = None] /\ UNCHANGED <<now, reminder, delivered>>
    BY DEF Timer!Crash
<1>2. CASE claim[p] = None
    <2>1. claim' = claim /\ stranded' = stranded
        BY <1>1, <1>2 DEF CareerInv, CareerTyped
    <2> QED BY <1>1, <2>1 DEF CareerInv, CareerTyped, ClaimsHold, OneClaim, PushedOnce, Takes
<1>3. CASE claim[p] # None
    <2>1. claim[p].todo \subseteq Reminders /\ claim[p].pushed \in Reminders \cup {None}
        BY <1>3, ClaimTyped DEF CareerInv
    <2>2. CareerTyped' /\ stranded \subseteq stranded'
        BY <1>1, <1>3, <2>1 DEF CareerInv, CareerTyped
    <2>3. claim'[p] = None /\ \A q \in Processes \ {p} : claim'[q] = claim[q]
        BY <1>1 DEF CareerInv, CareerTyped
    <2>4. \A r \in Reminders : Takes(p, r) => r \in stranded'
        BY <1>1, <1>3 DEF Takes, ReminderConstants
    <2>5. \A r \in Reminders : reminder'[r] = reminder[r]
        BY <1>1
    <2> QED BY <1>1, <1>3, <2>2, <2>3, <2>4, <2>5, ClaimGoesOn
<1> QED BY <1>2, <1>3

LEMMA RemindersKept ==
    ASSUME ReminderConstants, ExamInv, CareerInv, [Timer!ReminderNext]_Timer!reminderVars
    PROVE  ExamInv' /\ CareerInv'
<1>1. ASSUME UNCHANGED <<exam, announce, sweep, edit, reminded, tried, slipped, moved>>
      PROVE  ExamInv'
    BY <1>1 DEF ExamInv, ExamTyped, PassesHold, PushesWereTried, OnePass, RemindedOnce, MarksWereTried,
        EditsKeepMarks, Unreminded, Pushes, Timer!Holds
<1>2. ASSUME now' \in Timer!Days, UNCHANGED <<reminder, claim, delivered, stranded>>
      PROVE  CareerInv'
    BY <1>2 DEF CareerInv, CareerTyped, ClaimsHold, OneClaim, PushedOnce, Takes
<1>3. now \in Timer!Days
    BY DEF CareerInv, CareerTyped
<1>4. CASE UNCHANGED Timer!reminderVars
    BY <1>1, <1>2, <1>3, <1>4 DEF Timer!reminderVars
<1>5. CASE Timer!NextDay
    <2>1. now' \in Timer!Days
        BY <1>3, <1>5 DEF Timer!NextDay, Timer!Days, ReminderConstants
    <2> QED BY <1>1, <1>2, <1>5, <2>1 DEF Timer!NextDay
<1>6. CASE Timer!ExamStep
    <2>1. ASSUME NEW e \in Exams, Timer!notifyNewExam(e)
          PROVE  ExamInv' /\ Timer!examFrame
        <3>1. announce' = announce \ {e} /\ Timer!examFrame
              /\ UNCHANGED <<exam, sweep, edit, reminded, tried, slipped, moved>>
            BY <2>1 DEF Timer!notifyNewExam
        <3> QED BY <3>1 DEF ExamInv, ExamTyped, PassesHold, PushesWereTried, OnePass, RemindedOnce, MarksWereTried,
                EditsKeepMarks, Unreminded, Pushes, Timer!Holds
    <2>2. ASSUME NEW e \in Exams, Timer!DeleteExam(e)
          PROVE  ExamInv' /\ Timer!examFrame
        BY <2>2, ExamDeleted DEF Timer!DeleteExam
    <2>3. ASSUME NEW e \in Exams, NEW d \in Timer!Days, Timer!CreateExam(e, d)
          PROVE  ExamInv' /\ Timer!examFrame
        BY <2>3, ExamCreated DEF Timer!CreateExam
    <2>4. ASSUME NEW w \in Requests, NEW e \in Exams, Timer!ReadExam(w, e)
          PROVE  ExamInv' /\ Timer!examFrame
        BY <2>4, ExamRead DEF Timer!ReadExam
    <2>5. ASSUME NEW w \in Requests, NEW d \in Timer!Days, Timer!UpdateExam(w, d)
          PROVE  ExamInv' /\ Timer!examFrame
        BY <2>5, ExamUpdated DEF Timer!UpdateExam
    <2>6. ExamInv' /\ Timer!examFrame
        BY <1>6, <2>1, <2>2, <2>3, <2>4, <2>5 DEF Timer!ExamStep
    <2> QED BY <1>2, <1>3, <2>6 DEF Timer!examFrame
<1>7. CASE Timer!SweepStep
    <2>1. PICK p \in Processes :
            \/ Timer!tickExams(p)
            \/ \E e \in Exams, sent \in BOOLEAN : Timer!remind(p, e, sent)
            \/ \E failed \in BOOLEAN : Timer!markReminded(p, failed)
        BY <1>7 DEF Timer!SweepStep
    <2>2. ExamInv'
        BY <1>3, <2>1, PassStarted, ExamReminded, ExamMarked
    <2>3. Timer!examFrame
        BY <2>1 DEF Timer!tickExams, Timer!remind, Timer!markReminded
    <2> QED BY <1>2, <1>3, <2>2, <2>3 DEF Timer!examFrame
<1>8. CASE Timer!CareerStep
    <2>1. CareerInv'
        <3>1. 0 \in Timer!Days
            BY DEF Timer!Days, ReminderConstants
        <3> QED BY <1>8, <3>1, ReminderCreated, RemindersClaimed, ReminderDelivered, DeliveryFailed, ReminderMarked
                DEF Timer!CareerStep
    <2>2. Timer!careerFrame
        BY <1>8 DEF Timer!CareerStep, Timer!CreateMyReminder, Timer!CancelMyReminder, Timer!ClaimDueReminders,
            Timer!deliver, Timer!deliverFails, Timer!MarkReminderSent
    <2> QED BY <1>1, <2>1, <2>2 DEF Timer!careerFrame
<1>9. CASE \E p \in Processes : Timer!Crash(p)
    BY <1>9, PassLost, ClaimLost
<1> QED BY <1>4, <1>5, <1>6, <1>7, <1>8, <1>9 DEF Timer!ReminderNext

LEMMA RemindersInitially ==
    ASSUME ReminderConstants, Timer!ReminderInit
    PROVE  ExamInv /\ CareerInv
<1> USE DEF Timer!ReminderInit
<1>1. ExamTyped /\ CareerTyped
    BY DEF ExamTyped, CareerTyped, Timer!Days, ReminderConstants
<1>2. \A p \in Processes : sweep[p] = None /\ claim[p] = None
    OBVIOUS
<1>3. PassesHold /\ PushesWereTried /\ OnePass /\ MarksWereTried /\ EditsKeepMarks
    BY <1>2 DEF PassesHold, PushesWereTried, OnePass, MarksWereTried, EditsKeepMarks, Timer!Holds, Pushes
<1>4. RemindedOnce
    BY DEF RemindedOnce, Unreminded
<1>5. ClaimsHold /\ OneClaim /\ PushedOnce
    BY <1>2 DEF ClaimsHold, OneClaim, PushedOnce, Takes
<1> QED BY <1>1, <1>3, <1>4, <1>5 DEF ExamInv, CareerInv

LEMMA RemindersImply ==
    ASSUME ReminderConstants, ExamInv, CareerInv
    PROVE  Timer!ReminderTypeOK /\ Timer!RemindersAgree
<1>1. Timer!ReminderTypeOK
    BY DEF ExamInv, ExamTyped, CareerInv, CareerTyped, Timer!ReminderTypeOK
<1>2. Timer!ExamsAgree
    BY ExamRowTyped DEF ExamInv, RemindedOnce, MarksWereTried, Timer!ExamsAgree
<1>3. Timer!CareerAgrees
    <2>1. \A p \in Processes, r \in Reminders : Takes(p, r) =>
            claim[p] # None /\ r \in claim[p].todo \cup {claim[p].pushed}
        BY DEF Takes
    <2> QED BY <2>1 DEF CareerInv, PushedOnce, Timer!CareerAgrees
<1> QED BY <1>1, <1>2, <1>3 DEF Timer!RemindersAgree

(* RemindersAgree: however many processes sweep, push, fail and stop, and     *)
(* however admins edit meanwhile, an exam is announced for a day at most once *)
(* and its mark means that it was tried, unless it slipped or moved; and a    *)
(* reminder of an application is pushed at most once, never once cancelled,   *)
(* and stays claimed only under a pass or stranded by one                     *)
(* (exam_reminder_scheduler.go, career_reminder_scheduler.go).                *)
THEOREM RemindersStayTrue ==
    ASSUME ReminderConstants
    PROVE  Timer!ReminderSpec => [](Timer!ReminderTypeOK /\ Timer!RemindersAgree)
<1>1. Timer!ReminderInit => ExamInv /\ CareerInv
    BY RemindersInitially
<1>2. ExamInv /\ CareerInv /\ [Timer!ReminderNext]_Timer!reminderVars => ExamInv' /\ CareerInv'
    BY RemindersKept
<1>3. ExamInv /\ CareerInv => Timer!ReminderTypeOK /\ Timer!RemindersAgree
    BY RemindersImply
<1> QED BY <1>1, <1>2, <1>3, PTL DEF Timer!ReminderSpec

-----------------------------------------------------------------------------
(* The schedule of a batch *)

ScheduleConstants ==
    None \notin Week!Status /\ None \notin Week!Notice /\ None \notin Week!Job

\* A row, once written, is only deleted softly; and a request that found an
\* override found a live one, whatever became of it meanwhile.
JobsMetRows ==
    \A w \in Requests : job[w] # None =>
        /\ job[w].op = "set" => job[w].found = None \/ (job[w].found.deleted = FALSE /\ status[job[w].date] # None)
        /\ job[w].op = "revert" => status[job[w].date] # None
        /\ job[w].op \in {"edit", "drop"} => notice[job[w].notice] # None
ScheduleInv == Week!ScheduleTypeOK /\ JobsMetRows /\ Week!ScheduleAgrees

LEMMA ScheduleJobTyped ==
    ASSUME Week!ScheduleTypeOK, NEW w \in Requests, job[w] # None
    PROVE  /\ job[w].op \in {"set", "revert", "edit", "drop"}
           /\ job[w].op = "set" =>
                job[w].date \in Dates /\ job[w].to \in Week!Overrides /\ job[w].found \in Week!Status \cup {None}
           /\ job[w].op = "revert" => job[w].date \in Dates
           /\ job[w].op \in {"edit", "drop"} => job[w].notice \in Notices /\ job[w].row \in Week!Notice
<1>1. job[w] \in Week!Job
    BY DEF Week!ScheduleTypeOK
<1> QED BY <1>1 DEF Week!Job

LEMMA StatusTyped ==
    ASSUME Week!ScheduleTypeOK, NEW d \in Dates, status[d] # None
    PROVE  status[d] \in Week!Status /\ status[d].is \in Week!Overrides /\ status[d].deleted \in BOOLEAN
BY DEF Week!ScheduleTypeOK, Week!Status

(* A request starts: what it found is there.                                  *)
LEMMA ScheduleOpened ==
    ASSUME ScheduleConstants, ScheduleInv, NEW w \in Requests, NEW j \in Week!Job, Week!Open(w, j),
           j.op = "set" => j.found = None \/ (j.found.deleted = FALSE /\ status[j.date] # None),
           j.op = "revert" => status[j.date] # None,
           j.op \in {"edit", "drop"} => notice[j.notice] # None,
           UNCHANGED <<moderates, slot, status, notice, answered, refused, expired, revived>>
    PROVE  ScheduleInv'
<1>1. Week!ScheduleTypeOK'
    BY DEF ScheduleInv, Week!ScheduleTypeOK, Week!Open
<1>2. job'[w] = j /\ \A v \in Requests \ {w} : job'[v] = job[v]
    BY DEF ScheduleInv, Week!ScheduleTypeOK, Week!Open
<1>3. JobsMetRows'
    <2> SUFFICES ASSUME NEW v \in Requests, job'[v] # None
                 PROVE  /\ job'[v].op = "set" =>
                            job'[v].found = None \/ (job'[v].found.deleted = FALSE /\ status[job'[v].date] # None)
                        /\ job'[v].op = "revert" => status[job'[v].date] # None
                        /\ job'[v].op \in {"edit", "drop"} => notice[job'[v].notice] # None
        BY DEF JobsMetRows
    <2> QED BY <1>2 DEF ScheduleInv, JobsMetRows
<1>4. Week!ScheduleAgrees'
    BY DEF ScheduleInv, Week!ScheduleAgrees, Week!ListStatus, Week!LiveStatus
<1> QED BY <1>1, <1>3, <1>4 DEF ScheduleInv

(* A request ends, or none is at work; rows stay.                             *)
LEMMA ScheduleClosed ==
    ASSUME ScheduleConstants, ScheduleInv, Week!ScheduleTypeOK',
           \A v \in Requests : job'[v] \in {job[v], None},
           \A d \in Dates : status[d] # None => status'[d] # None,
           \A n \in Notices : notice[n] # None => notice'[n] # None
    PROVE  JobsMetRows'
<1> SUFFICES ASSUME NEW v \in Requests, job'[v] # None
             PROVE  /\ job'[v].op = "set" =>
                        job'[v].found = None \/ (job'[v].found.deleted = FALSE /\ status'[job'[v].date] # None)
                    /\ job'[v].op = "revert" => status'[job'[v].date] # None
                    /\ job'[v].op \in {"edit", "drop"} => notice'[job'[v].notice] # None
    BY DEF JobsMetRows
<1>1. job'[v] = job[v]
    OBVIOUS
<1>2. /\ job[v].op = "set" => job[v].found = None \/ (job[v].found.deleted = FALSE /\ status[job[v].date] # None)
      /\ job[v].op = "revert" => status[job[v].date] # None
      /\ job[v].op \in {"edit", "drop"} => notice[job[v].notice] # None
    BY <1>1 DEF ScheduleInv, JobsMetRows
<1>3. /\ job[v].op \in {"set", "revert"} => job[v].date \in Dates
      /\ job[v].op \in {"edit", "drop"} => job[v].notice \in Notices
    BY <1>1, ScheduleJobTyped DEF ScheduleInv
<1> QED BY <1>1, <1>2, <1>3

LEMMA BatchNoticesKept ==
    ASSUME ScheduleConstants, ScheduleInv, Week!NoticeStep
    PROVE  ScheduleInv'
<1>1. CASE \E n \in Notices, c \in Week!Callers, w \in Requests, op \in {"edit", "drop"} : Week!Load(w, n, c, op)
    <2>1. PICK n \in Notices, c \in Week!Callers, w \in Requests, op \in {"edit", "drop"} : Week!Load(w, n, c, op)
        BY <1>1
    <2> DEFINE j == [op |-> op, notice |-> n, row |-> notice[n]]
    <2>2. /\ notice[n] # None /\ Week!Open(w, j)
          /\ UNCHANGED <<moderates, slot, status, notice, answered, refused, expired, revived>>
        BY <2>1 DEF Week!Load, Week!LiveNotice, Week!noticeFrame
    <2>3. notice[n] \in Week!Notice
        BY <2>2 DEF ScheduleInv, Week!ScheduleTypeOK
    <2>4. j \in Week!Job /\ j.op \in {"edit", "drop"} /\ j.notice = n
        BY <2>3 DEF Week!Job
    <2> HIDE DEF j
    <2> QED BY <2>2, <2>4, ScheduleOpened
<1>2. CASE \/ \E n \in Notices : Week!Expire(n)
           \/ \E n \in Notices, c \in Week!Callers, wide \in BOOLEAN : Week!CreateNotice(n, c, wide)
           \/ \E w \in Requests : Week!UpdateNotice(w) \/ Week!DeleteNotice(w)
    <2>1. UNCHANGED <<moderates, slot, status, answered, refused>>
        BY <1>2 DEF Week!Expire, Week!CreateNotice, Week!UpdateNotice, Week!DeleteNotice, Week!noticeFrame
    <2>2. /\ job' \in [Requests -> Week!Job \cup {None}] /\ \A v \in Requests : job'[v] \in {job[v], None}
          /\ expired' \subseteq Notices
        BY <1>2 DEF Week!Expire, Week!CreateNotice, Week!UpdateNotice, Week!DeleteNotice, Week!Close, Week!ListNotices,
            ScheduleInv, Week!ScheduleTypeOK
    <2>3. /\ notice' \in [Notices -> Week!Notice \cup {None}] /\ revived' \subseteq Notices
          /\ \A n \in Notices : notice[n] # None => notice'[n] # None
        <3>1. ASSUME NEW n \in Notices, NEW x \in Week!Notice, notice' = [notice EXCEPT ![n] = x]
              PROVE  /\ notice' \in [Notices -> Week!Notice \cup {None}]
                     /\ \A m \in Notices : notice[m] # None => notice'[m] # None
            BY <3>1 DEF ScheduleInv, Week!ScheduleTypeOK, ScheduleConstants
        <3>2. ASSUME NEW n \in Notices, Week!Expire(n)
              PROVE  notice' = notice /\ revived' = revived
            BY <3>2 DEF Week!Expire
        <3>3. ASSUME NEW n \in Notices, NEW c \in Week!Callers, NEW wide \in BOOLEAN, Week!CreateNotice(n, c, wide)
              PROVE  /\ notice' \in [Notices -> Week!Notice \cup {None}] /\ revived' = revived
                     /\ \A m \in Notices : notice[m] # None => notice'[m] # None
            <4> DEFINE x == [wide |-> wide, text |-> "first", deleted |-> FALSE]
            <4>1. x \in Week!Notice
                BY DEF Week!Notice
            <4>2. notice' = [notice EXCEPT ![n] = x] /\ revived' = revived
                BY <3>3 DEF Week!CreateNotice
            <4> HIDE DEF x
            <4> QED BY <3>1, <4>1, <4>2
        <3>4. ASSUME NEW w \in Requests, Week!UpdateNotice(w)
              PROVE  /\ notice' \in [Notices -> Week!Notice \cup {None}] /\ revived' \subseteq Notices
                     /\ \A m \in Notices : notice[m] # None => notice'[m] # None
            <4> DEFINE x == [job[w].row EXCEPT !.text = "edited"]
            <4>1. job[w] # None /\ job[w].op = "edit" /\ notice' = [notice EXCEPT ![job[w].notice] = x]
                  /\ revived' \subseteq revived \cup {job[w].notice}
                BY <3>4 DEF Week!UpdateNotice, Week!Doing
            <4>2. job[w].notice \in Notices /\ job[w].row \in Week!Notice
                BY <4>1, ScheduleJobTyped DEF ScheduleInv
            <4>3. x \in Week!Notice
                BY <4>2 DEF Week!Notice
            <4> HIDE DEF x
            <4> QED BY <3>1, <4>1, <4>2, <4>3 DEF ScheduleInv, Week!ScheduleTypeOK
        <3>5. ASSUME NEW w \in Requests, Week!DeleteNotice(w)
              PROVE  /\ notice' \in [Notices -> Week!Notice \cup {None}] /\ revived' = revived
                     /\ \A m \in Notices : notice[m] # None => notice'[m] # None
            <4> DEFINE n == job[w].notice
                       x == [notice[n] EXCEPT !.deleted = TRUE]
            <4>1. job[w] # None /\ job[w].op = "drop" /\ notice' = [notice EXCEPT ![n] = x] /\ revived' = revived
                BY <3>5 DEF Week!DeleteNotice, Week!Doing
            <4>2. n \in Notices /\ notice[n] # None
                BY <4>1, ScheduleJobTyped DEF ScheduleInv, JobsMetRows
            <4>3. notice[n] \in Week!Notice
                BY <4>2 DEF ScheduleInv, Week!ScheduleTypeOK
            <4>4. x \in Week!Notice
                BY <4>3 DEF Week!Notice
            <4> HIDE DEF x, n
            <4> QED BY <3>1, <4>1, <4>2, <4>4
        <3> QED BY <1>2, <3>2, <3>3, <3>4, <3>5 DEF ScheduleInv, Week!ScheduleTypeOK
    <2>4. Week!ScheduleTypeOK'
        BY <2>1, <2>2, <2>3 DEF ScheduleInv, Week!ScheduleTypeOK
    <2>5. Week!ScheduleAgrees'
        BY <2>1 DEF ScheduleInv, Week!ScheduleAgrees, Week!ListStatus, Week!LiveStatus
    <2> QED BY <2>1, <2>2, <2>3, <2>4, <2>5, ScheduleClosed DEF ScheduleInv
<1> QED BY <1>1, <1>2 DEF Week!NoticeStep

LEMMA OverrideWritten ==
    ASSUME ScheduleConstants, ScheduleInv, NEW d \in Dates, NEW x \in Week!Status, NEW a,
           status' = [status EXCEPT ![d] = x], answered' = [answered EXCEPT ![d] = a],
           a = IF x.deleted THEN "held" ELSE x.is
    PROVE  /\ status' \in [Dates -> Week!Status \cup {None}] /\ answered' \in [Dates -> Week!Overrides \cup {"held"}]
           /\ \A e \in Dates : status[e] # None => status'[e] # None
           /\ Week!ScheduleAgrees'
<1>1. x.is \in Week!Overrides /\ x.deleted \in BOOLEAN
    BY DEF Week!Status
<1>2. x # None
    BY DEF ScheduleConstants
<1>3. /\ status' \in [Dates -> Week!Status \cup {None}] /\ answered' \in [Dates -> Week!Overrides \cup {"held"}]
      /\ status'[d] = x /\ answered'[d] = a
      /\ \A e \in Dates \ {d} : status'[e] = status[e] /\ answered'[e] = answered[e]
    BY <1>1 DEF ScheduleInv, Week!ScheduleTypeOK
<1>4. Week!ScheduleAgrees'
    <2> SUFFICES ASSUME NEW e \in Dates
                 PROVE  (IF status'[e] # None /\ ~status'[e].deleted THEN status'[e].is ELSE "held") = answered'[e]
        BY DEF Week!ScheduleAgrees, Week!ListStatus, Week!LiveStatus
    <2>1. (IF status[e] # None /\ ~status[e].deleted THEN status[e].is ELSE "held") = answered[e]
        BY DEF ScheduleInv, Week!ScheduleAgrees, Week!ListStatus, Week!LiveStatus
    <2> QED BY <1>2, <1>3, <2>1
<1> QED BY <1>2, <1>3, <1>4

LEMMA OverridesKept ==
    ASSUME ScheduleConstants, ScheduleInv, Week!StatusStep
    PROVE  ScheduleInv'
<1>1. ASSUME NEW w \in Requests, Week!Close(w)
      PROVE  job' \in [Requests -> Week!Job \cup {None}] /\ \A v \in Requests : job'[v] \in {job[v], None}
    BY <1>1 DEF Week!Close, ScheduleInv, Week!ScheduleTypeOK
<1>2. ASSUME NEW w \in Requests, Week!SaveStatus(w)
      PROVE  ScheduleInv'
    <2> DEFINE d == job[w].date
               x == [job[w].found EXCEPT !.is = job[w].to]
    <2>1. /\ job[w] # None /\ job[w].op = "set" /\ job[w].found # None
          /\ status' = [status EXCEPT ![d] = x] /\ answered' = [answered EXCEPT ![d] = job[w].to]
          /\ Week!Close(w) /\ UNCHANGED <<slot, refused, moderates, notice, expired, revived>>
        BY <1>2 DEF Week!SaveStatus, Week!Doing, Week!slotFrame
    <2>2. d \in Dates /\ job[w].to \in Week!Overrides /\ job[w].found \in Week!Status /\ job[w].found.deleted = FALSE
        BY <2>1, ScheduleJobTyped DEF ScheduleInv, JobsMetRows
    <2>3. x \in Week!Status /\ x.is = job[w].to /\ x.deleted = FALSE
        BY <2>2 DEF Week!Status
    <2> HIDE DEF x, d
    <2>4. /\ status' \in [Dates -> Week!Status \cup {None}] /\ answered' \in [Dates -> Week!Overrides \cup {"held"}]
          /\ \A e \in Dates : status[e] # None => status'[e] # None
          /\ Week!ScheduleAgrees'
        BY <2>1, <2>2, <2>3, OverrideWritten
    <2>5. Week!ScheduleTypeOK'
        BY <1>1, <2>1, <2>4 DEF ScheduleInv, Week!ScheduleTypeOK
    <2> QED BY <1>1, <2>1, <2>4, <2>5, ScheduleClosed DEF ScheduleInv
<1>3. ASSUME NEW w \in Requests, Week!CreateStatus(w)
      PROVE  ScheduleInv'
    <2> DEFINE d == job[w].date
               x == [is |-> job[w].to, deleted |-> FALSE]
    <2>1. /\ job[w] # None /\ job[w].op = "set" /\ Week!Close(w)
          /\ status' = IF status[d] # None THEN status ELSE [status EXCEPT ![d] = x]
          /\ answered' = IF status[d] # None THEN answered ELSE [answered EXCEPT ![d] = job[w].to]
          /\ refused' \subseteq refused \cup {d}
          /\ UNCHANGED <<slot, moderates, notice, expired, revived>>
        BY <1>3 DEF Week!CreateStatus, Week!Doing, Week!slotFrame
    <2>2. d \in Dates /\ job[w].to \in Week!Overrides
        BY <2>1, ScheduleJobTyped DEF ScheduleInv
    <2>3. x \in Week!Status /\ x.is = job[w].to /\ x.deleted = FALSE
        BY <2>2 DEF Week!Status
    <2> HIDE DEF x, d
    <2>4. /\ status' \in [Dates -> Week!Status \cup {None}] /\ answered' \in [Dates -> Week!Overrides \cup {"held"}]
          /\ \A e \in Dates : status[e] # None => status'[e] # None
          /\ Week!ScheduleAgrees'
        <3>1. CASE status[d] # None
            BY <2>1, <3>1 DEF ScheduleInv, Week!ScheduleTypeOK, Week!ScheduleAgrees, Week!ListStatus, Week!LiveStatus
        <3>2. CASE status[d] = None
            BY <2>1, <2>2, <2>3, <3>2, OverrideWritten
        <3> QED BY <3>1, <3>2
    <2>5. Week!ScheduleTypeOK'
        BY <1>1, <2>1, <2>2, <2>4 DEF ScheduleInv, Week!ScheduleTypeOK
    <2> QED BY <1>1, <2>1, <2>4, <2>5, ScheduleClosed DEF ScheduleInv
<1>4. ASSUME NEW w \in Requests, Week!DeleteStatus(w)
      PROVE  ScheduleInv'
    <2> DEFINE d == job[w].date
               x == [status[d] EXCEPT !.deleted = TRUE]
    <2>1. /\ job[w] # None /\ job[w].op = "revert"
          /\ status' = [status EXCEPT ![d] = x] /\ answered' = [answered EXCEPT ![d] = "held"]
          /\ Week!Close(w) /\ UNCHANGED <<slot, refused, moderates, notice, expired, revived>>
        BY <1>4 DEF Week!DeleteStatus, Week!Doing, Week!slotFrame
    <2>2. d \in Dates /\ status[d] # None
        BY <2>1, ScheduleJobTyped DEF ScheduleInv, JobsMetRows
    <2>3. x \in Week!Status /\ x.deleted = TRUE
        BY <2>2, StatusTyped DEF ScheduleInv, Week!Status
    <2> HIDE DEF x, d
    <2>4. /\ status' \in [Dates -> Week!Status \cup {None}] /\ answered' \in [Dates -> Week!Overrides \cup {"held"}]
          /\ \A e \in Dates : status[e] # None => status'[e] # None
          /\ Week!ScheduleAgrees'
        BY <2>1, <2>2, <2>3, OverrideWritten
    <2>5. Week!ScheduleTypeOK'
        BY <1>1, <2>1, <2>4 DEF ScheduleInv, Week!ScheduleTypeOK
    <2> QED BY <1>1, <2>1, <2>4, <2>5, ScheduleClosed DEF ScheduleInv
<1>5. ASSUME NEW w \in Requests, NEW d \in Dates, NEW c \in Week!Callers, Week!LoadStatus(w, c, d)
      PROVE  ScheduleInv'
    <2> DEFINE j == [op |-> "revert", date |-> d]
    <2>1. /\ status[d] # None /\ Week!Open(w, j)
          /\ UNCHANGED <<moderates, slot, status, notice, answered, refused, expired, revived>>
        BY <1>5 DEF Week!LoadStatus, Week!LiveStatus, Week!slotFrame
    <2>2. j \in Week!Job /\ j.op = "revert" /\ j.date = d
        BY DEF Week!Job
    <2> HIDE DEF j
    <2> QED BY <2>1, <2>2, ScheduleOpened
<1>6. ASSUME NEW w \in Requests, NEW d \in Dates, NEW c \in Week!Callers, NEW s \in Week!Overrides,
             Week!FindStatus(w, c, d, s)
      PROVE  ScheduleInv'
    <2> DEFINE found == Week!Existing(d)
               j == [op |-> "set", date |-> d, to |-> s, found |-> found]
    <2>1. /\ Week!Open(w, j) /\ UNCHANGED <<moderates, slot, status, notice, answered, refused, expired, revived>>
        BY <1>6 DEF Week!FindStatus, Week!slotFrame
    <2>2. found = None \/ (found \in Week!Status /\ found.deleted = FALSE /\ status[d] # None)
        BY StatusTyped DEF Week!Existing, Week!LiveStatus, ScheduleInv
    <2> HIDE DEF found
    <2>3. j \in Week!Job /\ j.op = "set" /\ j.date = d /\ j.found = found
        BY <2>2 DEF Week!Job
    <2> HIDE DEF j
    <2> QED BY <2>1, <2>2, <2>3, ScheduleOpened
<1> QED BY <1>2, <1>3, <1>4, <1>5, <1>6 DEF Week!StatusStep, Week!SetStatus

LEMMA ScheduleKept ==
    ASSUME ScheduleConstants, ScheduleInv, [Week!ScheduleNext]_Week!scheduleVars
    PROVE  ScheduleInv'
<1>1. CASE UNCHANGED Week!scheduleVars
    BY <1>1 DEF Week!scheduleVars, ScheduleInv, Week!ScheduleTypeOK, JobsMetRows, Week!ScheduleAgrees,
        Week!ListStatus, Week!LiveStatus
<1>2. CASE Week!SlotStep
    <2>1. /\ moderates' \in BOOLEAN /\ slot' \in {"none", "live", "deleted"}
          /\ UNCHANGED <<status, notice, job, answered, refused, expired, revived>>
        BY <1>2 DEF Week!SlotStep, Week!CreateSlot, Week!DeleteSlot, Week!RestoreSlot, Week!Appoint, Week!slotFrame,
            ScheduleInv, Week!ScheduleTypeOK
    <2> QED BY <2>1 DEF ScheduleInv, Week!ScheduleTypeOK, JobsMetRows, Week!ScheduleAgrees,
            Week!ListStatus, Week!LiveStatus
<1>3. CASE Week!StatusStep
    BY <1>3, OverridesKept
<1>4. CASE Week!NoticeStep
    BY <1>4, BatchNoticesKept
<1> QED BY <1>1, <1>2, <1>3, <1>4 DEF Week!ScheduleNext

(* ScheduleAgrees: a date shows what the last accepted request made of it, in *)
(* whatever order admins and moderators, each of whom looked before the other *)
(* wrote, set and reverted its override (class_slot_handler.go SetStatus).    *)
THEOREM SchedulesStayTrue ==
    ASSUME ScheduleConstants
    PROVE  Week!ScheduleSpec => [](Week!ScheduleTypeOK /\ Week!ScheduleAgrees)
<1>1. Week!ScheduleInit => ScheduleInv
    BY DEF Week!ScheduleInit, ScheduleInv, Week!ScheduleTypeOK, JobsMetRows, Week!ScheduleAgrees,
        Week!ListStatus, Week!LiveStatus
<1>2. ScheduleInv /\ [Week!ScheduleNext]_Week!scheduleVars => ScheduleInv'
    BY ScheduleKept
<1>3. ScheduleInv => Week!ScheduleTypeOK /\ Week!ScheduleAgrees
    BY DEF ScheduleInv
<1> QED BY <1>1, <1>2, <1>3, PTL DEF Week!ScheduleSpec
=============================================================================
