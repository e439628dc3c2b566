------------------------------- MODULE Devices --------------------------------
(***************************************************************************)
(* The devices of logged-in users and the FCM topics they are subscribed   *)
(* to (device_handler.go, device_topic_service.go,                         *)
(* notification_preference_handler.go), on top of the sessions.            *)
(*                                                                         *)
(* A handler changes rows and starts a goroutine, which reads them again   *)
(* and calls FCM one topic at a time; any call may fail and is only        *)
(* logged.  A row is deleted softly (logout, prune) or for good (remove,   *)
(* unregister); its unique token stays taken in the first case.            *)
(***************************************************************************)
EXTENDS Sessions

CONSTANTS
    Tokens,            \* FCM tokens: one per install of the app
    Nowhere, Profiles, \* what a user is placed in; Nowhere is a NULL id
    Workers            \* goroutines of the topic and notification services

VARIABLES
    device,    \* user_devices, by token
    fcm,       \* what FCM has subscribed a token to
    mute,      \* notification_mutes of the geographic categories
    profile,   \* university, department and batch of a user
    installed, \* tokens FCM still knows
    task,      \* goroutines in progress
    spoiled,   \* history: tokens a failed or overlapping goroutine worked on, or whose row was deleted
    moved,     \* history: users placed elsewhere after they had a device
    present    \* history: who registered a token and has not been logged out of it since

deviceVars == <<device, fcm, mute, profile, installed, task, spoiled, moved, present>>
topicVars == <<fcm, mute, profile, installed, moved>>

Geographic == {"university", "department", "batch"}
AllTopic == <<"all">>
Topics == {AllTopic} \cup UNION {{<<c, p[c]>> : c \in Geographic} : p \in Profiles}
NoDevice == [state |-> "none"]
Live(t) == device[t].state = "live"
Owned(u) == {t \in Tokens : Live(t) /\ device[t].owner = u}
LoggedIn(u) == \E t \in access : t.user = u /\ Authenticate(t)

DevicesTypeOK ==
    /\ \A t \in Tokens :
        /\ device[t] = NoDevice \/ device[t] \in [state : {"live", "deleted"}, owner : Users, recorded : SUBSET Topics]
        /\ fcm[t] \subseteq Topics /\ present[t] \in Users \cup {Nowhere}
    /\ mute \in [Users -> [Geographic -> {"none", "muted", "lifted"}]]
    /\ profile \in [Users -> Profiles]
    /\ installed \subseteq Tokens /\ spoiled \subseteq Tokens /\ moved \subseteq Users
    /\ \A w \in Workers : task[w] = Idle \/ task[w].tokens \subseteq Tokens

DevicesInit ==
    /\ Init
    /\ device = [t \in Tokens |-> NoDevice]
    /\ fcm = [t \in Tokens |-> {}]
    /\ mute = [u \in Users |-> [c \in Geographic |-> "none"]]
    /\ profile \in [Users -> Profiles]
    /\ installed = Tokens
    /\ task = [w \in Workers |-> Idle]
    /\ spoiled = {} /\ moved = {}
    /\ present = [t \in Tokens |-> Nowhere]

-----------------------------------------------------------------------------
(* Goroutines *)

\* Goroutines that change the topics of a token.
About(t) == {w \in Workers : task[w] # Idle /\ task[w].step # "push" /\ t \in task[w].tokens}

\* `go f(...)`: what it works on together with another one is spoiled.
Spawn(w, job) ==
    /\ task[w] = Idle
    /\ task' = [task EXCEPT ![w] = IF job.tokens = {} THEN Idle ELSE job]

Overlapping(tokens) == {t \in tokens : About(t) # {}}
Reconcile(u, tokens) == [step |-> "desire", user |-> u, tokens |-> tokens]
Unsubscribe(tokens) == [step |-> "unsubscribe", tokens |-> tokens]

\* A muted category has no topic; "all" is exempt.
desiredTopics(u) ==
    {AllTopic} \cup {<<c, profile[u][c]>> :
                        c \in {g \in Geographic : mute[u][g] # "muted" /\ profile[u][g] # Nowhere}}

\* ReconcileTopics, of one token after the other: what it should be ...
Desire(w) ==
    /\ task[w] # Idle /\ task[w].step = "desire"
    /\ \E t \in task[w].tokens :
        task' = [task EXCEPT ![w] = [step |-> "apply", user |-> @.user, tokens |-> @.tokens, token |-> t,
                                     desired |-> desiredTopics(@.user)]]
    /\ UNCHANGED <<sessionVars, device, topicVars, spoiled, present>>

\* Mutant: topics that are no longer wanted stay subscribed.
OnlyAdded(subscribed, recorded, desired, failed) == subscribed \cup ((desired \ recorded) \ failed)

\* ... what it was, and the difference told to FCM, ...
Applied(subscribed, recorded, desired, failed) ==
    (subscribed \cup ((desired \ recorded) \ failed)) \ ((recorded \ desired) \ failed)

Following(w) == [step |-> "desire", user |-> task[w].user, tokens |-> task[w].tokens \ {task[w].token}]

Apply(w, failed) ==
    /\ task[w] # Idle /\ task[w].step = "apply"
    /\ LET k == task[w]
           t == k.token
       IN  IF ~Live(t)
           THEN /\ task' = [task EXCEPT ![w] = IF Following(w).tokens = {} THEN Idle ELSE Following(w)]
                /\ UNCHANGED <<fcm, spoiled>>
           ELSE /\ fcm' = [fcm EXCEPT ![t] = Applied(@, device[t].recorded, k.desired, failed)]
                /\ spoiled' = IF failed = {} THEN spoiled ELSE spoiled \cup {t}
                /\ task' = [task EXCEPT ![w].step = "persist"]
    /\ UNCHANGED <<sessionVars, device, mute, profile, installed, moved, present>>

\* ... and recorded, whatever failed.
Persist(w) ==
    /\ task[w] # Idle /\ task[w].step = "persist"
    /\ device' = IF Live(task[w].token) THEN [device EXCEPT ![task[w].token].recorded = task[w].desired] ELSE device
    /\ task' = [task EXCEPT ![w] = IF Following(w).tokens = {} THEN Idle ELSE Following(w)]
    /\ UNCHANGED <<sessionVars, topicVars, spoiled, present>>

\* UnsubscribeTokens: every token from every topic recorded for one of them.
UnsubscribeTokens(w, failed) ==
    /\ task[w] # Idle /\ task[w].step = "unsubscribe"
    /\ LET tokens == task[w].tokens
           topics == UNION {device[t].recorded : t \in {x \in tokens : Live(x)}} \ failed
       IN  fcm' = [t \in Tokens |-> IF t \in tokens THEN fcm[t] \ topics ELSE fcm[t]]
    /\ task' = [task EXCEPT ![w] = Idle]
    /\ UNCHANGED <<sessionVars, device, mute, profile, installed, moved, spoiled, present>>

-----------------------------------------------------------------------------
(* Handlers *)

\* The upsert changes the owner and neither the topics nor deleted_at.
RegisterDevice(w, u, t) ==
    /\ LoggedIn(u) /\ t \in installed
    /\ device' = [device EXCEPT ![t] = IF @ = NoDevice THEN [state |-> "live", owner |-> u, recorded |-> {}]
                                       ELSE [@ EXCEPT !.owner = u]]
    /\ Spawn(w, Reconcile(u, {t}))
    /\ spoiled' = spoiled \cup Overlapping({t})
    /\ present' = [present EXCEPT ![t] = u]
    /\ UNCHANGED <<sessionVars, topicVars>>

\* What the softly deleted rows of a logout leave behind.
Wiped(tokens) ==
    /\ device' = [t \in Tokens |-> IF t \in tokens THEN [device[t] EXCEPT !.state = "deleted"] ELSE device[t]]
    /\ spoiled' = spoiled \cup tokens
    /\ present' = [t \in Tokens |-> IF t \in tokens THEN Nowhere ELSE present[t]]
    /\ UNCHANGED topicVars

\* RemoveDevice and UnregisterDevice: the row goes for good, then its topics
\* are looked up.
RemoveDevice(w, u, t) ==
    /\ LoggedIn(u) /\ device[t] # NoDevice /\ device[t].owner = u
    /\ device' = [device EXCEPT ![t] = NoDevice]
    /\ IF Live(t) THEN Spawn(w, Unsubscribe({t})) ELSE UNCHANGED task
    /\ spoiled' = spoiled \cup {t}
    /\ present' = [present EXCEPT ![t] = Nowhere]
    /\ UNCHANGED <<sessionVars, topicVars>>

DevicesLogoutAll(w, u) ==
    /\ LogoutAll(u)
    /\ Spawn(w, Unsubscribe(Owned(u)))
    /\ Wiped(Owned(u))

\* LogoutOthers keeps the row of the current device, if it is named.
DevicesLogoutOthers(w, u, kept) ==
    /\ LogoutOthers(u)
    /\ Spawn(w, Unsubscribe(Owned(u) \ kept))
    /\ Wiped(Owned(u) \ kept)

\* A change of password that logs the others out wipes this device too, and
\* unsubscribes none.
DevicesChangePassword(q, p, logoutOthers) ==
    /\ ChangePassword(q, p, logoutOthers)
    /\ Wiped(IF logoutOthers THEN Owned(request[q].user) ELSE {})
    /\ UNCHANGED task

\* UpdatePreference: a lifted mute keeps its key, so it is not set again; the
\* devices of the user are reconciled before the answer.
UpdatePreference(w, u, c, enabled) ==
    /\ LoggedIn(u)
    /\ mute[u][c] = (IF enabled THEN "muted" ELSE "none")
    /\ mute' = [mute EXCEPT ![u][c] = IF enabled THEN "lifted" ELSE "muted"]
    /\ Spawn(w, Reconcile(u, Owned(u)))
    /\ spoiled' = spoiled \cup Overlapping(Owned(u))
    /\ UNCHANGED <<sessionVars, device, fcm, profile, installed, moved, present>>

\* A profile is claimed or corrected: nobody reconciles the devices.
Placed(u, p) ==
    /\ p # profile[u]
    /\ profile' = [profile EXCEPT ![u] = p]
    /\ moved' = IF Owned(u) = {} /\ \A w \in Workers : task[w] = Idle THEN moved ELSE moved \cup {u}
    /\ UNCHANGED <<sessionVars, device, fcm, mute, installed, task, spoiled, present>>

Uninstall(t) ==
    /\ installed' = installed \ {t}
    /\ UNCHANGED <<sessionVars, device, fcm, mute, profile, moved, task, spoiled, present>>

\* pushAsync reads the devices of the recipients ...
Push(w, users) ==
    /\ Spawn(w, [step |-> "push", tokens |-> UNION {Owned(u) : u \in users}])
    /\ UNCHANGED <<sessionVars, device, topicVars, spoiled, present>>

\* ... and prunes those FCM no longer knows.
Prune(w) ==
    /\ task[w] # Idle /\ task[w].step = "push"
    /\ Wiped({t \in task[w].tokens \ installed : Live(t)})
    /\ task' = [task EXCEPT ![w] = Idle]
    /\ UNCHANGED sessionVars

-----------------------------------------------------------------------------
HandlerStep ==
    \/ \E w \in Workers, u \in Users :
        \/ \E t \in Tokens : RegisterDevice(w, u, t) \/ RemoveDevice(w, u, t)
        \/ DevicesLogoutAll(w, u)
        \/ \E kept \in {{}} \cup {{t} : t \in Tokens} : DevicesLogoutOthers(w, u, kept)
        \/ \E c \in Geographic, enabled \in BOOLEAN : UpdatePreference(w, u, c, enabled)
        \/ Push(w, {u})
    \/ \E u \in Users, p \in Profiles : Placed(u, p)
    \/ \E t \in Tokens : Uninstall(t)
    \/ \E q \in Requests, p \in Passwords, b \in BOOLEAN : DevicesChangePassword(q, p, b)

WorkerStep ==
    \E w \in Workers :
        \/ Desire(w) \/ Persist(w) \/ Prune(w)
        \/ \E failed \in {{}} \cup {{t} : t \in Topics} : Apply(w, failed) \/ UnsubscribeTokens(w, failed)

LoginStep ==
    /\ \E q \in Requests : \/ \E u \in Users, p \in Passwords : StartLogin(q, u, p) \/ StartChange(q, u, p)
                           \/ FinishLogin(q)
    /\ UNCHANGED deviceVars

DevicesNext == HandlerStep \/ WorkerStep \/ LoginStep
DevicesSpec == DevicesInit /\ [][DevicesNext]_<<sessionVars, deviceVars>>

-----------------------------------------------------------------------------
(* Properties *)

(* "Reconciliation is server-driven so it stays correct even if a device is   *)
(* never cleanly logged out" (device_topic_service.go:18): a device passed    *)
(* from hand to hand, muted and unmuted, ends with the topics of its owner in *)
(* FCM and in its row, once its goroutines are done: unless they overlapped,  *)
(* FCM failed, the row was deleted meanwhile or the owner was placed          *)
(* elsewhere.                                                                 *)
TopicsFollowOwner ==
    \A t \in Tokens \ spoiled :
        Live(t) /\ About(t) = {} =>
            /\ fcm[t] = device[t].recorded
            /\ device[t].owner \notin moved => fcm[t] = desiredTopics(device[t].owner)

(* "The next RegisterDevice call will recreate it" (device_handler.go:95): a  *)
(* user who registered a device and did not log out of it since is found by   *)
(* the next notification.                                                     *)
RegisteredIsReached ==
    \A t \in installed : present[t] # Nowhere => t \in Owned(present[t])

(* "A different user logging into the same physical device gets the previous  *)
(* owner's topics dropped" (device_topic_service.go:19): when nothing is in   *)
(* progress a live device has no topic that its owner does not ask for.       *)
NoForeignTopics ==
    \A t \in Tokens :
        Live(t) /\ \A w \in Workers : task[w] = Idle =>
            \A topic \in fcm[t] : topic \in desiredTopics(device[t].owner) \/ device[t].owner \in moved
=============================================================================
