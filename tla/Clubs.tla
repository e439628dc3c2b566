-------------------------------- MODULE Clubs --------------------------------
(***************************************************************************)
(* One club or association: its row, its followers, members and managers,  *)
(* and what its followers are told.  The two have twin handlers and        *)
(* repositories; they differ in the roster, which an association opens to  *)
(* those an admin has approved.                                            *)
(*                                                                         *)
(* The row keeps two counts beside the tables they count.  A manager's row *)
(* is soft-deleted (it embeds Base), its unique index is not partial and   *)
(* the list of managers reads the table without gorm's filter.             *)
(***************************************************************************)
EXTENDS Integers, Sequences, FiniteSets

CONSTANTS
    Users,
    Requests,   \* requests under way at once
    MaxEvents,  \* bound: events and posts
    None

VARIABLES
    kind,     \* club or association
    org,      \* its row
    follows,  \* club_follows
    member,   \* the status of a user's club_members row
    manager,  \* a user's club_managers row
    muted,    \* users who mute it
    events,   \* events and posts: published, and who has been told
    job,      \* what a request has read
    decided,  \* history: the flags an admin, or the creation, last set
    drift     \* history: which overlap has written over something

clubVars == <<kind, org, follows, member, manager, muted, events, job, decided, drift>>

Roles == {"owner", "manager"}
Statuses == {"pending", "approved"}
Org == [active : BOOLEAN, verified : BOOLEAN, followers : Nat, members : Nat,
        suggested : BOOLEAN, deleted : BOOLEAN]
Manager == [role : Roles, deleted : BOOLEAN]
Event == [published : BOOLEAN, told : SUBSET Users]

Job ==
    [op : {"edit", "adminEdit"}, row : Org]
        \cup [op : {"promote"}, of : Users, role : Roles]
        \cup [op : {"remove"}, of : Users]
        \cup [op : {"leave"}, of : Users, status : Statuses]
        \cup [op : {"tell"}, event : 1..MaxEvents]

ClubTypeOK ==
    /\ kind \in {"club", "association"} /\ org \in Org \cup {None}
    /\ follows \subseteq Users /\ muted \subseteq Users
    /\ member \in [Users -> Statuses \cup {None}] /\ manager \in [Users -> Manager \cup {None}]
    /\ \E n \in 0..MaxEvents : events \in [1..n -> Event]
    /\ job \in [Requests -> Job \cup {None}]
    /\ decided \in [active : BOOLEAN, verified : BOOLEAN, by : {"creation", "admin"}]
    /\ drift \subseteq {"save", "leave", "trash"}

ClubInit ==
    /\ kind \in {"club", "association"} /\ org = None
    /\ follows = {} /\ muted \in SUBSET Users
    /\ member = [u \in Users |-> None] /\ manager = [u \in Users |-> None]
    /\ events = <<>> /\ job = [w \in Requests |-> None]
    /\ decided = [active |-> FALSE, verified |-> FALSE, by |-> "creation"] /\ drift = {}

rostersUnchanged == UNCHANGED <<follows, member>>
rowUnchanged == UNCHANGED <<org, decided, drift>>
others == UNCHANGED <<kind, muted>>

Live == org # None /\ ~org.deleted
Open(w, j) == job[w] = None /\ job' = [job EXCEPT ![w] = j]
Close(w) == job' = [job EXCEPT ![w] = None]
\* What a list shows everybody, and what a row shows the user who asks.
GetPublicClubs == Live /\ org.active
GetAssociationByID(u) == [following |-> u \in follows, member |-> member[u] = "approved", pending |-> member[u] = "pending"]
GetPublicClubFollowers == follows
GetPublicClubMembers == {u \in Users : member[u] = "approved"}
GetClubByID(u) == [following |-> u \in follows, member |-> u \in GetPublicClubMembers]
GetPendingAssociationMembers == {u \in Users : GetAssociationByID(u).pending}

\* A count in a statement on the row that is not in the Trash.
Drifted(reason, happened) == drift' = IF happened THEN drift \cup {reason} ELSE drift
Counted(field, by) ==
    /\ org' = IF Live /\ (by > 0 \/ org[field] > 0) THEN [org EXCEPT ![field] = @ + by] ELSE org
    /\ Drifted("trash", org # None /\ org.deleted)

-----------------------------------------------------------------------------
(* The row *)

\* A false IsActive is the zero value of a column whose default is true, and
\* gorm creates the row with the default.
Created(active) == IF active THEN active ELSE TRUE

CreateOrg(active, suggested) ==
    LET stored == Created(active)
    IN  /\ org = None
        /\ org' = [active |-> stored, verified |-> FALSE, followers |-> 0, members |-> 0, suggested |-> suggested, deleted |-> FALSE]
        /\ decided' = [active |-> stored, verified |-> FALSE, by |-> "creation"]
        /\ UNCHANGED <<events, job, drift>> /\ rostersUnchanged /\ others

CreateClub == kind = "club" /\ (\E active \in BOOLEAN : CreateOrg(active, FALSE)) /\ UNCHANGED manager
CreateAssociation == kind = "association" /\ (\E active \in BOOLEAN : CreateOrg(active, FALSE)) /\ UNCHANGED manager

Owned(u) == manager' = [manager EXCEPT ![u] = [role |-> "owner", deleted |-> FALSE]]
SuggestClub(u) == kind = "club" /\ CreateOrg(FALSE, TRUE) /\ Owned(u)
SuggestAssociation(u) == kind = "association" /\ CreateOrg(FALSE, TRUE) /\ Owned(u)

\* Save writes every column back, and inserts the row again if it has been
\* deleted since: the counts and flags that were read win.
Saved(row, active, verified) ==
    /\ org' = [row EXCEPT !.active = active, !.verified = verified, !.deleted = FALSE]
    /\ Drifted("save", org # row)

ReadForUpdate(w) == Live /\ Open(w, [op |-> "adminEdit", row |-> org]) /\ UNCHANGED <<events, manager>> /\ rowUnchanged /\ rostersUnchanged /\ others
SaveOrg(w, active, verified) ==
    /\ job[w] # None /\ job[w].op = "adminEdit"
    /\ Saved(job[w].row, active, verified)
    /\ decided' = [active |-> active, verified |-> verified, by |-> "admin"]
    /\ Close(w)
    /\ UNCHANGED <<events, manager>> /\ rostersUnchanged /\ others
UpdateClub(w) == kind = "club" /\ (ReadForUpdate(w) \/ \E a, v \in BOOLEAN : SaveOrg(w, a, v))
UpdateAssociation(w) == kind = "association" /\ (ReadForUpdate(w) \/ \E a, v \in BOOLEAN : SaveOrg(w, a, v))

DeleteOrg == Live /\ org' = [org EXCEPT !.deleted = TRUE] /\ UNCHANGED <<events, job, manager, decided, drift>> /\ rostersUnchanged /\ others
RestoreOrg ==
    /\ org # None /\ org.deleted /\ org' = [org EXCEPT !.deleted = FALSE]
    /\ UNCHANGED <<events, job, manager, decided, drift>> /\ rostersUnchanged /\ others

-----------------------------------------------------------------------------
(* Followers and members: a row and a count in one transaction *)

rosterFrame == UNCHANGED <<manager, events, decided>> /\ others

FollowClub(u) ==
    /\ org # None /\ u \notin follows
    /\ follows' = follows \cup {u} /\ Counted("followers", 1)
    /\ UNCHANGED <<member, job>> /\ rosterFrame

UnfollowClub(u) ==
    /\ u \in follows
    /\ follows' = follows \ {u} /\ Counted("followers", -1)
    /\ UNCHANGED <<member, job>> /\ rosterFrame

JoinClub(u) ==
    /\ kind = "club" /\ org # None /\ member[u] = None
    /\ member' = [member EXCEPT ![u] = "approved"] /\ Counted("members", 1)
    /\ UNCHANGED <<follows, job>> /\ rosterFrame

LeaveClub(u) ==
    /\ kind = "club" /\ member[u] # None
    /\ member' = [member EXCEPT ![u] = None] /\ Counted("members", -1)
    /\ UNCHANGED <<follows, job>> /\ rosterFrame

\* A request an admin has to approve, which nothing counts yet.
JoinAssociation(u) ==
    /\ kind = "association" /\ org # None /\ member[u] = None
    /\ member' = [member EXCEPT ![u] = "pending"]
    /\ UNCHANGED <<org, drift, follows, job>> /\ rosterFrame

ReadMembership(w, u) ==
    /\ kind = "association" /\ member[u] # None
    /\ Open(w, [op |-> "leave", of |-> u, status |-> member[u]])
    /\ UNCHANGED <<org, drift>> /\ rostersUnchanged /\ rosterFrame

\* The row goes whatever it has become; only the status that was read decides
\* whether it was counted.
LeaveAssociation(w) ==
    LET j == job[w]
    IN  /\ j # None /\ j.op = "leave"
        /\ member' = [member EXCEPT ![j.of] = None]
        /\ org' = IF j.status = "approved" /\ Live /\ org.members > 0 THEN [org EXCEPT !.members = @ - 1] ELSE org
        /\ drift' = drift \cup (IF member[j.of] # j.status THEN {"leave"} ELSE {}) \cup (IF Live THEN {} ELSE {"trash"})
        /\ Close(w) /\ UNCHANGED follows /\ rosterFrame

\* The rows the statement finds.
AwaitsApproval(u) == u \in GetPendingAssociationMembers

ApproveAssociationMember(u) ==
    /\ kind = "association" /\ AwaitsApproval(u)
    /\ member' = [member EXCEPT ![u] = "approved"] /\ Counted("members", 1)
    /\ UNCHANGED <<follows, job>> /\ rosterFrame

RejectAssociationMember(u) ==
    /\ kind = "association" /\ AwaitsApproval(u)
    /\ member' = [member EXCEPT ![u] = None]
    /\ UNCHANGED <<org, drift, follows, job>> /\ rosterFrame

-----------------------------------------------------------------------------
(* Managers *)

GetManagerRole(u) == IF manager[u] = None \/ manager[u].deleted THEN None ELSE manager[u].role
requireManager(u, ownerOnly) == GetManagerRole(u) = "owner" \/ (~ownerOnly /\ GetManagerRole(u) = "manager")
\* Soft-deleted rows included.
ListManagers == {u \in Users : manager[u] # None}
ListedOwners == {u \in ListManagers : manager[u].role = "owner"}

UpdateMyClub(w, u) == requireManager(u, FALSE) /\ Live /\ Open(w, [op |-> "edit", row |-> org]) /\ UNCHANGED <<events, manager>> /\ rowUnchanged /\ rostersUnchanged /\ others
SaveMyClub(w) ==
    /\ job[w] # None /\ job[w].op = "edit"
    /\ Saved(job[w].row, job[w].row.active, job[w].row.verified)
    /\ Close(w)
    /\ UNCHANGED <<events, manager, decided>> /\ rostersUnchanged /\ others

PromoteManager(w, u, of, role) ==
    /\ requireManager(u, TRUE) /\ of \in GetPublicClubFollowers
    /\ Open(w, [op |-> "promote", of |-> of, role |-> role])
    /\ UNCHANGED <<events, manager>> /\ rowUnchanged /\ rostersUnchanged /\ others

\* The upsert sets the role of a row that exists, and leaves it deleted.
StorePromotion(w) ==
    LET j == job[w]
    IN  /\ j # None /\ j.op = "promote"
        /\ manager' = [manager EXCEPT ![j.of] = IF @ = None THEN [role |-> j.role, deleted |-> FALSE] ELSE [@ EXCEPT !.role = j.role]]
        /\ Close(w) /\ UNCHANGED events /\ rowUnchanged /\ rostersUnchanged /\ others

RemoveManager(w, u, of) ==
    /\ requireManager(u, TRUE)
    /\ ~(of \in ListedOwners /\ Cardinality(ListedOwners) <= 1)
    /\ Open(w, [op |-> "remove", of |-> of])
    /\ UNCHANGED <<events, manager>> /\ rowUnchanged /\ rostersUnchanged /\ others

StoreRemoval(w) ==
    LET j == job[w]
    IN  /\ j # None /\ j.op = "remove"
        /\ manager' = [manager EXCEPT ![j.of] = IF @ = None THEN None ELSE [@ EXCEPT !.deleted = TRUE]]
        /\ Close(w) /\ UNCHANGED events /\ rowUnchanged /\ rostersUnchanged /\ others

-----------------------------------------------------------------------------
(* Events and posts *)

PostFrame == UNCHANGED <<manager>> /\ rowUnchanged /\ rostersUnchanged /\ others
Posted(w, published) ==
    /\ Len(events) < MaxEvents
    /\ events' = Append(events, [published |-> published, told |-> {}])
    /\ IF published THEN Open(w, [op |-> "tell", event |-> Len(events) + 1]) ELSE UNCHANGED job
    /\ PostFrame

\* Neither looks at the row of the club: it may be in the Trash.
CreateClubEvent(w) == org # None /\ job[w] = None /\ \E published \in BOOLEAN : Posted(w, published)
CreateMyClubEvent(w, u) == requireManager(u, FALSE) /\ job[w] = None /\ \E published \in BOOLEAN : Posted(w, published)
CreateClubPost(w, u) == requireManager(u, FALSE) /\ job[w] = None /\ Posted(w, TRUE)

\* Publishing an event later tells nobody.
UpdateClubEvent(e, published) ==
    /\ e \in DOMAIN events /\ events' = [events EXCEPT ![e].published = published]
    /\ UNCHANGED job /\ PostFrame

notifyClubFollowers(w) ==
    LET e == job[w].event
    IN  /\ job[w] # None /\ job[w].op = "tell"
        /\ events' = IF Live THEN [events EXCEPT ![e].told = follows \ muted] ELSE events
        /\ Close(w) /\ PostFrame

-----------------------------------------------------------------------------
ClubRows == CreateClub \/ (\E w \in Requests : UpdateClub(w)) \/ (kind = "club" /\ (DeleteOrg \/ RestoreOrg)) \/ \E u \in Users : SuggestClub(u)
ClubRoster == kind = "club" /\ \E u \in Users : FollowClub(u) \/ UnfollowClub(u) \/ JoinClub(u) \/ LeaveClub(u)
ManageStep(w) ==
    \/ StorePromotion(w) \/ StoreRemoval(w)
    \/ \E u, of \in Users : RemoveManager(w, u, of) \/ \E role \in Roles : PromoteManager(w, u, of, role)
EditStep(w) == SaveMyClub(w) \/ \E u \in Users : UpdateMyClub(w, u)
EventStep(w) == CreateClubEvent(w) \/ notifyClubFollowers(w) \/ \E e \in DOMAIN events, published \in BOOLEAN : UpdateClubEvent(e, published)
PostStep(w) == \E u \in Users : CreateMyClubEvent(w, u) \/ CreateClubPost(w, u)
ClubManage == kind = "club" /\ \E w \in Requests : ManageStep(w) \/ EditStep(w) \/ EventStep(w) \/ PostStep(w)

\* The handlers and tables of associations, which follow, manage and tell as
\* those of clubs do.
AssociationRows == CreateAssociation \/ (\E w \in Requests : UpdateAssociation(w)) \/ (kind = "association" /\ (DeleteOrg \/ RestoreOrg))
AssociationSuggestions == \E u \in Users : SuggestAssociation(u)
AssociationFollows == kind = "association" /\ \E u \in Users : FollowClub(u) \/ UnfollowClub(u)
AssociationRoster ==
    \/ \E u \in Users : JoinAssociation(u) \/ ApproveAssociationMember(u) \/ RejectAssociationMember(u)
    \/ \E w \in Requests : LeaveAssociation(w) \/ \E u \in Users : ReadMembership(w, u)
AssociationManage == kind = "association" /\ \E w \in Requests : ManageStep(w)
AssociationEdit == kind = "association" /\ \E w \in Requests : EditStep(w)
AssociationEvents == kind = "association" /\ \E w \in Requests : EventStep(w)
AssociationPosts == kind = "association" /\ \E w \in Requests : PostStep(w)
AssociationStep ==
    \/ AssociationRows \/ AssociationSuggestions \/ AssociationFollows \/ AssociationRoster
    \/ AssociationManage \/ AssociationEdit \/ AssociationEvents \/ AssociationPosts

ClubNext == ClubRows \/ ClubRoster \/ ClubManage \/ AssociationStep
ClubSpec == ClubInit /\ [][ClubNext]_clubVars

-----------------------------------------------------------------------------
(* Properties *)

\* Each count is the number of rows it stands for and the flags are as an admin
\* last set them, under any overlap of follows, approvals and edits but the
\* three recorded in drift: a Save of a row that has changed since it was read,
\* a membership left while it was being approved (or left twice), and a roster
\* that changed while the row was in the Trash
\* (club_repository.go:113-175, association_repository.go:164-216).
RostersAgree ==
    org # None /\ drift = {} =>
        /\ org.followers = Cardinality({u \in Users : GetClubByID(u).following}) /\ org.members = Cardinality({u \in Users : GetClubByID(u).member})
        /\ org.active = decided.active /\ org.verified = decided.verified

\* "refuses to remove the last remaining owner, so a club can never end up with
\* zero owners": a club its requester owned at first has an owner
\* (club_manage_handler.go:227-228).
OwnersRemain == org # None /\ org.suggested => \E u \in Users : GetManagerRole(u) = "owner"

\* SuggestClub "forces IsActive false": until an admin has changed it, a
\* suggested club is not listed (club_handler.go:185-186).
SuggestionsWait == org # None /\ org.suggested /\ decided.by = "creation" => ~GetPublicClubs
=============================================================================
