------------------------------- MODULE MCCampus -------------------------------
(* The campus side of the API: instances of MerchantLedger, Chat,             *)
(* Notifications, Catalog, Resources, SchemaMigration, Clubs, Community,      *)
(* ClassSchedule and Reminders, which share no state: a variable two of them  *)
(* have is that of the part at hand, and None stands for those it has not.    *)
(* A part that is too large as a whole is cut, and so are the states in which *)
(* its history variables leave a property nothing to say.                     *)
EXTENDS MCMerchantLedger

CONSTANTS
    Parts,    \* the parts looked at
    None, Gone

VARIABLES
    part,
    \* of several modules
    now, student, muted, client, rating, raced, kind, job, delivered,
    \* Chat
    conversation, message, hidden, aged, worker, doubled,
    \* Notifications
    notification, recipient, sending, pushing, cleanup, spared, dropped,
    \* Catalog
    review, transaction, product, saved, editor, waiting, missed,
    \* Resources
    resource, authored, attachment, stored, log, viewed, told, withdrawn, deleter, lost,
    \* SchemaMigration
    applied, run, runs, legacy, migrated, subscription, pro, cr, moderators, revoked, unnoticed, imported,
    planned, before, session, links,
    \* Clubs
    org, follows, member, manager, events, decided, drift,
    \* Community
    row, likers, readers, comment, commentLikers, spurious, overwritten,
    \* ClassSchedule
    moderates, slot, status, notice, answered, refused, expired, revived,
    \* Reminders
    exam, announce, sweep, edit, reminder, claim, reminded, tried, slipped, moved, stranded

chatRows == <<conversation, message, hidden, aged, worker, doubled>>
noticeRows == <<notification, recipient, sending, pushing, cleanup, spared, dropped>>
shopRows == <<review, transaction, product, saved, editor, waiting, missed>>
fileRows == <<resource, authored, attachment, stored, log, viewed, told, withdrawn, deleter, lost>>
schemaRows == <<applied, run, runs, legacy, migrated, subscription, pro, cr, moderators, revoked, unnoticed,
                imported, planned, before, session, links>>
clubRows == <<org, follows, member, manager, events, decided, drift>>
threadRows == <<row, likers, readers, comment, commentLikers, spurious, overwritten>>
slotRows == <<moderates, slot, status, notice, answered, refused, expired, revived>>
examRows == <<exam, announce, sweep, edit, reminder, claim, reminded, tried, slipped, moved, stranded>>

One == {1}
Two == {1, 2}
Both == {"u1", "u2"}
Busy(f) == {w \in Two : f[w] # None}

-----------------------------------------------------------------------------
(* Chat: the opening of conversations, the rows of one, and its sockets. *)

Opening == INSTANCE Chat WITH
    Users <- Both, Conversations <- {"c1", "c2"}, MaxMessages <- 1, Sockets <- {}, SendBuffer <- 1, Workers <- Two
Talking == INSTANCE Chat WITH
    Users <- Both, Conversations <- {"c1"}, MaxMessages <- 2, Sockets <- {}, SendBuffer <- 1, Workers <- Two
Hearing == INSTANCE Chat WITH
    Users <- Both, Conversations <- {"c1", "c2"}, MaxMessages <- 1, Sockets <- {"k1", "k2"}, SendBuffer <- 1, Workers <- Two

Accepted == [between |-> Both, status |-> "accepted", initiator |-> "u1", live |-> TRUE, last |-> None, edited |-> FALSE]
Doing(op) == \E w \in Two : worker'[w].step = op
\* u1 writes and u2 has not read it.
Unread == \A i \in DOMAIN message' : message'[i] # None => message'[i].sender = "u1" /\ ~message'[i].read

OpeningSteps ==
    /\ Opening!RowStep
    /\ ~Doing("send") /\ doubled' = {}
    /\ \A c \in {"c1", "c2"} : conversation'[c] # None => conversation'[c].status \in {"pending", "accepted"}
TalkingSteps ==
    /\ Talking!RowStep
    /\ ~Doing("look") /\ conversation'["c1"].status = "accepted"
    /\ Unread /\ \A i \in Two : <<"u2", i>> \notin hidden'
\* What is sent is sent to c1; worker 2 edits or deletes it, naming either
\* room, while k2 is in c2.
HearingSteps ==
    /\ Hearing!ChatNext
    /\ ~Doing("look") /\ hidden' \subseteq {<<"u1", 1>>} /\ aged' = {}
    /\ \A c \in {"c1", "c2"} : conversation'[c].status = "accepted" /\ conversation'[c].live
    /\ \A w \in Two : worker'[w].step = "send" => w = 1 /\ worker'[w].in = "c1"
    /\ worker'[1].step # "edit"
    /\ worker'[1].step = "tell" => worker'[1].event.kind = "new"
    /\ worker'[2].step # "idle" => /\ client'["k2"] # None => client'["k2"].in = "c2"
                                   /\ worker[2].step = "idle" => hidden = {}
    /\ client'["k1"] # None => client'["k1"].user = "u1" /\ client'["k1"].in = "c1"
    /\ client'["k2"] # None => client'["k2"].user = "u2"
    /\ Unread

-----------------------------------------------------------------------------
(* Notifications *)

Inbox == INSTANCE Notifications WITH
    Users <- Both, Notifications <- {"n1"}, Batches <- {"b1", "b2"},
    DepartmentOf <- [b \in {"b1", "b2"} |-> "d1"], Clients <- {"k1"}

InboxSteps == Inbox!NotificationNext /\ muted' \subseteq {"u1"}

-----------------------------------------------------------------------------
(* The shop: a user reviews two products of a merchant, and saves one. *)

Judged == INSTANCE Catalog WITH
    Users <- {"u1"}, Products <- {"p1", "p2"}, Merchants <- {"m"}, MerchantOf <- [p \in {"p1", "p2"} |-> "m"],
    Stars <- {1, 5}, Workers <- Two
Watched == INSTANCE Catalog WITH
    Users <- {"u1"}, Products <- {"p1"}, Merchants <- {"m"}, MerchantOf <- [p \in {"p1"} |-> "m"],
    Stars <- {1, 5}, Workers <- Two

\* Both edit at a time when neither hides the product, the second no price, and
\* nobody mutes meanwhile.
WatchedSteps ==
    /\ Watched!ShopStep
    /\ editor'[2].step = "saved" => editor'[2].after.price = editor'[2].before.price /\ editor'[2].after.published
    /\ editor'[2].step # "idle" =>
          muted' = muted /\ (editor'[1].step = "saved" => editor'[1].after.published)

\* Of p2 there is one review, of five stars; a merchant replies to one of p1.
JudgedSteps ==
    /\ Judged!ReviewStep
    /\ review'["p2"]["u1"] # None => ~review'["p2"]["u1"].reply
    /\ review'["p1"]["u1"] # None /\ review'["p1"]["u1"].reply => Judged!Open = {}
    /\ delivered' # delivered => Judged!Open = {}
    /\ \A w \in Two :
        /\ transaction'[w].step = "wrote" /\ transaction'[w].product = "p2" /\ transaction'[w].row # None =>
              transaction'[w].row.stars = 5 /\ ~transaction'[w].row.hidden
        /\ transaction[w].step \in {"wrote", "sawProduct", "product"} => transaction'[w].step # "idle"

-----------------------------------------------------------------------------
(* Resources: one file of two of them, the review of one, and its signals. *)

Filed == INSTANCE Resources WITH
    Resources <- {"r1", "r2"}, Users <- Both, Admins <- {"u1"}, Reviewers <- {"u2"}, Editors <- {"u2"},
    Files <- {"f1", "f2"}, Workers <- Two, MaxCount <- 2,
    Bodies <- [status : {"draft"}, live : BOOLEAN, by : {"u1"}, file : {"f1", "f2"}, batches : {FALSE},
              views : {0}, sum : {0}, count : {0}]
Reviewed == INSTANCE Resources WITH
    Resources <- {"r1"}, Users <- Both, Admins <- {"u1"}, Reviewers <- {"u2"}, Editors <- {},
    Files <- {"f1"}, Workers <- Two, MaxCount <- 2,
    Bodies <- UNION {[status : {"published", "pending"}, live : {TRUE}, by : {u}, file : {"f1"}, batches : {FALSE, u = "u1"},
                      views : {0}, sum : {0}, count : {0}] : u \in Both}
Counted == INSTANCE Resources WITH
    Resources <- {"r1"}, Users <- Both, Admins <- {"u1"}, Reviewers <- {"u2"}, Editors <- {},
    Files <- {"f1"}, Workers <- Two, MaxCount <- 2,
    Bodies <- UNION {[status : {"pending"}, live : {TRUE}, by : {"u1"}, file : {"f1"}, batches : {FALSE},
                      views : {2 * n}, sum : {5 * n}, count : {n}] : n \in {0, 1}}

Uploaded == {r \in DOMAIN resource' : resource'[r] # None}
\* One request saves, and never another status.
OneSaves == \A w \in Two : job'[w].step = "save" => w = 1 /\ job'[w].after.status = job'[w].before.status

FileSteps ==
    /\ Filed!FileStep \/ Filed!ReviewStep
    /\ lost = {} /\ authored' = {} /\ OneSaves
    /\ job'[1].step = "save" => job'[1].id = "r1"
    /\ \A w \in Two : job'[w].step = "delete" => w = 2 /\ job'[w].id = "r1"
    /\ "f1" \in stored' => attachment'["f1"] = [by |-> "u1", private |-> FALSE]
    /\ "f2" \in stored' => attachment'["f2"] = [by |-> "u1", private |-> TRUE]
    /\ \A r \in Uploaded : /\ resource'[r].status = "draft"
                          /\ r = "r2" => resource'[r].file = "f1" /\ (resource[r] = None => resource'[r].live)
ReviewSteps ==
    /\ Reviewed!ReviewStep \/ Reviewed!MyUploadImage("u1", "f1", FALSE, TRUE)
    /\ authored' = {} /\ (stored = {} => resource' = resource)
    /\ \A r \in Uploaded : resource[r] = None => resource'[r].by = "u1"
    /\ job'[2].step = "save" => job'[2].after.by = job'[2].before.by /\ job'[2].after.batches = job'[2].before.batches
SignalSteps ==
    /\ Counted!ReviewStep \/ Counted!SignalStep \/ Counted!MyUploadImage("u1", "f1", FALSE, TRUE)
    /\ authored' = {} /\ OneSaves /\ (stored = {} => resource' = resource)
    /\ \A r \in Uploaded : resource'[r].status = "pending"
    /\ \A w \in Two : job'[w].step = "rate" => job'[w].stars \in {1, 5}

-----------------------------------------------------------------------------
(* The migration: of accounts, and of two session rows. *)

Upgrade == INSTANCE SchemaMigration WITH
    Users <- {"u1"}, Batches <- {"b1"}, Departments <- {"d1"}, Periods <- {"p1"}, SessionRows <- One,
    GraceDays <- 1, Horizon <- 3, MaxRuns <- 2
Merge == INSTANCE SchemaMigration WITH
    Users <- {"u1"}, Batches <- {"b1"}, Departments <- {"d1", "d2"}, Periods <- {"p1"}, SessionRows <- Two,
    GraceDays <- 1, Horizon <- 3, MaxRuns <- 2

\* Steps the command has passed and not recorded, and statements that failed
\* in a step that succeeded: at most one at a time, of the drops that of the tables.
Missed == {i \in DOMAIN Upgrade!Steps :
              /\ run # None /\ i < run.at /\ Upgrade!Steps[i] \notin {"auto", "backfill_grace"}
              /\ Upgrade!Key(Upgrade!Steps[i]) \notin applied}
Failed == Cardinality(Missed) + Cardinality(unnoticed.legacy) + Cardinality(unnoticed.orphans)
\* A moderator is revoked where no day passes.
UpgradeSteps ==
    /\ Upgrade!MigrationNext /\ Failed' <= 1 /\ unnoticed'.legacy \subseteq {"notes"}
    /\ revoked' # {} => now' = 1
MergeSteps ==
    /\ Merge!MigrationNext /\ Failed' <= 1 /\ unnoticed'.legacy = {}
    /\ run' = run => UNCHANGED <<now, subscription>>

-----------------------------------------------------------------------------
(* Clubs, posts, and what a batch sees of its days *)

Club == INSTANCE Clubs WITH Users <- Both, Requests <- Two, MaxEvents <- 1

\* One request edits the row, or any leave.
RosterSteps ==
    /\ drift' = {} /\ Club!ClubNext
    /\ \A w \in Busy(job') : job'[w].op \in {"leave", "adminEdit", "edit"}
    /\ Cardinality(Busy(job')) > 1 => \A w \in Two : job'[w].op = "leave"
    /\ UNCHANGED events
\* One request at a time.
PostSteps ==
    /\ drift' = {} /\ Club!ClubNext
    /\ Cardinality(Busy(job')) <= 1 /\ UNCHANGED member /\ manager'["u2"] = manager["u2"]
    /\ org # None => UNCHANGED decided

Thread == INSTANCE Community WITH Users <- Both, Comments <- {"c1", "c2"}, Requests <- Two

LikeSteps ==
    /\ overwritten' = {} /\ spurious.likes < 2 /\ Thread!CommunityNext
    /\ UNCHANGED comment /\ Cardinality(Busy(job')) <= 1
TalkSteps ==
    /\ overwritten' = {} /\ row # Gone /\ spurious.comments < 2 /\ Thread!CommunityNext
    /\ spurious'.likes = 0 /\ \A c \in DOMAIN comment : spurious.of[c] < 1 /\ Cardinality(commentLikers'[c]) < 2
    /\ likers' = {} /\ readers' = {}
    /\ \A w \in Busy(job') : job'[w].op # "edit"
    /\ row' \notin {None, Gone} => row'.content = "first"

Schedule == INSTANCE ClassSchedule WITH Dates <- {"d1", "d2"}, Notices <- {"n1"}, Requests <- Two
DateSteps == Schedule!ScheduleNext /\ UNCHANGED notice
NoticeSteps == Schedule!ScheduleNext /\ UNCHANGED slot

Reminding == INSTANCE Reminders WITH
    Processes <- {"p1", "p2"}, Exams <- {"e1"}, Reminders <- {"r1", "r2", "r3"}, Requests <- Two,
    BatchSize <- 2, Horizon <- 3
ExamSteps == slipped' = {} /\ moved' = {} /\ Reminding!ReminderNext /\ UNCHANGED reminder
CareerSteps == Reminding!ReminderNext /\ UNCHANGED exam

\* The promotion starts once, before an order; an edit is over before o1 is paid,
\* and saves a row with an account.
LedgerSteps ==
    /\ Next
    /\ promo' # promo => promo'.active /\ \A o \in Orders : order[o].status = "none"
    /\ \A e \in Editors :
        /\ draft'[e] # Idle => order'[o1].status \in {"none", "placed"}
        /\ draft[e] # Idle /\ draft'[e] = Idle => seller'[draft[e].of].account

-----------------------------------------------------------------------------
(* The parts *)

ChatParts == {"opening", "talking", "hearing"}
ShopParts == {"reviews", "wishlist"}
FileParts == {"files", "moderation", "signals"}
SchemaParts == {"upgrade", "merge"}
ClubParts == {"roster", "posts"}
ThreadParts == {"likes", "talk"}
SlotParts == {"dates", "notices"}
ExamParts == {"exams", "career"}

ChatInit ==
    CASE part = "opening" -> Opening!ChatInit
      [] part = "talking" -> Talking!Quiet /\ conversation = [c \in {"c1"} |-> Accepted]
      [] part = "hearing" -> Hearing!Quiet /\ conversation = [c1 |-> Accepted, c2 |-> [Accepted EXCEPT !.between = {}]]
      [] OTHER -> /\ conversation = None /\ message = None /\ hidden = None /\ aged = None
                  /\ worker = None /\ doubled = None

InboxInit ==
    IF part = "inbox" THEN Inbox!NotificationInit
    ELSE /\ notification = None /\ recipient = None /\ sending = None /\ pushing = None
         /\ cleanup = None /\ spared = None /\ dropped = None

ShopInit ==
    CASE part = "reviews" -> Judged!CatalogInit
      [] part = "wishlist" -> Watched!CatalogInit
      [] OTHER -> /\ review = None /\ transaction = None /\ product = None
                  /\ saved = None /\ editor = None /\ waiting = None /\ missed = None

FileInit ==
    CASE part = "files" -> Filed!ResourceInit
      [] part = "moderation" -> Reviewed!ResourceInit
      [] part = "signals" -> Counted!ResourceInit
      [] OTHER -> /\ resource = None /\ authored = None /\ attachment = None /\ stored = None /\ log = None
                  /\ viewed = None /\ told = None /\ withdrawn = None /\ deleter = None /\ lost = None

SchemaInit ==
    CASE part = "upgrade" -> Upgrade!MigrationInit /\ cr # {} /\ planned
      [] part = "merge" -> Merge!MigrationInit /\ cr = {} /\ imported = {} /\ planned
                           /\ pro = [u \in {"u1"} |-> [is |-> TRUE, expiry |-> 0]]
      [] OTHER -> /\ applied = None /\ run = None /\ runs = None /\ legacy = None /\ migrated = None
                  /\ subscription = None /\ pro = None /\ cr = None /\ moderators = None /\ revoked = None
                  /\ unnoticed = None /\ imported = None /\ planned = None /\ before = None /\ session = None /\ links = None

ClubInit ==
    IF part \in ClubParts THEN Club!ClubInit /\ (part = "roster" => muted = {})
    ELSE /\ org = None /\ follows = None /\ member = None /\ manager = None
         /\ events = None /\ decided = None /\ drift = None

ThreadInit ==
    IF part \in ThreadParts THEN Thread!CommunityInit
    ELSE /\ row = None /\ likers = None /\ readers = None /\ comment = None /\ commentLikers = None
         /\ spurious = None /\ overwritten = None

SlotInit ==
    IF part \in SlotParts THEN Schedule!ScheduleInit
    ELSE /\ moderates = None /\ slot = None /\ status = None /\ notice = None
         /\ answered = None /\ refused = None /\ expired = None /\ revived = None

ExamInit ==
    IF part \in ExamParts THEN Reminding!ReminderInit
    ELSE /\ exam = None /\ announce = None /\ sweep = None /\ edit = None /\ reminder = None /\ claim = None
         /\ reminded = None /\ tried = None /\ slipped = None /\ moved = None /\ stranded = None

\* What the part at hand does not have of the variables of several modules.
SharedInit ==
    /\ part \notin SchemaParts \cup ExamParts => now = None
    /\ part \notin SchemaParts \cup {"inbox"} => student = None
    /\ part \notin ClubParts \cup ShopParts \cup {"inbox"} => muted = None
    /\ part \notin ChatParts \cup {"inbox"} => client = None
    /\ part \notin ShopParts \cup FileParts => rating = None
    /\ part \notin ChatParts \cup ShopParts \cup FileParts => raced = None
    /\ part \notin ClubParts \cup ThreadParts => kind = None
    /\ part \notin FileParts \cup ClubParts \cup ThreadParts \cup SlotParts => job = None
    /\ part \notin ShopParts \cup ExamParts => delivered = None

MCInit ==
    /\ part \in Parts
    /\ Init
    /\ ChatInit /\ InboxInit /\ ShopInit /\ FileInit /\ SchemaInit
    /\ ClubInit /\ ThreadInit /\ SlotInit /\ ExamInit
    /\ SharedInit

inLedger(A) ==
    A /\ UNCHANGED <<chatRows, noticeRows, shopRows, fileRows, schemaRows, clubRows, threadRows, slotRows, examRows,
                     now, student, muted, client, rating, raced, kind, job, delivered>>
inChat(A) ==
    A /\ UNCHANGED <<vars, noticeRows, shopRows, fileRows, schemaRows, clubRows, threadRows, slotRows, examRows,
                     now, student, muted, rating, kind, job, delivered>>
inInbox(A) ==
    A /\ UNCHANGED <<vars, chatRows, shopRows, fileRows, schemaRows, clubRows, threadRows, slotRows, examRows,
                     now, rating, raced, kind, job, delivered>>
inShop(A) ==
    A /\ UNCHANGED <<vars, chatRows, noticeRows, fileRows, schemaRows, clubRows, threadRows, slotRows, examRows,
                     now, student, client, kind, job>>
inFiles(A) ==
    A /\ UNCHANGED <<vars, chatRows, noticeRows, shopRows, schemaRows, clubRows, threadRows, slotRows, examRows,
                     now, student, muted, client, kind, delivered>>
inSchema(A) ==
    A /\ UNCHANGED <<vars, chatRows, noticeRows, shopRows, fileRows, clubRows, threadRows, slotRows, examRows,
                     muted, client, rating, raced, kind, job, delivered>>
inClubs(A) ==
    A /\ UNCHANGED <<vars, chatRows, noticeRows, shopRows, fileRows, schemaRows, threadRows, slotRows, examRows,
                     now, student, client, rating, raced, delivered>>
inThreads(A) ==
    A /\ UNCHANGED <<vars, chatRows, noticeRows, shopRows, fileRows, schemaRows, clubRows, slotRows, examRows,
                     now, student, muted, client, rating, raced, delivered>>
inSlots(A) ==
    A /\ UNCHANGED <<vars, chatRows, noticeRows, shopRows, fileRows, schemaRows, clubRows, threadRows, examRows,
                     now, student, muted, client, rating, raced, kind, delivered>>
inExams(A) ==
    A /\ UNCHANGED <<vars, chatRows, noticeRows, shopRows, fileRows, schemaRows, clubRows, threadRows, slotRows,
                     student, muted, client, rating, raced, kind, job>>

MCNext ==
    /\ UNCHANGED part
    /\ CASE part = "ledger" -> inLedger(LedgerSteps)
         [] part = "opening" -> inChat(OpeningSteps)
         [] part = "talking" -> inChat(TalkingSteps)
         [] part = "hearing" -> inChat(HearingSteps)
         [] part = "inbox" -> inInbox(InboxSteps)
         [] part = "reviews" -> inShop(JudgedSteps)
         [] part = "wishlist" -> inShop(WatchedSteps)
         [] part = "files" -> inFiles(FileSteps)
         [] part = "moderation" -> inFiles(ReviewSteps)
         [] part = "signals" -> inFiles(SignalSteps)
         [] part = "upgrade" -> inSchema(UpgradeSteps)
         [] part = "merge" -> inSchema(MergeSteps)
         [] part = "roster" -> inClubs(RosterSteps)
         [] part = "posts" -> inClubs(PostSteps)
         [] part = "likes" -> inThreads(LikeSteps)
         [] part = "talk" -> inThreads(TalkSteps)
         [] part = "dates" -> inSlots(DateSteps)
         [] part = "notices" -> inSlots(NoticeSteps)
         [] part = "exams" -> inExams(ExamSteps)
         [] part = "career" -> inExams(CareerSteps)

all == <<part, vars, chatRows, noticeRows, shopRows, fileRows, schemaRows, clubRows, threadRows, slotRows,
         examRows, now, student, muted, client, rating, raced, kind, job, delivered>>
MCSpec == MCInit /\ [][MCNext]_all

\* Clubs as they are, for a violation.
ClubSpec == part = "roster" /\ MCInit /\ [][UNCHANGED part /\ inClubs(Club!ClubNext)]_all

-----------------------------------------------------------------------------
(* What Chat promises: conversations, their previews and the requests to      *)
(* write agree, and connected clients are told of what their rooms hear       *)
(* (chat_repository.go, chat_ws.go, hub.go).                                  *)
ChatAgrees ==
    /\ part = "opening" => Opening!ChatTypeOK /\ Opening!ConversationsAgree
    /\ part = "talking" => Talking!ChatTypeOK /\ Talking!ConversationsAgree
    /\ part = "hearing" => Hearing!ChatTypeOK /\ Hearing!ConversationsAgree /\ Hearing!RoomsHear

(* What Catalog promises: the ratings of products and merchants are those of  *)
(* their visible reviews, and those who saved a product are told when it is   *)
(* back (review_service.go, wishlist_service.go).                             *)
CatalogAgrees ==
    /\ part = "reviews" => Judged!CatalogTypeOK /\ Judged!RatingsAgree
    /\ part = "wishlist" => Watched!CatalogTypeOK /\ Watched!SaversAreTold

(* What Resources promises: no file is removed that a row uses, and views,    *)
(* ratings and notices are counted once (resource_handler.go).                *)
ResourcesAgree ==
    /\ part = "files" => Filed!ResourceTypeOK /\ Filed!TrashAgrees
    /\ part = "moderation" => Reviewed!ResourceTypeOK /\ Reviewed!TrashAgrees /\ Reviewed!SignalsAgree
    /\ part = "signals" => Counted!ResourceTypeOK /\ Counted!TrashAgrees /\ Counted!SignalsAgree

(* What SchemaMigration promises: whatever fails on the way, a recorded step  *)
(* has done its work, but for the statements whose error it ignored           *)
(* (connection.go).                                                           *)
MigrationsAgree ==
    /\ part = "upgrade" => Upgrade!MigrationTypeOK /\ Upgrade!MigrationsAgree
    /\ part = "merge" => Merge!MigrationTypeOK /\ Merge!MigrationsAgree



(* "refuses to remove the last remaining owner, so a club can never end up    *)
(* with zero owners" (club_manage_handler.go:227-228): Clubs!OwnersRemain.    *)
OwnersRemain == Club!OwnersRemain
=============================================================================
