------------------------------ MODULE Community ------------------------------
(***************************************************************************)
(* What users write under and about: one community post, or one notice of  *)
(* a department, with its likes, its views, its comments and their likes.  *)
(* Each count stands on the row beside the table it counts and changes in  *)
(* the transaction that changes the table.  A post is served by its own    *)
(* repository, which does not look whether a like was there to remove; a   *)
(* notice is created, edited and deleted through the generic handler,      *)
(* which saves the whole row.                                              *)
(***************************************************************************)
EXTENDS Integers, FiniteSets

CONSTANTS
    Users,
    Comments,   \* the ids of the comments
    Requests,   \* requests under way at once
    None,       \* no such row yet
    Gone        \* a row hard-deleted: its id is not used again

VARIABLES
    kind,          \* what it is: a post or a notice
    row,           \* its row
    likers,        \* community_post_likes, notice_likes
    readers,       \* notice_reads
    comment,       \* the comments' rows
    commentLikers, \* community_comment_likes
    job,           \* what a request has read
    spurious,      \* history: decrements for which nothing was removed
    overwritten    \* history: rows saved over a later change, counts missed in the Trash

threadVars == <<kind, row, likers, readers, comment, commentLikers, job, spurious, overwritten>>

Row == [content : {"first", "edited"}, likes : Int, comments : Int, views : Nat, deleted : BOOLEAN]
Comment == [parent : Comments \cup {None}, likes : Int, deleted : BOOLEAN]
Job ==
    [op : {"edit"}, row : Row] \cup [op : {"rewrite", "drop"}, of : Comments, row : Comment]

CommunityTypeOK ==
    /\ kind \in {"post", "notice"} /\ row \in Row \cup {None, Gone}
    /\ likers \subseteq Users /\ readers \subseteq Users
    /\ comment \in [Comments -> Comment \cup {None, Gone}]
    /\ commentLikers \in [Comments -> SUBSET Users]
    /\ job \in [Requests -> Job \cup {None}]
    /\ spurious.likes \in Nat /\ spurious.comments \in Nat /\ spurious.of \in [Comments -> Nat]
    /\ overwritten \subseteq Comments \cup {"row", "trash"}

CommunityInit ==
    /\ kind \in {"post", "notice"} /\ row = None
    /\ likers = {} /\ readers = {}
    /\ comment = [c \in Comments |-> None] /\ commentLikers = [c \in Comments |-> {}]
    /\ job = [w \in Requests |-> None]
    /\ spurious = [likes |-> 0, comments |-> 0, of |-> [c \in Comments |-> 0]]
    /\ overwritten = {}

Exists == row \in Row
Live == Exists /\ ~row.deleted
Written(c) == comment[c] \in Comment
LiveComment(c) == Written(c) /\ ~comment[c].deleted
LiveComments == {c \in Comments : LiveComment(c)}
Open(w, j) == job[w] = None /\ job' = [job EXCEPT ![w] = j]
Close(w) == job' = [job EXCEPT ![w] = None]
Marked(mark, happened) == overwritten' = IF happened THEN overwritten \cup {mark} ELSE overwritten

\* An increment in SQL reaches the row unless it is deleted.
Counted(field, by) == row' = IF Live THEN [row EXCEPT ![field] = @ + by] ELSE row
\* The same, never below zero.
CountedDown(field) == row' = IF Live /\ row[field] > 0 THEN [row EXCEPT ![field] = @ - 1] ELSE row
InTrash == Marked("trash", Exists /\ row.deleted)

\* The tree a reader gets: a reply under a deleted comment is not in it.
GetCommentsByPostID ==
    LET shown[c \in Comments] == LiveComment(c) /\ (comment[c].parent = None \/ shown[comment[c].parent])
    IN  {c \in Comments : shown[c]}
IsPostLikedByUser(u) == u \in likers

-----------------------------------------------------------------------------
(* The row *)

rowFrame == UNCHANGED <<kind, likers, readers, comment, commentLikers, spurious>>

Create ==
    /\ row = None
    /\ row' = [content |-> "first", likes |-> 0, comments |-> 0, views |-> 0, deleted |-> FALSE]
    /\ UNCHANGED <<job, overwritten>> /\ rowFrame
CreatePost == kind = "post" /\ Create
CreateNotice == kind = "notice" /\ Create

\* A handler loads the row, for its author or to bind the body onto it.
GetByID(w) == Live /\ Open(w, [op |-> "edit", row |-> row]) /\ UNCHANGED <<row, overwritten>> /\ rowFrame

\* Mutant: an edit writes the row it has read.
WholeRow(now, read) == [read EXCEPT !.content = "edited"]
\* A post's edit is a statement on its content.
Edited(now, read) == [now EXCEPT !.content = "edited"]
UpdatePost(w) ==
    /\ kind = "post" /\ job[w] # None /\ job[w].op = "edit"
    /\ row' = IF Live THEN Edited(row, job[w].row) ELSE row
    /\ Close(w) /\ UNCHANGED overwritten /\ rowFrame

\* A notice's saves the row that was read, and inserts it again when no
\* live row has its id.
Update(w) ==
    /\ kind = "notice" /\ job[w] # None /\ job[w].op = "edit"
    /\ row' = [job[w].row EXCEPT !.content = "edited", !.deleted = FALSE]
    /\ Marked("row", row # job[w].row)
    /\ Close(w) /\ rowFrame

\* A post goes for good and takes its comments with it; likes stay.
DeletePost ==
    /\ kind = "post" /\ Exists
    /\ row' = Gone
    /\ comment' = [c \in Comments |-> IF Written(c) THEN Gone ELSE comment[c]]
    /\ UNCHANGED <<kind, likers, readers, commentLikers, job, spurious, overwritten>>

Delete == kind = "notice" /\ Live /\ row' = [row EXCEPT !.deleted = TRUE] /\ UNCHANGED <<job, overwritten>> /\ rowFrame
HardDelete == kind = "notice" /\ Exists /\ row' = Gone /\ UNCHANGED <<job, overwritten>> /\ rowFrame
Restore == kind = "notice" /\ Exists /\ row.deleted /\ row' = [row EXCEPT !.deleted = FALSE] /\ UNCHANGED <<job, overwritten>> /\ rowFrame

-----------------------------------------------------------------------------
(* Likes and views *)

likeFrame == row # None /\ UNCHANGED <<kind, comment, commentLikers, job>>

\* A second like is refused by the primary key, and its transaction with it.
LikePost(u) ==
    /\ kind = "post" /\ u \notin likers
    /\ likers' = likers \cup {u}
    /\ Counted("likes", 1)
    /\ UNCHANGED <<readers, spurious, overwritten>> /\ likeFrame

\* The count falls whether or not there was a like.
UnlikePost(u) ==
    /\ kind = "post"
    /\ likers' = likers \ {u}
    /\ Counted("likes", -1)
    /\ spurious' = IF u \notin likers /\ Live THEN [spurious EXCEPT !.likes = @ + 1] ELSE spurious
    /\ UNCHANGED <<readers, overwritten>> /\ likeFrame

\* The count of a notice follows the rows the statement touched.
LikeNotice(u) ==
    /\ kind = "notice" /\ u \notin likers
    /\ likers' = likers \cup {u}
    /\ Counted("likes", 1)
    /\ InTrash
    /\ UNCHANGED <<readers, spurious>> /\ likeFrame

UnlikeNotice(u) ==
    /\ kind = "notice" /\ u \in likers
    /\ likers' = likers \ {u}
    /\ CountedDown("likes")
    /\ InTrash
    /\ UNCHANGED <<readers, spurious>> /\ likeFrame

ViewNotice(u) ==
    /\ kind = "notice" /\ u \notin readers
    /\ readers' = readers \cup {u}
    /\ Counted("views", 1)
    /\ InTrash
    /\ UNCHANGED <<likers, spurious>> /\ likeFrame

-----------------------------------------------------------------------------
(* Comments *)

commentFrame == UNCHANGED <<kind, likers, readers>>

\* Nobody looks whether the row still exists: there are no foreign keys.
CreateComment(c, parent) ==
    /\ comment[c] = None
    /\ comment' = [comment EXCEPT ![c] = [parent |-> parent, likes |-> 0, deleted |-> FALSE]]
    /\ Counted("comments", 1)
    /\ InTrash
    /\ UNCHANGED <<commentLikers, job, spurious>> /\ commentFrame

\* A comment on a post may answer another one.
AddComment(c) == kind = "post" /\ row # None /\ \E parent \in LiveComments \cup {None} : CreateComment(c, parent)
AddNoticeComment(c) == kind = "notice" /\ row # None /\ CreateComment(c, None)

\* A comment is deleted, and rewritten, by its author, who may ask twice:
\* both requests find it live before their statements.
GetCommentByID(w, c, op) ==
    /\ LiveComment(c)
    /\ Open(w, [op |-> op, of |-> c, row |-> comment[c]])
    /\ UNCHANGED <<row, comment, commentLikers, spurious, overwritten>> /\ commentFrame

\* The soft delete touches no row that is deleted already; the count falls.
Drop(w) ==
    LET c == job[w].of
        twice == ~LiveComment(c)
    IN  /\ job[w] # None /\ job[w].op = "drop"
        /\ comment' = IF twice THEN comment ELSE [comment EXCEPT ![c].deleted = TRUE]
        /\ spurious' = IF twice /\ Live THEN [spurious EXCEPT !.comments = @ + 1] ELSE spurious
        /\ InTrash
        /\ Close(w) /\ UNCHANGED commentLikers /\ commentFrame

DeleteComment(w) == kind = "post" /\ Drop(w) /\ Counted("comments", -1)
DeleteNoticeComment(w) == kind = "notice" /\ Drop(w) /\ CountedDown("comments")

\* Save writes every column that was read, the likes with the text, and
\* inserts the comment again when no live row has its id.
UpdateComment(w) ==
    LET c == job[w].of
    IN  /\ kind = "post" /\ job[w] # None /\ job[w].op = "rewrite"
        /\ comment' = [comment EXCEPT ![c] = [job[w].row EXCEPT !.deleted = FALSE]]
        /\ Marked(c, comment[c] # job[w].row)
        /\ Close(w) /\ UNCHANGED <<row, commentLikers, spurious>> /\ commentFrame

LikeComment(u, c) ==
    /\ kind = "post" /\ Written(c) /\ u \notin commentLikers[c]
    /\ commentLikers' = [commentLikers EXCEPT ![c] = @ \cup {u}]
    /\ comment' = IF LiveComment(c) THEN [comment EXCEPT ![c].likes = @ + 1] ELSE comment
    /\ UNCHANGED <<row, job, spurious, overwritten>> /\ commentFrame

UnlikeComment(u, c) ==
    /\ kind = "post" /\ Written(c)
    /\ commentLikers' = [commentLikers EXCEPT ![c] = @ \ {u}]
    /\ comment' = IF LiveComment(c) THEN [comment EXCEPT ![c].likes = @ - 1] ELSE comment
    /\ spurious' = IF LiveComment(c) /\ u \notin commentLikers[c] THEN [spurious EXCEPT !.of[c] = @ + 1] ELSE spurious
    /\ UNCHANGED <<row, job, overwritten>> /\ commentFrame

-----------------------------------------------------------------------------

GenericStep == CreateNotice \/ (\E w \in Requests : Update(w)) \/ Delete \/ HardDelete \/ Restore
PostStep == CreatePost \/ DeletePost \/ \E w \in Requests : GetByID(w) \/ UpdatePost(w)
LikeStep ==
    \E u \in Users :
        \/ LikePost(u) \/ UnlikePost(u)
        \/ LikeNotice(u) \/ UnlikeNotice(u) \/ ViewNotice(u)
CommentStep ==
    \E c \in Comments :
        \/ AddComment(c) \/ AddNoticeComment(c)
        \/ \E u \in Users : LikeComment(u, c) \/ UnlikeComment(u, c)
        \/ \E w \in Requests : GetCommentByID(w, c, "drop") \/ (kind = "post" /\ GetCommentByID(w, c, "rewrite"))
CommentWrite == \E w \in Requests : DeleteComment(w) \/ DeleteNoticeComment(w) \/ UpdateComment(w)

CommunityNext == GenericStep \/ PostStep \/ LikeStep \/ CommentStep \/ CommentWrite
CommunitySpec == CommunityInit /\ [][CommunityNext]_threadVars

-----------------------------------------------------------------------------
(* Properties *)

\* A post's count of likes is short by exactly the unlikes that removed no
\* like, and its count of comments by the deletes that came second.
PostCountsAgree ==
    kind = "post" /\ Exists /\ overwritten = {} =>
        /\ row.likes = Cardinality(likers) - spurious.likes
        /\ row.comments = Cardinality(LiveComments) - spurious.comments
        /\ \A c \in LiveComments : comment[c].likes = Cardinality(commentLikers[c]) - spurious.of[c]

\* A notice's likes and views are counted once per user, whatever the order
\* of likes and unlikes, and its comments lose at most the second deletes.
NoticeCountsAgree ==
    kind = "notice" /\ Exists /\ overwritten = {} =>
        /\ row.likes = Cardinality(likers) /\ row.views = Cardinality(readers)
        /\ row.comments \in 0..Cardinality(LiveComments)
        /\ row.comments >= Cardinality(LiveComments) - spurious.comments

\* What stands on a row is what its tables hold, but for the overlaps named:
\* no order of edits, likes and deletes of posts loses any other change.
ThreadsAgree == PostCountsAgree /\ NoticeCountsAgree
=============================================================================
