-------------------------------- MODULE Chat --------------------------------
(***************************************************************************)
(* Conversations, their messages and the sockets that hear of them         *)
(* (chat_repository.go, chat_handler.go, websocket/hub.go, chat_ws.go).    *)
(*                                                                         *)
(* Messages are numbered by their created_at, which the process stamps     *)
(* before the INSERT.  A request is a worker between two of its statements.*)
(***************************************************************************)
EXTENDS Naturals, Sequences, FiniteSets

CONSTANTS
    Users,
    Conversations,  \* bound: rows there are names for
    MaxMessages,    \* bound: messages sent
    Sockets,        \* connections, each used once
    SendBuffer,     \* capacity of a client's Send channel; 256 in the code
    Workers,        \* requests under way
    None

VARIABLES
    conversation,   \* row of each conversation, None while the name is free
    message,        \* row of each message
    hidden,         \* user_deleted_messages
    aged,           \* those of them older than the retention period
    client,         \* the hub's view of each socket, and what it was told
    worker,
    doubled,        \* history: pairs that opened a conversation while another was opened
    raced           \* history: conversations two writes of which overlapped

chatVars == <<conversation, message, hidden, aged, client, worker, doubled, raced>>

Ids == 1..MaxMessages
Idle == [step |-> "idle"]
Statuses == {"pending", "accepted", "blocked", "archived"}
Event == [kind : {"new", "edited", "deleted", "typing"}, message : Ids \cup {None}]

Conversation == [between : SUBSET Users, status : Statuses, initiator : Users, live : BOOLEAN,
                 last : Ids \cup {None}, edited : BOOLEAN]
Message == [in : Conversations, sender : Users, edited : BOOLEAN, read : BOOLEAN]
Client == [user : Users, in : Conversations, state : {"on", "deaf", "off"}, queue : Seq(Event), told : SUBSET Event,
           missed : BOOLEAN, since : SUBSET Ids]

ChatTypeOK ==
    /\ conversation \in [Conversations -> Conversation \cup {None}]
    /\ message \in [Ids -> Message \cup {None}]
    /\ hidden \subseteq Users \X Ids /\ aged \subseteq hidden
    /\ client \in [Sockets -> Client \cup {None}]
    /\ \A k \in Sockets : client[k] # None => Len(client[k].queue) <= SendBuffer
    /\ worker \in [Workers -> [step : {"idle"}]
                      \cup [step : {"look", "create"}, user : Users, other : Users]
                      \cup [step : {"reopen", "join"}, user : Users, other : Users, in : Conversations]
                      \cup [step : {"send"}, message : Ids, in : Conversations, sender : Users]
                      \cup [step : {"edit"}, message : Ids, in : Conversations, room : Conversations, newest : Ids]
                      \cup [step : {"tell"}, event : Event, in : Conversations]]
    /\ doubled \subseteq SUBSET Users /\ raced \subseteq Conversations

\* Everything but the conversations at the start.
Quiet ==
    /\ message = [i \in Ids |-> None]
    /\ hidden = {} /\ aged = {}
    /\ client = [k \in Sockets |-> None]
    /\ worker = [w \in Workers |-> Idle]
    /\ doubled = {} /\ raced = {}

ChatInit == Quiet /\ conversation = [c \in Conversations |-> None]

-----------------------------------------------------------------------------
(* Conversations *)

Of(u, v) == {c \in Conversations : conversation[c] # None /\ {u, v} \subseteq conversation[c].between}
LiveOf(u, v) == {c \in Of(u, v) : conversation[c].live}

\* A request for a conversation that is there returns it and changes nothing.
StartOpen(w, u, v) ==
    /\ worker[w] = Idle /\ LiveOf(u, v) = {}
    /\ worker' = [worker EXCEPT ![w] = [step |-> "look", user |-> u, other |-> v]]
    /\ doubled' = doubled \cup {pair \in SUBSET Users : \E x \in Workers :
                        /\ worker[x].step \in {"look", "reopen", "create", "join"}
                        /\ LET other == {worker[x].user, worker[x].other}
                           IN  pair \in {other, {u, v}} /\ (other \subseteq {u, v} \/ {u, v} \subseteq other)}
    /\ UNCHANGED <<conversation, message, hidden, aged, client, raced>>

LookForDeleted(w) ==
    /\ worker[w].step = "look"
    /\ LET u == worker[w].user
           v == worker[w].other
           gone == Of(u, v) \ LiveOf(u, v)
       IN  \/ /\ gone = {}
              /\ worker' = [worker EXCEPT ![w] = [step |-> "create", user |-> u, other |-> v]]
           \/ \E c \in gone :
                 worker' = [worker EXCEPT ![w] = [step |-> "reopen", user |-> u, other |-> v, in |-> c]]
    /\ UNCHANGED <<conversation, message, hidden, aged, client, doubled, raced>>

Reopen(w) ==
    /\ worker[w].step = "reopen"
    /\ conversation' = [conversation EXCEPT ![worker[w].in].live = TRUE, ![worker[w].in].status = "accepted"]
    /\ worker' = [worker EXCEPT ![w] = Idle]
    /\ UNCHANGED <<message, hidden, aged, client, doubled, raced>>

CreateConversation(w, c) ==
    /\ worker[w].step = "create" /\ conversation[c] = None
    /\ LET u == worker[w].user
       IN  /\ conversation' = [conversation EXCEPT ![c] = [between |-> {}, status |-> "pending", initiator |-> u,
                                                           live |-> TRUE, last |-> None, edited |-> FALSE]]
           /\ worker' = [worker EXCEPT ![w] = [step |-> "join", user |-> u, other |-> worker[w].other, in |-> c]]
    /\ UNCHANGED <<message, hidden, aged, client, doubled, raced>>

\* The participants have a statement of their own; one with oneself breaks
\* their primary key.
AddParticipants(w) ==
    /\ worker[w].step = "join"
    /\ \/ /\ worker[w].user # worker[w].other
          /\ conversation' = [conversation EXCEPT ![worker[w].in].between = {worker[w].user, worker[w].other}]
       \/ UNCHANGED conversation
    /\ worker' = [worker EXCEPT ![w] = Idle]
    /\ UNCHANGED <<message, hidden, aged, client, doubled, raced>>

SetStatus(c, status) ==
    /\ conversation[c] # None /\ conversation[c].live /\ conversation[c].status # status
    /\ conversation' = [conversation EXCEPT ![c].status = status]
    /\ UNCHANGED <<message, hidden, aged, client, worker, doubled, raced>>
AcceptRequest(c) == SetStatus(c, "accepted")
BlockRequest(c) == SetStatus(c, "blocked")
ArchiveConversation(c) == SetStatus(c, "archived")

MessagesOf(c) == {i \in Ids : message[i] # None /\ message[i].in = c}

\* All of its messages are hidden from the user; the row is deleted for both.
DeleteConversation(c, u) ==
    /\ conversation[c] # None
    /\ hidden' = hidden \cup ({u} \X MessagesOf(c))
    /\ conversation' = [conversation EXCEPT ![c].live = FALSE]
    /\ UNCHANGED <<message, aged, client, worker, doubled, raced>>

Listed(u) == {c \in Conversations : conversation[c] # None /\ conversation[c].live /\ u \in conversation[c].between
                                    /\ conversation[c].status \notin {"blocked", "archived"}}
PendingFor(u) == {c \in Listed(u) : conversation[c].status = "pending" /\ conversation[c].initiator # u}
Visible(c, u) == {i \in MessagesOf(c) : <<u, i>> \notin hidden}

-----------------------------------------------------------------------------
(* Messages *)

NewestOf(S) == CHOOSE i \in S : \A j \in S : j <= i

Writers(c) == {w \in Workers : worker[w].step \in {"send", "edit"} /\ worker[w].in = c}
Overlapping(c) == IF Writers(c) # {} THEN raced \cup {c} ELSE raced

Stamped == {i \in Ids : message[i] # None \/ \E w \in Workers : worker[w].step = "send" /\ worker[w].message = i}

StartSend(w, u, c) ==
    /\ worker[w] = Idle /\ conversation[c] # None
    /\ LET next == IF Stamped = {} THEN 1 ELSE NewestOf(Stamped) + 1
       IN  /\ next \in Ids
           /\ worker' = [worker EXCEPT ![w] = [step |-> "send", message |-> next, in |-> c, sender |-> u]]
    /\ raced' = Overlapping(c)
    /\ UNCHANGED <<conversation, message, hidden, aged, client, doubled>>

SendMessage(w) ==
    /\ worker[w].step = "send"
    /\ LET i == worker[w].message
           c == worker[w].in
       IN  /\ message' = [message EXCEPT ![i] = [in |-> c, sender |-> worker[w].sender, edited |-> FALSE, read |-> FALSE]]
           /\ conversation' = IF conversation[c].live
                              THEN [conversation EXCEPT ![c].last = i, ![c].edited = FALSE] ELSE conversation
           /\ raced' = IF conversation[c].live THEN raced ELSE raced \cup {c}
           /\ worker' = [worker EXCEPT ![w] = [step |-> "tell", in |-> c, event |-> [kind |-> "new", message |-> i]]]
    /\ UNCHANGED <<hidden, aged, client, doubled>>

\* The transaction fails.
TransactionFails(w) ==
    /\ worker[w].step \in {"send", "edit"}
    /\ worker' = [worker EXCEPT ![w] = Idle]
    /\ UNCHANGED <<conversation, message, hidden, aged, client, doubled, raced>>

\* The transaction has read which message is the newest.  The room told is
\* the one the request names, which is not looked up.
StartUpdate(w, i, room) ==
    /\ worker[w] = Idle /\ message[i] # None /\ ~message[i].edited
    /\ worker' = [worker EXCEPT ![w] = [step |-> "edit", message |-> i, in |-> message[i].in, room |-> room,
                                        newest |-> NewestOf(MessagesOf(message[i].in))]]
    /\ raced' = Overlapping(message[i].in)
    /\ UNCHANGED <<conversation, message, hidden, aged, client, doubled>>

UpdateMessage(w) ==
    /\ worker[w].step = "edit"
    /\ LET i == worker[w].message
           c == worker[w].in
       IN  /\ message' = [message EXCEPT ![i].edited = TRUE]
           /\ conversation' = IF worker[w].newest = i /\ conversation[c].live
                              THEN [conversation EXCEPT ![c].edited = TRUE] ELSE conversation
           /\ raced' = IF conversation[c].live THEN raced ELSE raced \cup {c}
           /\ worker' = [worker EXCEPT ![w] = [step |-> "tell", in |-> worker[w].room, event |-> [kind |-> "edited", message |-> i]]]
    /\ UNCHANGED <<hidden, aged, client, doubled>>

\* The columns DeleteMessage loads: the sender is none of them.
Loaded(i) == [in |-> message[i].in, sender |-> None]

\* The preview the deleting sender gets: the newest message it still sees.
Preview(c, u, i) ==
    LET left == Visible(c, u) \ {i}
    IN  IF left = {} THEN [conversation EXCEPT ![c].last = None]
        ELSE [conversation EXCEPT ![c].last = NewestOf(left), ![c].edited = message[NewestOf(left)].edited]

DeleteMessage(w, u, i, room) ==
    /\ worker[w] = Idle /\ message[i] # None
    /\ hidden' = hidden \cup {<<u, i>>}
    /\ conversation' = IF Loaded(i).sender = u THEN Preview(message[i].in, u, i) ELSE conversation
    /\ worker' = [worker EXCEPT ![w] = [step |-> "tell", in |-> room, event |-> [kind |-> "deleted", message |-> i]]]
    /\ UNCHANGED <<message, aged, client, doubled, raced>>

MarkAsRead(c, u) ==
    /\ \E i \in MessagesOf(c) : message[i].sender # u /\ ~message[i].read
    /\ message' = [i \in Ids |-> IF i \in MessagesOf(c) /\ message[i].sender # u
                                 THEN [message[i] EXCEPT !.read = TRUE] ELSE message[i]]
    /\ UNCHANGED <<conversation, hidden, aged, client, worker, doubled, raced>>

Age(u, i) ==
    /\ <<u, i>> \in hidden \ aged
    /\ aged' = aged \cup {<<u, i>>}
    /\ UNCHANGED <<conversation, message, hidden, client, worker, doubled, raced>>

\* The query for conversations deleted long ago names no table and finds none.
CleanupDeletedMessages ==
    /\ aged # {}
    /\ hidden' = hidden \ aged
    /\ aged' = {}
    /\ UNCHANGED <<conversation, message, client, worker, doubled, raced>>

-----------------------------------------------------------------------------
(* Sockets *)

\* Mutant: the first client that leaves deletes the room.
FullRoom(c, sender) ==
    {k \in Sockets : /\ client[k] # None /\ client[k].state # "off" /\ client[k].in = c /\ k # sender
                     /\ ~\E j \in Sockets : client[j] # None /\ client[j].state = "off" /\ client[j].in = c}
\* The clients of a room, but the one that sends.
Room(c, sender) ==
    {k \in Sockets : client[k] # None /\ client[k].state # "off" /\ client[k].in = c /\ k # sender}

\* A full channel drops the event.
Queued(k, event) ==
    IF Len(client[k].queue) < SendBuffer
    THEN [client[k] EXCEPT !.queue = Append(@, event)] ELSE [client[k] EXCEPT !.missed = TRUE]
Broadcast(c, event, sender) ==
    client' = [k \in Sockets |-> IF k \in Room(c, sender) THEN Queued(k, event) ELSE client[k]]

Register(k, u, c) ==
    /\ client[k] = None /\ conversation[c] # None
    /\ client' = [client EXCEPT ![k] = [user |-> u, in |-> c, state |-> "on", queue |-> <<>>, told |-> {}, missed |-> FALSE,
                                        since |-> {i \in Ids : message[i] # None}]]
    /\ UNCHANGED <<conversation, message, hidden, aged, worker, doubled, raced>>

\* What a request tells the room once its transaction has committed.
Tell(w) ==
    /\ worker[w].step = "tell"
    /\ Broadcast(worker[w].in, worker[w].event, None)
    /\ worker' = [worker EXCEPT ![w] = Idle]
    /\ UNCHANGED <<conversation, message, hidden, aged, doubled, raced>>

\* typing, mark_read and delivered change no row.
ReadPump(k) ==
    /\ client[k] # None /\ client[k].state = "on"
    /\ Broadcast(client[k].in, [kind |-> "typing", message |-> None], k)
    /\ UNCHANGED <<conversation, message, hidden, aged, worker, doubled, raced>>

WritePump(k) ==
    /\ client[k] # None /\ client[k].state = "on" /\ client[k].queue # <<>>
    /\ client' = [client EXCEPT ![k].queue = Tail(@), ![k].told = @ \cup {Head(client[k].queue)}]
    /\ UNCHANGED <<conversation, message, hidden, aged, worker, doubled, raced>>

\* The write fails and the connection is closed: the reader finds out later.
WriteFails(k) ==
    /\ client[k] # None /\ client[k].state = "on"
    /\ client' = [client EXCEPT ![k].state = "deaf"]
    /\ UNCHANGED <<conversation, message, hidden, aged, worker, doubled, raced>>

Unregister(k) ==
    /\ client[k] # None /\ client[k].state # "off"
    /\ client' = [client EXCEPT ![k].state = "off", ![k].queue = <<>>]
    /\ UNCHANGED <<conversation, message, hidden, aged, worker, doubled, raced>>

\* The process ends: requests and connections are gone, the rows stay.
Crash ==
    /\ \E w \in Workers : worker[w] # Idle
    /\ worker' = [w \in Workers |-> Idle]
    /\ client' = [k \in Sockets |-> IF client[k] = None THEN None ELSE [client[k] EXCEPT !.state = "off", !.queue = <<>>]]
    /\ UNCHANGED <<conversation, message, hidden, aged, doubled, raced>>

-----------------------------------------------------------------------------
RowStep ==
    \/ \E w \in Workers, u, v \in Users : StartOpen(w, u, v)
    \/ \E w \in Workers : LookForDeleted(w) \/ Reopen(w) \/ AddParticipants(w)
    \/ \E w \in Workers, c \in Conversations : CreateConversation(w, c)
    \/ \E c \in Conversations : AcceptRequest(c) \/ BlockRequest(c) \/ ArchiveConversation(c)
    \/ \E c \in Conversations, u \in Users : DeleteConversation(c, u) \/ MarkAsRead(c, u)
    \/ \E w \in Workers, u \in Users, c \in Conversations : StartSend(w, u, c)
    \/ \E w \in Workers : SendMessage(w) \/ TransactionFails(w) \/ UpdateMessage(w) \/ Tell(w)
    \/ \E w \in Workers, i \in Ids, room \in Conversations :
           StartUpdate(w, i, room) \/ \E u \in Users : DeleteMessage(w, u, i, room)
    \/ \E u \in Users, i \in Ids : Age(u, i)
    \/ CleanupDeletedMessages \/ Crash

SocketStep ==
    \/ \E k \in Sockets, u \in Users, c \in Conversations : Register(k, u, c)
    \/ \E k \in Sockets : ReadPump(k) \/ WritePump(k) \/ WriteFails(k) \/ Unregister(k)

ChatNext == RowStep \/ SocketStep
ChatSpec == ChatInit /\ [][ChatNext]_chatVars

-----------------------------------------------------------------------------
(* Properties *)

(* GetOrCreateConversation looks "for existing conversation where both users  *)
(* are participants" (chat_repository.go:73): two users share one live        *)
(* conversation unless both opened one at the same time; the preview of a     *)
(* conversation is its newest message in its present wording unless the       *)
(* sender deleted that, two writes overlapped or one came after the           *)
(* conversation was deleted; and one of the two is asked to accept it.        *)
ConversationsAgree ==
    /\ \A u, v \in Users : u # v /\ {u, v} \notin doubled => Cardinality(LiveOf(u, v)) <= 1
    /\ \A c \in Conversations \ raced :
        conversation[c] # None /\ MessagesOf(c) # {} =>
            LET i == NewestOf(MessagesOf(c))
            IN  \/ conversation[c].last = i /\ conversation[c].edited = message[i].edited
                \/ <<message[i].sender, i>> \in hidden
    /\ \A c \in Conversations :
        conversation[c] # None /\ conversation[c].live /\ conversation[c].status = "pending" /\ conversation[c].between # {} =>
            Cardinality({u \in Users : c \in PendingFor(u)}) = 1

(* BroadcastNewMessage "sends a new message event to all clients in a         *)
(* conversation" (chat_ws.go:136), the sender's other devices included: a     *)
(* client that is connected and whose channel was never full has been told    *)
(* of, or has queued, every message committed since it connected, once the    *)
(* request that sent it is done; no client is told of a new message of        *)
(* another conversation, or of the edit or deletion of one that was never     *)
(* committed.  An edit or a deletion is told to the room the request names    *)
(* (chat_handler.go:168, 239), whether or not the message is there.           *)
RoomsHear ==
    \A k \in Sockets : client[k] # None =>
        LET heard == client[k].told \cup {client[k].queue[j] : j \in DOMAIN client[k].queue}
            due == {i \in MessagesOf(client[k].in) \ client[k].since :
                        \A w \in Workers : worker[w].step = "tell" => worker[w].event # [kind |-> "new", message |-> i]}
        IN  /\ client[k].state = "on" /\ ~client[k].missed => \A i \in due : [kind |-> "new", message |-> i] \in heard
            /\ \A e \in heard :
                  /\ e.kind = "new" => e.message \in MessagesOf(client[k].in)
                  /\ e.message # None => message[e.message] # None

(* "Recompute last message only if the deleting user was the sender"          *)
(* (chat_repository.go:272): when a sender deletes its own message, the       *)
(* preview no longer shows it.                                                *)
PreviewRecomputed ==
    [][\A w \in Workers, u \in Users, i \in Ids, room \in Conversations :
         DeleteMessage(w, u, i, room) /\ message[i].sender = u => conversation'[message[i].in].last # i]_chatVars
=============================================================================
