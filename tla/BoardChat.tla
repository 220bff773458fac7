----------------------------- MODULE BoardChat ------------------------------
(* The chat of a board page: the messages the server holds, its stream of   *)
(* them, and the page that shows, counts and announces them while its user  *)
(* writes messages too.                                                     *)
(*                                                                          *)
(* A message is named by the time it is stamped with when the server starts *)
(* to store it; it is committed later, and only then can be read. The       *)
(* stream polls: it sends what is stamped at its cursor or later, so the    *)
(* newest message again at every poll. The page's refs follow its state one *)
(* effect later (SyncRef).                                                  *)
EXTENDS LinkContract, Integers, FiniteSets, Sequences, SequencesExt

CONSTANTS
    MaxMsgs,        \* bound: messages ever written
    MaxDrops        \* bound: connections lost or let go

Msg == 1 .. MaxMsgs

\* A request that has not been sent, or not stamped by the server yet.
Idle == 0
Sending == -1

VARIABLES
    author,     \* who wrote each message ("me": this page's display name), or "nobody"
    stored,     \* the messages committed in board_memory
    post,       \* this page's request: Idle, Sending, or its message
    cursor,     \* last_seen of the server's generator
    wire,       \* messages the open stream has sent and the page has not read
    chat,       \* chatMessages
    ref,        \* the ids in chatMessagesRef
    local,      \* locallySentChatIdsRef
    notified,   \* notifiedChatIdsRef
    toasts,     \* toasts[m]: how often m was announced
    open,       \* isChatOpen
    unread,     \* unreadChatCount
    read,       \* ghost: shown while the chat was open, or with the page
    drops

server == <<author, stored, post>>
stream == <<cursor, wire>>
page == <<chat, ref, local, notified, toasts, open, unread, read>>
chatVars == <<visible, link, author, stored, post, cursor, wire, chat, ref, local,
              notified, toasts, open, unread, read, drops>>

\* The time the server would stamp a new message with.
Now == Cardinality({m \in Msg : author[m] # "nobody"}) + 1

Latest(ms) == CHOOSE m \in ms : \A x \in ms : x <= m
Shown == ToSet(chat)

TypeOK ==
    /\ visible \in BOOLEAN /\ link \in {"up", "down"}
    /\ author \in [Msg -> {"me", "other", "nobody"}]
    /\ stored \in SUBSET Msg
    /\ post \in {Idle, Sending} \union Msg
    /\ cursor \in 1 .. MaxMsgs + 1
    /\ wire \in SUBSET Msg /\ chat \in Seq(Msg)
    /\ ref \in SUBSET Msg /\ local \in SUBSET Msg /\ notified \in SUBSET Msg
    /\ toasts \in [Msg -> Nat]
    /\ open \in BOOLEAN /\ unread \in Nat /\ read \in SUBSET Msg
    /\ drops \in 0 .. MaxDrops

\* The page has loaded the board's snapshot, with or without a message in it.
Init ==
    /\ LinkInit
    /\ \E old \in SUBSET (Msg \intersect {1}) :
          /\ author = [m \in Msg |-> IF m \in old THEN "other" ELSE "nobody"]
          /\ stored = old /\ read = old /\ ref = old
          /\ chat = SetToSeq(old)
    /\ post = Idle /\ cursor = 1 /\ wire = {}
    /\ local = {} /\ notified = {} /\ toasts = [m \in Msg |-> 0]
    /\ open = FALSE /\ unread = 0
    /\ drops = 0

(* ------------------------------ the server ------------------------------ *)

\* Somebody else's message is stamped; Commit stores it.
Write ==
    /\ Now \in Msg
    /\ author' = [author EXCEPT ![Now] = "other"]
    /\ UNCHANGED <<stored, post>>
    /\ UNCHANGED <<linkVars, stream, page, drops>>

\* So is the message of this page's request.
Receive ==
    /\ post = Sending /\ Now \in Msg
    /\ author' = [author EXCEPT ![Now] = "me"]
    /\ post' = Now
    /\ UNCHANGED stored
    /\ UNCHANGED <<linkVars, stream, page, drops>>

\* The transaction ends. The handler goes on to tell the board's agents, which
\* takes a while, before it answers.
Commit(m) ==
    /\ author[m] # "nobody" /\ m \notin stored
    /\ stored' = stored \union {m}
    /\ UNCHANGED <<author, post>>
    /\ UNCHANGED <<linkVars, stream, page, drops>>

\* What a poll reads: created_at >= last_seen.
Rows == {m \in stored : m >= cursor}

\* One round of the generator, after the page has read the last one: the rows, oldest
\* first. With nothing new it sends the newest row again.
Emit ==
    /\ link = "up" /\ wire = {} /\ Rows # {}
    /\ wire' = Rows
    /\ cursor' = Latest(Rows)
    /\ UNCHANGED <<linkVars, server, page, drops>>

(* -------------------------------- the page ------------------------------ *)

\* Mutant: a reconnect asks for what is new from now on.
Since_Now == Now

\* since = latestChatTimestamp(chatMessagesRef.current), or now when it is empty.
Since == IF ref = {} THEN Now ELSE Latest(ref)

Connect ==
    /\ LinkUp
    /\ cursor' = Since /\ wire' = {}
    /\ UNCHANGED <<server, page, drops>>

\* The stream breaks, or the page is hidden: what was on the wire is gone, and so is
\* the generator's cursor (Connect sets it again).
Drop ==
    /\ LinkBreak \/ Hide
    /\ drops < MaxDrops /\ drops' = drops + 1
    /\ cursor' = 1 /\ wire' = {}
    /\ UNCHANGED <<server, page>>

Return == Show /\ UNCHANGED <<server, stream, page, drops>>

\* Mutant: in the order of arrival.
Inserted_AtEnd(m) == IF m \in Shown THEN chat ELSE Append(chat, m)

\* sort by created_at: the same messages, the oldest first.
ByTime(s) ==
    CHOOSE t \in [1 .. Len(s) -> ToSet(s)] :
       ToSet(t) = ToSet(s) /\ \A i, j \in 1 .. Len(s) : i < j => t[i] <= t[j]

\* Both callers of setChatMessages: nothing if the id is there, else in order.
Inserted(m) == IF m \in Shown THEN chat ELSE ByTime(Append(chat, m))

\* Mutants: announced again at every poll before the ref has it; one's own message
\* counted when the stream brings it before the response.
Announced_Again(m) == m \notin local /\ author[m] # "me"
Announced_Own(m) == m \notin notified /\ m \notin local

\* notifyIncomingBoardChat: who is told, given the refs.
Announced(m) == m \notin notified /\ m \notin local /\ author[m] # "me"

\* One event of the stream.
Read ==
    /\ \E m \in wire :
          /\ \A later \in wire : m <= later
          /\ wire' = wire \ {m}
          /\ chat' = Inserted(m)
          /\ IF m \in ref THEN UNCHANGED <<notified, toasts, unread>>
             ELSE /\ notified' = notified \union {m}
                  /\ toasts' = [toasts EXCEPT ![m] = IF Announced(m) THEN @ + 1 ELSE @]
                  /\ unread' = IF Announced(m) /\ ~open THEN unread + 1 ELSE unread
          /\ read' = IF open THEN read \union {m} ELSE read
    /\ UNCHANGED <<linkVars, server, cursor, ref, local, open, drops>>

\* The effect that copies chatMessages to its ref.
SyncRef ==
    /\ ref # Shown
    /\ ref' = Shown
    /\ UNCHANGED <<linkVars, server, stream, chat, local, notified, toasts, open,
                   unread, read, drops>>

\* handleSendChat, or handleConfirmAgentsControl, each with one request at a time
\* (here one in all).
Send ==
    /\ post = Idle
    /\ post' = Sending
    /\ UNCHANGED <<linkVars, author, stored, stream, page, drops>>

\* postBoardChatMessage after a response with status 200.
Sent ==
    /\ post \in stored
    /\ local' = local \union {post} /\ notified' = notified \union {post}
    /\ chat' = Inserted(post)
    /\ read' = IF open THEN read \union {post} ELSE read
    /\ post' = Idle
    /\ UNCHANGED <<linkVars, author, stored, stream, ref, toasts, open, unread, drops>>

\* The request fails before it stored anything, or its answer is lost after.
SendFails ==
    /\ post = Sending \/ post \in stored
    /\ post' = Idle
    /\ UNCHANGED <<linkVars, author, stored, stream, page, drops>>

OpenChat ==
    /\ ~open
    /\ open' = TRUE /\ unread' = 0 /\ read' = Shown
    /\ UNCHANGED <<linkVars, server, stream, chat, ref, local, notified, toasts, drops>>

CloseChat ==
    /\ open
    /\ open' = FALSE
    /\ UNCHANGED <<linkVars, server, stream, chat, ref, local, notified, toasts, unread,
                   read, drops>>

Next ==
    \/ Write \/ Receive \/ (\E m \in Msg : Commit(m)) \/ Emit
    \/ Connect \/ Drop \/ Return \/ Read \/ SyncRef
    \/ Send \/ Sent \/ SendFails \/ OpenChat \/ CloseChat

Spec == Init /\ [][Next]_chatVars

\* A connection is retried, the generator polls, events are read, effects run.
Progress == Connect \/ Emit \/ Read \/ SyncRef

(* --------------------------- What must hold ----------------------------- *)

\* A message is announced at most once and one's own never, although the stream
\* sends the newest message again at every poll and after every reconnect, brings
\* one's own message before the answer to the request that posted it, and the ref
\* the page looks it up in lags behind what it shows.
NotifiedOnce ==
    \A m \in Msg : toasts[m] <= (IF author[m] = "me" THEN 0 ELSE 1)

\* The badge is the number of others' messages that arrived while the chat was
\* closed: none twice, none of one's own, none left over from before it was open.
UnreadRight ==
    unread = IF open THEN 0
             ELSE Cardinality({m \in Shown \ read : author[m] = "other"})

\* No message is shown twice, and the order is that of the timestamps, whichever of
\* the stream and the response brings a message first.
InOrder == \A i, j \in 1 .. Len(chat) : i < j => chat[i] < chat[j]

\* A message stamped before one that is already stored.
Late == \E m \in Msg \ stored, n \in stored : author[m] # "nobody" /\ m < n

\* What the cursor protects: transactions end in the order of their stamps, there is
\* a message to take the cursor from, and the page does not post before it connects
\* (its own message would move the cursor past others' it has not seen).
CursorHolds ==
    /\ ~Late /\ chat # <<>>
    /\ \/ \A m \in Msg : author[m] # "me"
       \/ drops = 0 /\ (post # Idle => link = "up")

\* What happens again and again as long as the cursor holds, unless the tab stays
\* hidden: every message has reached the page, through lost connections, hidden tabs
\* and batches cut off in the middle.
CaughtUp == ~visible \/ stored \subseteq Shown
=============================================================================
