---------------------------- MODULE ChatMessaging ----------------------------
(***************************************************************************)
(* Conversations and messages of the chat component.  An application that  *)
(* is HIRED gets one conversation of its candidate and its recruiter;      *)
(* they send, edit and delete messages and mark them read.  A message is   *)
(* identified by the clientMessageId its client chose, so that a send may  *)
(* be repeated over either transport.  What has been stored is announced   *)
(* by an event in memory, and whoever is not online gets a notification.   *)
(*                                                                         *)
(* A handler is a request that moves from one await to the next; two of    *)
(* them may be anywhere between.  Time is a counter that a message's       *)
(* createdAt advances; 0 stands for null.                                  *)
(***************************************************************************)
EXTENDS ChatPresence, Naturals

CONSTANTS
  Apps,                         \* HIRED applications; the status is final
  CandidateOf, RecruiterOf,     \* [Apps -> Users]
  Convs, Msgs,                  \* ids of rows
  Keys,                         \* clientMessageIds
  Requests,                     \* slots for requests in flight
  NoRow,
  MaxTime                       \* bound on the clock

ASSUME ChatAssumption ==
  /\ CandidateOf \in [Apps -> Users] /\ RecruiterOf \in [Apps -> Users]
  /\ \A a \in Apps : CandidateOf[a] # RecruiterOf[a]
  /\ MaxTime \in Nat

VARIABLES
  conversations,                \* [Convs -> row, or NoRow]
  lastReadAt,                   \* [Convs \X Users -> time]: conversation_members
  messages,                     \* [Msgs -> row, or NoRow]
  clock,
  chatReq,                      \* [Requests -> what a handler holds]
  opened, answered,             \* what was answered: <<app, conversation>>,
                                \* <<conversation, key, message>>
  announced, notified           \* messages broadcast; messages notified of

chatVars == <<conversations, lastReadAt, messages, clock, chatReq,
              opened, answered, announced, notified>>
allVars == <<chatVars, presVars>>

Times == 0 .. MaxTime
ConversationRow == [app : Apps, lastMessageAt : Times]
MessageRow == [conv : Convs, sender : Users, key : Keys, createdAt : Times,
               deleted : BOOLEAN]
ASSUME NoChatRowAssumption == NoRow \notin ConversationRow \cup MessageRow

Idle == [pc |-> "idle"]
OpenReq == [pc : {"findConversation", "insertConversation"}, app : Apps]
SendReq == [pc : {"findMessage", "insertMessage"}, sender : Users, conv : Convs,
            key : Keys]
InsertReq == [pc : {"commit"}, msg : Msgs, row : MessageRow]
SentReq == [pc : {"announce"}, msg : Msgs]
ChangeReq == [pc : {"update"}, msg : Msgs, deleted : BOOLEAN]
ReadReq == [pc : {"markRead"}, conv : Convs, user : Users, at : Times]

ChatInit ==
  /\ PresInit
  /\ conversations = [c \in Convs |-> NoRow]
  /\ lastReadAt = [x \in Convs \X Users |-> 0]
  /\ messages = [m \in Msgs |-> NoRow]
  /\ clock = 0
  /\ chatReq = [r \in Requests |-> Idle]
  /\ opened = {} /\ answered = {} /\ announced = {} /\ notified = {}

Open(c) == conversations[c] # NoRow
Sent(m) == messages[m] # NoRow
Members(c) == {CandidateOf[conversations[c].app], RecruiterOf[conversations[c].app]}
OtherParticipant(c, u) == CHOOSE v \in Members(c) : v # u
ConversationsOf(a) == {c \in Convs : Open(c) /\ conversations[c].app = a}
(* findByClientMessageId                                                   *)
WithKey(c, k) == {m \in Msgs : Sent(m) /\ messages[m].conv = c /\ messages[m].key = k}

Go(r, q) == chatReq' = [chatReq EXCEPT ![r] = q]

-----------------------------------------------------------------------------
(* CreateConversationHandler and findOrCreateForApplication                *)

CreateConversation(r, u, a) ==
  /\ chatReq[r] = Idle
  /\ u = RecruiterOf[a]
  /\ Go(r, [pc |-> "findConversation", app |-> a])
  /\ UNCHANGED <<conversations, lastReadAt, messages, clock, opened, answered,
                 announced, notified>>

AnswerConversation(r, c) ==
  /\ opened' = opened \cup {<<chatReq[r].app, c>>}
  /\ Go(r, Idle)
  /\ UNCHANGED <<conversations, lastReadAt, messages, clock, answered, announced,
                 notified>>

FindConversation(r) ==
  /\ chatReq[r].pc = "findConversation"
  /\ IF ConversationsOf(chatReq[r].app) # {}
     THEN \E c \in ConversationsOf(chatReq[r].app) : AnswerConversation(r, c)
     ELSE /\ Go(r, [chatReq[r] EXCEPT !.pc = "insertConversation"])
          /\ UNCHANGED <<conversations, lastReadAt, messages, clock, opened,
                         answered, announced, notified>>

InsertNewConversation(r, c) ==
  /\ ~ Open(c)
  /\ conversations' = [conversations EXCEPT
       ![c] = [app |-> chatReq[r].app, lastMessageAt |-> 0]]
  /\ opened' = opened \cup {<<chatReq[r].app, c>>}
  /\ Go(r, Idle)
  /\ UNCHANGED <<lastReadAt, messages, clock, answered, announced, notified>>

(* The unique index decides; after a P2002 the row that won is looked up,  *)
(* and it does not go away.                                                *)
InsertConversation(r) ==
  /\ chatReq[r].pc = "insertConversation"
  /\ IF ConversationsOf(chatReq[r].app) = {}
     THEN \E c \in Convs : InsertNewConversation(r, c)
     ELSE \E c \in ConversationsOf(chatReq[r].app) : AnswerConversation(r, c)

-----------------------------------------------------------------------------
(* CreateMessageHandler and createAndTouchConversation                     *)

SendMessage(r, u, c, k) ==
  /\ chatReq[r] = Idle
  /\ Open(c) /\ u \in Members(c)
  /\ Go(r, [pc |-> "findMessage", sender |-> u, conv |-> c, key |-> k])
  /\ UNCHANGED <<conversations, lastReadAt, messages, clock, opened, answered,
                 announced, notified>>

(* A message with this key is the answer; the checks of the new one come   *)
(* after.                                                                  *)
FindMessage(r) ==
  /\ chatReq[r].pc = "findMessage"
  /\ LET q == chatReq[r] IN
       IF WithKey(q.conv, q.key) # {}
       THEN /\ \E m \in WithKey(q.conv, q.key) :
                 answered' = answered \cup {<<q.conv, q.key, m>>}
            /\ Go(r, Idle)
       ELSE Go(r, [q EXCEPT !.pc = "insertMessage"]) /\ UNCHANGED answered
  /\ UNCHANGED <<conversations, lastReadAt, messages, clock, opened, announced,
                 notified>>

InsertedBy(s) == IF chatReq[s].pc = "commit" THEN {chatReq[s].msg} ELSE {}
Inserting(c, k) ==
  {s \in Requests : chatReq[s].pc = "commit"
                    /\ chatReq[s].row.conv = c /\ chatReq[s].row.key = k}

(* Mutant: no unique index on (conversationId, clientMessageId).           *)
KeyTaken_Never(c, k) == FALSE

(* The index entry of a row that is committed.                             *)
KeyTaken(c, k) == WithKey(c, k) # {}

(* The insert stamps createdAt; nobody sees the row before the commit, but *)
(* an insert of the same key waits for it.                                 *)
InsertMessage(r, m) ==
  /\ chatReq[r].pc = "insertMessage"
  /\ clock < MaxTime
  /\ LET q == chatReq[r] IN
       /\ ~ KeyTaken(q.conv, q.key)
       /\ Inserting(q.conv, q.key) = {}
       /\ ~ Sent(m) /\ \A s \in Requests : m \notin InsertedBy(s)
       /\ clock' = clock + 1
       /\ Go(r, [pc |-> "commit", msg |-> m,
                 row |-> [conv |-> q.conv, sender |-> q.sender, key |-> q.key,
                          createdAt |-> clock', deleted |-> FALSE]])
  /\ UNCHANGED <<conversations, lastReadAt, messages, opened, answered, announced,
                 notified>>

(* P2002: the message that was there first is looked up.                   *)
InsertRefused(r) ==
  /\ chatReq[r].pc = "insertMessage"
  /\ LET q == chatReq[r] IN
       /\ KeyTaken(q.conv, q.key)
       /\ \E m \in WithKey(q.conv, q.key) : Go(r, [pc |-> "announce", msg |-> m])
  /\ UNCHANGED <<conversations, lastReadAt, messages, clock, opened, answered,
                 announced, notified>>

(* Mutant: lastMessageAt is touched by a query after the transaction.      *)
CommitMessage_TouchLater(r) ==
  /\ chatReq[r].pc = "commit"
  /\ messages' = [messages EXCEPT ![chatReq[r].msg] = chatReq[r].row]
  /\ Go(r, [pc |-> "announce", msg |-> chatReq[r].msg])
  /\ UNCHANGED <<conversations, lastReadAt, clock, opened, answered, announced,
                 notified>>

(* The update of the conversation waits for an earlier one, so the commits *)
(* decide whose stamp stays.                                               *)
CommitMessage(r) ==
  /\ chatReq[r].pc = "commit"
  /\ LET q == chatReq[r] IN
       /\ messages' = [messages EXCEPT ![q.msg] = q.row]
       /\ conversations' = [conversations EXCEPT
            ![q.row.conv].lastMessageAt = q.row.createdAt]
       /\ Go(r, [pc |-> "announce", msg |-> q.msg])
  /\ UNCHANGED <<lastReadAt, clock, opened, answered, announced, notified>>

(* ChatEventsListener; a failing notification is logged.                   *)
NotifyOffline(m) ==
  LET recipient == OtherParticipant(messages[m].conv, messages[m].sender) IN
    IF IsOnline(recipient) THEN UNCHANGED notified
    ELSE notified' \in {notified, notified \cup {m}}

(* The job and the attachments' URLs are looked up; then the event, whose  *)
(* listeners look at the presence map at once, and the answer.             *)
Announce(r) ==
  /\ chatReq[r].pc = "announce"
  /\ LET m == chatReq[r].msg IN
       /\ announced' = announced \cup {m}
       /\ NotifyOffline(m)
       /\ answered' = answered \cup {<<messages[m].conv, messages[m].key, m>>}
  /\ Go(r, Idle)
  /\ UNCHANGED <<conversations, lastReadAt, messages, clock, opened>>

-----------------------------------------------------------------------------
(* EditMessageHandler, DeleteMessageHandler, MarkConversationReadHandler   *)

(* The entity is read and changed, and its mutable columns are written.    *)
ReadMessage(r, u, m, deleted) ==
  /\ chatReq[r] = Idle
  /\ Sent(m)
  /\ messages[m].sender = u
  /\ ~ messages[m].deleted
  /\ Go(r, [pc |-> "update", msg |-> m, deleted |-> deleted])
  /\ UNCHANGED <<conversations, lastReadAt, messages, clock, opened, answered,
                 announced, notified>>

(* deletedAt is written as it was read, beside the new content.            *)
EditMessage(r, u, m)   == ReadMessage(r, u, m, FALSE)
DeleteMessage(r, u, m) == ReadMessage(r, u, m, TRUE)

UpdateMessage(r) ==
  /\ chatReq[r].pc = "update"
  /\ LET q == chatReq[r] IN
       messages' = [messages EXCEPT ![q.msg].deleted = q.deleted]
  /\ Go(r, Idle)
  /\ UNCHANGED <<conversations, lastReadAt, clock, opened, answered, announced,
                 notified>>

(* The time is taken when the conversation has been read.                  *)
MarkRead(r, u, c) ==
  /\ chatReq[r] = Idle
  /\ Open(c) /\ u \in Members(c)
  /\ Go(r, [pc |-> "markRead", conv |-> c, user |-> u, at |-> clock])
  /\ UNCHANGED <<conversations, lastReadAt, messages, clock, opened, answered,
                 announced, notified>>

MarkMemberRead(r) ==
  /\ chatReq[r].pc = "markRead"
  /\ LET q == chatReq[r] IN
       lastReadAt' = [lastReadAt EXCEPT ![<<q.conv, q.user>>] = q.at]
  /\ Go(r, Idle)
  /\ UNCHANGED <<conversations, messages, clock, opened, answered, announced,
                 notified>>

-----------------------------------------------------------------------------
(* An input is refused, a query rejects or a transaction rolls back: the   *)
(* client gets an error and may send again.                                *)
ChatRequestFails(r) ==
  /\ chatReq[r] # Idle
  /\ Go(r, Idle)
  /\ UNCHANGED <<conversations, lastReadAt, messages, clock, opened, answered,
                 announced, notified>>

Restart ==
  /\ \/ \E r \in Requests : chatReq[r] # Idle
     \/ \E k \in Sockets : socket[k] \notin {"new", "gone"}
     \/ \E u \in Users : IsOnline(u)
  /\ chatReq' = [r \in Requests |-> Idle]
  /\ PresRestart
  /\ UNCHANGED <<conversations, lastReadAt, messages, clock, opened, answered,
                 announced, notified>>

ChatStart(r) ==
  \E u \in Users :
    \/ \E a \in Apps : CreateConversation(r, u, a)
    \/ \E c \in Convs, k \in Keys : SendMessage(r, u, c, k)
    \/ \E m \in Msgs : EditMessage(r, u, m) \/ DeleteMessage(r, u, m)
    \/ \E c \in Convs : MarkRead(r, u, c)

ChatContinue(r) ==
  \/ FindConversation(r) \/ InsertConversation(r)
  \/ FindMessage(r) \/ InsertRefused(r) \/ CommitMessage(r) \/ Announce(r)
  \/ \E m \in Msgs : InsertMessage(r, m)
  \/ UpdateMessage(r) \/ MarkMemberRead(r)
  \/ ChatRequestFails(r)

ChatNext ==
  \/ \E r \in Requests : (ChatStart(r) \/ ChatContinue(r)) /\ UNCHANGED presVars
  \/ PresNext /\ UNCHANGED chatVars
  \/ Restart

ChatSpec == ChatInit /\ [][ChatNext]_allVars

-----------------------------------------------------------------------------
(* Properties                                                              *)

ChatTypeOK ==
  /\ PresTypeOK
  /\ conversations \in [Convs -> ConversationRow \cup {NoRow}]
  /\ lastReadAt \in [Convs \X Users -> Times]
  /\ messages \in [Msgs -> MessageRow \cup {NoRow}]
  /\ clock \in Times
  /\ chatReq \in [Requests -> {Idle} \cup OpenReq \cup SendReq \cup InsertReq
                              \cup SentReq \cup ChangeReq \cup ReadReq]
  /\ opened \subseteq Apps \X Convs
  /\ answered \subseteq Convs \X Keys \X Msgs
  /\ announced \subseteq Msgs /\ notified \subseteq Msgs

(* Whoever repeats a request, over either transport and however the        *)
(* repetitions overlap, is told of the same conversation and of the same   *)
(* message: "a REST retry, a WS reconnect-resend, or a double-click all    *)
(* collapse onto the same row" (create-message.command.ts 81-82).          *)
AnswersAgree ==
  /\ \A x, y \in opened : x[1] = y[1] => x[2] = y[2]
  /\ \A x, y \in answered : x[1] = y[1] /\ x[2] = y[2] => x[3] = y[3]

(* lastMessageAt is the createdAt of one of the conversation's messages,   *)
(* whatever fails: "the two can never fall out of sync on a partial        *)
(* failure" (message-prisma.repository.ts 28-33).                          *)
LastMessageInSync ==
  \A c \in Convs : Open(c) =>
    LET stamps == {messages[m].createdAt : m \in {n \in Msgs : Sent(n) /\ messages[n].conv = c}}
    IN  IF stamps = {} THEN conversations[c].lastMessageAt = 0
        ELSE conversations[c].lastMessageAt \in stamps

(* "online -> realtime only, offline -> notification"                      *)
(* (chat-events.listener.ts 10-14): nobody who has a live socket on any    *)
(* device is notified.                                                     *)
NobodyOnlineIsNotified ==
  [][\A m \in notified' \ notified :
       ~ HasLiveSocket(OtherParticipant(messages[m].conv, messages[m].sender))]_allVars

(* The broadcast "fires for every persisted message regardless of          *)
(* transport" (chat.gateway.ts 210-217): a message its sender has been     *)
(* answered was broadcast.                                                 *)
AnsweredIsAnnounced == \A x \in answered : x[3] \in announced
=============================================================================
