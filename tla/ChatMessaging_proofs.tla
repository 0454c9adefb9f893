------------------------- MODULE ChatMessaging_proofs -------------------------
(***************************************************************************)
(* Proofs about ChatMessaging, for any number of members, devices,         *)
(* messages, repetitions and requests in flight.                           *)
(***************************************************************************)
EXTENDS ChatMessaging, TLAPS

ChatReqs == {Idle} \cup OpenReq \cup SendReq \cup InsertReq \cup SentReq
              \cup ChangeReq \cup ReadReq

(* The part of the type invariant that is not about presence.              *)
ChatTypes ==
  /\ conversations \in [Convs -> ConversationRow \cup {NoRow}]
  /\ lastReadAt \in [Convs \X Users -> Times]
  /\ messages \in [Msgs -> MessageRow \cup {NoRow}]
  /\ clock \in Times
  /\ chatReq \in [Requests -> ChatReqs]
  /\ opened \subseteq Apps \X Convs
  /\ answered \subseteq Convs \X Keys \X Msgs
  /\ announced \subseteq Msgs /\ notified \subseteq Msgs

(* What a handler holds is there; a message being inserted is not yet, and *)
(* its key is free.                                                        *)
SoundReq(q) ==
  /\ q.pc \in {"findMessage", "insertMessage"} => Open(q.conv)
  /\ q.pc = "commit" => /\ Open(q.row.conv) /\ ~ Sent(q.msg)
                        /\ WithKey(q.row.conv, q.row.key) = {}
  /\ q.pc \in {"announce", "update"} => Sent(q.msg)
SoundRequests == \A r \in Requests : SoundReq(chatReq[r])

(* Two inserts in flight have ids and keys of their own.                   *)
InsertsApart ==
  \A r, s \in Requests :
    r # s /\ chatReq[r].pc = "commit" /\ chatReq[s].pc = "commit" =>
      /\ chatReq[r].msg # chatReq[s].msg
      /\ ~ (/\ chatReq[r].row.conv = chatReq[s].row.conv
            /\ chatReq[r].row.key = chatReq[s].row.key)

OneConversationPerApplication ==
  \A c, d \in Convs :
    Open(c) /\ Open(d) /\ conversations[c].app = conversations[d].app => c = d

OneMessagePerKey ==
  \A m, n \in Msgs :
    /\ Sent(m) /\ Sent(n)
    /\ messages[m].conv = messages[n].conv /\ messages[m].key = messages[n].key
    => m = n

MessagesInConversations == \A m \in Msgs : Sent(m) => Open(messages[m].conv)

(* Whoever was answered was told of a row that is there.                   *)
AnswersExist ==
  /\ \A x \in opened : Open(x[2]) /\ conversations[x[2]].app = x[1]
  /\ \A x \in answered : /\ Sent(x[3])
                         /\ messages[x[3]].conv = x[1] /\ messages[x[3]].key = x[2]

(* LastMessageInSync, with the set of stamps written out.                  *)
LastSent(c) ==
  \/ /\ conversations[c].lastMessageAt = 0
     /\ \A m \in Msgs : Sent(m) => messages[m].conv # c
  \/ \E m \in Msgs : /\ Sent(m) /\ messages[m].conv = c
                     /\ conversations[c].lastMessageAt = messages[m].createdAt
InSync == \A c \in Convs : Open(c) => LastSent(c)

RowsSound == /\ OneConversationPerApplication /\ OneMessagePerKey
             /\ MessagesInConversations /\ AnswersExist
RequestsSound == SoundRequests /\ InsertsApart
ChatSafety == RowsSound /\ RequestsSound /\ InSync

(* The pc of a slot tells what it holds.                                   *)
LEMMA ChatRequestKinds ==
  ASSUME NEW q \in ChatReqs
  PROVE  /\ q.pc \in {"findConversation", "insertConversation"} => q \in OpenReq
         /\ q.pc \in {"findMessage", "insertMessage"} => q \in SendReq
         /\ q.pc = "commit" => q \in InsertReq
         /\ q.pc = "announce" => q \in SentReq
         /\ q.pc = "update" => q \in ChangeReq
         /\ q.pc = "markRead" => q \in ReadReq
BY DEF ChatReqs, Idle, OpenReq, SendReq, InsertReq, SentReq, ChangeReq, ReadReq

(* A request that goes on and leaves both tables alone keeps everything,   *)
(* when it holds something sound that is not an insert.                    *)
LEMMA GoKeeps ==
  ASSUME ChatTypes, ChatSafety, NEW r \in Requests, NEW q \in ChatReqs, Go(r, q),
         SoundReq(q), q.pc # "commit",
         UNCHANGED <<conversations, messages, opened, answered>>,
         lastReadAt' \in [Convs \X Users -> Times], clock' \in Times,
         announced' \subseteq Msgs, notified' \subseteq Msgs
  PROVE  ChatTypes' /\ ChatSafety'
<1>1. ChatTypes'
  BY DEF ChatTypes, Go
<1>2. chatReq'[r] = q /\ \A s \in Requests \ {r} : chatReq'[s] = chatReq[s]
  BY DEF ChatTypes, Go
<1>3. RowsSound' /\ InSync'
  BY DEF ChatSafety, RowsSound, OneConversationPerApplication, OneMessagePerKey,
         MessagesInConversations, AnswersExist, InSync, LastSent, Open, Sent
<1>4. SoundRequests'
  BY <1>2 DEF ChatSafety, RequestsSound, SoundRequests, SoundReq, Open, Sent, WithKey
<1>5. InsertsApart'
  BY <1>2 DEF ChatSafety, RequestsSound, InsertsApart
<1> QED BY <1>1, <1>3, <1>4, <1>5 DEF ChatSafety, RequestsSound

(* The same when the answer names a row that is there.                     *)
LEMMA AnswerKeeps ==
  ASSUME ChatTypes, ChatSafety, NEW r \in Requests, Go(r, Idle),
         UNCHANGED <<conversations, messages, lastReadAt, clock>>,
         announced' \subseteq Msgs, notified' \subseteq Msgs,
         NEW O \in SUBSET (Apps \X Convs), NEW A \in SUBSET (Convs \X Keys \X Msgs),
         opened' = opened \cup O, answered' = answered \cup A,
         \A x \in O : Open(x[2]) /\ conversations[x[2]].app = x[1],
         \A x \in A : /\ Sent(x[3])
                      /\ messages[x[3]].conv = x[1] /\ messages[x[3]].key = x[2]
  PROVE  ChatTypes' /\ ChatSafety'
<1>0. Idle \in ChatReqs /\ Idle.pc = "idle"
  BY DEF ChatReqs, Idle
<1>1. ChatTypes'
  BY <1>0 DEF ChatTypes, Go
<1>2. chatReq'[r] = Idle /\ \A s \in Requests \ {r} : chatReq'[s] = chatReq[s]
  BY DEF ChatTypes, Go
<1>3. OneConversationPerApplication' /\ OneMessagePerKey' /\ MessagesInConversations'
        /\ InSync'
  BY DEF ChatSafety, RowsSound, OneConversationPerApplication, OneMessagePerKey,
         MessagesInConversations, InSync, LastSent, Open, Sent
<1>4. AnswersExist'
  BY DEF ChatSafety, RowsSound, AnswersExist, Open, Sent
<1>5. SoundRequests'
  BY <1>0, <1>2
     DEF ChatSafety, RequestsSound, SoundRequests, SoundReq, Open, Sent, WithKey
<1>6. InsertsApart'
  BY <1>0, <1>2 DEF ChatSafety, RequestsSound, InsertsApart
<1> QED BY <1>1, <1>3, <1>4, <1>5, <1>6 DEF ChatSafety, RequestsSound, RowsSound

-----------------------------------------------------------------------------
(* The steps that write rows                                               *)

LEMMA NewConversationKeeps ==
  ASSUME ChatTypes, ChatSafety, NEW r \in Requests, NEW c \in Convs,
         chatReq[r].pc = "insertConversation",
         ConversationsOf(chatReq[r].app) = {}, InsertNewConversation(r, c)
  PROVE  ChatTypes' /\ ChatSafety'
<1>0. Idle \in ChatReqs /\ Idle.pc = "idle"
  BY DEF ChatReqs, Idle
<1>1. PICK a \in Apps : a = chatReq[r].app
  BY ChatRequestKinds DEF ChatTypes, OpenReq
<1>2. PICK row \in ConversationRow : row = [app |-> a, lastMessageAt |-> 0]
  <2>1. 0 \in Times
    BY ChatAssumption DEF Times
  <2> QED BY <2>1 DEF ConversationRow
<1>3. row.app = a /\ row.lastMessageAt = 0 /\ row # NoRow
  BY <1>2, NoChatRowAssumption
<1>4. /\ ~ Open(c) /\ conversations'[c] = row
      /\ \A d \in Convs \ {c} : conversations'[d] = conversations[d]
      /\ conversations' \in [Convs -> ConversationRow \cup {NoRow}]
      /\ opened' = opened \cup {<<a, c>>}
  BY <1>1, <1>2 DEF InsertNewConversation, ChatTypes
<1>5. /\ UNCHANGED <<lastReadAt, messages, clock, answered, announced, notified>>
      /\ chatReq' = [chatReq EXCEPT ![r] = Idle]
      /\ chatReq'[r] = Idle /\ \A s \in Requests \ {r} : chatReq'[s] = chatReq[s]
  BY DEF InsertNewConversation, ChatTypes, Go
<1>6. ChatTypes'
  BY <1>0, <1>4, <1>5 DEF ChatTypes
<1>7. \A d \in Convs : Open(d) => conversations[d].app # a
  BY <1>1 DEF ConversationsOf
<1>8. OneConversationPerApplication'
  BY <1>3, <1>4, <1>7
     DEF ChatSafety, RowsSound, OneConversationPerApplication, Open
<1>9. OneMessagePerKey' /\ MessagesInConversations'
  BY <1>3, <1>4, <1>5
     DEF ChatSafety, RowsSound, OneMessagePerKey, MessagesInConversations, Sent, Open,
         ChatTypes, MessageRow
<1>10. AnswersExist'
  <2>1. ASSUME NEW x \in opened' PROVE conversations'[x[2]] # NoRow
                                       /\ conversations'[x[2]].app = x[1]
    <3>1. CASE x \in opened
      <4>1. x[2] \in Convs /\ Open(x[2]) /\ conversations[x[2]].app = x[1]
        BY <3>1 DEF ChatSafety, RowsSound, AnswersExist, ChatTypes
      <4> QED BY <4>1, <1>4 DEF Open
    <3>2. CASE x = <<a, c>>
      BY <3>2, <1>3, <1>4
    <3> QED BY <3>1, <3>2, <1>4
  <2>2. \A x \in answered' : /\ messages'[x[3]] # NoRow
                             /\ messages'[x[3]].conv = x[1] /\ messages'[x[3]].key = x[2]
    BY <1>5 DEF ChatSafety, RowsSound, AnswersExist, Sent
  <2> QED BY <2>1, <2>2 DEF AnswersExist, Open, Sent
<1>11. InSync'
  <2>1. \A m \in Msgs : Sent(m) => messages[m].conv # c
    BY <1>4 DEF ChatSafety, RowsSound, MessagesInConversations
  <2>2. LastSent(c)'
    BY <2>1, <1>3, <1>4, <1>5 DEF LastSent, Sent
  <2>3. \A d \in Convs \ {c} : conversations'[d] # NoRow => LastSent(d)'
    BY <1>4, <1>5 DEF ChatSafety, InSync, LastSent, Open, Sent
  <2> QED BY <2>2, <2>3 DEF InSync, Open
<1>12. SoundRequests'
  <2> SUFFICES ASSUME NEW s \in Requests PROVE SoundReq(chatReq[s])'
    BY DEF SoundRequests
  <2>1. CASE s = r
    BY <2>1, <1>0, <1>5 DEF SoundReq
  <2>2. CASE s # r
    <3>1. chatReq'[s] = chatReq[s] /\ SoundReq(chatReq[s]) /\ chatReq[s] \in ChatReqs
      BY <2>2, <1>5 DEF ChatSafety, RequestsSound, SoundRequests, ChatTypes
    <3>2. /\ chatReq[s].pc \in {"findMessage", "insertMessage"} => chatReq[s].conv \in Convs
          /\ chatReq[s].pc = "commit" => chatReq[s].row.conv \in Convs
      BY <3>1, ChatRequestKinds DEF SendReq, InsertReq, MessageRow
    <3> QED BY <3>1, <3>2, <1>3, <1>4, <1>5 DEF SoundReq, Open, Sent, WithKey
  <2> QED BY <2>1, <2>2
<1>13. InsertsApart'
  BY <1>0, <1>5 DEF ChatSafety, RequestsSound, InsertsApart
<1> QED BY <1>6, <1>8, <1>9, <1>10, <1>11, <1>12, <1>13
        DEF ChatSafety, RequestsSound, RowsSound

(* An insert waits until no other of its key is in flight.                 *)
LEMMA InsertKeeps ==
  ASSUME ChatTypes, ChatSafety, NEW r \in Requests, NEW m \in Msgs, InsertMessage(r, m)
  PROVE  ChatTypes' /\ ChatSafety'
<1>1. chatReq[r] \in SendReq /\ SoundReq(chatReq[r]) /\ chatReq[r].pc = "insertMessage"
  BY ChatRequestKinds
     DEF InsertMessage, ChatTypes, ChatSafety, RequestsSound, SoundRequests
<1>2. PICK c \in Convs, k \in Keys, u \in Users :
        c = chatReq[r].conv /\ k = chatReq[r].key /\ u = chatReq[r].sender
  BY <1>1 DEF SendReq
<1>3. clock + 1 \in Times
  BY ChatAssumption DEF InsertMessage, ChatTypes, Times
<1>4. PICK row \in MessageRow :
        row = [conv |-> c, sender |-> u, key |-> k, createdAt |-> clock + 1,
               deleted |-> FALSE]
  BY <1>3 DEF MessageRow
<1>5. PICK q \in InsertReq : q = [pc |-> "commit", msg |-> m, row |-> row]
  BY DEF InsertReq
<1>6. /\ q.pc = "commit" /\ q.msg = m /\ q.row.conv = c /\ q.row.key = k
      /\ q \in ChatReqs
  BY <1>4, <1>5 DEF ChatReqs
<1>7. /\ chatReq' = [chatReq EXCEPT ![r] = q]
      /\ clock' = clock + 1
      /\ UNCHANGED <<conversations, lastReadAt, messages, opened, answered, announced,
                     notified>>
  BY <1>2, <1>4, <1>5 DEF InsertMessage, Go
<1>8. chatReq'[r] = q /\ \A s \in Requests \ {r} : chatReq'[s] = chatReq[s]
  BY <1>7 DEF ChatTypes
<1>9. /\ WithKey(c, k) = {} /\ Inserting(c, k) = {} /\ ~ Sent(m)
      /\ \A s \in Requests : chatReq[s].pc = "commit" => chatReq[s].msg # m
  BY <1>2 DEF InsertMessage, KeyTaken, InsertedBy
<1>10. ChatTypes'
  BY <1>3, <1>6, <1>7 DEF ChatTypes
<1>11. RowsSound' /\ InSync'
  BY <1>7 DEF ChatSafety, RowsSound, OneConversationPerApplication, OneMessagePerKey,
         MessagesInConversations, AnswersExist, InSync, LastSent, Open, Sent
<1>12. SoundRequests'
  <2>1. SoundReq(q)'
    BY <1>1, <1>2, <1>6, <1>7, <1>9 DEF SoundReq, Open, Sent, WithKey
  <2>2. \A s \in Requests \ {r} : SoundReq(chatReq[s])'
    BY <1>7, <1>8
       DEF ChatSafety, RequestsSound, SoundRequests, SoundReq, Open, Sent, WithKey
  <2> QED BY <2>1, <2>2, <1>8 DEF SoundRequests, SoundReq
<1>13. InsertsApart'
  <2>1. \A s \in Requests : chatReq[s].pc = "commit" =>
          ~ (chatReq[s].row.conv = c /\ chatReq[s].row.key = k)
    BY <1>9 DEF Inserting
  <2> QED BY <2>1, <1>6, <1>8, <1>9 DEF ChatSafety, RequestsSound, InsertsApart
<1> QED BY <1>10, <1>11, <1>12, <1>13 DEF ChatSafety, RequestsSound

LEMMA CommitKeeps ==
  ASSUME ChatTypes, ChatSafety, NEW r \in Requests, CommitMessage(r)
  PROVE  ChatTypes' /\ ChatSafety'
<1>0. chatReq[r] \in InsertReq /\ SoundReq(chatReq[r]) /\ chatReq[r].pc = "commit"
  BY ChatRequestKinds
     DEF CommitMessage, ChatTypes, ChatSafety, RequestsSound, SoundRequests
<1>1. PICK m \in Msgs : m = chatReq[r].msg
  BY <1>0 DEF InsertReq
<1>2. PICK row \in MessageRow : row = chatReq[r].row
  BY <1>0 DEF InsertReq
<1>3. PICK c \in Convs, t \in Times : c = row.conv /\ t = row.createdAt
  BY DEF MessageRow
<1>4. /\ ~ Sent(m) /\ WithKey(c, row.key) = {} /\ Open(c) /\ row # NoRow
  BY <1>0, <1>1, <1>2, <1>3, NoChatRowAssumption DEF SoundReq
<1>5. PICK q \in SentReq : q = [pc |-> "announce", msg |-> m]
  BY DEF SentReq
<1>6. q.pc = "announce" /\ q.msg = m /\ q \in ChatReqs
  BY <1>5 DEF ChatReqs
<1>7. /\ messages' = [messages EXCEPT ![m] = row]
      /\ conversations' = [conversations EXCEPT ![c].lastMessageAt = t]
      /\ chatReq' = [chatReq EXCEPT ![r] = q]
      /\ UNCHANGED <<lastReadAt, clock, opened, answered, announced, notified>>
  BY <1>1, <1>2, <1>3, <1>5 DEF CommitMessage, Go
<1>8. /\ messages'[m] = row /\ \A n \in Msgs \ {m} : messages'[n] = messages[n]
      /\ chatReq'[r] = q /\ \A s \in Requests \ {r} : chatReq'[s] = chatReq[s]
      /\ \A d \in Convs \ {c} : conversations'[d] = conversations[d]
  BY <1>7 DEF ChatTypes
<1>9. conversations[c] \in ConversationRow
  BY <1>4 DEF Open, ChatTypes
<1>10. /\ conversations'[c] \in ConversationRow /\ conversations'[c] # NoRow
       /\ conversations'[c].app = conversations[c].app
       /\ conversations'[c].lastMessageAt = t
  BY <1>7, <1>9, NoChatRowAssumption DEF ChatTypes, ConversationRow
<1>11. ChatTypes'
  BY <1>6, <1>7, <1>8, <1>10 DEF ChatTypes
<1>12. \A d \in Convs : /\ conversations'[d] # NoRow <=> Open(d)
                        /\ conversations'[d].app = conversations[d].app
  BY <1>4, <1>8, <1>10 DEF Open
<1>13. \A n \in Msgs : Sent(n) => n # m /\ messages'[n] = messages[n]
  BY <1>4, <1>8
<1>14. OneConversationPerApplication'
  BY <1>12 DEF ChatSafety, RowsSound, OneConversationPerApplication, Open
<1>15. OneMessagePerKey'
  <2>1. \A n \in Msgs : Sent(n) => ~ (messages[n].conv = c /\ messages[n].key = row.key)
    BY <1>4 DEF WithKey
  <2> QED BY <2>1, <1>3, <1>8 DEF ChatSafety, RowsSound, OneMessagePerKey, Sent
<1>16. MessagesInConversations'
  <2> SUFFICES ASSUME NEW n \in Msgs, messages'[n] # NoRow
               PROVE  conversations'[messages'[n].conv] # NoRow
    BY DEF MessagesInConversations, Open, Sent
  <2>1. CASE n = m
    BY <2>1, <1>3, <1>8, <1>10
  <2>2. CASE n # m
    <3>1. Sent(n) /\ messages[n] \in MessageRow /\ messages'[n] = messages[n]
      BY <2>2, <1>8 DEF Sent, ChatTypes
    <3>2. messages[n].conv \in Convs /\ Open(messages[n].conv)
      BY <3>1 DEF ChatSafety, RowsSound, MessagesInConversations, MessageRow
    <3> QED BY <3>1, <3>2, <1>12
  <2> QED BY <2>1, <2>2
<1>17. AnswersExist'
  <2>1. ASSUME NEW x \in opened PROVE conversations'[x[2]] # NoRow
                                      /\ conversations'[x[2]].app = x[1]
    BY <1>12 DEF ChatSafety, RowsSound, AnswersExist, ChatTypes
  <2>2. ASSUME NEW x \in answered
        PROVE  /\ messages'[x[3]] # NoRow
               /\ messages'[x[3]].conv = x[1] /\ messages'[x[3]].key = x[2]
    <3>1. /\ x[3] \in Msgs /\ Sent(x[3])
          /\ messages[x[3]].conv = x[1] /\ messages[x[3]].key = x[2]
      BY DEF ChatSafety, RowsSound, AnswersExist, ChatTypes
    <3> QED BY <3>1, <1>13 DEF Sent
  <2> QED BY <2>1, <2>2, <1>7 DEF AnswersExist, Open, Sent
<1>18. InSync'
  <2>1. LastSent(c)'
    BY <1>3, <1>4, <1>8, <1>10 DEF LastSent, Sent
  <2>2. ASSUME NEW d \in Convs \ {c}, Open(d) PROVE LastSent(d)'
    <3>1. LastSent(d) /\ conversations'[d] = conversations[d]
      BY <2>2, <1>8 DEF ChatSafety, InSync
    <3> QED BY <3>1, <1>3, <1>8, <1>13 DEF LastSent, Sent
  <2> QED BY <2>1, <2>2, <1>12 DEF InSync, Open
<1>19. SoundRequests'
  <2> SUFFICES ASSUME NEW s \in Requests PROVE SoundReq(chatReq[s])'
    BY DEF SoundRequests
  <2>1. CASE s = r
    BY <2>1, <1>4, <1>6, <1>8 DEF SoundReq, Sent
  <2>2. CASE s # r
    <3>1. /\ chatReq'[s] = chatReq[s] /\ SoundReq(chatReq[s])
          /\ chatReq[s] \in ChatReqs
      BY <2>2, <1>8 DEF ChatSafety, RequestsSound, SoundRequests, ChatTypes
    <3>2. /\ chatReq[s].pc \in {"findMessage", "insertMessage"}
               => chatReq[s].conv \in Convs
          /\ chatReq[s].pc = "commit"
               => chatReq[s].msg \in Msgs /\ chatReq[s].row.conv \in Convs
          /\ chatReq[s].pc \in {"announce", "update"} => chatReq[s].msg \in Msgs
      BY <3>1, ChatRequestKinds DEF SendReq, InsertReq, MessageRow, SentReq, ChangeReq
    <3>3. CASE chatReq[s].pc = "commit"
      <4>1. /\ chatReq[s].msg # m
            /\ ~ (chatReq[s].row.conv = c /\ chatReq[s].row.key = row.key)
        BY <2>2, <3>3, <1>0, <1>1, <1>2, <1>3
           DEF ChatSafety, RequestsSound, InsertsApart
      <4>2. PICK d \in Convs : d = chatReq[s].row.conv
        BY <3>2, <3>3
      <4>3. PICK n \in Msgs : n = chatReq[s].msg
        BY <3>2, <3>3
      <4>4. Open(d) /\ ~ Sent(n) /\ WithKey(d, chatReq[s].row.key) = {}
        BY <3>1, <3>3, <4>2, <4>3 DEF SoundReq
      <4>5. conversations'[d] # NoRow /\ messages'[n] = NoRow
        BY <4>1, <4>3, <4>4, <1>8, <1>12 DEF Sent
      <4>6. \A x \in Msgs : messages'[x] # NoRow =>
              ~ (messages'[x].conv = d /\ messages'[x].key = chatReq[s].row.key)
        BY <4>1, <4>2, <4>4, <1>3, <1>8 DEF WithKey, Sent
      <4> QED BY <3>1, <3>3, <4>2, <4>3, <4>5, <4>6 DEF SoundReq, Open, Sent, WithKey
    <3>4. CASE chatReq[s].pc # "commit"
      BY <3>1, <3>2, <3>4, <1>12, <1>13 DEF SoundReq, Open, Sent
    <3> QED BY <3>3, <3>4
  <2> QED BY <2>1, <2>2
<1>20. InsertsApart'
  BY <1>6, <1>8 DEF ChatSafety, RequestsSound, InsertsApart
<1> QED BY <1>11, <1>14, <1>15, <1>16, <1>17, <1>18, <1>19, <1>20
        DEF ChatSafety, RequestsSound, RowsSound

(* An edit or a deletion leaves all but deletedAt of the row.              *)
LEMMA UpdateKeeps ==
  ASSUME ChatTypes, ChatSafety, NEW r \in Requests, UpdateMessage(r)
  PROVE  ChatTypes' /\ ChatSafety'
<1>0. Idle \in ChatReqs /\ Idle.pc = "idle"
  BY DEF ChatReqs, Idle
<1>1. chatReq[r] \in ChangeReq /\ SoundReq(chatReq[r]) /\ chatReq[r].pc = "update"
  BY ChatRequestKinds
     DEF UpdateMessage, ChatTypes, ChatSafety, RequestsSound, SoundRequests
<1>2. PICK m \in Msgs, d \in BOOLEAN : m = chatReq[r].msg /\ d = chatReq[r].deleted
  BY <1>1 DEF ChangeReq
<1>3. Sent(m) /\ messages[m] \in MessageRow
  BY <1>1, <1>2 DEF SoundReq, Sent, ChatTypes
<1>4. PICK row \in MessageRow : row = [messages[m] EXCEPT !.deleted = d]
  BY <1>3 DEF MessageRow
<1>5. /\ row.conv = messages[m].conv /\ row.key = messages[m].key
      /\ row.createdAt = messages[m].createdAt /\ row # NoRow
  BY <1>3, <1>4, NoChatRowAssumption DEF MessageRow
<1>6. /\ messages' = [messages EXCEPT ![m] = row]
      /\ chatReq' = [chatReq EXCEPT ![r] = Idle]
      /\ UNCHANGED <<conversations, lastReadAt, clock, opened, answered, announced,
                     notified>>
  BY <1>2, <1>4 DEF UpdateMessage, Go
<1>7. chatReq'[r] = Idle /\ \A s \in Requests \ {r} : chatReq'[s] = chatReq[s]
  BY <1>6 DEF ChatTypes
<1>8. \A n \in Msgs : /\ messages'[n] # NoRow <=> Sent(n)
                      /\ messages'[n].conv = messages[n].conv
                      /\ messages'[n].key = messages[n].key
                      /\ messages'[n].createdAt = messages[n].createdAt
  BY <1>3, <1>5, <1>6 DEF Sent, ChatTypes
<1>9. ChatTypes'
  BY <1>0, <1>6 DEF ChatTypes
<1>10. OneConversationPerApplication' /\ OneMessagePerKey' /\ MessagesInConversations'
  BY <1>6, <1>8 DEF ChatSafety, RowsSound, OneConversationPerApplication,
     OneMessagePerKey, MessagesInConversations, Open, Sent
<1>11. AnswersExist'
  <2>1. ASSUME NEW x \in answered
        PROVE  /\ messages'[x[3]] # NoRow
               /\ messages'[x[3]].conv = x[1] /\ messages'[x[3]].key = x[2]
    BY <1>8 DEF ChatSafety, RowsSound, AnswersExist, ChatTypes
  <2>2. \A x \in opened : conversations'[x[2]] # NoRow /\ conversations'[x[2]].app = x[1]
    BY <1>6 DEF ChatSafety, RowsSound, AnswersExist, Open
  <2> QED BY <2>1, <2>2, <1>6 DEF AnswersExist, Open, Sent
<1>12. InSync'
  BY <1>6, <1>8 DEF ChatSafety, InSync, LastSent, Open, Sent
<1>13. SoundRequests'
  <2> SUFFICES ASSUME NEW s \in Requests PROVE SoundReq(chatReq[s])'
    BY DEF SoundRequests
  <2>1. CASE s = r
    BY <2>1, <1>0, <1>7 DEF SoundReq
  <2>2. CASE s # r
    <3>1. /\ chatReq'[s] = chatReq[s] /\ SoundReq(chatReq[s])
          /\ chatReq[s] \in ChatReqs
      BY <2>2, <1>7 DEF ChatSafety, RequestsSound, SoundRequests, ChatTypes
    <3>2. /\ chatReq[s].pc \in {"commit", "announce", "update"}
               => chatReq[s].msg \in Msgs
      BY <3>1, ChatRequestKinds DEF InsertReq, SentReq, ChangeReq
    <3> QED BY <3>1, <3>2, <1>6, <1>8 DEF SoundReq, Open, Sent, WithKey
  <2> QED BY <2>1, <2>2
<1>14. InsertsApart'
  BY <1>0, <1>7 DEF ChatSafety, RequestsSound, InsertsApart
<1> QED BY <1>9, <1>10, <1>11, <1>12, <1>13, <1>14
        DEF ChatSafety, RequestsSound, RowsSound

-----------------------------------------------------------------------------
(* Every step                                                              *)

LEMMA ChatStartKeeps ==
  ASSUME ChatTypes, ChatSafety, NEW r \in Requests, ChatStart(r)
  PROVE  ChatTypes' /\ ChatSafety'
<1>0. UNCHANGED <<conversations, lastReadAt, messages, clock, opened, answered,
                  announced, notified>>
  BY DEF ChatStart, CreateConversation, SendMessage, EditMessage, DeleteMessage,
         ReadMessage, MarkRead
<1>1. ASSUME NEW q \in ChatReqs, Go(r, q), SoundReq(q), q.pc # "commit"
      PROVE  ChatTypes' /\ ChatSafety'
  BY <1>0, <1>1, GoKeeps DEF ChatTypes
<1>2. ASSUME NEW u \in Users, NEW a \in Apps, CreateConversation(r, u, a)
      PROVE  ChatTypes' /\ ChatSafety'
  <2>1. PICK q \in OpenReq : q = [pc |-> "findConversation", app |-> a]
    BY DEF OpenReq
  <2>2. q \in ChatReqs /\ SoundReq(q) /\ q.pc # "commit"
    BY <2>1 DEF ChatReqs, SoundReq
  <2> QED BY <1>1, <1>2, <2>1, <2>2 DEF CreateConversation
<1>3. ASSUME NEW u \in Users, NEW c \in Convs, NEW k \in Keys, SendMessage(r, u, c, k)
      PROVE  ChatTypes' /\ ChatSafety'
  <2>1. PICK q \in SendReq :
          q = [pc |-> "findMessage", sender |-> u, conv |-> c, key |-> k]
    BY DEF SendReq
  <2>2. q \in ChatReqs /\ SoundReq(q) /\ q.pc # "commit"
    BY <1>3, <2>1 DEF ChatReqs, SoundReq, SendMessage
  <2> QED BY <1>1, <1>3, <2>1, <2>2 DEF SendMessage
<1>4. ASSUME NEW u \in Users, NEW m \in Msgs, NEW d \in BOOLEAN, ReadMessage(r, u, m, d)
      PROVE  ChatTypes' /\ ChatSafety'
  <2>1. PICK q \in ChangeReq : q = [pc |-> "update", msg |-> m, deleted |-> d]
    BY DEF ChangeReq
  <2>2. q \in ChatReqs /\ SoundReq(q) /\ q.pc # "commit"
    BY <1>4, <2>1 DEF ChatReqs, SoundReq, ReadMessage
  <2> QED BY <1>1, <1>4, <2>1, <2>2 DEF ReadMessage
<1>5. ASSUME NEW u \in Users, NEW c \in Convs, MarkRead(r, u, c)
      PROVE  ChatTypes' /\ ChatSafety'
  <2>1. PICK q \in ReadReq :
          q = [pc |-> "markRead", conv |-> c, user |-> u, at |-> clock]
    BY DEF ReadReq, ChatTypes
  <2>2. q \in ChatReqs /\ SoundReq(q) /\ q.pc # "commit"
    BY <2>1 DEF ChatReqs, SoundReq
  <2> QED BY <1>1, <1>5, <2>1, <2>2 DEF MarkRead
<1> QED BY <1>2, <1>3, <1>4, <1>5 DEF ChatStart, EditMessage, DeleteMessage

LEMMA ChatContinueKeeps ==
  ASSUME ChatTypes, ChatSafety, NEW r \in Requests, ChatContinue(r)
  PROVE  ChatTypes' /\ ChatSafety'
<1>0. /\ Idle \in ChatReqs /\ Idle.pc = "idle" /\ SoundReq(Idle)
      /\ chatReq[r] \in ChatReqs /\ SoundReq(chatReq[r])
  BY DEF ChatReqs, Idle, SoundReq, ChatTypes, ChatSafety, RequestsSound, SoundRequests
<1>1. ASSUME NEW q \in ChatReqs, Go(r, q), SoundReq(q), q.pc # "commit",
             UNCHANGED <<conversations, messages, lastReadAt, clock, opened, answered,
                         announced, notified>>
      PROVE  ChatTypes' /\ ChatSafety'
  BY <1>1, GoKeeps DEF ChatTypes
<1>2. ASSUME NEW c \in ConversationsOf(chatReq[r].app), AnswerConversation(r, c),
             chatReq[r].pc \in {"findConversation", "insertConversation"}
      PROVE  ChatTypes' /\ ChatSafety'
  <2>1. PICK a \in Apps : a = chatReq[r].app
    BY <1>0, <1>2, ChatRequestKinds DEF OpenReq
  <2>2. c \in Convs /\ Open(c) /\ conversations[c].app = a
    BY <2>1 DEF ConversationsOf
  <2>3. {<<a, c>>} \in SUBSET (Apps \X Convs) /\ {} \in SUBSET (Convs \X Keys \X Msgs)
    BY <2>2
  <2>4. Go(r, Idle) /\ opened' = opened \cup {<<a, c>>} /\ answered' = answered \cup {}
        /\ UNCHANGED <<conversations, messages, lastReadAt, clock, announced, notified>>
    BY <1>2, <2>1 DEF AnswerConversation
  <2>5. \A x \in {<<a, c>>} : Open(x[2]) /\ conversations[x[2]].app = x[1]
    BY <2>2
  <2>6. announced' \subseteq Msgs /\ notified' \subseteq Msgs
    BY <2>4 DEF ChatTypes
  <2> QED BY <2>3, <2>4, <2>5, <2>6, AnswerKeeps
<1>3. ASSUME FindConversation(r) PROVE ChatTypes' /\ ChatSafety'
  <2>1. CASE ConversationsOf(chatReq[r].app) # {}
    BY <1>2, <1>3, <2>1 DEF FindConversation
  <2>2. CASE ConversationsOf(chatReq[r].app) = {}
    <3>1. chatReq[r] \in OpenReq
      BY <1>0, <1>3, ChatRequestKinds DEF FindConversation
    <3>2. PICK q \in OpenReq : q = [chatReq[r] EXCEPT !.pc = "insertConversation"]
      BY <3>1 DEF OpenReq
    <3>3. q.pc = "insertConversation" /\ q \in ChatReqs
      BY <3>1, <3>2 DEF ChatReqs, OpenReq
    <3>4. SoundReq(q)
      BY <3>3 DEF SoundReq
    <3> QED BY <1>1, <1>3, <2>2, <3>2, <3>3, <3>4 DEF FindConversation
  <2> QED BY <2>1, <2>2
<1>4. ASSUME InsertConversation(r) PROVE ChatTypes' /\ ChatSafety'
  BY <1>2, <1>4, NewConversationKeeps DEF InsertConversation
<1>5. ASSUME FindMessage(r) PROVE ChatTypes' /\ ChatSafety'
  <2>1. chatReq[r] \in SendReq /\ chatReq[r].pc = "findMessage"
    BY <1>0, <1>5, ChatRequestKinds DEF FindMessage
  <2>2. PICK c \in Convs, k \in Keys : c = chatReq[r].conv /\ k = chatReq[r].key
    BY <2>1 DEF SendReq
  <2>3. CASE WithKey(c, k) # {}
    <3>1. PICK m \in WithKey(c, k) : answered' = answered \cup {<<c, k, m>>}
      BY <1>5, <2>2, <2>3 DEF FindMessage
    <3>2. m \in Msgs /\ Sent(m) /\ messages[m].conv = c /\ messages[m].key = k
      BY DEF WithKey
    <3>3. {<<c, k, m>>} \in SUBSET (Convs \X Keys \X Msgs) /\ {} \in SUBSET (Apps \X Convs)
      BY <3>2
    <3>4. Go(r, Idle) /\ opened' = opened \cup {}
          /\ UNCHANGED <<conversations, messages, lastReadAt, clock, announced, notified>>
      BY <1>5, <2>2, <2>3 DEF FindMessage
    <3>5. \A x \in {<<c, k, m>>} :
            Sent(x[3]) /\ messages[x[3]].conv = x[1] /\ messages[x[3]].key = x[2]
      BY <3>2
    <3>6. announced' \subseteq Msgs /\ notified' \subseteq Msgs
      BY <3>4 DEF ChatTypes
    <3> QED BY <3>1, <3>3, <3>4, <3>5, <3>6, AnswerKeeps
  <2>4. CASE WithKey(c, k) = {}
    <3>1. PICK q \in SendReq : q = [chatReq[r] EXCEPT !.pc = "insertMessage"]
      BY <2>1 DEF SendReq
    <3>2. q.pc = "insertMessage" /\ q.conv = c /\ q \in ChatReqs
      BY <2>1, <2>2, <3>1 DEF ChatReqs, SendReq
    <3>3. SoundReq(q)
      BY <1>0, <2>1, <2>2, <3>2 DEF SoundReq
    <3>4. Go(r, q) /\ UNCHANGED <<conversations, messages, lastReadAt, clock, opened,
                                  answered, announced, notified>>
      BY <1>5, <2>2, <2>4, <3>1 DEF FindMessage
    <3> QED BY <1>1, <3>2, <3>3, <3>4
  <2> QED BY <2>3, <2>4
<1>6. ASSUME InsertRefused(r) PROVE ChatTypes' /\ ChatSafety'
  <2>1. PICK m \in WithKey(chatReq[r].conv, chatReq[r].key) :
          Go(r, [pc |-> "announce", msg |-> m])
    BY <1>6 DEF InsertRefused
  <2>2. m \in Msgs /\ Sent(m)
    BY DEF WithKey
  <2>3. PICK q \in SentReq : q = [pc |-> "announce", msg |-> m]
    BY <2>2 DEF SentReq
  <2>4. q \in ChatReqs /\ SoundReq(q) /\ q.pc # "commit"
    BY <2>2, <2>3 DEF ChatReqs, SoundReq
  <2> QED BY <1>1, <1>6, <2>1, <2>3, <2>4 DEF InsertRefused
<1>7. ASSUME Announce(r) PROVE ChatTypes' /\ ChatSafety'
  <2>1. chatReq[r] \in SentReq /\ chatReq[r].pc = "announce"
    BY <1>0, <1>7, ChatRequestKinds DEF Announce
  <2>2. PICK m \in Msgs : m = chatReq[r].msg
    BY <2>1 DEF SentReq
  <2>3. Sent(m) /\ messages[m] \in MessageRow
    BY <1>0, <2>1, <2>2 DEF SoundReq, Sent, ChatTypes
  <2>4. PICK c \in Convs, k \in Keys : c = messages[m].conv /\ k = messages[m].key
    BY <2>3 DEF MessageRow
  <2>5. /\ Go(r, Idle) /\ opened' = opened \cup {}
        /\ answered' = answered \cup {<<c, k, m>>}
        /\ announced' = announced \cup {m} /\ NotifyOffline(m)
        /\ UNCHANGED <<conversations, messages, lastReadAt, clock>>
    BY <1>7, <2>2, <2>4 DEF Announce
  <2>6. announced' \subseteq Msgs /\ notified' \subseteq Msgs
    BY <2>5 DEF ChatTypes, NotifyOffline
  <2>7. {<<c, k, m>>} \in SUBSET (Convs \X Keys \X Msgs) /\ {} \in SUBSET (Apps \X Convs)
    OBVIOUS
  <2>8. \A x \in {<<c, k, m>>} :
          Sent(x[3]) /\ messages[x[3]].conv = x[1] /\ messages[x[3]].key = x[2]
    BY <2>3, <2>4
  <2> QED BY <2>5, <2>6, <2>7, <2>8, AnswerKeeps
<1>8. ASSUME MarkMemberRead(r) PROVE ChatTypes' /\ ChatSafety'
  <2>1. chatReq[r] \in ReadReq
    BY <1>0, <1>8, ChatRequestKinds DEF MarkMemberRead
  <2>2. lastReadAt' \in [Convs \X Users -> Times]
    BY <1>8, <2>1 DEF MarkMemberRead, ReadReq, ChatTypes
  <2>3. /\ clock' \in Times /\ announced' \subseteq Msgs /\ notified' \subseteq Msgs
        /\ UNCHANGED <<conversations, messages, opened, answered>> /\ Go(r, Idle)
    BY <1>8 DEF MarkMemberRead, ChatTypes
  <2> QED BY <1>0, <2>2, <2>3, GoKeeps
<1>9. ASSUME ChatRequestFails(r) PROVE ChatTypes' /\ ChatSafety'
  BY <1>0, <1>1, <1>9 DEF ChatRequestFails
<1> QED BY <1>3, <1>4, <1>5, <1>6, <1>7, <1>8, <1>9, InsertKeeps, CommitKeeps,
           UpdateKeeps DEF ChatContinue

LEMMA RestartKeeps ==
  ASSUME ChatTypes, ChatSafety, Restart
  PROVE  ChatTypes' /\ ChatSafety'
<1>0. Idle \in ChatReqs /\ Idle.pc = "idle"
  BY DEF ChatReqs, Idle
<1>1. /\ chatReq' = [r \in Requests |-> Idle]
      /\ UNCHANGED <<conversations, lastReadAt, messages, clock, opened, answered,
                     announced, notified>>
  BY DEF Restart
<1>2. ChatTypes'
  BY <1>0, <1>1 DEF ChatTypes
<1>3. RowsSound' /\ InSync'
  BY <1>1 DEF ChatSafety, RowsSound, OneConversationPerApplication, OneMessagePerKey,
         MessagesInConversations, AnswersExist, InSync, LastSent, Open, Sent
<1>4. SoundRequests' /\ InsertsApart'
  BY <1>0, <1>1 DEF SoundRequests, SoundReq, InsertsApart
<1> QED BY <1>2, <1>3, <1>4 DEF ChatSafety, RequestsSound

LEMMA ChatIdles ==
  ASSUME ChatTypes, ChatSafety, UNCHANGED chatVars
  PROVE  ChatTypes' /\ ChatSafety'
<1>1. ChatTypes'
  BY DEF chatVars, ChatTypes
<1>2. RowsSound' /\ InSync'
  BY DEF chatVars, ChatSafety, RowsSound, OneConversationPerApplication,
         OneMessagePerKey, MessagesInConversations, AnswersExist, InSync, LastSent,
         Open, Sent
<1>3. SoundRequests' /\ InsertsApart'
  BY DEF chatVars, ChatSafety, RequestsSound, SoundRequests, SoundReq, InsertsApart,
         Open, Sent, WithKey
<1> QED BY <1>1, <1>2, <1>3 DEF ChatSafety, RequestsSound

LEMMA ChatInvariant == ChatSpec => [](ChatTypes /\ ChatSafety)
<1>1. ChatInit => ChatTypes /\ ChatSafety
  <2> SUFFICES ASSUME ChatInit PROVE ChatTypes /\ ChatSafety
    OBVIOUS
  <2>1. 0 \in Times
    BY ChatAssumption DEF Times
  <2>2. ChatTypes
    BY <2>1 DEF ChatInit, ChatTypes, ChatReqs
  <2>3. RowsSound /\ InSync
    BY DEF ChatInit, RowsSound, OneConversationPerApplication, OneMessagePerKey,
           MessagesInConversations, AnswersExist, InSync, LastSent, Open, Sent
  <2>4. SoundRequests /\ InsertsApart
    BY DEF ChatInit, SoundRequests, SoundReq, InsertsApart, Idle
  <2> QED BY <2>2, <2>3, <2>4 DEF ChatSafety, RequestsSound
<1>2. ChatTypes /\ ChatSafety /\ [ChatNext]_allVars => (ChatTypes /\ ChatSafety)'
  BY ChatStartKeeps, ChatContinueKeeps, RestartKeeps, ChatIdles
     DEF ChatNext, allVars
<1> QED BY <1>1, <1>2, PTL DEF ChatSpec

(* A repetition, however it overlaps, is answered with the same row.       *)
THEOREM RepetitionsAgree == ChatSpec => []AnswersAgree
<1>1. ChatTypes /\ ChatSafety => AnswersAgree
  <2> SUFFICES ASSUME ChatTypes, ChatSafety PROVE AnswersAgree
    OBVIOUS
  <2>1. ASSUME NEW x \in opened, NEW y \in opened, x[1] = y[1] PROVE x[2] = y[2]
    BY <2>1 DEF ChatTypes, ChatSafety, RowsSound, AnswersExist,
                OneConversationPerApplication
  <2>2. ASSUME NEW x \in answered, NEW y \in answered, x[1] = y[1], x[2] = y[2]
        PROVE  x[3] = y[3]
    BY <2>2 DEF ChatTypes, ChatSafety, RowsSound, AnswersExist, OneMessagePerKey
  <2> QED BY <2>1, <2>2 DEF AnswersAgree
<1> QED BY <1>1, ChatInvariant, PTL

(* A conversation's lastMessageAt is always the stamp of one of its        *)
(* messages, wherever a send breaks off.                                   *)
THEOREM LastMessageHolds == ChatSpec => []LastMessageInSync
<1>1. InSync => LastMessageInSync
  <2> SUFFICES ASSUME NEW c \in Convs, LastSent(c),
                      NEW stamps, stamps = {messages[m].createdAt :
                        m \in {n \in Msgs : Sent(n) /\ messages[n].conv = c}}
               PROVE  IF stamps = {} THEN conversations[c].lastMessageAt = 0
                      ELSE conversations[c].lastMessageAt \in stamps
    BY DEF InSync, LastMessageInSync
  <2>1. CASE \A m \in Msgs : Sent(m) => messages[m].conv # c
    <3>1. stamps = {}
      BY <2>1
    <3>2. conversations[c].lastMessageAt = 0
      BY <2>1 DEF LastSent
    <3> QED BY <3>1, <3>2
  <2>2. CASE \E m \in Msgs : Sent(m) /\ messages[m].conv = c
    <3>1. PICK m \in Msgs : /\ Sent(m) /\ messages[m].conv = c
                            /\ conversations[c].lastMessageAt = messages[m].createdAt
      BY <2>2 DEF LastSent
    <3>2. messages[m].createdAt \in stamps
      BY <3>1
    <3> QED BY <3>1, <3>2
  <2> QED BY <2>1, <2>2
<1> QED BY <1>1, ChatInvariant, PTL DEF ChatSafety

-----------------------------------------------------------------------------
(* Presence                                                                *)

(* A live socket is registered for its user.                               *)
LiveIsRegistered ==
  \A k \in Sockets : socket[k] = "live" => k \in socketsByUser[UserOf[k]]
PresSound == PresTypeOK /\ LiveIsRegistered

LEMMA PresenceKeeps ==
  ASSUME PresSound, [ChatNext]_allVars
  PROVE  PresSound'
<1> USE SocketAssumption DEF PresSound, PresTypeOK, LiveIsRegistered
<1>1. CASE UNCHANGED presVars
  BY <1>1 DEF presVars
<1>2. ASSUME NEW k \in Sockets, Connect(k) \/ Unauthenticated(k) PROVE PresSound'
  BY <1>2 DEF Connect, Unauthenticated
<1>3. ASSUME NEW k \in Sockets, Authenticated(k) PROVE PresSound'
  BY <1>3 DEF Authenticated, AddSocket
<1>4. ASSUME NEW k \in Sockets, Disconnect(k) PROVE PresSound'
  BY <1>4 DEF Disconnect, RemoveSockets
<1>5. ASSUME NEW u \in Users, SessionRevoked(u) PROVE PresSound'
  BY <1>5 DEF SessionRevoked, RemoveSockets
<1>6. ASSUME Restart PROVE PresSound'
  BY <1>6 DEF Restart, PresRestart
<1> QED BY <1>1, <1>2, <1>3, <1>4, <1>5, <1>6 DEF ChatNext, PresNext, allVars

LEMMA PresenceInvariant == ChatSpec => []PresSound
<1>1. ChatInit => PresSound
  BY DEF ChatInit, PresInit, PresSound, PresTypeOK, LiveIsRegistered
<1> QED BY <1>1, PresenceKeeps, PTL DEF ChatSpec

(* Sockets, rows and requests keep their types.                            *)
THEOREM ChatTypeCorrect == ChatSpec => []ChatTypeOK
<1>1. ChatTypes /\ PresSound => ChatTypeOK
  BY DEF ChatTypes, ChatReqs, PresSound, ChatTypeOK
<1> QED BY <1>1, ChatInvariant, PresenceInvariant, PTL

(* Nobody with a live socket on any device is notified in its stead,       *)
(* whatever handshakes, disconnections and revoked sessions overlap.       *)
THEOREM OnlineGetNoNotification == ChatSpec => NobodyOnlineIsNotified
<1>1. PresSound /\ [ChatNext]_allVars =>
        \/ UNCHANGED allVars
        \/ \A m \in notified' \ notified :
             ~ HasLiveSocket(OtherParticipant(messages[m].conv, messages[m].sender))
  <2> SUFFICES ASSUME PresSound, ChatNext, NEW m \in notified' \ notified
               PROVE  ~ HasLiveSocket(OtherParticipant(messages[m].conv,
                                                       messages[m].sender))
    OBVIOUS
  <2>0. ASSUME NEW r \in Requests, ChatStart(r) PROVE UNCHANGED notified
    BY <2>0 DEF ChatStart, CreateConversation, SendMessage, EditMessage, DeleteMessage,
                ReadMessage, MarkRead
  <2>1. ASSUME NEW r \in Requests, ChatContinue(r) PROVE Announce(r) \/ UNCHANGED notified
    <3>1. CASE FindConversation(r) \/ InsertConversation(r)
      BY <3>1 DEF FindConversation, AnswerConversation, InsertConversation,
                  InsertNewConversation
    <3>2. CASE FindMessage(r) \/ InsertRefused(r) \/ CommitMessage(r)
      BY <3>2 DEF FindMessage, InsertRefused, CommitMessage
    <3>3. CASE \E n \in Msgs : InsertMessage(r, n)
      BY <3>3 DEF InsertMessage
    <3>4. CASE UpdateMessage(r) \/ MarkMemberRead(r) \/ ChatRequestFails(r)
      BY <3>4 DEF UpdateMessage, MarkMemberRead, ChatRequestFails
    <3> QED BY <2>1, <3>1, <3>2, <3>3, <3>4 DEF ChatContinue
  <2>2. PICK r \in Requests : Announce(r)
    BY <2>0, <2>1 DEF ChatNext, Restart, chatVars
  <2>3. ~ IsOnline(OtherParticipant(messages[m].conv, messages[m].sender))
    BY <2>2 DEF Announce, NotifyOffline
  <2> QED BY <2>3 DEF PresSound, LiveIsRegistered, HasLiveSocket, IsOnline
<1> QED BY <1>1, PresenceInvariant, PTL DEF ChatSpec, NobodyOnlineIsNotified
=============================================================================
