----------------------------- MODULE BridgeStore -----------------------------
(***************************************************************************)
(* The message store of Backend-Bridge (main.go): live messages are saved  *)
(* by handleMessage, one after another; a history sync is saved by         *)
(* handleHistorySync in a goroutine of its own, one conversation after     *)
(* another.  Both look up the chat's name, write the chat, then write the  *)
(* messages, each a statement of its own on SQLite, so they interleave.    *)
(*                                                                         *)
(* A failed write is logged and forgotten, and a failed look-up of a name  *)
(* counts as no name.  The messages table refers to the chats table with   *)
(* foreign keys on: a message whose chat has no row is refused.            *)
(*                                                                         *)
(* A name is one of four: the contact's or group's name ("full"), the      *)
(* chat's own number ("number"), the sender of its first message, who may  *)
(* be this account ("own"), or none.                                       *)
(*                                                                         *)
(* Definitions named Wrong... are mutated forms, see Outbox.               *)
(***************************************************************************)
EXTENDS Integers, Sequences, FiniteSets

CONSTANTS
  Chats,       (* conversations                                            *)
  Groups,      (* those that are groups                                    *)
  Texts,       (* messages                                                 *)
  ChatOf,      (* the chat of a message                                    *)
  Date,        (* its timestamp; 0 when the history carries none           *)
  Own,         (* messages this account sent from another device           *)
  Empty,       (* messages with neither text nor media                     *)
  NoChat,      (* the chat has no row                                      *)
  MaxBatch     (* bound: messages of a conversation in one history event   *)

ASSUME BridgeStoreAssumption ==
  /\ Groups \subseteq Chats
  /\ ChatOf \in [Texts -> Chats]
  /\ Date \in [Texts -> Nat]
  /\ Own \subseteq Texts /\ Empty \subseteq Texts
  /\ NoChat \notin [name : {"full", "number", "own"}, time : Nat]
  /\ MaxBatch \in Nat

Handlers == {"live", "history"}

VARIABLES
  chats,     (* the chats table: name and last_message_time, or NoChat     *)
  rows,      (* the messages with a row                                    *)
  known,     (* chats whose contact or group name WhatsApp has delivered   *)
  pc,        (* pc[h]: the step handler h is at                            *)
  batch,     (* batch[h]: the messages it still has to write               *)
  chosen,    (* chosen[h]: the name it will write                          *)
  unseen,    (* unseen[h]: messages it has not been given yet              *)
  excused,   (* messages with a reason to have no row                      *)
  first,     (* first[c]: the name c was first given                       *)
  raced,     (* chats another handler wrote between a handler's look-up
                and its write                                              *)
  missed     (* chats with a row that a failed look-up did not see         *)

storeVars == <<chats, rows, known, pc, batch, chosen, unseen, excused, first,
               raced, missed>>

StoreInit ==
  /\ chats   = [c \in Chats |-> NoChat]
  /\ rows    = {}
  /\ known   = {}
  /\ pc      = [h \in Handlers |-> "idle"]
  /\ batch   = [h \in Handlers |-> <<>>]
  /\ chosen  = [h \in Handlers |-> "none"]
  /\ unseen  = [h \in Handlers |-> Texts]
  /\ excused = {}
  /\ first   = [c \in Chats |-> "none"]
  /\ raced   = {}
  /\ missed  = {}

-----------------------------------------------------------------------------

Chat(h) == ChatOf[Head(batch[h])]

Listed(s) == {s[i] : i \in DOMAIN s}

(* The orders in which a history event may list messages of one chat. *)
Batches ==
  {s \in UNION {[1..n -> unseen["history"]] : n \in 1..MaxBatch} :
     /\ Cardinality(Listed(s)) = Len(s)
     /\ \A i \in DOMAIN s : ChatOf[s[i]] = ChatOf[s[1]]}

Deliver(h, s) ==
  /\ pc[h] = "idle"
  /\ pc'     = [pc EXCEPT ![h] = "look"]
  /\ batch'  = [batch EXCEPT ![h] = s]
  /\ unseen' = [unseen EXCEPT ![h] = @ \ Listed(s)]
  /\ UNCHANGED <<chats, rows, known, chosen, excused, first, raced, missed>>

(* WhatsApp delivers a message.  A live one always has a date. *)
LiveMessage(m) ==
  /\ m \in unseen["live"]
  /\ Date[m] # 0
  /\ Deliver("live", <<m>>)

HistoryConversation(s) == s \in Batches /\ Deliver("history", s)

(* WhatsApp delivers a contact or the description of a group. *)
LearnName(c) ==
  /\ c \notin known
  /\ known' = known \cup {c}
  /\ UNCHANGED <<chats, rows, pc, batch, chosen, unseen, excused, first, raced,
                 missed>>

(* GetChatName for a chat without a row.  A history event may carry a group's
   name itself.  The sender of a live message stands in for a contact nobody
   knows, this account's own number included. *)
Names(h, c) ==
  IF c \in known THEN {"full"}
  ELSE IF c \in Groups
         THEN IF h = "history" THEN {"full", "number"} ELSE {"number"}
         ELSE IF h = "live" /\ Head(batch[h]) \in Own THEN {"own"}
                                                      ELSE {"number"}

(* A name the chat has is kept, if the SELECT for it succeeds: an error is
   taken for a chat without a name. *)
WrongNameFor(h, n, read) == n

NameFor(h, n, read) ==
  IF read /\ chats[Chat(h)] # NoChat THEN chats[Chat(h)].name ELSE n

LookUpName(h, read) ==
  /\ pc[h] = "look"
  /\ \E n \in Names(h, Chat(h)) :
       chosen' = [chosen EXCEPT ![h] = NameFor(h, n, read)]
  /\ missed' = missed \cup
       IF ~read /\ chats[Chat(h)] # NoChat THEN {Chat(h)} ELSE {}
  /\ pc' = [pc EXCEPT ![h] = "chat"]
  /\ UNCHANGED <<chats, rows, known, batch, unseen, excused, first, raced>>

(* A conversation whose first message has no date is passed over whole. *)
SkipConversation(h) ==
  /\ pc[h] = "chat"
  /\ h = "history"
  /\ Date[Head(batch[h])] = 0
  /\ pc'      = [pc EXCEPT ![h] = "idle"]
  /\ batch'   = [batch EXCEPT ![h] = <<>>]
  /\ chosen'  = [chosen EXCEPT ![h] = "none"]
  /\ excused' = excused \cup Listed(batch[h])
  /\ UNCHANGED <<chats, rows, known, unseen, first, raced, missed>>

(* Whether the chat was written or not, the messages are next. *)
WrongAfterChat(h, ok) ==
  /\ pc'    = [pc EXCEPT ![h] = IF ok THEN "messages" ELSE "idle"]
  /\ batch' = [batch EXCEPT ![h] = IF ok THEN @ ELSE <<>>]

AfterChat(h, ok) ==
  /\ pc' = [pc EXCEPT ![h] = "messages"]
  /\ UNCHANGED batch

(* StoreChat replaces name and time with those of the first message, newest
   or not. *)
StoreChat(h, ok) ==
  /\ pc[h] = "chat"
  /\ Date[Head(batch[h])] # 0
  /\ LET c == Chat(h) IN
       IF ok
         THEN /\ chats' = [chats EXCEPT ![c] =
                             [name |-> chosen[h], time |-> Date[Head(batch[h])]]]
              /\ first' = IF chats[c] = NoChat
                            THEN [first EXCEPT ![c] = chosen[h]] ELSE first
              /\ raced' = raced \cup
                   IF \E g \in Handlers \ {h} : pc[g] = "chat" /\ Chat(g) = c
                     THEN {c} ELSE {}
         ELSE UNCHANGED <<chats, first, raced>>
  /\ AfterChat(h, ok)
  /\ chosen' = [chosen EXCEPT ![h] = "none"]
  /\ UNCHANGED <<rows, known, unseen, excused, missed>>

(* A message is worth a row if there is a text, an image, a video, an audio
   or a document in it. *)
HasContent(m) == m \notin Empty

(* The INSERT goes through; a message whose chat has no row is refused. *)
Insertable(h, ok) == ok /\ chats[Chat(h)] # NoChat

(* StoreMessage, for the next message.  One with nothing in it or without a
   date is passed over. *)
StoreMessage(h, ok) ==
  /\ pc[h] = "messages"
  /\ LET m == Head(batch[h]) IN
       /\ rows'    = IF HasContent(m) /\ Date[m] # 0 /\ Insertable(h, ok)
                       THEN rows \cup {m} ELSE rows
       /\ excused' = IF Insertable(h, ok) THEN excused ELSE excused \cup {m}
  /\ batch' = [batch EXCEPT ![h] = Tail(@)]
  /\ pc'    = [pc EXCEPT ![h] = IF Tail(batch[h]) = <<>> THEN "idle" ELSE @]
  /\ UNCHANGED <<chats, known, chosen, unseen, first, raced, missed>>

StoreNext ==
  \/ \E m \in Texts : LiveMessage(m)
  \/ \E s \in Batches : HistoryConversation(s)
  \/ \E c \in Chats : LearnName(c)
  \/ \E h \in Handlers, read \in BOOLEAN : LookUpName(h, read)
  \/ \E h \in Handlers : SkipConversation(h)
  \/ \E h \in Handlers, ok \in BOOLEAN : StoreChat(h, ok) \/ StoreMessage(h, ok)

StoreSpec == StoreInit /\ [][StoreNext]_storeVars

-----------------------------------------------------------------------------

NameSet == {"full", "number", "own"}

StoreTypeOK ==
  /\ chats \in [Chats -> {NoChat} \cup [name : NameSet, time : Nat]]
  /\ rows \in SUBSET Texts
  /\ known \in SUBSET Chats
  /\ pc \in [Handlers -> {"idle", "look", "chat", "messages"}]
  /\ batch \in [Handlers -> Seq(Texts)]
  /\ chosen \in [Handlers -> NameSet \cup {"none"}]
  /\ unseen \in [Handlers -> SUBSET Texts]
  /\ excused \in SUBSET Texts
  /\ first \in [Chats -> NameSet \cup {"none"}]
  /\ raced \in SUBSET Chats
  /\ missed \in SUBSET Chats

(* A message is being handled as long as it is in a batch. *)
Handling(m) == \E h \in Handlers : m \in Listed(batch[h])

(* Every dated message with content that a handler was given and is through
   with has a row, unless its write failed, its chat had no row because
   writing the chat failed, or its conversation began with a message without
   a date; and a row always has its chat.  A failed chat write alone loses
   nothing when the chat has a row. *)
StoredOrExcused ==
  /\ \A m \in Texts :
       \/ m \in rows \cup excused \cup Empty
       \/ Date[m] = 0
       \/ Handling(m)
       \/ \A h \in Handlers : m \in unseen[h]
  /\ \A m \in rows : chats[ChatOf[m]] # NoChat

(* The name a chat is first given stays, whatever is learnt later.  There are
   two ways for it to change: the live and the history handler looked the
   chat up before either wrote it, or a look-up failed although the chat had
   a row, so that a name derived anew was written over the stored one. *)
FirstNameStays ==
  \A c \in Chats \ (raced \cup missed) :
    chats[c] # NoChat => chats[c].name = first[c]

=============================================================================
