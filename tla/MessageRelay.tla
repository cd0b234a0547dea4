---------------------------- MODULE MessageRelay ----------------------------
(***************************************************************************)
(* The relay of direct messages: ChatGateway.handleSendMessage with its    *)
(* process.nextTick delivery update, handleReceipt, handleConnection with  *)
(* the gap fill, handleDisconnect, chat:open and chat:close, the inline    *)
(* wipe and the 30-day expiry of MessageCleanupService, and the receiver's *)
(* client they talk to (services/socket.ts, context/ChatContext.tsx).  The *)
(* sender's client, its outbox and its ticks are in SenderTicks.           *)
(*                                                                         *)
(* One sender writes to one receiver in one conversation, which already    *)
(* has messages on the receiver's device: openChatRoom then never fetches  *)
(* the history, and only the socket brings messages.  Every await of       *)
(* the server's handlers is a point where other handlers run, so a handler *)
(* is a task with a program counter and one action per database call.      *)
(***************************************************************************)
EXTENDS Naturals, Sequences, FiniteSets

CONSTANTS
  Msgs,         \* client message ids; (senderId, clientMessageId) is unique in the database
  Socks,        \* identities of the receiver's successive connections
  MaxTries,     \* bound: times a message is emitted as message:send
  MaxOwn,       \* bound: messages the receiver itself sends elsewhere
  MaxOpens,     \* bound: times the receiver opens the conversation
  MaxFaults,    \* bound: failed database calls
  AllowDrop,    \* the receiver's transport may die
  AllowBlock,   \* the receiver may block and unblock the sender
  AllowLeave,   \* the receiver may delete the conversation, on another device of its own
  AllowExpiry,  \* the 30-day cron may run
  AllowBlind,   \* the receiver may connect without an up-to-date lastMessageId
  AllowCrash,   \* the server process may crash and restart
  GapTake       \* the most messages that a gap fill delivers: 200 in the code

ASSUME RelayAssumption ==
  /\ MaxTries \in Nat \ {0}
  /\ MaxOwn \in Nat /\ MaxOpens \in Nat /\ MaxFaults \in Nat
  /\ {AllowDrop, AllowBlock, AllowLeave, AllowExpiry, AllowBlind, AllowCrash}
       \subseteq BOOLEAN
  /\ GapTake \in Nat \ {0}

Tries == 1..MaxTries
Marks == {"DELIVERED", "READ"}
Statuses == {"SERVER_RECEIVED"} \cup Marks
Devices == {"1", "device"}      \* the literal '1' of the nextTick path, the JWT's deviceId
NoCursor == 0                   \* a handshake without lastMessageId

VARIABLES
  row,       \* Message.status, or "absent" when there is no row
  content,   \* ciphertexts: "kept", "wiped" (inline wipe), "dropped" (inline wipe, with no
             \* recipient left in the conversation) or "expired" (cron)
  born,      \* Message.createdAt, as a rank
  clock,     \* the last createdAt handed out
  receipt,   \* Receipt.status per device
  blocked,   \* a BlockedUser row (receiver blocks sender) exists
  left,      \* the receiver's ConversationMember row is gone
  hidden,    \* MessageDeletion rows of the receiver
  quit,      \* the receiver's deleteUserConversation call
  active,    \* Redis: the receiver's active conversation is this one
  memory,    \* the same in the process's own map, which stands in for Redis
  wipe,      \* running clearCiphertextsAfterDelivery calls: "check", "commit" or "drop"
  send,      \* running handleSendMessage calls
  link,      \* the receiver's connections
  inbox,     \* message:new frames in flight to a connection
  chatq,     \* chat:open (TRUE) and chat:close (FALSE) frames in flight
  fill,      \* _deliverMissedMessages calls; past: history, the messages they pass over
  rcpt,      \* receipts the receiver sends and the handleReceipt calls they start
  have,      \* receiver's store: "none", "full" or "empty" (stored without content)
  looking,   \* the conversation is on the receiver's screen
  opens,     \* times it was opened
  sent,      \* sentReceiptsRef
  ownAt,     \* createdAt of the receiver's own last acknowledged message
  cursor,    \* @chat_last_message_id in the receiver's storage
  auth,      \* lastMessageId captured in the socket's auth
  told,      \* what the sender was sent about the message: the ack and the ticks
  readOn,    \* both users have read receipts on
  faults     \* failed database calls so far

dbVars == <<row, content, born, clock, receipt, blocked, left, hidden>>
taskVars == <<send, wipe, fill, rcpt, quit>>
linkVars == <<link, inbox, chatq, active, memory>>
recvVars == <<have, looking, opens, sent, ownAt, cursor, auth>>
vars == <<dbVars, taskVars, linkVars, recvVars, told, readOn, faults>>

SendPcs == {"idle", "block", "publish", "mark", "store", "active", "settings",
            "read", "storeRead", "done"}
Links == {"idle", "open", "dead", "closing", "closed"}
Frames == [m : Msgs, body : BOOLEAN]
Fills == [pc : {"none", "query", "emit"}, since : Nat, got : SUBSET Frames, past : SUBSET Msgs]
Quits == [pc : {"none", "list", "hide"}, todo : SUBSET Msgs]
NoQuit == [pc |-> "none", todo |-> {}]

RcptPcs == {"none", "transit", "update", "upsert", "done"}
\* A receipt and its handler: the connections it was emitted on, the status to store and
\* whether the sender is known.
Receipts == [pc : RcptPcs, via : SUBSET Socks, st : Marks, tell : BOOLEAN]
Receipt(pc, via, st, tell) == [pc |-> pc, via |-> via, st |-> st, tell |-> tell]

DbOK ==
  /\ row \in [Msgs -> Statuses \cup {"absent"}]
  /\ content \in [Msgs -> {"kept", "wiped", "dropped", "expired"}]
  /\ born \in [Msgs -> Nat] /\ clock \in Nat
  /\ receipt \in [Msgs -> [Devices -> Marks \cup {"none"}]]
  /\ {blocked, left} \subseteq BOOLEAN /\ hidden \subseteq Msgs

TaskOK ==
  /\ send \in [Msgs -> [Tries -> [pc : SendPcs, blk : BOOLEAN]]]
  /\ wipe \in [Msgs -> SUBSET {"check", "commit", "drop"}]
  /\ fill \in [Socks -> Fills]
  /\ rcpt \in [Msgs -> [Marks -> Receipts]]
  /\ quit \in Quits

LinkOK ==
  /\ link \in [Socks -> Links]
  /\ inbox \in [Socks -> Seq(Frames)]
  /\ chatq \in [Socks -> Seq(BOOLEAN)]
  /\ {active, memory} \subseteq BOOLEAN

RecvOK ==
  /\ have \in [Msgs -> {"none", "full", "empty"}]
  /\ looking \in BOOLEAN /\ opens \in Nat
  /\ sent \subseteq Msgs \X Marks
  /\ ownAt \in Nat /\ cursor \in Nat /\ auth \in Nat

TypeOK ==
  /\ DbOK /\ TaskOK /\ LinkOK /\ RecvOK
  /\ told \in [Msgs -> SUBSET ({"SERVER_RECEIVED", "FAILED"} \cup Marks)]
  /\ readOn \in BOOLEAN /\ faults \in Nat

Init ==
  /\ row = [m \in Msgs |-> "absent"] /\ content = [m \in Msgs |-> "kept"]
  /\ born = [m \in Msgs |-> 0] /\ clock = 1
  /\ receipt = [m \in Msgs |-> [d \in Devices |-> "none"]]
  /\ blocked \in (IF AllowBlock THEN BOOLEAN ELSE {FALSE})
  /\ left = FALSE /\ hidden = {} /\ quit = NoQuit /\ active = FALSE /\ memory = FALSE
  /\ wipe = [m \in Msgs |-> {}]
  /\ send = [m \in Msgs |-> [i \in Tries |-> [pc |-> "idle", blk |-> FALSE]]]
  /\ link = [k \in Socks |-> "idle"]
  /\ inbox = [k \in Socks |-> <<>>] /\ chatq = [k \in Socks |-> <<>>]
  /\ fill = [k \in Socks |-> [pc |-> "none", since |-> 0, got |-> {}, past |-> {}]]
  /\ rcpt = [m \in Msgs |-> [s \in Marks |-> Receipt("none", {}, s, FALSE)]]
  /\ have = [m \in Msgs |-> "none"]
  /\ looking = FALSE /\ opens = 0 /\ sent = {}
  /\ cursor \in IF AllowBlind THEN {NoCursor, 1} ELSE {1}
  /\ ownAt = cursor /\ auth = NoCursor
  /\ told = [m \in Msgs |-> {}]
  \* Where nothing is opened nothing is read, and one setting stands for both.
  /\ readOn \in (IF MaxOpens = 0 THEN {TRUE} ELSE BOOLEAN) /\ faults = 0

-----------------------------------------------------------------------------
(* Building blocks.                                                        *)

Online == \E k \in Socks : link[k] \in {"open", "dead", "closing"}
Connected(k) == link[k] = "open"

Goto(m, i, p) == send' = [send EXCEPT ![m][i].pc = p]
Advance(m, s, p) == rcpt' = [rcpt EXCEPT ![m][s].pc = p]

\* A frame to the sender, on the connection the request came on or to its room.
Tell(m, st) == told' = [told EXCEPT ![m] = @ \cup {st}]

\* prisma.message.update of the status; it fails when there is no row.
SetStatus(m, st) == row' = [row EXCEPT ![m] = IF @ = "absent" THEN @ ELSE st]

Fail == faults < MaxFaults /\ faults' = faults + 1

-----------------------------------------------------------------------------
(* handleSendMessage, one action per database call it awaits.              *)

\* Attempt i is the i-th message:send frame with this clientMessageId that arrives.
Arrived(m, i) == send[m][i].pc = "idle" /\ \A j \in 1..(i - 1) : send[m][j].pc # "idle"

\* Mutant of SaveMessage: an upsert that resets the row of the earlier attempt.
UpsertMessage(m, i) ==
  /\ Arrived(m, i)
  /\ Goto(m, i, "block")
  /\ row' = [row EXCEPT ![m] = "SERVER_RECEIVED"]
  /\ clock' = clock + 1
  /\ born' = [born EXCEPT ![m] = clock + 1]
  /\ UNCHANGED <<content, receipt, blocked, left, hidden, wipe, fill, rcpt, quit, linkVars,
                 recvVars, told, readOn, faults>>

\* createMessage: the receiver, if it left, is put back into the conversation that the frame was
\* routed to (FirstContact); then the insert, or P2002 and the row of the earlier attempt.
SaveMessage(m, i) ==
  /\ Arrived(m, i)
  /\ Goto(m, i, "block")
  /\ IF row[m] = "absent"
       THEN /\ row' = [row EXCEPT ![m] = "SERVER_RECEIVED"]
            /\ clock' = clock + 1
            /\ born' = [born EXCEPT ![m] = clock + 1]
            /\ left' = FALSE
       ELSE left' \in {left, FALSE} /\ UNCHANGED <<row, clock, born>>
  /\ UNCHANGED <<content, receipt, blocked, hidden, wipe, fill, rcpt, quit, linkVars,
                 recvVars, told, readOn, faults>>

\* Mutant of SaveFails: the catch block forgets to return.
FailWithoutReturn(m, i) ==
  /\ Arrived(m, i)
  /\ Fail
  /\ Goto(m, i, "block")
  /\ Tell(m, "FAILED")
  /\ UNCHANGED <<dbVars, wipe, fill, rcpt, quit, linkVars, recvVars, readOn>>

\* Any other error of createMessage: an ERROR ack, and the handler ends.  If the lookup
\* of the earlier attempt's row fails it ends without one.
SaveFails(m, i) ==
  /\ Arrived(m, i)
  /\ Fail
  /\ Goto(m, i, "done")
  /\ Tell(m, "FAILED") \/ (row[m] # "absent" /\ UNCHANGED told)
  /\ UNCHANGED <<dbVars, wipe, fill, rcpt, quit, linkVars, recvVars, readOn>>

\* The query is outside every try block: if it fails the handler ends, with no ack.
CheckBlock(m, i) ==
  /\ send[m][i].pc = "block"
  /\ \/ send' = [send EXCEPT ![m][i] = [pc |-> "publish", blk |-> blocked]]
        /\ UNCHANGED faults
     \/ Fail /\ Goto(m, i, "done")
  /\ UNCHANGED <<dbVars, wipe, fill, rcpt, quit, linkVars, recvVars, told, readOn>>

\* message:new to the receiver's room, message:ack to the client and the nextTick
\* callback's _isOnline run without an await between them.
Publish(m, i) ==
  /\ send[m][i].pc = "publish"
  /\ inbox' = [k \in Socks |->
                 IF Connected(k) /\ ~send[m][i].blk
                   THEN Append(inbox[k], [m |-> m, body |-> TRUE]) ELSE inbox[k]]
  /\ Tell(m, "SERVER_RECEIVED")
  /\ Goto(m, i, IF Online THEN "mark" ELSE "done")
  /\ UNCHANGED <<dbVars, wipe, fill, rcpt, quit, link, chatq, active, memory, recvVars, readOn,
                 faults>>

\* nextTick: message.update; if it throws the callback ends.
MarkDelivered(m, i) ==
  /\ send[m][i].pc = "mark"
  /\ \/ SetStatus(m, "DELIVERED") /\ Goto(m, i, "store") /\ UNCHANGED faults
     \/ Fail /\ Goto(m, i, "done") /\ UNCHANGED row
  /\ UNCHANGED <<content, born, clock, receipt, blocked, left, hidden, wipe, fill, rcpt, quit,
                 linkVars, recvVars, told, readOn>>

\* receipt.upsert for device '1', the wipe check and the double tick.
StoreDelivered(m, i) ==
  /\ send[m][i].pc = "store"
  /\ \/ receipt' = [receipt EXCEPT ![m]["1"] = "DELIVERED"] /\ UNCHANGED faults
     \/ Fail /\ UNCHANGED receipt
  /\ wipe' = [wipe EXCEPT ![m] = @ \cup {"check"}]
  /\ Tell(m, "DELIVERED")
  /\ Goto(m, i, "active")
  /\ UNCHANGED <<row, content, born, clock, blocked, left, hidden, fill, rcpt, quit, linkVars,
                 recvVars, readOn>>

\* The auto-READ, by the active conversation that Redis has, or the process's map when the call
\* fails or Redis is not ready.
CheckActive(m, i) ==
  /\ send[m][i].pc = "active"
  /\ \/ Goto(m, i, IF active THEN "settings" ELSE "done") /\ UNCHANGED faults
     \/ Fail /\ Goto(m, i, IF memory THEN "settings" ELSE "done")
  /\ UNCHANGED <<dbVars, wipe, fill, rcpt, quit, linkVars, recvVars, told, readOn>>

\* Settings that cannot be read (catch => null) count as on.
CheckSettings(m, i) ==
  /\ send[m][i].pc = "settings"
  /\ \/ readOn /\ Goto(m, i, "read") /\ UNCHANGED <<told, faults>>
     \/ ~readOn /\ Goto(m, i, "done") /\ Tell(m, "DELIVERED") /\ UNCHANGED faults
     \/ ~readOn /\ Goto(m, i, "read") /\ Fail /\ UNCHANGED told
  /\ UNCHANGED <<dbVars, wipe, fill, rcpt, quit, linkVars, recvVars, readOn>>

MarkRead(m, i) ==
  /\ send[m][i].pc = "read"
  /\ Goto(m, i, "storeRead")
  /\ \/ SetStatus(m, "READ") /\ UNCHANGED faults
     \/ Fail /\ UNCHANGED row
  /\ UNCHANGED <<content, born, clock, receipt, blocked, left, hidden, wipe, fill, rcpt, quit,
                 linkVars, recvVars, told, readOn>>

StoreRead(m, i) ==
  /\ send[m][i].pc = "storeRead"
  /\ Goto(m, i, "done")
  /\ \/ receipt' = [receipt EXCEPT ![m]["1"] = "READ"] /\ UNCHANGED faults
     \/ Fail /\ UNCHANGED receipt
  /\ Tell(m, "READ")
  /\ UNCHANGED <<row, content, born, clock, blocked, left, hidden, wipe, fill, rcpt, quit,
                 linkVars, recvVars, readOn>>

SendStep(m, i) ==
  \/ SaveMessage(m, i) \/ SaveFails(m, i) \/ CheckBlock(m, i)
  \/ Publish(m, i) \/ MarkDelivered(m, i) \/ StoreDelivered(m, i) \/ CheckActive(m, i)
  \/ CheckSettings(m, i) \/ MarkRead(m, i) \/ StoreRead(m, i)

-----------------------------------------------------------------------------
(* handleReceipt.  A receipt travels on the connection it was sent on.     *)

\* Mutant of Effective: the settings are not consulted.
Verbatim(s) == s

\* READ is stored as DELIVERED unless both users have read receipts on.
Effective(s) == IF readOn THEN s ELSE "DELIVERED"

\* The message's sender and both users' settings are read first.  If the settings cannot
\* be read the raw status stands; if the message cannot, nobody is told either.
LookUpReceipt(m, s) ==
  /\ rcpt[m][s].pc = "transit"
  /\ \E k \in rcpt[m][s].via : link[k] \in {"open", "dead"}
  /\ \E st \in {s, Effective(s)}, tell \in BOOLEAN :
       /\ rcpt' = [rcpt EXCEPT ![m][s] = Receipt("update", {}, st, tell)]
       /\ \/ st = Effective(s) /\ tell /\ UNCHANGED faults
          \/ st = s /\ (tell => s = "READ") /\ Fail
  /\ UNCHANGED <<dbVars, send, wipe, fill, quit, linkVars, recvVars, told, readOn>>

HandleReceipt(m, s) ==
  /\ rcpt[m][s].pc = "update"
  /\ Advance(m, s, "upsert")
  /\ \/ SetStatus(m, rcpt[m][s].st) /\ UNCHANGED faults
     \/ Fail /\ UNCHANGED row
  /\ UNCHANGED <<content, born, clock, receipt, blocked, left, hidden, send, wipe, fill, quit,
                 linkVars, recvVars, told, readOn>>

StoreReceipt(m, s) ==
  /\ rcpt[m][s].pc = "upsert"
  /\ Advance(m, s, "done")
  /\ \/ receipt' = [receipt EXCEPT ![m]["device"] = rcpt[m][s].st] /\ UNCHANGED faults
     \/ Fail /\ UNCHANGED receipt
  /\ IF rcpt[m][s].tell THEN Tell(m, rcpt[m][s].st) ELSE UNCHANGED told
  /\ wipe' = [wipe EXCEPT ![m] = @ \cup {"check"}]
  /\ UNCHANGED <<row, content, born, clock, blocked, left, hidden, send, fill, quit, linkVars,
                 recvVars, readOn>>

LoseReceipt(m, s) ==
  /\ rcpt[m][s].pc = "transit"
  /\ \A k \in rcpt[m][s].via : link[k] # "open"
  /\ Advance(m, s, "done")
  /\ UNCHANGED <<dbVars, send, wipe, fill, quit, linkVars, recvVars, told, readOn, faults>>

ReceiptStep(m, s) == LookUpReceipt(m, s) \/ HandleReceipt(m, s)
                     \/ StoreReceipt(m, s) \/ LoseReceipt(m, s)

-----------------------------------------------------------------------------
(* MessageCleanupService.                                                  *)

Confirmed(m) == \/ row[m] \in Marks
                \/ \E d \in Devices : receipt[m][d] \in Marks

\* A conversation without a recipient needs no evidence.  An error of any query is logged and
\* ends the call.
WipeCheck(m) ==
  LET next == {why \in {"commit", "drop"} :
                 /\ content[m] = "kept"
                 /\ IF left THEN why = "drop" ELSE why = "commit" /\ Confirmed(m)}
  IN /\ "check" \in wipe[m]
     /\ \/ wipe' = [wipe EXCEPT ![m] = (@ \ {"check"}) \cup next] /\ UNCHANGED faults
        \/ Fail /\ wipe' = [wipe EXCEPT ![m] = @ \ {"check"}]
     /\ UNCHANGED <<dbVars, send, fill, rcpt, quit, linkVars, recvVars, told, readOn>>

\* _wipeCiphertexts; why is "commit" or "drop".
WipeCommit(m, why) ==
  /\ why \in wipe[m] \ {"check"}
  /\ wipe' = [wipe EXCEPT ![m] = @ \ {why}]
  /\ \/ content' = [content EXCEPT ![m] =
                       IF @ = "kept" THEN IF why = "drop" THEN "dropped" ELSE "wiped" ELSE @]
        /\ UNCHANGED faults
     \/ Fail /\ UNCHANGED content
  /\ UNCHANGED <<row, born, clock, receipt, blocked, left, hidden, send, fill, rcpt, quit,
                 linkVars, recvVars, told, readOn>>

\* expireUndeliveredMessageContent.  Nothing of a 30-day-old message is in flight.
Expire(m) ==
  /\ AllowExpiry /\ row[m] # "absent" /\ content[m] = "kept"
  /\ \A i \in Tries : send[m][i].pc \in {"idle", "done"}
  /\ \A k \in Socks : inbox[k] = <<>> /\ fill[k].pc = "none"
  /\ content' = [content EXCEPT ![m] = "expired"]
  /\ UNCHANGED <<row, born, clock, receipt, blocked, left, hidden, taskVars, linkVars,
                 recvVars, told, readOn, faults>>

-----------------------------------------------------------------------------
(* The receiver's connections: handleConnection, handleDisconnect and the  *)
(* client's services/socket.ts.                                            *)

\* What the handshake carries: _setup reads the stored cursor, socket.io's own
\* reconnection repeats the captured auth, the token refresh path sends none.
Handshake == IF AllowBlind THEN {cursor, auth, NoCursor} ELSE {cursor}

\* The gap fill of the connection passes over what its cursor does not reach back to.
Connect(k) ==
  LET past == {m \in Msgs : row[m] # "absent" /\ (auth' = NoCursor \/ born[m] <= auth')} IN
  /\ link[k] = "idle" /\ \A j \in Socks : ~Connected(j)
  /\ link' = [link EXCEPT ![k] = "open"]
  /\ auth' \in Handshake
  /\ fill' = [fill EXCEPT ![k] = [pc |-> IF auth' = NoCursor THEN "none" ELSE "query",
                                  since |-> auth', got |-> {}, past |-> past]]
  /\ UNCHANGED <<dbVars, wipe, send, rcpt, quit, inbox, chatq, active, memory, have, looking,
                 opens, sent, ownAt, cursor, told, readOn, faults>>

\* Mutants of Unseen: delivered messages too; a cursor one message too late.
UnseenAnyStatus(k) ==
  {m \in Msgs : row[m] # "absent" /\ born[m] > fill[k].since /\ ~left /\ m \notin hidden}
UnseenAfterNext(k) ==
  {m \in Msgs : /\ row[m] = "SERVER_RECEIVED" /\ born[m] > fill[k].since + 1
                /\ ~left /\ m \notin hidden}

\* The query of _deliverMissedMessages: only status SERVER_RECEIVED, only newer rows, only
\* conversations of the receiver and no row that it deleted ...
Unseen(k) ==
  {m \in Msgs : /\ row[m] = "SERVER_RECEIVED" /\ born[m] > fill[k].since
                /\ ~left /\ m \notin hidden}

\* ... and of these the oldest 200.
Missed(k) == {m \in Unseen(k) : Cardinality({n \in Unseen(k) : born[n] < born[m]}) < GapTake}

GapQuery(k) ==
  /\ fill[k].pc = "query"
  /\ \/ /\ fill' = [fill EXCEPT
                       ![k].pc = IF Missed(k) = {} THEN "none" ELSE "emit",
                       ![k].got = {[m |-> m, body |-> content[m] = "kept"] : m \in Missed(k)},
                       ![k].past = @ \cup (Unseen(k) \ Missed(k))]
        /\ UNCHANGED faults
     \/ Fail /\ fill' = [fill EXCEPT ![k].pc = "none"]
  /\ UNCHANGED <<dbVars, wipe, send, rcpt, quit, linkVars, recvVars, told, readOn>>

\* One iteration of the emit loop, oldest message first.
GapEmit(k) ==
  /\ fill[k].pc = "emit"
  /\ \E f \in fill[k].got :
       /\ \A g \in fill[k].got : born[f.m] <= born[g.m]
       /\ inbox' = IF Connected(k) THEN [inbox EXCEPT ![k] = Append(@, f)] ELSE inbox
       /\ fill' = [fill EXCEPT ![k].got = @ \ {f},
                               ![k].pc = IF fill[k].got = {f} THEN "none" ELSE "emit"]
  /\ UNCHANGED <<dbVars, wipe, send, rcpt, quit, link, chatq, active, memory, recvVars, told,
                 readOn, faults>>

\* The client is gone (app suspended, network lost, socket.disconnect()) and frames in
\* flight to it are lost; the server has not noticed yet.
TransportDies(k) ==
  /\ AllowDrop /\ Connected(k)
  /\ link' = [link EXCEPT ![k] = "dead"]
  /\ inbox' = [inbox EXCEPT ![k] = <<>>]
  /\ UNCHANGED <<dbVars, taskVars, chatq, active, memory, recvVars, told, readOn, faults>>

\* setUserActiveConversation: Redis, or the map of the process when the call fails or Redis is
\* not ready.  Then the key in Redis stays as it was, and nobody is told.
SetActive(here) ==
  \/ active' = here /\ UNCHANGED <<memory, faults>>
  \/ Fail /\ memory' = here /\ UNCHANGED active

\* handleDisconnect up to its first await: the active conversation is cleared ...
NoticeDisconnect(k) ==
  /\ link[k] = "dead"
  /\ link' = [link EXCEPT ![k] = "closing"]
  /\ SetActive(FALSE)
  /\ chatq' = [chatq EXCEPT ![k] = <<>>]
  /\ UNCHANGED <<dbVars, taskVars, inbox, recvVars, told, readOn>>

\* ... and after it: _markOffline.
MarkOffline(k) ==
  /\ link[k] = "closing"
  /\ link' = [link EXCEPT ![k] = "closed"]
  /\ UNCHANGED <<dbVars, taskVars, inbox, chatq, active, memory, recvVars, told, readOn, faults>>

\* handleChatOpen and handleChatClose.
HandleChat(k) ==
  /\ link[k] \in {"open", "dead"} /\ chatq[k] # <<>>
  /\ SetActive(Head(chatq[k]))
  /\ chatq' = [chatq EXCEPT ![k] = Tail(@)]
  /\ UNCHANGED <<dbVars, taskVars, link, inbox, recvVars, told, readOn>>

-----------------------------------------------------------------------------
(* deleteUserConversation, which the receiver calls on another device of   *)
(* its own: the member row goes, and the messages found then are hidden.   *)

Leave ==
  /\ AllowLeave /\ quit = NoQuit /\ ~left
  /\ left' = TRUE /\ quit' = [NoQuit EXCEPT !.pc = "list"]
  /\ UNCHANGED <<row, content, born, clock, receipt, blocked, hidden, send, wipe, fill, rcpt,
                 linkVars, recvVars, told, readOn, faults>>

ListMessages ==
  /\ quit.pc = "list"
  /\ \/ quit' = [pc |-> "hide", todo |-> {m \in Msgs : row[m] # "absent"}] /\ UNCHANGED faults
     \/ Fail /\ quit' = NoQuit
  /\ UNCHANGED <<dbVars, send, wipe, fill, rcpt, linkVars, recvVars, told, readOn>>

HideMessages ==
  /\ quit.pc = "hide" /\ quit' = NoQuit
  /\ \/ hidden' = hidden \cup quit.todo /\ UNCHANGED faults
     \/ Fail /\ UNCHANGED hidden
  /\ UNCHANGED <<row, content, born, clock, receipt, blocked, left, send, wipe, fill, rcpt,
                 linkVars, recvVars, told, readOn>>

LeaveStep == Leave \/ ListMessages \/ HideMessages

-----------------------------------------------------------------------------
(* The receiver's client.                                                  *)

\* _handleIncomingMessage: drop a known id, else store and send one receipt.
ReceiverReceive(k) ==
  /\ Connected(k) /\ inbox[k] # <<>>
  /\ inbox' = [inbox EXCEPT ![k] = Tail(@)]
  /\ LET f == Head(inbox[k])
         s == IF looking THEN "READ" ELSE "DELIVERED"
     IN  IF have[f.m] # "none" THEN UNCHANGED <<have, sent, rcpt>>
         ELSE /\ have' = [have EXCEPT ![f.m] = IF f.body THEN "full" ELSE "empty"]
              /\ sent' = sent \cup {<<f.m, s>>}
              /\ rcpt' = IF <<f.m, s>> \in sent THEN rcpt
                         ELSE [rcpt EXCEPT ![f.m][s] = Receipt("transit", {k}, s, FALSE)]
  /\ UNCHANGED <<dbVars, send, wipe, fill, quit, link, chatq, active, memory, looking, opens,
                 ownAt, cursor, auth, told, readOn, faults>>

\* Mutant of EmitChat: leaving the conversation is not announced.
EmitOpenOnly(open) ==
  chatq' = [k \in Socks |->
              IF Connected(k) /\ open THEN Append(chatq[k], open) ELSE chatq[k]]

\* A chat frame is emitted only on a live connection.
EmitChat(open) ==
  chatq' = [k \in Socks |-> IF Connected(k) THEN Append(chatq[k], open) ELSE chatq[k]]

\* openChatRoom: chat:open, then markConversationRead.  The READ key enters
\* sentReceiptsRef even when sendReceipt drops the receipt for want of a connection.
OpenChat ==
  /\ ~looking /\ opens < MaxOpens
  /\ looking' = TRUE /\ opens' = opens + 1
  /\ EmitChat(TRUE)
  /\ LET unread == {m \in Msgs : have[m] # "none" /\ <<m, "READ">> \notin sent}
         via == {k \in Socks : Connected(k)}
     IN  /\ sent' = sent \cup (unread \X {"READ"})
         /\ rcpt' = [m \in Msgs |->
                       IF m \in unread /\ via # {}
                         THEN [rcpt[m] EXCEPT !["READ"] = Receipt("transit", via, "READ", FALSE)]
                         ELSE rcpt[m]]
  /\ UNCHANGED <<dbVars, send, wipe, fill, quit, link, inbox, active, memory, have, ownAt,
                 cursor, auth, told, readOn, faults>>

CloseChat ==
  /\ looking
  /\ looking' = FALSE
  /\ EmitChat(FALSE)
  /\ UNCHANGED <<dbVars, taskVars, link, inbox, active, memory, have, opens, sent, ownAt,
                 cursor, auth, told, readOn, faults>>

\* The receiver sends a message of its own and gets the ack ...
OwnSend ==
  /\ \E k \in Socks : Connected(k)
  /\ clock - 1 - Cardinality({m \in Msgs : row[m] # "absent"}) < MaxOwn
  /\ clock' = clock + 1 /\ ownAt' = clock + 1
  /\ UNCHANGED <<row, content, born, receipt, blocked, left, hidden, taskVars, linkVars, have,
                 looking, opens, sent, cursor, auth, told, readOn, faults>>

\* ... and 2 s later its id becomes the cursor: nothing else ever writes it.
WriteCursor ==
  /\ cursor # ownAt
  /\ cursor' = ownAt
  /\ UNCHANGED <<dbVars, taskVars, linkVars, have, looking, opens, sent, ownAt, auth, told,
                 readOn, faults>>

ToggleBlock ==
  /\ AllowBlock
  /\ blocked' = ~blocked
  /\ UNCHANGED <<row, content, born, clock, receipt, left, hidden, taskVars, linkVars, recvVars,
                 told, readOn, faults>>

\* The process dies: its tasks and sockets are gone, PostgreSQL and Redis stay.
ServerCrash ==
  /\ AllowCrash
  /\ send' = [m \in Msgs |-> [i \in Tries |->
                [send[m][i] EXCEPT !.pc = IF @ = "idle" THEN "idle" ELSE "done"]]]
  /\ wipe' = [m \in Msgs |-> {}]
  /\ fill' = [k \in Socks |-> [fill[k] EXCEPT !.pc = "none", !.got = {}]]
  /\ rcpt' = [m \in Msgs |-> [s \in Marks |->
                [rcpt[m][s] EXCEPT !.pc = IF @ = "none" THEN "none" ELSE "done"]]]
  /\ link' = [k \in Socks |-> IF link[k] = "idle" THEN "idle" ELSE "closed"]
  /\ inbox' = [k \in Socks |-> <<>>] /\ chatq' = [k \in Socks |-> <<>>]
  /\ memory' = FALSE /\ quit' = NoQuit
  /\ UNCHANGED <<dbVars, active, recvVars, told, readOn, faults>>

-----------------------------------------------------------------------------
WipeStep(m) == WipeCheck(m) \/ \E why \in {"commit", "drop"} : WipeCommit(m, why)
LinkStep(k) == Connect(k) \/ GapQuery(k) \/ GapEmit(k) \/ NoticeDisconnect(k)
               \/ MarkOffline(k) \/ HandleChat(k) \/ ReceiverReceive(k)

Next ==
  \/ \E m \in Msgs : WipeStep(m) \/ Expire(m)
  \/ \E m \in Msgs, i \in Tries : SendStep(m, i)
  \/ \E m \in Msgs, s \in Marks : ReceiptStep(m, s)
  \/ \E k \in Socks : LinkStep(k) \/ TransportDies(k)
  \/ OpenChat \/ CloseChat \/ OwnSend \/ WriteCursor
  \/ LeaveStep \/ ToggleBlock \/ ServerCrash

Spec == Init /\ [][Next]_vars

(* The server's tasks run to completion, the receiver's client reconnects  *)
(* for ever (reconnectionAttempts: Infinity) and handles what arrives.     *)
Fairness ==
  /\ \A m \in Msgs, i \in Tries : WF_vars(SendStep(m, i))
  /\ \A k \in Socks : WF_vars(LinkStep(k))

FairSpec == Spec /\ Fairness

-----------------------------------------------------------------------------
(* Safety.                                                                 *)

\* The ack is never sent ahead of the durable write (doc of ChatGateway), whatever
\* fails and however often the frame is repeated.
AckIsDurable ==
  \A m \in Msgs : told[m] \ {"FAILED"} # {} => row[m] # "absent"

\* Content is wiped inline only on evidence of delivery in the database: the status
\* or a receipt says so, even if one of the two writes failed.
WipeHasEvidence ==
  \A m \in Msgs : content[m] = "wiped" => Confirmed(m)

\* Read receipts are mutual: with one side off, and while every query succeeds, no READ
\* reaches the row, the receipts or the sender, neither by the receiver's receipt nor by
\* the auto-READ of nextTick.
ReadReceiptsAreMutual ==
  readOn \/ faults > 0 \/ \A m \in Msgs : /\ row[m] # "READ" /\ "READ" \notin told[m]
                                         /\ \A d \in Devices : receipt[m][d] # "READ"

\* Without failed writes a tick sent to the sender is backed by the row's status, now
\* and for ever, although other handlers overwrite the status in between.
TickIsBacked ==
  faults = 0 => \A m \in Msgs : told[m] \cap Marks # {} => row[m] \in Marks

\* Without failed writes and before the 30-day expiry the gap fill never delivers a
\* message whose content is already gone, so no empty copy can shadow the real one.
NoEmptyDelivery ==
  faults = 0 => \A m \in Msgs : have[m] = "empty" => content[m] = "expired"

\* While no call fails, the server believes that the conversation is on the receiver's screen
\* only while it is, a chat:close is on its way, or the connection is dead and about to be
\* noticed.  A call to Redis that fails is swallowed and leaves the key behind.
ActiveIsTracked ==
  faults = 0 /\ active => \/ looking
                          \/ \E k \in Socks : \/ link[k] = "dead"
                                             \/ \E n \in 1..Len(chatq[k]) : ~chatq[k][n]

\* The store never takes back that a message arrived, and a row never goes away.
DeliveryIsNotRevoked ==
  [][\A m \in Msgs : /\ row[m] # "absent" => row'[m] # "absent"
                     /\ row[m] \in Marks => row'[m] \in Marks]_vars

-----------------------------------------------------------------------------
(* The inductive invariant behind these.                                   *)

Stored == {f \in Frames : row[f.m] # "absent"}

NoTrace(m) ==
  /\ have[m] = "none" /\ wipe[m] = {} /\ told[m] \subseteq {"FAILED"}
  /\ \A d \in Devices : receipt[m][d] = "none"
  /\ \A i \in Tries : send[m][i].pc \in {"idle", "done"}
  /\ \A s \in Marks : rcpt[m][s].pc = "none"

\* Before the row exists nothing about the message is in flight, kept or told.
RowFirst ==
  /\ \A k \in Socks : inbox[k] \in Seq(Stored) /\ fill[k].got \subseteq Stored
  /\ \A m \in Msgs : row[m] = "absent" => NoTrace(m)

\* A wipe that passed its check keeps its evidence while it waits to commit.
EvidenceFirst ==
  \A m \in Msgs : content[m] = "wiped" \/ "commit" \in wipe[m] => Confirmed(m)

Quiet(m) ==
  /\ told[m] \cap Marks = {}
  /\ \A i \in Tries : send[m][i].pc \notin {"store", "active", "settings", "read", "storeRead"}
  /\ \A s \in Marks : rcpt[m][s].pc # "upsert"

\* A handler that ticks, or is about to, has stored the status or its write failed.
StatusFirst == faults = 0 => \A m \in Msgs : row[m] \in Marks \/ Quiet(m)

NoRead(m) ==
  /\ row[m] # "READ" /\ "READ" \notin told[m]
  /\ \A d \in Devices : receipt[m][d] # "READ"
  /\ \A i \in Tries : send[m][i].pc \notin {"read", "storeRead"}
  /\ \A s \in Marks : rcpt[m][s].pc \in {"update", "upsert"} => rcpt[m][s].st # "READ"

\* With a side's read receipts off, no task is on its way to record a READ.
NoReadWhenOff == readOn \/ faults > 0 \/ \A m \in Msgs : NoRead(m)

\* The four hold together: each step of a handler relies on what an earlier step of
\* the same or another handler left in the store, whatever ran in between.
RelayInv == RowFirst /\ EvidenceFirst /\ StatusFirst /\ NoReadWhenOff

-----------------------------------------------------------------------------
(* The relay implements Mailbox.                                           *)

Mail == INSTANCE Mailbox WITH
  stored    <- {m \in Msgs : row[m] # "absent"},
  notified  <- {m \in Msgs : told[m] \ {"FAILED"} # {}},
  confirmed <- {m \in Msgs : Confirmed(m)},
  wiped     <- {m \in Msgs : content[m] = "wiped"},
  expired   <- {m \in Msgs : content[m] \in {"dropped", "expired"}}

\* Whatever the interleaving of attempts, receipts, wipes, failed writes and crashes,
\* each step of the server stores, confirms, notifies, wipes or expires one message.
ImplementsMailbox == Mail!Spec

-----------------------------------------------------------------------------
(* Liveness, where the receiver's connection is stable.                    *)

\* Every stored message reaches the receiver, whether it was published before, while or after
\* the receiver connected: the live emit and the gap fill leave no gap, except for a message that
\* was there when the receiver connected and that its cursor, or the limit of the gap fill, passes
\* over.
StoredIsDelivered ==
  \A m \in Msgs : (row[m] # "absent") ~> (have[m] # "none" \/ \E k \in Socks : m \in fill[k].past)

=============================================================================
