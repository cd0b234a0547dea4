----------------------------- MODULE FirstContact -----------------------------
(***************************************************************************)
(* Two users who write to each other for the first time: the direct        *)
(* conversation (ConversationService and MessageRepository.createMessage), *)
(* the key directory (KeyService and KeyRepository) and the encryption on  *)
(* the phones (e2eCryptoService and ChatContext).                          *)
(*                                                                         *)
(* Every database statement and every await of a phone is a step of its    *)
(* own; what follows it without another one is in the same step.  A key    *)
(* stands for its pair, and a box opens with the pair it was made for.     *)
(* Both users are logged in, on the device with number 1.  One-time        *)
(* pre-keys are left out: the app uploads none.  A message that arrives    *)
(* live carries its text; one that the gap fill brings is opened.          *)
(***************************************************************************)
EXTENDS Naturals, FiniteSets

CONSTANTS
  Users,
  Msgs,        \* messages, one from each of some users
  From,        \* their senders
  Texts,       \* the text messages, which are encrypted; photos are sent with their keys
  Production,  \* NODE_ENV of the server is production
  MaxPairs,    \* bound: pairs that a phone ever makes
  MaxConvs,    \* bound: conversations ever made
  MaxDeletes,  \* bound: deletions of the chat
  MaxMishaps   \* bound: restarts of a phone and failures of its storage or network

Peer(u) == CHOOSE v \in Users : v # u
To(m) == Peer(From[m])

ASSUME ContactAssumption ==
  /\ \E u, v \in Users : u # v /\ Users = {u, v}
  /\ From \in [Msgs -> Users] /\ Texts \subseteq Msgs
  /\ Production \in BOOLEAN
  /\ {MaxPairs, MaxConvs, MaxDeletes, MaxMishaps} \subseteq Nat

VARIABLES
  identity,  \* IdentityKey rows
  signed,    \* SignedPreKey rows
  members,   \* ConversationMember rows
  stored,    \* the conversation of each Message row, 0 without a row
  hidden,    \* MessageDeletion rows
  pairs,     \* pairs made so far by each phone
  pair,      \* e2eCryptoService.keyPair
  disk,      \* the pair in the secure store
  cache,     \* publicKeyCache: the key of the other user
  chat,      \* the id under which the phone knows the conversation, 0 for a local id
  job,       \* what runs on the phones and the server
  box,       \* what was encrypted
  shown,     \* what the receiver sees
  trouble,   \* history: what went wrong with the keys of each user
  raced,     \* history: two requests made the conversation, or a message rejoined a left one
  swept,     \* history: messages whose receiver deleted the chat since they were routed
  deletes, mishaps

server == <<identity, signed>>
convs == <<members, stored, hidden>>
phones == <<pair, disk, cache, chat>>
seen == <<box, shown>>
history == <<trouble, raced, swept, deletes, mishaps>>
vars == <<server, convs, pairs, phones, job, seen, history>>

\* The n-th pair of a user's phone, or number 0, which the server made up.
RealKeys == [of : Users, n : 0..MaxPairs]
NoKey == [n |-> 0]
Keys == RealKeys \cup {NoKey}
Key(u, n) == [of |-> u, n |-> n]
StandInKey(u) == Key(u, 0)

Convs == 1..MaxConvs
NoPair == [pub |-> NoKey, sec |-> NoKey]
Plain == [to |-> NoKey, by |-> NoKey, from |-> NoKey]

Register(u) == [kind |-> "register", of |-> u]
Send(m) == [kind |-> "send", of |-> m]
Open(m) == [kind |-> "open", of |-> m]
Delete(u) == [kind |-> "delete", of |-> u]
Jobs == {Register(u) : u \in Users} \cup {Delete(u) : u \in Users}
        \cup {Send(m) : m \in Msgs} \cup {Open(m) : m \in Msgs}

\* Whose phone a job runs on.
Owner(j) == CASE j.kind \in {"register", "delete"} -> j.of
              [] j.kind = "send" -> From[j.of]
              [] j.kind = "open" -> To(j.of)

\* sent is the id of the conversation in the frame, conv the one that the server works on.
Task == [pc |-> "idle", key |-> NoKey, mine |-> NoKey, sent |-> 0, conv |-> 0, todo |-> {}]
Tasks ==
  [pc : {"idle", "init", "readPub", "savePriv", "savePub", "upload", "create", "key",
         "standIn", "signed", "signedIn", "route", "make", "join", "joinTo", "insert",
         "open", "leave", "list", "hide", "done"},
   key : Keys, mine : Keys, sent : 0..MaxConvs, conv : 0..MaxConvs, todo : SUBSET Msgs]

TypeOK ==
  /\ identity \in [Users -> Keys] /\ signed \in [Users -> Keys]
  /\ pairs \in [Users -> 0..MaxPairs]
  /\ members \in [Convs -> SUBSET Users]
  /\ stored \in [Msgs -> 0..MaxConvs] /\ hidden \subseteq Msgs \X Users
  /\ pair \in [Users -> [pub : Keys, sec : Keys]] /\ disk \in [Users -> [pub : Keys, sec : Keys]]
  /\ cache \in [Users -> Keys] /\ chat \in [Users -> 0..MaxConvs]
  /\ job \in [Jobs -> Tasks]
  /\ box \in [Msgs -> [to : Keys, by : Keys, from : Keys]]
  /\ shown \in [Msgs -> {"nothing", "text", "locked"}]
  /\ trouble \in [Users -> SUBSET {"two at once", "storage", "cut off", "stand-in"}]
  /\ raced \in BOOLEAN /\ swept \subseteq Msgs /\ deletes \in Nat /\ mishaps \in Nat

\* The phones are logged in, and register.
Init ==
  /\ identity = [u \in Users |-> NoKey] /\ signed = [u \in Users |-> NoKey]
  /\ pairs = [u \in Users |-> 0]
  /\ members = [c \in Convs |-> {}]
  /\ stored = [m \in Msgs |-> 0] /\ hidden = {}
  /\ pair = [u \in Users |-> NoPair] /\ disk = [u \in Users |-> NoPair]
  /\ cache = [u \in Users |-> NoKey] /\ chat = [u \in Users |-> 0]
  /\ job = [j \in Jobs |-> IF j.kind = "register" THEN [Task EXCEPT !.pc = "init"] ELSE Task]
  /\ box = [m \in Msgs |-> Plain] /\ shown = [m \in Msgs |-> "nothing"]
  /\ trouble = [u \in Users |-> {}] /\ raced = FALSE /\ swept = {}
  /\ deletes = 0 /\ mishaps = 0

At(j, pc) == job[j].pc = pc
Goto(j, pc) == job' = [job EXCEPT ![j].pc = pc]
Mishap == mishaps < MaxMishaps /\ mishaps' = mishaps + 1
Note(u, what) == trouble' = [trouble EXCEPT ![u] = @ \cup {what}]

-----------------------------------------------------------------------------
(* initOrGetDeviceKeyPair, which registering, sending and opening await.   *)

InitPcs == {"readPub", "savePriv", "savePub"}

\* What each caller does with the pair.
AfterInit(j) == CASE j.kind = "register" -> "upload"
                  [] j.kind = "send" -> "key"
                  [] j.kind = "open" -> "open"

UsePair(j) ==
  LET p == Owner(j) IN
  /\ At(j, "init") /\ pair[p] # NoPair
  /\ job' = [job EXCEPT ![j].pc = AfterInit(j), ![j].mine = pair[p].pub]
  /\ UNCHANGED <<server, convs, pairs, phones, seen, history>>

\* A read that fails counts as no key.  Two calls may be under way at once.
ReadPriv(j) ==
  LET p == Owner(j)
      others == {i \in Jobs \ {j} : Owner(i) = p /\ job[i].pc \in InitPcs}
      noted == IF others = {} THEN {} ELSE {"two at once"}
  IN /\ At(j, "init") /\ pair[p] = NoPair
     /\ \/ /\ job' = [job EXCEPT ![j].pc = "readPub", ![j].key = disk[p].sec]
           /\ trouble' = [trouble EXCEPT ![p] = @ \cup noted]
           /\ UNCHANGED mishaps
        \/ /\ Mishap
           /\ job' = [job EXCEPT ![j].pc = "readPub", ![j].key = NoKey]
           /\ trouble' = [trouble EXCEPT ![p] = @ \cup noted \cup {"storage"}]
     /\ UNCHANGED <<server, convs, pairs, phones, seen, raced, swept, deletes>>

\* With both halves the stored pair is taken, otherwise a new pair is made.
ReadPub(j) ==
  LET p == Owner(j) IN
  /\ At(j, "readPub")
  /\ IF job[j].key # NoKey /\ disk[p].pub # NoKey
       THEN /\ pair' = [pair EXCEPT ![p] = [pub |-> disk[p].pub, sec |-> job[j].key]]
            /\ job' = [job EXCEPT ![j].pc = AfterInit(j), ![j].mine = disk[p].pub]
            /\ UNCHANGED pairs
       ELSE /\ pairs[p] < MaxPairs /\ pairs' = [pairs EXCEPT ![p] = @ + 1]
            /\ job' = [job EXCEPT ![j].pc = "savePriv", ![j].key = Key(p, pairs[p] + 1)]
            /\ UNCHANGED pair
  /\ UNCHANGED <<server, convs, disk, cache, chat, seen, history>>

\* Both writes go through safeSecureStore, which swallows their errors: the second follows a
\* first that failed.
SavePriv(j) ==
  LET p == Owner(j) IN
  /\ At(j, "savePriv")
  /\ Goto(j, "savePub")
  /\ \/ disk' = [disk EXCEPT ![p].sec = job[j].key] /\ UNCHANGED <<trouble, mishaps>>
     \/ Mishap /\ Note(p, "storage") /\ UNCHANGED disk
  /\ UNCHANGED <<server, convs, pairs, pair, cache, chat, seen, raced, swept, deletes>>

\* The pair that was saved last is the one in memory.
Adopt(j) ==
  /\ pair' = [pair EXCEPT ![Owner(j)] = [pub |-> job[j].key, sec |-> job[j].key]]
  /\ job' = [job EXCEPT ![j].pc = AfterInit(j), ![j].mine = job[j].key]

\* Mutant of SavePub: the public half is not stored.
SaveNothing(j) ==
  /\ At(j, "savePub") /\ Adopt(j)
  /\ UNCHANGED <<server, convs, pairs, disk, cache, chat, seen, history>>

SavePub(j) ==
  LET p == Owner(j) IN
  /\ At(j, "savePub") /\ Adopt(j)
  /\ \/ disk' = [disk EXCEPT ![p].pub = job[j].key] /\ UNCHANGED <<trouble, mishaps>>
     \/ Mishap /\ Note(p, "storage") /\ UNCHANGED disk
  /\ UNCHANGED <<server, convs, pairs, cache, chat, seen, raced, swept, deletes>>

InitStep(j) == \/ UsePair(j) \/ ReadPriv(j) \/ ReadPub(j)
               \/ SavePriv(j) \/ SavePub(j)

-----------------------------------------------------------------------------
(* registerDeviceKeys and getPreKeyBundle.                                 *)

\* The signature that the app sends is a literal of 85 characters of base64 and two of padding.
SignatureBytes == (85 * 6) \div 8

\* Key material of another size is refused in production; keys have their 32 bytes.
Accepted == SignatureBytes = 64 \/ ~Production

\* Mutant of Upload: a signed pre-key that exists is not replaced.
UploadIdentity(u) ==
  /\ At(Register(u), "upload")
  /\ identity' = [identity EXCEPT ![u] = job[Register(u)].mine]
  /\ signed' = [signed EXCEPT ![u] = IF @ = NoKey THEN job[Register(u)].mine ELSE @]
  /\ Goto(Register(u), "done")
  /\ UNCHANGED <<convs, pairs, phones, seen, history>>

\* One transaction upserts the identity key and the signed pre-key, which the app makes the
\* same.  An upload that fails or is refused is not repeated before the app restarts.
Upload(u) ==
  /\ At(Register(u), "upload")
  /\ Goto(Register(u), "done")
  /\ \/ /\ IF Accepted
             THEN /\ identity' = [identity EXCEPT ![u] = job[Register(u)].mine]
                  /\ signed' = [signed EXCEPT ![u] = job[Register(u)].mine]
             ELSE UNCHANGED server
        /\ UNCHANGED mishaps
     \/ Mishap /\ UNCHANGED server
  /\ UNCHANGED <<convs, pairs, phones, seen, trouble, raced, swept, deletes>>

\* encryptMessage, with the pair in memory; the frame carries the public key read before.
Encrypt(m, theirs) ==
  /\ box' = [box EXCEPT ![m] = [to |-> theirs, by |-> pair[From[m]].sec,
                                from |-> job[Send(m)].mine]]
  /\ Goto(Send(m), "route")

\* A bundle request that fails leaves no key, and the message goes in plain text.
SendPlain(m) == Goto(Send(m), "route") /\ UNCHANGED box

\* getRecipientPublicKey: the cached key, or a bundle of the other user's.
FindKey(m) ==
  LET theirs == cache[From[m]]
      row == identity[To(m)]
      pc == IF row = NoKey THEN "standIn" ELSE "signed"
  IN /\ At(Send(m), "key")
     /\ \/ theirs # NoKey /\ Encrypt(m, theirs) /\ UNCHANGED mishaps
        \/ /\ theirs = NoKey
           /\ job' = [job EXCEPT ![Send(m)].pc = pc, ![Send(m)].key = row]
           /\ UNCHANGED <<box, mishaps>>
        \/ theirs = NoKey /\ Mishap /\ SendPlain(m)
     /\ UNCHANGED <<server, convs, pairs, phones, shown, trouble, raced, swept, deletes>>

\* A user without a key gets random bytes for one, unless a key has come in meanwhile.
StandIn(m) ==
  LET u == To(m) IN
  /\ At(Send(m), "standIn")
  /\ IF identity[u] # NoKey
       THEN SendPlain(m) /\ UNCHANGED <<identity, trouble>>
       ELSE /\ identity' = [identity EXCEPT ![u] = StandInKey(u)]
            /\ job' = [job EXCEPT ![Send(m)].pc = "signed", ![Send(m)].key = StandInKey(u)]
            /\ Note(u, "stand-in")
            /\ UNCHANGED box
  /\ UNCHANGED <<signed, convs, pairs, phones, shown, raced, swept, deletes, mishaps>>

\* The identity key of the bundle is cached and used.
UseBundle(m) ==
  /\ cache' = [cache EXCEPT ![From[m]] = job[Send(m)].key]
  /\ Encrypt(m, job[Send(m)].key)

FindSigned(m) ==
  /\ At(Send(m), "signed")
  /\ IF signed[To(m)] # NoKey THEN UseBundle(m)
     ELSE Goto(Send(m), "signedIn") /\ UNCHANGED <<cache, box>>
  /\ UNCHANGED <<server, convs, pairs, pair, disk, chat, shown, history>>

\* The signed pre-key of a stand-in, unless one has come in meanwhile.
SignedStandIn(m) ==
  /\ At(Send(m), "signedIn")
  /\ IF signed[To(m)] # NoKey THEN SendPlain(m) /\ UNCHANGED <<signed, cache>>
     ELSE UseBundle(m) /\ signed' = [signed EXCEPT ![To(m)] = job[Send(m)].key]
  /\ UNCHANGED <<identity, convs, pairs, pair, disk, chat, shown, history>>

-----------------------------------------------------------------------------
(* getOrCreateDirect, for a phone that has no id of the conversation yet   *)
(* and again for every message.                                            *)

Direct == {c \in Convs : members[c] = Users}
Unused == {c \in Convs : /\ members[c] = {} /\ \A m \in Msgs : stored[m] # c
                         /\ \A u \in Users : chat[u] # c
                         /\ \A j \in Jobs : c \notin {job[j].sent, job[j].conv}}

\* The frame has the id of the conversation.  A text is encrypted first, a photo goes out.
Prepare(m, c) ==
  job' = [job EXCEPT ![Send(m)].pc = IF m \in Texts THEN "init" ELSE "route",
                     ![Send(m)].sent = c]

\* The phone asks for the conversation, unless it knows an id.  A request that fails is repeated
\* by the flush.
StartSend(m) ==
  LET j == Send(m)
      p == From[m]
  IN /\ At(j, "idle")
     /\ \/ chat[p] # 0 /\ Prepare(m, chat[p]) /\ UNCHANGED chat
        \/ \E c \in Direct : /\ chat[p] = 0 /\ Prepare(m, c)
                            /\ chat' = [chat EXCEPT ![p] = c]
        \/ chat[p] = 0 /\ Direct = {} /\ Goto(j, "create") /\ UNCHANGED chat
     /\ UNCHANGED <<server, convs, pairs, pair, disk, cache, seen, history>>

\* A conversation with both members is created, whatever has been created since.
NewConversation(c) ==
  /\ c \in Unused /\ \A d \in Unused : c <= d
  /\ members' = [members EXCEPT ![c] = Users]
  /\ raced' = (raced \/ Direct # {})

CreateForPhone(m, c) ==
  /\ At(Send(m), "create")
  /\ NewConversation(c)
  /\ chat' = [chat EXCEPT ![From[m]] = c]
  /\ Prepare(m, c)
  /\ UNCHANGED <<server, stored, hidden, pairs, pair, disk, cache, seen, trouble, swept,
                 deletes, mishaps>>

\* Mutant of Route: the id that the phone sends is taken.
RouteAsSent(m) ==
  LET j == Send(m) IN
  /\ At(j, "route")
  /\ IF job[j].sent # 0
       THEN job' = [job EXCEPT ![j].pc = "join", ![j].conv = job[j].sent]
       ELSE Goto(j, "make")
  /\ UNCHANGED <<server, convs, pairs, phones, seen, history>>

\* The gateway looks the conversation up, whatever id the phone has sent.
Route(m) ==
  LET j == Send(m) IN
  /\ At(j, "route")
  /\ \/ \E c \in Direct : job' = [job EXCEPT ![j].pc = "join", ![j].conv = c]
     \/ Direct = {} /\ Goto(j, "make")
  /\ UNCHANGED <<server, convs, pairs, phones, seen, history>>

CreateForMessage(m, c) ==
  /\ At(Send(m), "make")
  /\ NewConversation(c)
  /\ job' = [job EXCEPT ![Send(m)].pc = "join", ![Send(m)].conv = c]
  /\ UNCHANGED <<server, stored, hidden, pairs, phones, seen, trouble, swept, deletes, mishaps>>

\* When the lookup or the creation fails, the gateway keeps the id that was sent, even of a
\* conversation that somebody has left.
KeepSent(m) ==
  LET j == Send(m)
      c == job[j].sent
  IN /\ job[j].pc \in {"route", "make"} /\ c # 0
     /\ job' = [job EXCEPT ![j].pc = "join", ![j].conv = c]
     /\ raced' = (raced \/ c \notin Direct)
     /\ UNCHANGED <<server, convs, pairs, phones, seen, trouble, swept, deletes, mishaps>>

\* createMessage puts the sender back into the conversation, and then the receiver.
Enter(m, u, from, to) ==
  /\ At(Send(m), from)
  /\ members' = [members EXCEPT ![job[Send(m)].conv] = @ \cup {u}]
  /\ Goto(Send(m), to)
  /\ UNCHANGED <<server, stored, hidden, pairs, phones, seen, history>>

JoinSender(m) == Enter(m, From[m], "join", "joinTo")
JoinReceiver(m) == Enter(m, To(m), "joinTo", "insert")

\* The phone takes over the id of a message it gets, unless it has one.
Meet(u, c) == chat' = [chat EXCEPT ![u] = IF @ = 0 THEN c ELSE @]

\* The row is stored.  A receiver who is online gets the text at once.
Insert(m) ==
  LET j == Send(m) IN
  /\ At(j, "insert")
  /\ stored' = [stored EXCEPT ![m] = job[j].conv]
  /\ Goto(j, "done")
  /\ \/ shown' = [shown EXCEPT ![m] = "text"] /\ Meet(To(m), job[j].conv)
     \/ UNCHANGED <<shown, chat>>
  /\ UNCHANGED <<server, members, hidden, pairs, pair, disk, cache, box, history>>

-----------------------------------------------------------------------------
(* The gap fill of a receiver who was offline, and decryptMessage.         *)

Reachable(m) == To(m) \in members[stored[m]] /\ <<m, To(m)>> \notin hidden

GapFill(m) ==
  /\ stored[m] # 0 /\ shown[m] = "nothing" /\ At(Open(m), "idle") /\ Reachable(m)
  /\ Goto(Open(m), IF box[m] = Plain THEN "open" ELSE "init")
  /\ UNCHANGED <<server, convs, pairs, phones, seen, history>>

Opens(m, own) == box[m] = Plain \/ (box[m].to = own.sec /\ box[m].by = box[m].from)

Decrypt(m) ==
  LET u == To(m) IN
  /\ At(Open(m), "open")
  /\ shown' = [shown EXCEPT ![m] = IF Opens(m, pair[u]) THEN "text" ELSE "locked"]
  /\ Meet(u, stored[m])
  /\ Goto(Open(m), "done")
  /\ UNCHANGED <<server, convs, pairs, pair, disk, cache, box, history>>

-----------------------------------------------------------------------------
(* deleteUserConversation.                                                 *)

\* The phone may keep the id in convUUIDCacheRef.
StartDelete(u) ==
  LET j == Delete(u) IN
  /\ deletes < MaxDeletes /\ deletes' = deletes + 1
  /\ job[j].pc \in {"idle", "done"} /\ chat[u] # 0
  /\ job' = [job EXCEPT ![j].pc = "leave", ![j].conv = chat[u]]
  /\ UNCHANGED chat \/ chat' = [chat EXCEPT ![u] = 0]
  /\ UNCHANGED <<server, convs, pairs, pair, disk, cache, seen, trouble, raced, swept, mishaps>>

\* Messages to u on their way into conversation c, or in it.
Routed(u, c) == {m \in Msgs : To(m) = u /\ job[Send(m)].conv = c}

\* A message of u's, or one to u, is about to put u back into conversation c.
Returns(u, c) ==
  \E m \in Msgs : /\ job[Send(m)].conv = c
                  /\ At(Send(m), "join") \/ (At(Send(m), "joinTo") /\ To(m) = u)

\* Mutant of Leave: the user leaves every conversation.
LeaveAll(u) ==
  LET c == job[Delete(u)].conv IN
  /\ At(Delete(u), "leave")
  /\ members' = [d \in Convs |-> members[d] \ {u}]
  /\ Goto(Delete(u), "list")
  /\ swept' = swept \cup Routed(u, c)
  /\ raced' = (raced \/ Returns(u, c))
  /\ UNCHANGED <<server, stored, hidden, pairs, phones, seen, trouble, deletes, mishaps>>

Leave(u) ==
  LET c == job[Delete(u)].conv IN
  /\ At(Delete(u), "leave")
  /\ members' = [members EXCEPT ![c] = @ \ {u}]
  /\ Goto(Delete(u), "list")
  /\ swept' = swept \cup Routed(u, c)
  /\ raced' = (raced \/ Returns(u, c))
  /\ UNCHANGED <<server, stored, hidden, pairs, phones, seen, trouble, deletes, mishaps>>

ListMessages(u) ==
  LET j == Delete(u) IN
  /\ At(j, "list")
  /\ job' = [job EXCEPT ![j].pc = "hide", ![j].todo = {m \in Msgs : stored[m] = job[j].conv}]
  /\ UNCHANGED <<server, convs, pairs, phones, seen, history>>

HideMessages(u) ==
  LET j == Delete(u) IN
  /\ At(j, "hide")
  /\ hidden' = hidden \cup (job[j].todo \X {u})
  /\ swept' = swept \cup Routed(u, job[j].conv)
  /\ job' = [job EXCEPT ![j].pc = "done", ![j].todo = {}]
  /\ UNCHANGED <<server, members, stored, pairs, phones, seen, trouble, raced, deletes, mishaps>>

-----------------------------------------------------------------------------
(* The app restarts.                                                       *)

OnPhone == {"init", "readPub", "savePriv", "savePub", "upload", "create", "key",
            "standIn", "signed", "signedIn", "open"}

\* Keys that were being saved may be in the store by half.  The phone registers again; a message
\* that was being prepared is flushed in plain text; one that was being opened comes again.
Restart(p) ==
  /\ Mishap
  /\ pair' = [pair EXCEPT ![p] = NoPair] /\ cache' = [cache EXCEPT ![p] = NoKey]
  /\ job' = [j \in Jobs |->
       IF j = Register(p) THEN [Task EXCEPT !.pc = "init"]
       ELSE IF Owner(j) # p \/ job[j].pc \notin OnPhone THEN job[j]
       ELSE IF j.kind = "send" THEN [Task EXCEPT !.pc = "route", !.sent = job[j].sent]
       ELSE Task]
  /\ trouble' = [trouble EXCEPT ![p] = @ \cup
       IF \E j \in Jobs : Owner(j) = p /\ job[j].pc \in {"savePriv", "savePub"}
         THEN {"cut off"} ELSE {}]
  /\ UNCHANGED <<server, convs, pairs, disk, chat, seen, raced, swept, deletes>>

-----------------------------------------------------------------------------
SendStep(m) ==
  \/ StartSend(m) \/ FindKey(m) \/ StandIn(m) \/ FindSigned(m) \/ SignedStandIn(m)
  \/ Route(m) \/ KeepSent(m) \/ JoinSender(m) \/ JoinReceiver(m) \/ Insert(m)
  \/ \E c \in Convs : CreateForPhone(m, c) \/ CreateForMessage(m, c)

DeleteStep(u) == StartDelete(u) \/ Leave(u) \/ ListMessages(u) \/ HideMessages(u)

Next ==
  \/ \E j \in Jobs : InitStep(j)
  \/ \E m \in Msgs : SendStep(m) \/ GapFill(m) \/ Decrypt(m)
  \/ \E u \in Users : Upload(u) \/ DeleteStep(u) \/ Restart(u)

Spec == Init /\ [][Next]_vars

-----------------------------------------------------------------------------
(* Safety.                                                                 *)

\* The signed pre-key in the directory belongs to the identity key there, although bundles are
\* put together, and stand-ins stored, by single statements while phones register.
SignedIsIdentitys == \A u \in Users : signed[u] # NoKey => signed[u] = identity[u]

\* A message that cannot be opened has a cause on one of the two sides: the server made up a key
\* for the receiver, two calls made a pair at once, the secure store failed, or the app was
\* stopped while it saved a pair.  Registrations, caches and restarts alone lock nothing.
LockedHasCause ==
  \A m \in Msgs : shown[m] = "locked" => trouble[From[m]] \cup trouble[To(m)] # {}

\* Two users share one conversation, whatever stale id a phone uses after a deletion, unless two
\* requests found none at the same time, a member left while a message was on its way in, or a
\* failed lookup left a message the id of a conversation that was no longer that of both.
OneConversation == Cardinality(Direct) > 1 => raced

\* A message that its receiver has not seen stays in the reach of the gap fill, unless the
\* receiver deleted that very conversation after the message was routed to it.
StoredIsReachable ==
  \A m \in Msgs \ swept : stored[m] # 0 /\ shown[m] = "nothing" => Reachable(m)

-----------------------------------------------------------------------------
(* What the comments of the code claim and the code does not do.           *)

\* apiService.ts:1326 "64 zero-bytes encoded as base64": the upload of a phone whose network does
\* not fail is accepted, and the directory holds its key from then on.
UploadIsAccepted ==
  mishaps = 0 => \A u \in Users : At(Register(u), "done") => identity[u] = job[Register(u)].mine

=============================================================================
