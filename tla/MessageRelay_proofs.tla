------------------------ MODULE MessageRelay_proofs ------------------------
(***************************************************************************)
(* Proofs about MessageRelay, for every set of messages and connections    *)
(* and every bound: typing, what the store never takes back, the safety    *)
(* invariants, and that the relay implements the Mailbox specification.    *)
(***************************************************************************)
EXTENDS MessageRelay, TLAPS

-----------------------------------------------------------------------------
(* Typing of the building blocks.                                          *)

\* A nested update of a function of functions.
LEMMA Update2 ==
  ASSUME NEW S, NEW T, NEW V, NEW f \in [S -> [T -> V]], NEW a \in S, NEW b \in T, NEW v \in V
  PROVE  [f EXCEPT ![a][b] = v] \in [S -> [T -> V]]
<1>1. [f[a] EXCEPT ![b] = v] \in [T -> V]
  OBVIOUS
<1> QED
  BY <1>1

\* A handler's program counter moves within SendPcs (handleSendMessage).
LEMMA GotoType ==
  ASSUME TaskOK, NEW m \in Msgs, NEW i \in Tries, NEW p \in SendPcs, Goto(m, i, p)
  PROVE  send' \in [Msgs -> [Tries -> [pc : SendPcs, blk : BOOLEAN]]]
<1> DEFINE R == [pc : SendPcs, blk : BOOLEAN]
           a == [send[m][i] EXCEPT !.pc = p]
<1>1. send \in [Msgs -> [Tries -> R]]
  BY DEF TaskOK
<1>2. a \in R
  BY <1>1
<1>3. send' = [send EXCEPT ![m][i] = a]
  BY DEF Goto
<1> HIDE DEF a, R
<1>4. send' \in [Msgs -> [Tries -> R]]
  BY <1>1, <1>2, <1>3, Update2
<1> QED
  BY <1>4 DEF R

LEMMA ReceiptType ==
  ASSUME NEW p \in RcptPcs, NEW v \in SUBSET Socks, NEW s \in Marks, NEW t \in BOOLEAN
  PROVE  Receipt(p, v, s, t) \in Receipts
  BY DEF Receipt, Receipts

\* So does the state of a receipt (sendReceipt, handleReceipt).
LEMMA AdvanceType ==
  ASSUME TaskOK, NEW m \in Msgs, NEW s \in Marks, NEW p \in RcptPcs, Advance(m, s, p)
  PROVE  rcpt' \in [Msgs -> [Marks -> Receipts]]
<1> DEFINE R == Receipts
           a == [rcpt[m][s] EXCEPT !.pc = p]
<1>1. rcpt \in [Msgs -> [Marks -> R]]
  BY DEF TaskOK
<1>2. a \in R
  <2>1. rcpt[m][s] \in R
    BY <1>1
  <2> QED
    BY <2>1 DEF Receipts
<1>3. rcpt' = [rcpt EXCEPT ![m][s] = a]
  BY DEF Advance
<1> HIDE DEF a, R
<1>4. rcpt' \in [Msgs -> [Marks -> R]]
  BY <1>1, <1>2, <1>3, Update2
<1> QED
  BY <1>4 DEF R

\* What is told to the sender is an ack, an error or a tick.
LEMMA TellType ==
  ASSUME TypeOK, NEW m \in Msgs, NEW st \in Statuses \cup {"FAILED"}, Tell(m, st)
  PROVE  told' \in [Msgs -> SUBSET ({"SERVER_RECEIVED", "FAILED"} \cup Marks)]
  BY DEF TypeOK, Tell, Statuses, Marks

\* A status update writes a status or finds no row.
LEMMA SetStatusType ==
  ASSUME TypeOK, NEW m \in Msgs, NEW st \in Statuses, SetStatus(m, st)
  PROVE  row' \in [Msgs -> Statuses \cup {"absent"}]
  BY DEF TypeOK, DbOK, SetStatus

\* A chat frame is a Boolean on each queue (chat:open, chat:close).
LEMMA EmitChatType ==
  ASSUME TypeOK, NEW open \in BOOLEAN, EmitChat(open)
  PROVE  chatq' \in [Socks -> Seq(BOOLEAN)]
<1>1. \A k \in Socks : Append(chatq[k], open) \in Seq(BOOLEAN)
  BY DEF TypeOK, LinkOK
<1> QED
  BY <1>1 DEF TypeOK, LinkOK, EmitChat

LEMMA FailType == TypeOK /\ Fail => faults' \in Nat
  BY DEF TypeOK, Fail

\* The active conversation is a flag, in Redis and in the process's map.
LEMMA SetActiveType ==
  ASSUME TypeOK, NEW here \in BOOLEAN, SetActive(here)
  PROVE  {active', memory'} \subseteq BOOLEAN /\ faults' \in Nat
  BY FailType DEF TypeOK, LinkOK, SetActive

LEMMA EffectiveType == ASSUME NEW s \in Marks PROVE Effective(s) \in Marks
  BY DEF Effective, Marks

\* Groups of variables a step leaves alone keep their type.
LEMMA Same ==
  /\ DbOK /\ UNCHANGED dbVars => DbOK'
  /\ TaskOK /\ UNCHANGED taskVars => TaskOK'
  /\ LinkOK /\ UNCHANGED linkVars => LinkOK'
  /\ RecvOK /\ UNCHANGED recvVars => RecvOK'
  BY DEF DbOK, TaskOK, LinkOK, RecvOK, dbVars, taskVars, linkVars, recvVars

-----------------------------------------------------------------------------
(* Type correctness: the steps that change several groups at once.         *)

LEMMA SaveMessageType ==
  ASSUME DbOK, NEW m \in Msgs, NEW i \in Tries, SaveMessage(m, i)
  PROVE  DbOK'
<1>1. /\ row' = row \/ row' = [row EXCEPT ![m] = "SERVER_RECEIVED"]
      /\ clock' = clock \/ clock' = clock + 1
      /\ born' = born \/ born' = [born EXCEPT ![m] = clock + 1]
      /\ left' \in {left, FALSE} /\ UNCHANGED <<content, receipt, blocked, hidden>>
  BY DEF SaveMessage
<1>2. clock' \in Nat /\ born' \in [Msgs -> Nat]
  BY <1>1 DEF DbOK
<1>3. row' \in [Msgs -> Statuses \cup {"absent"}]
  BY <1>1 DEF DbOK, Statuses
<1> QED
  BY <1>1, <1>2, <1>3 DEF DbOK

LEMMA GapQueryType == ASSUME TaskOK, NEW k \in Socks, GapQuery(k) PROVE TaskOK'
<1> DEFINE missed == Missed(k)
           over == Unseen(k) \ Missed(k)
           got == {[m |-> m, body |-> content[m] = "kept"] : m \in missed}
           p == IF missed = {} THEN "none" ELSE "emit"
<1>1. \A m \in Msgs : [m |-> m, body |-> content[m] = "kept"] \in Frames
  BY DEF Frames
<1>2. p \in {"none", "query", "emit"}
  OBVIOUS
<1>3. /\ fill' \in {[fill EXCEPT ![k].pc = p, ![k].got = got, ![k].past = @ \cup over],
                    [fill EXCEPT ![k].pc = "none"]}
      /\ UNCHANGED <<send, wipe, rcpt, quit>>
  BY DEF GapQuery
<1>4. missed \subseteq Msgs /\ over \subseteq Msgs
  BY DEF Missed, Unseen
<1>5. \A f \in got : \E m \in missed : f = [m |-> m, body |-> content[m] = "kept"]
  OBVIOUS
<1> HIDE DEF got, p, missed, over
<1>6. got \subseteq Frames
  BY <1>1, <1>4, <1>5
<1> DEFINE F == [Socks -> Fills]
<1>7. [fill EXCEPT ![k].pc = p, ![k].got = got, ![k].past = @ \cup over] \in F
  BY <1>2, <1>4, <1>6 DEF TaskOK, Fills
<1>8. [fill EXCEPT ![k].pc = "none"] \in F
  BY DEF TaskOK, Fills
<1> HIDE DEF F
<1>9. fill' \in F
  BY <1>3, <1>7, <1>8
<1> QED
  BY <1>3, <1>9 DEF TaskOK, F

LEMMA GapEmitType ==
  ASSUME TaskOK, LinkOK, NEW k \in Socks, GapEmit(k)
  PROVE  TaskOK' /\ LinkOK'
<1>1. PICK f \in fill[k].got :
        /\ inbox' = IF Connected(k) THEN [inbox EXCEPT ![k] = Append(@, f)] ELSE inbox
        /\ fill' = [fill EXCEPT ![k].got = @ \ {f},
                               ![k].pc = IF fill[k].got = {f} THEN "none" ELSE "emit"]
  BY DEF GapEmit
<1>2. f \in Frames /\ fill[k].got \ {f} \in SUBSET Frames
  BY DEF TaskOK, Fills
<1>3. fill' \in [Socks -> Fills]
  <2> DEFINE p == IF fill[k].got = {f} THEN "none" ELSE "emit"
             g == fill[k].got \ {f}
  <2>1. fill' = [fill EXCEPT ![k].got = g, ![k].pc = p] /\ p \in {"none", "query", "emit"}
    BY <1>1
  <2>2. g \in SUBSET Frames /\ fill \in [Socks -> Fills]
    BY <1>2 DEF TaskOK
  <2> HIDE DEF p, g
  <2> QED
    BY <2>1, <2>2 DEF Fills
<1>4. inbox' \in [Socks -> Seq(Frames)]
  BY <1>1, <1>2 DEF LinkOK
<1> QED
  BY <1>3, <1>4 DEF GapEmit, TaskOK, LinkOK

LEMMA ReceiverReceiveType ==
  ASSUME TaskOK, LinkOK, RecvOK, NEW k \in Socks, ReceiverReceive(k)
  PROVE  TaskOK' /\ RecvOK'
<1> DEFINE f == Head(inbox[k])
           r == IF looking THEN "READ" ELSE "DELIVERED"
           x == Receipt("transit", {k}, r, FALSE)
           R == Receipts
<1>1. f \in Frames
  BY DEF LinkOK, ReceiverReceive
<1>2. f.m \in Msgs /\ r \in Marks
  BY <1>1 DEF Frames, Marks
<1>3. rcpt' = rcpt \/ rcpt' = [rcpt EXCEPT ![f.m][r] = x]
  BY DEF ReceiverReceive
<1>4. \/ UNCHANGED <<have, sent>>
      \/ /\ have' = [have EXCEPT ![f.m] = IF f.body THEN "full" ELSE "empty"]
         /\ sent' = sent \cup {<<f.m, r>>}
  BY DEF ReceiverReceive
<1>5. UNCHANGED <<send, wipe, fill, quit, looking, opens, ownAt, cursor, auth>>
  BY DEF ReceiverReceive
<1>6. x \in R
  BY <1>2, ReceiptType DEF RcptPcs
<1>7. rcpt \in [Msgs -> [Marks -> R]]
  BY DEF TaskOK
<1> HIDE DEF f, r, x, R
<1>8. [rcpt EXCEPT ![f.m][r] = x] \in [Msgs -> [Marks -> R]]
  BY <1>2, <1>6, <1>7, Update2
<1>9. rcpt' \in [Msgs -> [Marks -> R]]
  BY <1>3, <1>7, <1>8
<1>10. have' \in [Msgs -> {"none", "full", "empty"}] /\ sent' \subseteq Msgs \X Marks
  BY <1>2, <1>4 DEF RecvOK
<1>11. TaskOK'
  BY <1>5, <1>9 DEF TaskOK, R
<1>12. RecvOK'
  BY <1>5, <1>10 DEF RecvOK
<1> QED
  BY <1>11, <1>12

LEMMA LookUpType ==
  ASSUME TaskOK, NEW m \in Msgs, NEW s \in Marks, LookUpReceipt(m, s)
  PROVE  TaskOK'
<1>1. PICK st \in Marks, tell \in BOOLEAN :
        rcpt' = [rcpt EXCEPT ![m][s] = Receipt("update", {}, st, tell)]
  BY EffectiveType DEF LookUpReceipt
<1> DEFINE x == Receipt("update", {}, st, tell)
           R == Receipts
<1>2. x \in R
  BY ReceiptType DEF RcptPcs
<1>3. rcpt \in [Msgs -> [Marks -> R]]
  BY DEF TaskOK
<1> HIDE DEF x, R
<1>4. rcpt' \in [Msgs -> [Marks -> R]]
  BY <1>1, <1>2, <1>3, Update2 DEF x
<1>5. UNCHANGED <<send, wipe, fill, quit>>
  BY DEF LookUpReceipt
<1> QED
  BY <1>4, <1>5 DEF TaskOK, R

LEMMA OpenChatType == RecvOK /\ OpenChat => RecvOK'
<1> SUFFICES ASSUME RecvOK, OpenChat PROVE RecvOK'
  OBVIOUS
<1> DEFINE unread == {m \in Msgs : have[m] # "none" /\ <<m, "READ">> \notin sent}
<1>1. looking' \in BOOLEAN
  BY DEF OpenChat
<1>2. sent' = sent \cup (unread \X {"READ"})
  BY DEF OpenChat
<1>3. (unread \X {"READ"}) \subseteq Msgs \X Marks
  BY DEF Marks
<1>4. opens' \in Nat /\ UNCHANGED <<have, ownAt, cursor, auth>>
  BY DEF OpenChat, RecvOK
<1> HIDE DEF unread
<1> QED
  BY <1>1, <1>2, <1>3, <1>4 DEF RecvOK

LEMMA OpenChatTasks == ASSUME TaskOK, OpenChat PROVE TaskOK'
<1> DEFINE via == {k \in Socks : Connected(k)}
           new == Receipt("transit", via, "READ", FALSE)
<1>1. "READ" \in Marks
  BY DEF Marks
<1>2. new \in Receipts
  BY <1>1, ReceiptType DEF RcptPcs
<1>3. \A m \in Msgs : rcpt[m] \in [Marks -> Receipts]
  BY DEF TaskOK
<1>4. /\ \A m \in Msgs : rcpt'[m] \in {rcpt[m], [rcpt[m] EXCEPT !["READ"] = new]}
      /\ rcpt' = [m \in Msgs |-> rcpt'[m]]
  BY DEF OpenChat
<1> HIDE DEF new
<1>5. \A m \in Msgs : rcpt'[m] \in [Marks -> Receipts]
  BY <1>1, <1>2, <1>3, <1>4
<1>6. UNCHANGED <<send, wipe, fill, quit>>
  BY DEF OpenChat
<1> QED
  BY <1>4, <1>5, <1>6 DEF TaskOK

LEMMA ServerCrashType ==
  ASSUME TaskOK, LinkOK, ServerCrash
  PROVE  TaskOK' /\ LinkOK'
<1>1. send' = [m \in Msgs |-> [i \in Tries |->
                 [send[m][i] EXCEPT !.pc = IF @ = "idle" THEN "idle" ELSE "done"]]]
  BY DEF ServerCrash
<1>2. ASSUME NEW m \in Msgs, NEW i \in Tries
      PROVE  [send[m][i] EXCEPT !.pc = IF @ = "idle" THEN "idle" ELSE "done"]
               \in [pc : SendPcs, blk : BOOLEAN]
  BY DEF TaskOK, SendPcs
<1>3. send' \in [Msgs -> [Tries -> [pc : SendPcs, blk : BOOLEAN]]]
  BY <1>1, <1>2
<1>4. wipe' \in [Msgs -> SUBSET {"check", "commit", "drop"}]
  BY DEF ServerCrash
<1>5. fill' \in [Socks -> Fills] /\ quit' \in Quits
  BY DEF TaskOK, ServerCrash, Fills, Quits, NoQuit
<1>6. rcpt' = [m \in Msgs |-> [s \in Marks |->
                 [rcpt[m][s] EXCEPT !.pc = IF @ = "none" THEN "none" ELSE "done"]]]
  BY DEF ServerCrash
<1>7. ASSUME NEW m \in Msgs, NEW s \in Marks
      PROVE  [rcpt[m][s] EXCEPT !.pc = IF @ = "none" THEN "none" ELSE "done"]
               \in Receipts
  <2>1. rcpt[m][s] \in Receipts
    BY DEF TaskOK
  <2> QED
    BY <2>1 DEF RcptPcs, Receipts
<1>8. rcpt' \in [Msgs -> [Marks -> Receipts]]
  BY <1>6, <1>7
<1>9. link' \in [Socks -> Links]
  BY DEF LinkOK, Links, ServerCrash
<1>10. inbox' = [k \in Socks |-> <<>>] /\ chatq' = [k \in Socks |-> <<>>]
  BY Zenon DEF ServerCrash
<1>11. inbox' \in [Socks -> Seq(Frames)] /\ chatq' \in [Socks -> Seq(BOOLEAN)]
  BY <1>10
<1>12. {active', memory'} \subseteq BOOLEAN
  BY DEF ServerCrash, LinkOK
<1> QED
  BY <1>3, <1>4, <1>5, <1>8, <1>9, <1>11, <1>12 DEF TaskOK, LinkOK

-----------------------------------------------------------------------------
(* Type correctness.                                                       *)

LEMMA InitTypeOK == Init => TypeOK
<1> SUFFICES ASSUME Init PROVE TypeOK
  OBVIOUS
<1>1. {blocked, left} \subseteq BOOLEAN /\ {active, memory} \subseteq BOOLEAN
  <2>1. {blocked, left} \subseteq BOOLEAN
    BY DEF Init
  <2>2. {active, memory} \subseteq BOOLEAN
    BY DEF Init
  <2> QED
    BY <2>1, <2>2
<1>2. looking \in BOOLEAN
  BY Zenon DEF Init
<1>3. DbOK
  BY <1>1 DEF Init, DbOK, Statuses
<1>4. TaskOK
  <2>1. \A s \in Marks : Receipt("none", {}, s, FALSE) \in Receipts
    BY ReceiptType DEF RcptPcs
  <2>2. rcpt = [m \in Msgs |-> [s \in Marks |-> Receipt("none", {}, s, FALSE)]]
    BY DEF Init
  <2>3. rcpt \in [Msgs -> [Marks -> Receipts]]
    BY <2>1, <2>2
  <2> QED
    BY <2>3 DEF Init, TaskOK, SendPcs, Fills, Quits, NoQuit
<1>5. LinkOK
  <2>1. link \in [Socks -> Links] /\ inbox \in [Socks -> Seq(Frames)]
    BY DEF Init, Links
  <2>2. chatq \in [Socks -> Seq(BOOLEAN)]
    BY DEF Init
  <2> QED
    BY <1>1, <2>1, <2>2 DEF LinkOK
<1>6. RecvOK
  <2>1. have \in [Msgs -> {"none", "full", "empty"}] /\ opens \in Nat
    BY DEF Init
  <2>2. sent \subseteq Msgs \X Marks
    BY DEF Init
  <2>3. ownAt \in Nat /\ cursor \in Nat /\ auth \in Nat
    BY DEF Init, NoCursor
  <2> QED
    BY <1>2, <2>1, <2>2, <2>3 DEF RecvOK
<1>7. told \in [Msgs -> SUBSET ({"SERVER_RECEIVED", "FAILED"} \cup Marks)]
  BY DEF Init
<1>8. readOn \in BOOLEAN /\ faults \in Nat
  BY DEF Init
<1> QED
  BY <1>3, <1>4, <1>5, <1>6, <1>7, <1>8 DEF TypeOK

LEMMA NextTypeOK == TypeOK /\ [Next]_vars => TypeOK'
<1> SUFFICES ASSUME TypeOK, [Next]_vars PROVE TypeOK'
  OBVIOUS
<1> USE DEF TypeOK
<1>1. ASSUME NEW m \in Msgs, WipeCheck(m)
      PROVE  TypeOK'
  <2> USE <1>1 DEF WipeCheck
  <2>1. TaskOK'
    BY DEF TaskOK, taskVars
  <2>2. DbOK' /\ LinkOK' /\ RecvOK'
    BY Same DEF dbVars, linkVars, recvVars
  <2> QED
    BY <2>1, <2>2, FailType
<1>2. ASSUME NEW m \in Msgs, NEW why, WipeCommit(m, why)
      PROVE  TypeOK'
  <2> USE <1>2 DEF WipeCommit
  <2>1. DbOK'
    BY DEF DbOK, dbVars
  <2>2. TaskOK'
    BY DEF TaskOK, taskVars
  <2>3. LinkOK' /\ RecvOK'
    BY Same DEF linkVars, recvVars
  <2> QED
    BY <2>1, <2>2, <2>3, FailType
<1>3. ASSUME NEW m \in Msgs, Expire(m)
      PROVE  TypeOK'
  <2> USE <1>3 DEF Expire
  <2>1. DbOK'
    BY DEF DbOK, dbVars
  <2>2. TaskOK' /\ LinkOK' /\ RecvOK'
    BY Same DEF taskVars, linkVars, recvVars
  <2> QED
    BY <2>1, <2>2
<1>4. ASSUME NEW m \in Msgs, NEW i \in Tries, SaveMessage(m, i)
      PROVE  TypeOK'
  <2> USE <1>4 DEF SaveMessage
  <2>1. DbOK'
    BY SaveMessageType
  <2>2. TaskOK'
    BY GotoType DEF TaskOK, SendPcs, taskVars
  <2>3. LinkOK' /\ RecvOK'
    BY Same DEF linkVars, recvVars
  <2> QED
    BY <2>1, <2>2, <2>3
<1>5. ASSUME NEW m \in Msgs, NEW i \in Tries, SaveFails(m, i)
      PROVE  TypeOK'
  <2> USE <1>5 DEF SaveFails
  <2>1. TaskOK'
    BY GotoType DEF TaskOK, SendPcs, taskVars
  <2>2. DbOK' /\ LinkOK' /\ RecvOK'
    BY Same DEF dbVars, linkVars, recvVars
  <2> QED
    BY <2>1, <2>2, FailType, TellType
<1>6. ASSUME NEW m \in Msgs, NEW i \in Tries, CheckBlock(m, i)
      PROVE  TypeOK'
  <2> USE <1>6 DEF CheckBlock
  <2>1. TaskOK'
    <3>1. CASE Fail /\ Goto(m, i, "done")
      BY <3>1, GotoType DEF TaskOK, SendPcs
    <3>2. CASE send' = [send EXCEPT ![m][i] = [pc |-> "publish", blk |-> blocked]]
      <4>1. [pc |-> "publish", blk |-> blocked] \in [pc : SendPcs, blk : BOOLEAN]
        BY DEF DbOK, SendPcs
      <4> QED
        BY <3>2, <4>1 DEF TaskOK
    <3> QED
      BY <3>1, <3>2
  <2>2. DbOK' /\ LinkOK' /\ RecvOK'
    BY Same DEF dbVars, linkVars, recvVars
  <2> QED
    BY <2>1, <2>2, FailType
<1>7. ASSUME NEW m \in Msgs, NEW i \in Tries, Publish(m, i)
      PROVE  TypeOK'
  <2> USE <1>7 DEF Publish
  <2>1. TaskOK'
    BY GotoType DEF TaskOK, SendPcs, taskVars
  <2>2. LinkOK'
    <3>1. [m |-> m, body |-> TRUE] \in Frames
      BY DEF Frames
    <3>2. \A k \in Socks : Append(inbox[k], [m |-> m, body |-> TRUE]) \in Seq(Frames)
      BY <3>1 DEF LinkOK
    <3> QED
      BY <3>2 DEF LinkOK
  <2>3. DbOK' /\ RecvOK'
    BY Same DEF dbVars, recvVars
  <2> QED
    BY <2>1, <2>2, <2>3, TellType DEF Statuses
<1>8. ASSUME NEW m \in Msgs, NEW i \in Tries, MarkDelivered(m, i)
      PROVE  TypeOK'
  <2> USE <1>8 DEF MarkDelivered
  <2>1. DbOK'
    BY SetStatusType DEF DbOK, Statuses, Marks, dbVars
  <2>2. TaskOK'
    BY GotoType DEF TaskOK, SendPcs, taskVars
  <2>3. LinkOK' /\ RecvOK'
    BY Same DEF linkVars, recvVars
  <2> QED
    BY <2>1, <2>2, <2>3, FailType
<1>9. ASSUME NEW m \in Msgs, NEW i \in Tries, StoreDelivered(m, i)
      PROVE  TypeOK'
  <2> USE <1>9 DEF StoreDelivered
  <2>1. DbOK'
    BY DEF DbOK, Marks, Devices, dbVars
  <2>2. TaskOK'
    BY GotoType DEF TaskOK, SendPcs, taskVars
  <2>3. LinkOK' /\ RecvOK'
    BY Same DEF linkVars, recvVars
  <2> QED
    BY <2>1, <2>2, <2>3, FailType, TellType DEF Statuses, Marks
<1>10. ASSUME NEW m \in Msgs, NEW i \in Tries, CheckActive(m, i)
      PROVE  TypeOK'
  <2> USE <1>10 DEF CheckActive
  <2>1. TaskOK'
    BY GotoType DEF TaskOK, SendPcs, taskVars
  <2>2. DbOK' /\ LinkOK' /\ RecvOK'
    BY Same DEF dbVars, linkVars, recvVars
  <2> QED
    BY <2>1, <2>2, FailType, TellType DEF Statuses, Marks
<1>11. ASSUME NEW m \in Msgs, NEW i \in Tries, MarkRead(m, i)
      PROVE  TypeOK'
  <2> USE <1>11 DEF MarkRead
  <2>1. DbOK'
    BY SetStatusType DEF DbOK, Statuses, Marks, dbVars
  <2>2. TaskOK'
    BY GotoType DEF TaskOK, SendPcs, taskVars
  <2>3. LinkOK' /\ RecvOK'
    BY Same DEF linkVars, recvVars
  <2> QED
    BY <2>1, <2>2, <2>3, FailType
<1>12. ASSUME NEW m \in Msgs, NEW i \in Tries, StoreRead(m, i)
      PROVE  TypeOK'
  <2> USE <1>12 DEF StoreRead
  <2>1. DbOK'
    BY DEF DbOK, Marks, Devices, dbVars
  <2>2. TaskOK'
    BY GotoType DEF TaskOK, SendPcs, taskVars
  <2>3. LinkOK' /\ RecvOK'
    BY Same DEF linkVars, recvVars
  <2> QED
    BY <2>1, <2>2, <2>3, FailType, TellType DEF Statuses, Marks
<1>13. ASSUME NEW m \in Msgs, NEW s \in Marks, HandleReceipt(m, s)
      PROVE  TypeOK'
  <2> USE <1>13 DEF HandleReceipt
  <2>0. rcpt[m][s].st \in Marks
    BY DEF TaskOK, Receipts
  <2>1. DbOK'
    BY <2>0, SetStatusType DEF DbOK, Statuses, dbVars
  <2>2. TaskOK'
    BY AdvanceType DEF TaskOK, RcptPcs
  <2>3. LinkOK' /\ RecvOK'
    BY Same DEF linkVars, recvVars
  <2> QED
    BY <2>1, <2>2, <2>3, FailType
<1>14. ASSUME NEW m \in Msgs, NEW s \in Marks, StoreReceipt(m, s)
      PROVE  TypeOK'
  <2> USE <1>14 DEF StoreReceipt
  <2>0. rcpt[m][s].st \in Marks
    BY DEF TaskOK, Receipts
  <2>1. DbOK'
    BY <2>0 DEF DbOK, Devices, dbVars
  <2>2. TaskOK'
    <3>1. wipe' \in [Msgs -> SUBSET {"check", "commit", "drop"}]
      BY DEF TaskOK
    <3>2. rcpt' \in [Msgs -> [Marks -> Receipts]]
      BY AdvanceType DEF RcptPcs
    <3> QED
      BY <3>1, <3>2 DEF TaskOK
  <2>3. LinkOK' /\ RecvOK'
    BY Same DEF linkVars, recvVars
  <2> QED
    BY <2>0, <2>1, <2>2, <2>3, FailType, TellType DEF Statuses
<1>15. ASSUME NEW m \in Msgs, NEW s \in Marks, LoseReceipt(m, s)
      PROVE  TypeOK'
  <2> USE <1>15 DEF LoseReceipt
  <2>1. TaskOK'
    BY AdvanceType DEF TaskOK, RcptPcs
  <2>2. DbOK' /\ LinkOK' /\ RecvOK'
    BY Same DEF dbVars, linkVars, recvVars
  <2> QED
    BY <2>1, <2>2
<1>16. ASSUME NEW k \in Socks, Connect(k)
      PROVE  TypeOK'
  <2> USE <1>16 DEF Connect
  <2>1. TaskOK'
    BY DEF TaskOK, RecvOK, Handshake, NoCursor, Fills, taskVars
  <2>2. LinkOK'
    BY DEF LinkOK, Links, linkVars
  <2>3. RecvOK'
    BY DEF RecvOK, Handshake, NoCursor, recvVars
  <2>4. DbOK'
    BY Same DEF dbVars
  <2> QED
    BY <2>1, <2>2, <2>3, <2>4
<1>17. ASSUME NEW k \in Socks, GapQuery(k)
      PROVE  TypeOK'
  <2> USE <1>17 DEF GapQuery
  <2>1. TaskOK'
    BY GapQueryType
  <2>2. DbOK' /\ LinkOK' /\ RecvOK'
    BY Same DEF dbVars, linkVars, recvVars
  <2> QED
    BY <2>1, <2>2, FailType
<1>18. ASSUME NEW k \in Socks, GapEmit(k)
      PROVE  TypeOK'
  <2>1. DbOK' /\ RecvOK'
    BY <1>18, Same DEF GapEmit, dbVars, recvVars
  <2>2. TaskOK' /\ LinkOK'
    BY <1>18, GapEmitType
  <2> QED
    BY <1>18, <2>1, <2>2 DEF GapEmit
<1>19. ASSUME NEW k \in Socks, NoticeDisconnect(k)
      PROVE  TypeOK'
  <2> USE <1>19 DEF NoticeDisconnect
  <2>1. LinkOK'
    <3>1. {active', memory'} \subseteq BOOLEAN
      BY SetActiveType DEF LinkOK
    <3>2. link' \in [Socks -> Links]
      BY DEF LinkOK, Links
    <3>3. inbox' \in [Socks -> Seq(Frames)] /\ chatq' \in [Socks -> Seq(BOOLEAN)]
      BY DEF LinkOK
    <3> QED
      BY <3>1, <3>2, <3>3 DEF LinkOK
  <2>2. DbOK' /\ TaskOK' /\ RecvOK'
    BY Same DEF dbVars, taskVars, recvVars
  <2> QED
    BY <2>1, <2>2, SetActiveType
<1>20. ASSUME NEW k \in Socks, MarkOffline(k)
      PROVE  TypeOK'
  <2> USE <1>20 DEF MarkOffline
  <2>1. LinkOK'
    BY DEF LinkOK, Links, linkVars
  <2>2. DbOK' /\ TaskOK' /\ RecvOK'
    BY Same DEF dbVars, taskVars, recvVars
  <2> QED
    BY <2>1, <2>2
<1>21. ASSUME NEW k \in Socks, HandleChat(k)
      PROVE  TypeOK'
  <2> USE <1>21 DEF HandleChat
  <2>1. Head(chatq[k]) \in BOOLEAN
    BY DEF LinkOK
  <2>2. LinkOK'
    BY <2>1, SetActiveType DEF LinkOK, linkVars
  <2>3. DbOK' /\ TaskOK' /\ RecvOK'
    BY Same DEF dbVars, taskVars, recvVars
  <2> QED
    BY <2>1, <2>2, <2>3, SetActiveType
<1>22. ASSUME NEW k \in Socks, ReceiverReceive(k)
      PROVE  TypeOK'
  <2> USE <1>22 DEF ReceiverReceive
  <2>1. TaskOK'
    BY ReceiverReceiveType
  <2>2. LinkOK'
    BY DEF LinkOK, linkVars
  <2>3. RecvOK'
    BY ReceiverReceiveType
  <2>4. DbOK'
    BY Same DEF dbVars
  <2> QED
    BY <2>1, <2>2, <2>3, <2>4
<1>23. ASSUME NEW k \in Socks, TransportDies(k)
      PROVE  TypeOK'
  <2> USE <1>23 DEF TransportDies
  <2>1. LinkOK'
    BY DEF LinkOK, Links, Connected, linkVars
  <2>2. DbOK' /\ TaskOK' /\ RecvOK'
    BY Same DEF dbVars, taskVars, recvVars
  <2> QED
    BY <2>1, <2>2
<1>24. ASSUME OpenChat
      PROVE  TypeOK'
  <2> USE <1>24 DEF OpenChat
  <2>1. TaskOK'
    BY OpenChatTasks
  <2>2. LinkOK'
    BY EmitChatType DEF LinkOK
  <2>3. RecvOK'
    BY OpenChatType
  <2>4. DbOK'
    BY Same DEF dbVars
  <2> QED
    BY <2>1, <2>2, <2>3, <2>4
<1>25. ASSUME CloseChat
      PROVE  TypeOK'
  <2> USE <1>25 DEF CloseChat
  <2>1. LinkOK'
    BY EmitChatType DEF LinkOK
  <2>2. RecvOK'
    BY DEF RecvOK, recvVars
  <2>3. DbOK' /\ TaskOK'
    BY Same DEF dbVars, taskVars
  <2> QED
    BY <2>1, <2>2, <2>3
<1>26. ASSUME OwnSend
      PROVE  TypeOK'
  <2> USE <1>26 DEF OwnSend
  <2>1. DbOK'
    BY DEF DbOK, dbVars
  <2>2. RecvOK'
    BY DEF RecvOK, DbOK, recvVars
  <2>3. TaskOK' /\ LinkOK'
    BY Same DEF taskVars, linkVars
  <2> QED
    BY <2>1, <2>2, <2>3
<1>27. ASSUME WriteCursor
      PROVE  TypeOK'
  <2> USE <1>27 DEF WriteCursor
  <2>1. RecvOK'
    BY DEF RecvOK, recvVars
  <2>2. DbOK' /\ TaskOK' /\ LinkOK'
    BY Same DEF dbVars, taskVars, linkVars
  <2> QED
    BY <2>1, <2>2
<1>28. ASSUME ToggleBlock
      PROVE  TypeOK'
  <2> USE <1>28 DEF ToggleBlock
  <2>1. DbOK'
    BY DEF DbOK, dbVars
  <2>2. TaskOK' /\ LinkOK' /\ RecvOK'
    BY Same DEF taskVars, linkVars, recvVars
  <2> QED
    BY <2>1, <2>2
<1>29. ASSUME ServerCrash
      PROVE  TypeOK'
  <2>1. DbOK' /\ RecvOK'
    BY <1>29, Same DEF ServerCrash, dbVars, recvVars
  <2>2. TaskOK' /\ LinkOK'
    BY <1>29, ServerCrashType
  <2> QED
    BY <1>29, <2>1, <2>2 DEF ServerCrash
<1>31. ASSUME NEW m \in Msgs, NEW s \in Marks, LookUpReceipt(m, s)
      PROVE  TypeOK'
  <2>1. TaskOK'
    BY <1>31, LookUpType
  <2>2. DbOK' /\ LinkOK' /\ RecvOK'
    BY <1>31, Same DEF LookUpReceipt, dbVars, linkVars, recvVars
  <2>3. faults' \in Nat /\ UNCHANGED <<told, readOn>>
    BY <1>31, FailType DEF LookUpReceipt
  <2> QED
    BY <2>1, <2>2, <2>3
<1>32. ASSUME NEW m \in Msgs, NEW i \in Tries, CheckSettings(m, i)
      PROVE  TypeOK'
  <2> USE <1>32 DEF CheckSettings
  <2>1. TaskOK'
    BY GotoType DEF TaskOK, SendPcs, taskVars
  <2>2. DbOK' /\ LinkOK' /\ RecvOK'
    BY Same DEF dbVars, linkVars, recvVars
  <2> QED
    BY <2>1, <2>2, FailType, TellType DEF Statuses, Marks
<1>33. ASSUME LeaveStep
      PROVE  TypeOK'
  <2> USE <1>33 DEF LeaveStep, Leave, ListMessages, HideMessages
  <2>1. DbOK'
    BY DEF DbOK, TaskOK, Quits, dbVars
  <2>2. TaskOK'
    BY DEF TaskOK, Quits, NoQuit, taskVars
  <2>3. LinkOK' /\ RecvOK'
    BY Same DEF linkVars, recvVars
  <2> QED
    BY <2>1, <2>2, <2>3, FailType
<1>30. CASE UNCHANGED vars
  BY <1>30, Same DEF vars
<1> QED
  BY <1>1, <1>2, <1>3, <1>4, <1>5, <1>6, <1>7, <1>8, <1>9, <1>10, <1>11, <1>12, <1>13,
     <1>14, <1>15, <1>16, <1>17, <1>18, <1>19, <1>20, <1>21, <1>22, <1>23, <1>24, <1>25,
     <1>26, <1>27, <1>28, <1>29, <1>30, <1>31, <1>32, <1>33
     DEF Next, SendStep, ReceiptStep, WipeStep, LinkStep

\* Every reachable state is well typed: in particular no handler ever stores a status,
\* a receipt or a frame outside the alphabets of schema.prisma and the socket events.
THEOREM TypeCorrect == Spec => []TypeOK
  BY InitTypeOK, NextTypeOK, PTL DEF Spec

-----------------------------------------------------------------------------
(* What the store never takes back.                                        *)

\* A status update never deletes a row and never leaves the marks.
LEMMA SetStatusKeeps ==
  ASSUME DbOK, NEW m \in Msgs, NEW st \in Marks, SetStatus(m, st), NEW x \in Msgs
  PROVE  /\ row[x] # "absent" => row'[x] # "absent"
         /\ row[x] \in Marks => row'[x] \in Marks
         /\ row[x] = "absent" => row'[x] = "absent"
  BY DEF DbOK, SetStatus, Marks, Statuses

\* Receipts are only ever set to a mark.
LEMMA ReceiptKeeps ==
  ASSUME DbOK, NEW m \in Msgs, NEW d \in Devices, NEW st \in Marks,
         receipt' = [receipt EXCEPT ![m][d] = st], NEW x \in Msgs, NEW e \in Devices
  PROVE  /\ receipt[x][e] \in Marks => receipt'[x][e] \in Marks
         /\ x # m => receipt'[x] = receipt[x]
  BY DEF DbOK

Kept(x) == /\ row[x] # "absent" => row'[x] # "absent"
           /\ row[x] \in Marks => row'[x] \in Marks
           /\ \A d \in Devices : receipt[x][d] \in Marks => receipt'[x][d] \in Marks

LEMMA StoreKeeps ==
  ASSUME TypeOK, [Next]_vars, NEW x \in Msgs
  PROVE  Kept(x)
<1>0. DbOK
  BY DEF TypeOK
<1>1. ASSUME NEW m \in Msgs, NEW i \in Tries, SaveMessage(m, i)
      PROVE  Kept(x)
  <2>1. \/ row' = row
        \/ row[m] = "absent" /\ row' = [row EXCEPT ![m] = "SERVER_RECEIVED"]
    BY <1>1 DEF SaveMessage
  <2>2. receipt' = receipt
    BY <1>1 DEF SaveMessage
  <2> QED
    BY <1>0, <2>1, <2>2 DEF Kept, DbOK, Marks
<1>2. ASSUME NEW m \in Msgs, NEW i \in Tries, MarkDelivered(m, i) \/ MarkRead(m, i)
      PROVE  Kept(x)
  <2>1. row' = row \/ \E st \in Marks : SetStatus(m, st)
    BY <1>2 DEF MarkDelivered, MarkRead, Marks
  <2>2. receipt' = receipt
    BY <1>2 DEF MarkDelivered, MarkRead
  <2> QED
    BY <1>0, <2>1, <2>2, SetStatusKeeps DEF Kept
<1>3. ASSUME NEW m \in Msgs, NEW i \in Tries, StoreDelivered(m, i) \/ StoreRead(m, i)
      PROVE  Kept(x)
  <2>1. receipt' = receipt \/ \E st \in Marks : receipt' = [receipt EXCEPT ![m]["1"] = st]
    BY <1>3 DEF StoreDelivered, StoreRead, Marks
  <2>2. row' = row
    BY <1>3 DEF StoreDelivered, StoreRead
  <2> QED
    BY <1>0, <2>1, <2>2, ReceiptKeeps DEF Kept, Devices
<1>4. ASSUME NEW m \in Msgs, NEW s \in Marks, HandleReceipt(m, s)
      PROVE  Kept(x)
  <2>1. row' = row \/ SetStatus(m, rcpt[m][s].st)
    BY <1>4 DEF HandleReceipt
  <2>2. receipt' = receipt
    BY <1>4 DEF HandleReceipt
  <2>3. rcpt[m][s].st \in Marks
    BY DEF TypeOK, TaskOK, Receipts
  <2> QED
    BY <1>0, <2>1, <2>2, <2>3, SetStatusKeeps DEF Kept
<1>5. ASSUME NEW m \in Msgs, NEW s \in Marks, StoreReceipt(m, s)
      PROVE  Kept(x)
  <2>1. receipt' = receipt \/ receipt' = [receipt EXCEPT ![m]["device"] = rcpt[m][s].st]
    BY <1>5 DEF StoreReceipt
  <2>2. row' = row
    BY <1>5 DEF StoreReceipt
  <2>3. rcpt[m][s].st \in Marks
    BY DEF TypeOK, TaskOK, Receipts
  <2> QED
    BY <1>0, <2>1, <2>2, <2>3, ReceiptKeeps DEF Kept, Devices
<1>6. CASE UNCHANGED <<row, receipt>>
  BY <1>6 DEF Kept
<1>7. ASSUME NEW m \in Msgs, WipeStep(m) \/ Expire(m)
      PROVE  UNCHANGED <<row, receipt>>
  BY <1>7 DEF WipeStep, WipeCheck, WipeCommit, Expire, dbVars
<1>8. ASSUME NEW m \in Msgs, NEW i \in Tries,
             SaveFails(m, i) \/ CheckBlock(m, i) \/ Publish(m, i) \/ CheckActive(m,
             i) \/ CheckSettings(m, i)
      PROVE  UNCHANGED <<row, receipt>>
  BY <1>8 DEF SaveFails, CheckBlock, Publish, CheckActive, CheckSettings, dbVars
<1>9. ASSUME NEW m \in Msgs, NEW s \in Marks, LookUpReceipt(m, s) \/ LoseReceipt(m, s)
      PROVE  UNCHANGED <<row, receipt>>
  BY <1>9 DEF LookUpReceipt, LoseReceipt, dbVars
<1>10. ASSUME NEW k \in Socks, LinkStep(k) \/ TransportDies(k)
       PROVE  UNCHANGED <<row, receipt>>
  BY <1>10 DEF LinkStep, Connect, GapQuery, GapEmit, NoticeDisconnect, MarkOffline,
               HandleChat, ReceiverReceive, TransportDies, dbVars
<1>11. ASSUME OpenChat \/ CloseChat \/ OwnSend \/ WriteCursor \/ LeaveStep \/ ToggleBlock
              \/ ServerCrash
       PROVE  UNCHANGED <<row, receipt>>
  BY <1>11 DEF OpenChat, CloseChat, OwnSend, WriteCursor, LeaveStep, Leave, ListMessages,
               HideMessages, ToggleBlock, ServerCrash, dbVars
<1>12. CASE UNCHANGED vars
  BY <1>12, <1>6 DEF vars, dbVars
<1> QED
  BY <1>1, <1>2, <1>3, <1>4, <1>5, <1>6, <1>7, <1>8, <1>9, <1>10, <1>11, <1>12
     DEF Next, SendStep, ReceiptStep

\* No handler, retry, receipt or crash ever deletes a row or takes its status back from
\* DELIVERED or READ to SERVER_RECEIVED: createMessage answers a repeated send with the
\* existing row, and every later update writes a mark.
THEOREM DeliveryNeverRevoked == Spec => DeliveryIsNotRevoked
<1>1. TypeOK /\ [Next]_vars
        => [\A m \in Msgs : /\ row[m] # "absent" => row'[m] # "absent"
                            /\ row[m] \in Marks => row'[m] \in Marks]_vars
  BY StoreKeeps DEF Kept
<1> QED
  BY <1>1, TypeCorrect, PTL DEF Spec, DeliveryIsNotRevoked

-----------------------------------------------------------------------------
(* Frames in flight, and the inductive invariant initially.                *)

LEMMA StoredGrows == ASSUME TypeOK, [Next]_vars PROVE Stored \subseteq Stored'
  BY StoreKeeps DEF Stored, Kept, Frames

LEMMA SeqGrows == ASSUME TypeOK, [Next]_vars, NEW q \in Seq(Stored) PROVE q \in Seq(Stored')
  BY StoredGrows

LEMMA InitRelayInv == Init => RelayInv
<1> SUFFICES ASSUME Init PROVE RelayInv
  OBVIOUS
<1>0. \A m \in Msgs, s \in Marks : rcpt[m][s].pc = "none"
  BY DEF Init, Receipt
<1>1. RowFirst
  <2>1. \A k \in Socks : inbox[k] \in Seq(Stored) /\ fill[k].got \subseteq Stored
    BY DEF Init
  <2>2. \A m \in Msgs : NoTrace(m)
    BY <1>0 DEF Init, NoTrace
  <2> QED
    BY <2>1, <2>2 DEF RowFirst
<1>2. EvidenceFirst
  BY DEF Init, EvidenceFirst
<1>3. StatusFirst
  BY <1>0 DEF Init, StatusFirst, Quiet, Marks
<1>4. NoReadWhenOff
  BY <1>0 DEF Init, NoReadWhenOff, NoRead
<1> QED
  BY <1>1, <1>2, <1>3, <1>4 DEF RelayInv

-----------------------------------------------------------------------------
(* RowFirst: what is in flight.                                            *)

QueuesStored == \A k \in Socks : inbox[k] \in Seq(Stored) /\ fill[k].got \subseteq Stored

\* A handler between its insert and its end finds the row.
LEMMA RunningHasRow ==
  ASSUME TypeOK, RowFirst, NEW m \in Msgs, NEW i \in Tries, send[m][i].pc \notin {"idle", "done"}
  PROVE  row[m] # "absent"
  BY DEF RowFirst, NoTrace

LEMMA QueuesStep ==
  ASSUME TypeOK, RowFirst, [Next]_vars
  PROVE  QueuesStored'
<1>1. /\ \A k \in Socks : inbox[k] \in Seq(Stored) /\ fill[k].got \subseteq Stored
      /\ TaskOK /\ LinkOK
  BY DEF RowFirst, TypeOK
<1>2. \A k \in Socks : inbox[k] \in Seq(Stored') /\ fill[k].got \subseteq Stored'
  BY <1>1, StoredGrows, SeqGrows
<1>3. CASE UNCHANGED <<inbox, fill>>
  BY <1>2, <1>3 DEF QueuesStored
<1>4. ASSUME NEW m \in Msgs, NEW i \in Tries, Publish(m, i)
      PROVE  QueuesStored'
  <2>1. row[m] # "absent" /\ Stored' = Stored
    BY <1>4, RunningHasRow DEF Publish, dbVars, Stored
  <2>2. [m |-> m, body |-> TRUE] \in Stored
    BY <2>1 DEF Stored, Frames
  <2>3. \A k \in Socks : Append(inbox[k], [m |-> m, body |-> TRUE]) \in Seq(Stored)
    BY <1>1, <2>2
  <2>4. /\ inbox' = [k \in Socks |->
                      IF Connected(k) /\ ~send[m][i].blk
                        THEN Append(inbox[k], [m |-> m, body |-> TRUE]) ELSE inbox[k]]
        /\ fill' = fill
    BY <1>4 DEF Publish
  <2> QED
    BY <1>1, <2>1, <2>3, <2>4 DEF QueuesStored
<1>5. ASSUME NEW c \in Socks, GapQuery(c)
      PROVE  QueuesStored'
  <2> DEFINE missed == Missed(c)
             got == {[m |-> m, body |-> content[m] = "kept"] : m \in missed}
             p == IF missed = {} THEN "none" ELSE "emit"
  <2>1. /\ fill' \in {[fill EXCEPT ![c].pc = p, ![c].got = got,
                                    ![c].past = @ \cup (Unseen(c) \ Missed(c))],
                      [fill EXCEPT ![c].pc = "none"]}
        /\ UNCHANGED <<inbox, row>>
    BY <1>5 DEF GapQuery, linkVars, dbVars
  <2>2. \A m \in missed : [m |-> m, body |-> content[m] = "kept"] \in Stored
    BY DEF Missed, Unseen, Stored, Frames
  <2>3. \A f \in got : \E m \in missed : f = [m |-> m, body |-> content[m] = "kept"]
    OBVIOUS
  <2> HIDE DEF missed, got, p
  <2>4. got \subseteq Stored
    BY <2>2, <2>3
  <2>5. \A k \in Socks : fill'[k].got = fill[k].got \/ fill'[k].got = got
    BY <1>1, <2>1 DEF TaskOK, Fills
  <2>6. Stored' = Stored
    BY <2>1 DEF Stored
  <2> QED
    BY <1>1, <2>1, <2>4, <2>5, <2>6 DEF QueuesStored
<1>6. ASSUME NEW c \in Socks, GapEmit(c)
      PROVE  QueuesStored'
  <2>1. PICK f \in fill[c].got :
          /\ inbox' = IF Connected(c) THEN [inbox EXCEPT ![c] = Append(@, f)] ELSE inbox
          /\ fill' = [fill EXCEPT ![c].got = @ \ {f},
                                 ![c].pc = IF fill[c].got = {f} THEN "none" ELSE "emit"]
    BY <1>6 DEF GapEmit
  <2>2. f \in Stored /\ Stored' = Stored
    BY <1>1, <1>6 DEF GapEmit, dbVars, Stored
  <2>3. \A k \in Socks : fill'[k].got \subseteq fill[k].got
    BY <1>1, <2>1 DEF TaskOK
  <2>4. \A k \in Socks : inbox'[k] \in Seq(Stored)
    BY <1>1, <2>1, <2>2 DEF LinkOK
  <2> QED
    BY <1>1, <2>2, <2>3, <2>4 DEF QueuesStored
<1>7. ASSUME NEW c \in Socks, ReceiverReceive(c)
      PROVE  QueuesStored'
  <2>1. inbox[c] # <<>> /\ inbox' = [inbox EXCEPT ![c] = Tail(@)] /\ UNCHANGED <<fill, row>>
    BY <1>7 DEF ReceiverReceive, dbVars
  <2>2. Stored' = Stored
    BY <2>1 DEF Stored
  <2>3. \A k \in Socks : inbox'[k] \in Seq(Stored)
    BY <1>1, <2>1 DEF LinkOK
  <2> QED
    BY <1>1, <2>1, <2>2, <2>3 DEF QueuesStored
<1>8. ASSUME NEW c \in Socks, TransportDies(c)
      PROVE  QueuesStored'
  <2>1. inbox' = [inbox EXCEPT ![c] = <<>>] /\ UNCHANGED fill
    BY <1>8 DEF TransportDies, taskVars
  <2>2. \A k \in Socks : inbox'[k] \in Seq(Stored')
    BY <1>1, <1>2, <2>1 DEF LinkOK
  <2> QED
    BY <1>2, <2>1, <2>2 DEF QueuesStored
<1>9. ASSUME ServerCrash
      PROVE  QueuesStored'
  <2>1. inbox' = [k \in Socks |-> <<>>]
    BY Zenon, <1>9 DEF ServerCrash
  <2>2. fill' = [k \in Socks |-> [fill[k] EXCEPT !.pc = "none", !.got = {}]]
    BY Zenon, <1>9 DEF ServerCrash
  <2>3. \A k \in Socks : fill'[k].got = {}
    BY <1>1, <2>2 DEF TaskOK, Fills
  <2> QED
    BY <2>1, <2>3 DEF QueuesStored
<1>10. ASSUME NEW c \in Socks, Connect(c)
       PROVE  QueuesStored'
  <2>1. /\ inbox' = inbox
        /\ \E p, v, q : fill' = [fill EXCEPT ![c] = [pc |-> p, since |-> v, got |-> {}, past |-> q]]
    BY <1>10 DEF Connect
  <2>2. \A k \in Socks : fill'[k].got = fill[k].got \/ fill'[k].got = {}
    BY <1>1, <2>1 DEF TaskOK
  <2> QED
    BY <1>2, <2>1, <2>2 DEF QueuesStored
<1>11. ASSUME NEW m \in Msgs, WipeStep(m) \/ Expire(m)
       PROVE  UNCHANGED <<inbox, fill>>
  BY <1>11 DEF WipeStep, WipeCheck, WipeCommit, Expire, taskVars, linkVars
<1>12. ASSUME NEW m \in Msgs, NEW i \in Tries,
              SaveMessage(m, i) \/ SaveFails(m, i) \/ CheckBlock(m, i) \/ MarkDelivered(m, i)
              \/ StoreDelivered(m, i) \/ CheckActive(m, i) \/ CheckSettings(m, i) \/ MarkRead(m, i)
              \/ StoreRead(m, i)
       PROVE  UNCHANGED <<inbox, fill>>
  BY <1>12 DEF SaveMessage, SaveFails, CheckBlock, MarkDelivered, StoreDelivered, CheckActive,
               CheckSettings,
               MarkRead, StoreRead, linkVars
<1>13. ASSUME NEW m \in Msgs, NEW s \in Marks, ReceiptStep(m, s)
       PROVE  UNCHANGED <<inbox, fill>>
  BY <1>13 DEF ReceiptStep, LookUpReceipt, HandleReceipt, StoreReceipt, LoseReceipt, linkVars
<1>14. ASSUME NEW c \in Socks, NoticeDisconnect(c) \/ MarkOffline(c) \/ HandleChat(c)
       PROVE  UNCHANGED <<inbox, fill>>
  BY <1>14 DEF NoticeDisconnect, MarkOffline, HandleChat, taskVars
<1>15. ASSUME OpenChat \/ CloseChat \/ OwnSend \/ WriteCursor \/ LeaveStep \/ ToggleBlock
       PROVE  UNCHANGED <<inbox, fill>>
  BY <1>15 DEF OpenChat, CloseChat, OwnSend, WriteCursor, LeaveStep, Leave, ListMessages,
               HideMessages, ToggleBlock, taskVars, linkVars
<1>16. CASE UNCHANGED vars
  BY <1>3, <1>16 DEF vars, taskVars, linkVars
<1> QED
  BY <1>3, <1>4, <1>5, <1>6, <1>7, <1>8, <1>9, <1>10, <1>11, <1>12, <1>13, <1>14, <1>15, <1>16
     DEF Next, SendStep, LinkStep
-----------------------------------------------------------------------------
(* RowFirst: what the tasks, the receiver and the sender know.             *)

LEMMA GotoFrame ==
  ASSUME TaskOK, NEW m \in Msgs, NEW i \in Tries, NEW p \in SendPcs, Goto(m, i, p)
  PROVE  \A x \in Msgs, j \in Tries :
           send'[x][j].pc = IF x = m /\ j = i THEN p ELSE send[x][j].pc
  BY DEF TaskOK, Goto

LEMMA AdvanceFrame ==
  ASSUME TaskOK, NEW m \in Msgs, NEW s \in Marks, NEW p \in RcptPcs, Advance(m, s, p)
  PROVE  \A x \in Msgs, t \in Marks :
           rcpt'[x][t].pc = IF x = m /\ t = s THEN p ELSE rcpt[x][t].pc
  BY DEF TaskOK, Advance

LEMMA LookUpFrame ==
  ASSUME TaskOK, NEW m \in Msgs, NEW s \in Marks, LookUpReceipt(m, s)
  PROVE  \A x \in Msgs, t \in Marks :
           rcpt'[x][t].pc = IF x = m /\ t = s THEN "update" ELSE rcpt[x][t].pc
  BY DEF TaskOK, LookUpReceipt, Receipt

LEMMA TellFrame ==
  ASSUME TypeOK, NEW m \in Msgs, NEW st, Tell(m, st)
  PROVE  \A x \in Msgs : told'[x] = IF x = m THEN told[x] \cup {st} ELSE told[x]
  BY DEF TypeOK, Tell

LEMMA TraceStep ==
  ASSUME TypeOK, RowFirst, [Next]_vars, NEW x \in Msgs, row'[x] = "absent"
  PROVE  NoTrace(x)'
<1>1. row[x] = "absent" /\ NoTrace(x) /\ DbOK /\ TaskOK /\ LinkOK /\ RecvOK
  BY StoreKeeps DEF Kept, RowFirst, TypeOK
<1>2. CASE UNCHANGED <<have, wipe, told, receipt, send, rcpt>>
  BY <1>1, <1>2 DEF NoTrace
<1>3. ASSUME NEW m \in Msgs, WipeStep(m)
      PROVE  NoTrace(x)'
  <2>1. UNCHANGED <<have, told, receipt, send, rcpt>>
    BY <1>3 DEF WipeStep, WipeCheck, WipeCommit, dbVars, recvVars
  <2>2. wipe[m] # {} /\ (x # m => wipe'[x] = wipe[x])
    BY <1>1, <1>3 DEF WipeStep, WipeCheck, WipeCommit, TaskOK
  <2> QED
    BY <1>1, <2>1, <2>2 DEF NoTrace
<1>4. ASSUME NEW m \in Msgs, NEW i \in Tries, SaveMessage(m, i)
      PROVE  NoTrace(x)'
  <2>1. UNCHANGED <<have, wipe, told, receipt, rcpt>> /\ Goto(m, i, "block")
    BY <1>4 DEF SaveMessage, recvVars
  <2>2. row'[m] # "absent"
    BY <1>1, <1>4 DEF SaveMessage, DbOK
  <2>3. \A j \in Tries : send'[x][j].pc = send[x][j].pc
    BY <1>1, <2>1, <2>2, GotoFrame DEF SendPcs
  <2> QED
    BY <1>1, <2>1, <2>3 DEF NoTrace
<1>5. ASSUME NEW m \in Msgs, NEW i \in Tries, SaveFails(m, i)
      PROVE  NoTrace(x)'
  <2>1. /\ UNCHANGED <<have, wipe, receipt, rcpt>> /\ Goto(m, i, "done")
        /\ told' = told \/ Tell(m, "FAILED")
    BY <1>5 DEF SaveFails, dbVars, recvVars
  <2>2. \A j \in Tries : send'[x][j].pc \in {send[x][j].pc, "done"}
    BY <1>1, <2>1, GotoFrame DEF SendPcs
  <2>3. told'[x] \subseteq told[x] \cup {"FAILED"}
    BY <2>1, TellFrame
  <2> QED
    BY <1>1, <2>1, <2>2, <2>3 DEF NoTrace
<1>6. ASSUME NEW m \in Msgs, NEW i \in Tries,
             CheckBlock(m, i) \/ Publish(m, i) \/ MarkDelivered(m, i) \/ StoreDelivered(m, i)
             \/ CheckActive(m, i) \/ CheckSettings(m, i) \/ MarkRead(m, i) \/ StoreRead(m, i)
      PROVE  NoTrace(x)'
  <2>1. send[m][i].pc \notin {"idle", "done"} /\ UNCHANGED <<have, rcpt>>
    BY <1>6 DEF CheckBlock, Publish, MarkDelivered, StoreDelivered, CheckActive, CheckSettings,
                MarkRead,
                StoreRead, recvVars
  <2>2. x # m
    BY <1>1, <2>1 DEF NoTrace
  <2>3. send'[x] = send[x]
    BY <1>1, <1>6, <2>2 DEF CheckBlock, Publish, MarkDelivered, StoreDelivered, CheckActive,
                            CheckSettings,
                            MarkRead, StoreRead, Goto, TaskOK
  <2>4. told'[x] = told[x]
    BY <1>6, <2>2 DEF TypeOK, CheckBlock, Publish, MarkDelivered, StoreDelivered, CheckActive,
                      CheckSettings,
                      MarkRead, StoreRead, Tell
  <2>5. receipt'[x] = receipt[x]
    BY <1>1, <1>6, <2>2 DEF CheckBlock, Publish, MarkDelivered, StoreDelivered, CheckActive,
                            CheckSettings,
                            MarkRead, StoreRead, dbVars, DbOK
  <2>6. wipe'[x] = wipe[x]
    BY <1>1, <1>6, <2>2 DEF CheckBlock, Publish, MarkDelivered, StoreDelivered, CheckActive,
                            CheckSettings,
                            MarkRead, StoreRead, TaskOK
  <2> QED
    BY <1>1, <2>1, <2>3, <2>4, <2>5, <2>6 DEF NoTrace
<1>7. ASSUME NEW m \in Msgs, NEW s \in Marks, ReceiptStep(m, s)
      PROVE  NoTrace(x)'
  <2>1. rcpt[m][s].pc # "none" /\ UNCHANGED <<have, send>>
    BY <1>7 DEF ReceiptStep, LookUpReceipt, HandleReceipt, StoreReceipt, LoseReceipt, recvVars
  <2>2. x # m
    BY <1>1, <2>1 DEF NoTrace
  <2>3. \A t \in Marks : rcpt'[x][t].pc = rcpt[x][t].pc
    BY <1>1, <1>7, <2>2, AdvanceFrame, LookUpFrame
       DEF ReceiptStep, HandleReceipt, StoreReceipt, LoseReceipt, RcptPcs
  <2>4. told'[x] = told[x]
    BY <1>7, <2>2 DEF TypeOK, ReceiptStep, LookUpReceipt, HandleReceipt, StoreReceipt,
                      LoseReceipt, Tell
  <2>5. receipt'[x] = receipt[x]
    BY <1>1, <1>7, <2>2 DEF ReceiptStep, LookUpReceipt, HandleReceipt, StoreReceipt,
                            LoseReceipt, dbVars, DbOK
  <2>6. wipe'[x] = wipe[x]
    BY <1>1, <1>7, <2>2 DEF ReceiptStep, LookUpReceipt, HandleReceipt, StoreReceipt,
                            LoseReceipt, TaskOK
  <2> QED
    BY <1>1, <2>1, <2>3, <2>4, <2>5, <2>6 DEF NoTrace
<1>8. ASSUME NEW k \in Socks, ReceiverReceive(k)
      PROVE  NoTrace(x)'
  <2> DEFINE f == Head(inbox[k])
             r == IF looking THEN "READ" ELSE "DELIVERED"
             v == Receipt("transit", {k}, r, FALSE)
  <2>1. UNCHANGED <<wipe, told, receipt, send>>
    BY <1>8 DEF ReceiverReceive, dbVars
  <2>2. f \in Stored
    <3>1. inbox[k] # <<>> /\ inbox[k] \in Seq(Stored)
      BY <1>8 DEF ReceiverReceive, RowFirst
    <3> QED
      BY <3>1
  <2>3. f.m \in Msgs /\ f.m # x
    BY <1>1, <2>2 DEF Stored, Frames
  <2>4. have' = have \/ have' = [have EXCEPT ![f.m] = IF f.body THEN "full" ELSE "empty"]
    BY <1>8 DEF ReceiverReceive
  <2>5. rcpt' = rcpt \/ rcpt' = [rcpt EXCEPT ![f.m][r] = v]
    BY <1>8 DEF ReceiverReceive
  <2> HIDE DEF f, r, v
  <2>6. have'[x] = have[x] /\ rcpt'[x] = rcpt[x]
    BY <1>1, <2>3, <2>4, <2>5 DEF TaskOK, RecvOK
  <2> QED
    BY <1>1, <2>1, <2>6 DEF NoTrace
<1>9. ASSUME OpenChat
      PROVE  NoTrace(x)'
  <2>1. UNCHANGED <<have, wipe, told, receipt, send>>
    BY <1>9 DEF OpenChat, dbVars
  <2>2. rcpt'[x] = rcpt[x]
    BY <1>1, <1>9 DEF OpenChat, NoTrace
  <2> QED
    BY <1>1, <2>1, <2>2 DEF NoTrace
<1>10. ASSUME ServerCrash
       PROVE  NoTrace(x)'
  <2>1. UNCHANGED <<have, told, receipt>> /\ wipe'[x] = {}
    BY <1>10 DEF ServerCrash, dbVars, recvVars
  <2>2. send' = [m \in Msgs |-> [i \in Tries |->
                   [send[m][i] EXCEPT !.pc = IF @ = "idle" THEN "idle" ELSE "done"]]]
    BY <1>10 DEF ServerCrash
  <2>3. \A i \in Tries : send'[x][i].pc \in {"idle", "done"}
    BY <1>1, <2>2 DEF TaskOK
  <2>4. rcpt' = [m \in Msgs |-> [s \in Marks |->
                   [rcpt[m][s] EXCEPT !.pc = IF @ = "none" THEN "none" ELSE "done"]]]
    BY <1>10 DEF ServerCrash
  <2>5. \A s \in Marks : rcpt'[x][s].pc = "none"
    BY <1>1, <2>4 DEF TaskOK, Receipts, NoTrace
  <2> QED
    BY <1>1, <2>1, <2>3, <2>5 DEF NoTrace
<1>11. ASSUME NEW m \in Msgs, Expire(m)
       PROVE  UNCHANGED <<have, wipe, told, receipt, send, rcpt>>
  BY <1>11 DEF Expire, taskVars, recvVars
<1>12. ASSUME NEW k \in Socks,
              Connect(k) \/ GapQuery(k) \/ GapEmit(k) \/ NoticeDisconnect(k) \/ MarkOffline(k)
              \/ HandleChat(k) \/ TransportDies(k)
       PROVE  UNCHANGED <<have, wipe, told, receipt, send, rcpt>>
  BY <1>12 DEF Connect, GapQuery, GapEmit, NoticeDisconnect, MarkOffline, HandleChat,
               TransportDies, dbVars, taskVars, recvVars
<1>13. ASSUME CloseChat \/ OwnSend \/ WriteCursor \/ LeaveStep \/ ToggleBlock
       PROVE  UNCHANGED <<have, wipe, told, receipt, send, rcpt>>
  BY <1>13 DEF CloseChat, OwnSend, WriteCursor, LeaveStep, Leave, ListMessages, HideMessages,
               ToggleBlock, dbVars, taskVars, recvVars
<1>14. CASE UNCHANGED vars
  BY <1>2, <1>14 DEF vars, dbVars, taskVars, recvVars
<1> QED
  BY <1>2, <1>3, <1>4, <1>5, <1>6, <1>7, <1>8, <1>9, <1>10, <1>11, <1>12, <1>13, <1>14
     DEF Next, SendStep, LinkStep

LEMMA RowFirstStep == TypeOK /\ RowFirst /\ [Next]_vars => RowFirst'
<1> SUFFICES ASSUME TypeOK, RowFirst, [Next]_vars PROVE RowFirst'
  OBVIOUS
<1>1. QueuesStored'
  BY QueuesStep
<1>2. \A x \in Msgs : row'[x] = "absent" => NoTrace(x)'
  BY TraceStep
<1> QED
  BY <1>1, <1>2 DEF RowFirst, QueuesStored

-----------------------------------------------------------------------------
(* EvidenceFirst, StatusFirst and NoReadWhenOff.                           *)

LEMMA EvidenceStep == TypeOK /\ EvidenceFirst /\ [Next]_vars => EvidenceFirst'
<1> SUFFICES ASSUME TypeOK, EvidenceFirst, [Next]_vars, NEW x \in Msgs,
                    content'[x] = "wiped" \/ "commit" \in wipe'[x]
             PROVE  Confirmed(x)'
  BY DEF EvidenceFirst
<1>1. Confirmed(x) => Confirmed(x)'
  BY StoreKeeps DEF Kept, Confirmed
<1>2. content[x] = "wiped" \/ "commit" \in wipe[x] => Confirmed(x)
  BY DEF EvidenceFirst
<1>3. DbOK /\ TaskOK
  BY DEF TypeOK
<1>4. CASE content' = content /\ wipe' = wipe
  BY <1>1, <1>2, <1>4
<1>5. ASSUME NEW m \in Msgs, WipeCheck(m)
      PROVE  Confirmed(x)
  BY <1>2, <1>3, <1>5 DEF WipeCheck, TaskOK, dbVars
<1>6. ASSUME NEW m \in Msgs, NEW why \in {"commit", "drop"}, WipeCommit(m, why)
      PROVE  Confirmed(x)
  BY <1>2, <1>3, <1>6 DEF WipeCommit, TaskOK, DbOK
<1>7. ASSUME NEW m \in Msgs, Expire(m)
      PROVE  Confirmed(x)
  BY <1>2, <1>3, <1>7 DEF Expire, taskVars, DbOK
<1>8. ASSUME NEW m \in Msgs, NEW i \in Tries, SendStep(m, i)
      PROVE  Confirmed(x)
  <2>1. content' = content
    BY <1>8 DEF SendStep, SaveMessage, SaveFails, CheckBlock, Publish, MarkDelivered,
                StoreDelivered, CheckActive, CheckSettings, MarkRead, StoreRead, dbVars
  <2>2. wipe' = wipe \/ wipe' = [wipe EXCEPT ![m] = @ \cup {"check"}]
    BY <1>8 DEF SendStep, SaveMessage, SaveFails, CheckBlock, Publish, MarkDelivered,
                StoreDelivered, CheckActive, CheckSettings, MarkRead, StoreRead
  <2>3. "commit" \in wipe'[x] => "commit" \in wipe[x]
    <3>1. CASE wipe' = wipe
      BY <3>1
    <3>2. CASE wipe' = [wipe EXCEPT ![m] = @ \cup {"check"}]
      <4>1. wipe'[x] = wipe[x] \/ wipe'[x] = wipe[x] \cup {"check"}
        BY <1>3, <3>2 DEF TaskOK
      <4> QED
        BY <4>1
    <3> QED
      BY <2>2, <3>1, <3>2
  <2> QED
    BY <1>2, <2>1, <2>3
<1>9. ASSUME NEW m \in Msgs, NEW s \in Marks, ReceiptStep(m, s)
      PROVE  Confirmed(x)
  <2>1. content' = content
    BY <1>9 DEF ReceiptStep, LookUpReceipt, HandleReceipt, StoreReceipt, LoseReceipt, dbVars
  <2>2. wipe' = wipe \/ wipe' = [wipe EXCEPT ![m] = @ \cup {"check"}]
    BY <1>9 DEF ReceiptStep, LookUpReceipt, HandleReceipt, StoreReceipt, LoseReceipt
  <2>3. "commit" \in wipe'[x] => "commit" \in wipe[x]
    <3>1. CASE wipe' = wipe
      BY <3>1
    <3>2. CASE wipe' = [wipe EXCEPT ![m] = @ \cup {"check"}]
      <4>1. wipe'[x] = wipe[x] \/ wipe'[x] = wipe[x] \cup {"check"}
        BY <1>3, <3>2 DEF TaskOK
      <4> QED
        BY <4>1
    <3> QED
      BY <2>2, <3>1, <3>2
  <2> QED
    BY <1>2, <2>1, <2>3
<1>10. ASSUME ServerCrash
       PROVE  Confirmed(x)
  BY <1>2, <1>3, <1>10 DEF ServerCrash, dbVars
<1>11. ASSUME NEW k \in Socks, LinkStep(k) \/ TransportDies(k)
       PROVE  content' = content /\ wipe' = wipe
  BY <1>11 DEF LinkStep, Connect, GapQuery, GapEmit, NoticeDisconnect, MarkOffline, HandleChat,
               ReceiverReceive, TransportDies, dbVars, taskVars
<1>12. ASSUME OpenChat \/ CloseChat \/ OwnSend \/ WriteCursor \/ LeaveStep \/ ToggleBlock
       PROVE  content' = content /\ wipe' = wipe
  BY <1>12 DEF OpenChat, CloseChat, OwnSend, WriteCursor, LeaveStep, Leave, ListMessages,
               HideMessages, ToggleBlock, dbVars, taskVars
<1>13. CASE UNCHANGED vars
  BY <1>4, <1>13 DEF vars, dbVars, taskVars
<1> QED
  BY <1>1, <1>4, <1>5, <1>6, <1>7, <1>8, <1>9, <1>10, <1>11, <1>12, <1>13
     DEF Next, WipeStep

\* What the receiver's steps and a crash do to receipts.
LEMMA ReceiveFrame ==
  ASSUME TaskOK, NEW k \in Socks, ReceiverReceive(k), NEW x \in Msgs, NEW t \in Marks
  PROVE  rcpt'[x][t] = rcpt[x][t] \/ rcpt'[x][t].pc = "transit"
<1> DEFINE f == Head(inbox[k])
           r == IF looking THEN "READ" ELSE "DELIVERED"
           v == Receipt("transit", {k}, r, FALSE)
<1>1. rcpt' = rcpt \/ rcpt' = [rcpt EXCEPT ![f.m][r] = v]
  BY DEF ReceiverReceive
<1>2. v.pc = "transit"
  BY DEF Receipt
<1> HIDE DEF f, r, v
<1>3. rcpt'[x] = rcpt[x] \/ rcpt'[x] = [rcpt[x] EXCEPT ![r] = v]
  BY <1>1 DEF TaskOK
<1>4. DOMAIN rcpt[x] = Marks
  BY DEF TaskOK
<1> QED
  BY <1>2, <1>3, <1>4

LEMMA OpenFrame ==
  ASSUME TaskOK, OpenChat, NEW x \in Msgs, NEW t \in Marks
  PROVE  rcpt'[x][t] = rcpt[x][t] \/ rcpt'[x][t].pc = "transit"
<1> DEFINE v == Receipt("transit", {k \in Socks : Connected(k)}, "READ", FALSE)
<1>1. rcpt'[x] = rcpt[x] \/ rcpt'[x] = [rcpt[x] EXCEPT !["READ"] = v]
  BY DEF OpenChat
<1>2. v.pc = "transit"
  BY DEF Receipt
<1>3. DOMAIN rcpt[x] = Marks
  BY DEF TaskOK
<1> HIDE DEF v
<1> QED
  BY <1>1, <1>2, <1>3

LEMMA CrashFrame ==
  ASSUME TaskOK, ServerCrash, NEW x \in Msgs
  PROVE  /\ \A i \in Tries : send'[x][i].pc \in {"idle", "done"}
         /\ \A t \in Marks : rcpt'[x][t].pc \in {"none", "done"}
<1>1. send' = [m \in Msgs |-> [i \in Tries |->
                 [send[m][i] EXCEPT !.pc = IF @ = "idle" THEN "idle" ELSE "done"]]]
  BY DEF ServerCrash
<1>2. \A i \in Tries : send'[x][i].pc \in {"idle", "done"}
  BY <1>1 DEF TaskOK
<1>3. rcpt' = [m \in Msgs |-> [s \in Marks |->
                 [rcpt[m][s] EXCEPT !.pc = IF @ = "none" THEN "none" ELSE "done"]]]
  BY DEF ServerCrash
<1>4. \A t \in Marks : rcpt'[x][t].pc \in {"none", "done"}
  BY <1>3 DEF TaskOK, Receipts
<1> QED
  BY <1>2, <1>4

\* The count of failed queries never goes down, so a run without failures had none before.
LEMMA FaultsGrow ==
  ASSUME TypeOK, [Next]_vars, faults' = 0
  PROVE  faults = 0 /\ ~Fail
<1>1. ASSUME NEW m \in Msgs, NEW i \in Tries, SendStep(m, i)
      PROVE  faults' = faults \/ Fail
  BY <1>1 DEF SendStep, SaveMessage, SaveFails, CheckBlock, Publish, MarkDelivered,
              StoreDelivered, CheckActive, CheckSettings, MarkRead, StoreRead
<1>2. ASSUME NEW m \in Msgs, NEW s \in Marks, ReceiptStep(m, s)
      PROVE  faults' = faults \/ Fail
  BY <1>2 DEF ReceiptStep, LookUpReceipt, HandleReceipt, StoreReceipt, LoseReceipt
<1>3. ASSUME NEW m \in Msgs, WipeStep(m) \/ Expire(m)
      PROVE  faults' = faults \/ Fail
  BY <1>3 DEF WipeStep, WipeCheck, WipeCommit, Expire
<1>4. ASSUME NEW k \in Socks, LinkStep(k) \/ TransportDies(k)
      PROVE  faults' = faults \/ Fail
  BY <1>4 DEF LinkStep, Connect, GapQuery, GapEmit, NoticeDisconnect, MarkOffline, HandleChat,
              SetActive,
              ReceiverReceive, TransportDies
<1>5. ASSUME OpenChat \/ CloseChat \/ OwnSend \/ WriteCursor \/ LeaveStep \/ ToggleBlock
             \/ ServerCrash
      PROVE  faults' = faults \/ Fail
  BY <1>5 DEF OpenChat, CloseChat, OwnSend, WriteCursor, LeaveStep, Leave, ListMessages,
              HideMessages, ToggleBlock, ServerCrash
<1>6. faults' = faults \/ Fail
  BY <1>1, <1>2, <1>3, <1>4, <1>5 DEF Next, vars
<1> QED
  BY <1>6 DEF Fail, TypeOK

LEMMA StatusStep == TypeOK /\ RowFirst /\ StatusFirst /\ [Next]_vars => StatusFirst'
<1> SUFFICES ASSUME TypeOK, RowFirst, StatusFirst, [Next]_vars, faults' = 0, NEW x \in Msgs
             PROVE  row'[x] \in Marks \/ Quiet(x)'
  BY DEF StatusFirst
<1>1. DbOK /\ TaskOK /\ LinkOK /\ faults \in Nat
  BY DEF TypeOK
<1>2. row[x] \in Marks => row'[x] \in Marks
  BY StoreKeeps DEF Kept
<1>0. faults = 0 /\ ~Fail /\ (row[x] \in Marks \/ Quiet(x))
  BY FaultsGrow DEF StatusFirst
<1>3. CASE UNCHANGED <<told, send, rcpt>>
  BY <1>0, <1>2, <1>3 DEF Quiet
<1>4. ASSUME NEW m \in Msgs, NEW i \in Tries, SendStep(m, i), Quiet(x)
      PROVE  row'[x] \in Marks \/ Quiet(x)'
  <2>0. ~Fail /\ rcpt' = rcpt
    BY <1>0, <1>4 DEF SendStep, SaveMessage, SaveFails, CheckBlock, Publish, MarkDelivered,
                      StoreDelivered, CheckActive, CheckSettings, MarkRead, StoreRead
  <2>1. CASE MarkDelivered(m, i)
    <3>1. SetStatus(m, "DELIVERED") /\ Goto(m, i, "store") /\ told' = told
      BY <2>0, <2>1 DEF MarkDelivered
    <3>2. row[m] # "absent"
      BY <2>1, RunningHasRow DEF MarkDelivered
    <3>3. row'[m] \in Marks
      BY <1>1, <3>1, <3>2 DEF SetStatus, DbOK, Marks
    <3>4. x # m => send'[x] = send[x]
      BY <1>1, <3>1 DEF Goto, TaskOK
    <3> QED
      BY <1>4, <2>0, <3>1, <3>3, <3>4 DEF Quiet
  <2>2. CASE StoreDelivered(m, i) \/ CheckActive(m, i) \/ CheckSettings(m, i) \/ MarkRead(m, i)
             \/ StoreRead(m, i)
    <3>1. x # m
      BY <1>4, <2>2 DEF Quiet, StoreDelivered, CheckActive, CheckSettings, MarkRead, StoreRead
    <3>2. send'[x] = send[x] /\ told'[x] = told[x]
      BY <1>1, <2>2, <3>1 DEF TypeOK, TaskOK, StoreDelivered, CheckActive, CheckSettings,
                              MarkRead, StoreRead,
                              Goto, Tell
    <3> QED
      BY <1>4, <2>0, <3>2 DEF Quiet
  <2>3. CASE SaveMessage(m, i) \/ CheckBlock(m, i) \/ Publish(m, i)
    <3>1. \A j \in Tries : \/ send'[x][j].pc = send[x][j].pc
                           \/ send'[x][j].pc \in {"block", "publish", "mark", "done"}
      <4>1. \/ Goto(m, i, "block") \/ Goto(m, i, "mark") \/ Goto(m, i, "done")
            \/ send' = [send EXCEPT ![m][i] = [pc |-> "publish", blk |-> blocked]]
        BY <2>3 DEF SaveMessage, CheckBlock, Publish
      <4>2. CASE send' = [send EXCEPT ![m][i] = [pc |-> "publish", blk |-> blocked]]
        BY <1>1, <4>2 DEF TaskOK
      <4> QED
        BY <1>1, <4>1, <4>2, GotoFrame DEF SendPcs
    <3>2. told'[x] \subseteq told[x] \cup {"SERVER_RECEIVED"}
      BY <2>3, TellFrame DEF SaveMessage, CheckBlock, Publish
    <3> QED
      BY <1>4, <2>0, <3>1, <3>2 DEF Quiet, Marks
  <2> QED
    BY <1>4, <2>0, <2>1, <2>2, <2>3 DEF SendStep, SaveFails
<1>5. ASSUME NEW m \in Msgs, NEW s \in Marks, ReceiptStep(m, s), Quiet(x)
      PROVE  row'[x] \in Marks \/ Quiet(x)'
  <2>0. ~Fail /\ send' = send
    BY <1>0, <1>5 DEF ReceiptStep, LookUpReceipt, HandleReceipt, StoreReceipt, LoseReceipt
  <2>1. CASE HandleReceipt(m, s)
    <3>0. rcpt[m][s].st \in Marks
      BY <1>1 DEF TaskOK, Receipts
    <3>1. SetStatus(m, rcpt[m][s].st) /\ Advance(m, s, "upsert") /\ told' = told
      BY <2>0, <2>1 DEF HandleReceipt
    <3>2. row[m] # "absent"
      BY <2>1 DEF HandleReceipt, RowFirst, NoTrace
    <3>3. row'[m] \in Marks
      BY <1>1, <3>0, <3>1, <3>2 DEF SetStatus, DbOK
    <3>4. x # m => \A t \in Marks : rcpt'[x][t].pc = rcpt[x][t].pc
      BY <1>1, <3>1, AdvanceFrame DEF RcptPcs
    <3> QED
      BY <1>5, <2>0, <3>1, <3>3, <3>4 DEF Quiet
  <2>2. CASE StoreReceipt(m, s)
    <3>1. x # m
      BY <1>5, <2>2 DEF Quiet, StoreReceipt
    <3>2. told'[x] = told[x] /\ \A t \in Marks : rcpt'[x][t].pc = rcpt[x][t].pc
      <4>1. (told' = told \/ Tell(m, rcpt[m][s].st)) /\ Advance(m, s, "done")
        BY <2>2 DEF StoreReceipt
      <4>2. told'[x] = told[x]
        BY <3>1, <4>1, TellFrame
      <4>3. \A t \in Marks : rcpt'[x][t].pc = rcpt[x][t].pc
        BY <1>1, <3>1, <4>1, AdvanceFrame DEF RcptPcs
      <4> QED
        BY <4>2, <4>3
    <3> QED
      BY <1>5, <2>0, <3>2 DEF Quiet
  <2>3. CASE LoseReceipt(m, s)
    <3>1. told' = told /\ \A t \in Marks : rcpt'[x][t].pc \in {rcpt[x][t].pc, "done"}
      BY <1>1, <2>3, AdvanceFrame DEF LoseReceipt, RcptPcs
    <3> QED
      BY <1>5, <2>0, <3>1 DEF Quiet
  <2>4. CASE LookUpReceipt(m, s)
    <3>1. told' = told /\ \A t \in Marks : rcpt'[x][t].pc \in {rcpt[x][t].pc, "update"}
      <4>1. told' = told
        BY <2>4 DEF LookUpReceipt
      <4> QED
        BY <1>1, <2>4, <4>1, LookUpFrame
    <3> QED
      BY <1>5, <2>0, <3>1 DEF Quiet
  <2> QED
    BY <1>5, <2>1, <2>2, <2>3, <2>4 DEF ReceiptStep
<1>6. ASSUME NEW k \in Socks, ReceiverReceive(k)
      PROVE  UNCHANGED <<told, send>> /\ (Quiet(x) => Quiet(x)')
  <2>1. UNCHANGED <<told, send>>
    BY <1>6 DEF ReceiverReceive
  <2>2. \A t \in Marks : rcpt'[x][t] = rcpt[x][t] \/ rcpt'[x][t].pc = "transit"
    BY <1>1, <1>6, ReceiveFrame
  <2> QED
    BY <2>1, <2>2 DEF Quiet
<1>7. ASSUME OpenChat
      PROVE  UNCHANGED <<told, send>> /\ (Quiet(x) => Quiet(x)')
  <2>1. UNCHANGED <<told, send>>
    BY <1>7 DEF OpenChat
  <2>2. \A t \in Marks : rcpt'[x][t] = rcpt[x][t] \/ rcpt'[x][t].pc = "transit"
    BY <1>1, <1>7, OpenFrame
  <2> QED
    BY <2>1, <2>2 DEF Quiet
<1>8. ASSUME ServerCrash
      PROVE  Quiet(x) => Quiet(x)'
  <2>1. told' = told
    BY <1>8 DEF ServerCrash
  <2> QED
    BY <1>1, <1>8, <2>1, CrashFrame DEF Quiet
<1>9. ASSUME NEW m \in Msgs, WipeStep(m) \/ Expire(m)
      PROVE  UNCHANGED <<told, send, rcpt>>
  BY <1>9 DEF WipeStep, WipeCheck, WipeCommit, Expire, taskVars
<1>10. ASSUME NEW k \in Socks,
              Connect(k) \/ GapQuery(k) \/ GapEmit(k) \/ NoticeDisconnect(k) \/ MarkOffline(k)
              \/ HandleChat(k) \/ TransportDies(k)
       PROVE  UNCHANGED <<told, send, rcpt>>
  BY <1>10 DEF Connect, GapQuery, GapEmit, NoticeDisconnect, MarkOffline, HandleChat,
               TransportDies, taskVars
<1>11. ASSUME CloseChat \/ OwnSend \/ WriteCursor \/ LeaveStep \/ ToggleBlock
       PROVE  UNCHANGED <<told, send, rcpt>>
  BY <1>11 DEF CloseChat, OwnSend, WriteCursor, LeaveStep, Leave, ListMessages, HideMessages,
               ToggleBlock, taskVars
<1>12. CASE UNCHANGED vars
  BY <1>3, <1>12 DEF vars, taskVars
<1> QED
  BY <1>0, <1>2, <1>3, <1>4, <1>5, <1>6, <1>7, <1>8, <1>9, <1>10, <1>11, <1>12
     DEF Next, LinkStep

\* The read receipt settings do not change while the relay runs.
LEMMA ReadOnFixed == [Next]_vars => readOn' = readOn
<1> SUFFICES ASSUME [Next]_vars PROVE readOn' = readOn
  OBVIOUS
<1>1. ASSUME NEW m \in Msgs, NEW i \in Tries, SendStep(m, i)
      PROVE  readOn' = readOn
  BY <1>1 DEF SendStep, SaveMessage, SaveFails, CheckBlock, Publish, MarkDelivered,
              StoreDelivered, CheckActive, CheckSettings, MarkRead, StoreRead
<1>2. ASSUME NEW m \in Msgs, NEW s \in Marks, ReceiptStep(m, s)
      PROVE  readOn' = readOn
  BY <1>2 DEF ReceiptStep, LookUpReceipt, HandleReceipt, StoreReceipt, LoseReceipt
<1>3. ASSUME NEW m \in Msgs, WipeStep(m) \/ Expire(m)
      PROVE  readOn' = readOn
  BY <1>3 DEF WipeStep, WipeCheck, WipeCommit, Expire
<1>4. ASSUME NEW k \in Socks, LinkStep(k) \/ TransportDies(k)
      PROVE  readOn' = readOn
  BY <1>4 DEF LinkStep, Connect, GapQuery, GapEmit, NoticeDisconnect, MarkOffline, HandleChat,
              ReceiverReceive, TransportDies
<1>5. ASSUME OpenChat \/ CloseChat \/ OwnSend \/ WriteCursor \/ LeaveStep \/ ToggleBlock
             \/ ServerCrash
      PROVE  readOn' = readOn
  BY <1>5 DEF OpenChat, CloseChat, OwnSend, WriteCursor, LeaveStep, Leave, ListMessages,
              HideMessages, ToggleBlock, ServerCrash
<1> QED
  BY <1>1, <1>2, <1>3, <1>4, <1>5 DEF Next, vars

\* With a side's read receipts off and no failed lookup, no handler carries a READ.
LEMMA NoReadReceipts ==
  ASSUME TaskOK, \A m \in Msgs : NoRead(m), ~Fail, NEW m \in Msgs, NEW s \in Marks,
         Effective(s) = "DELIVERED", ReceiptStep(m, s), NEW x \in Msgs, NEW t \in Marks
  PROVE  rcpt'[x][t].pc \in {"update", "upsert"} => rcpt'[x][t].st # "READ"
<1>1. rcpt[x][t].pc \in {"update", "upsert"} => rcpt[x][t].st # "READ"
  BY DEF NoRead
<1>2. CASE LookUpReceipt(m, s)
  <2>1. PICK tell \in BOOLEAN :
          rcpt' = [rcpt EXCEPT ![m][s] = Receipt("update", {}, "DELIVERED", tell)]
    BY <1>2 DEF LookUpReceipt
  <2>2. \/ rcpt'[x][t] = rcpt[x][t]
        \/ rcpt'[x][t] = Receipt("update", {}, "DELIVERED", tell)
    BY <2>1 DEF TaskOK
  <2>3. Receipt("update", {}, "DELIVERED", tell).st = "DELIVERED"
    BY DEF Receipt
  <2> QED
    BY <1>1, <2>2, <2>3
<1>3. CASE HandleReceipt(m, s)
  <2>1. rcpt[m][s].pc = "update" /\ rcpt' = [rcpt EXCEPT ![m][s].pc = "upsert"]
    BY <1>3 DEF HandleReceipt, Advance
  <2>2. rcpt'[x][t].st = rcpt[x][t].st
    BY <2>1 DEF TaskOK, Receipts
  <2>3. rcpt'[x][t].pc = rcpt[x][t].pc \/ rcpt[x][t].pc = "update"
    BY <2>1 DEF TaskOK, Receipts
  <2> QED
    BY <1>1, <2>2, <2>3
<1>4. CASE StoreReceipt(m, s) \/ LoseReceipt(m, s)
  <2>1. rcpt' = [rcpt EXCEPT ![m][s].pc = "done"]
    BY <1>4 DEF StoreReceipt, LoseReceipt, Advance
  <2>2. rcpt'[x][t].st = rcpt[x][t].st
    BY <2>1 DEF TaskOK, Receipts
  <2>3. rcpt'[x][t].pc = rcpt[x][t].pc \/ rcpt'[x][t].pc = "done"
    BY <2>1 DEF TaskOK, Receipts
  <2> QED
    BY <1>1, <2>2, <2>3
<1> QED
  BY <1>2, <1>3, <1>4 DEF ReceiptStep

LEMMA NoReadStep == TypeOK /\ NoReadWhenOff /\ [Next]_vars => NoReadWhenOff'
<1> SUFFICES ASSUME TypeOK, NoReadWhenOff, [Next]_vars PROVE NoReadWhenOff'
  OBVIOUS
<1>a. faults' \in Nat
  <2>1. TypeOK'
    BY NextTypeOK
  <2> QED
    BY <2>1 DEF TypeOK
<1> SUFFICES ASSUME ~readOn, faults' = 0, NEW x \in Msgs PROVE NoRead(x)'
  BY <1>a, ReadOnFixed DEF NoReadWhenOff
<1>0. faults = 0 /\ ~Fail /\ \A m \in Msgs : NoRead(m)
  BY FaultsGrow DEF NoReadWhenOff
<1>1. DbOK /\ TaskOK /\ NoRead(x)
  BY <1>0 DEF TypeOK
<1>2. CASE UNCHANGED <<row, told, receipt, send, rcpt>>
  BY <1>1, <1>2 DEF NoRead
<1>3. \A s \in Marks : Effective(s) = "DELIVERED"
  BY DEF Effective
<1>4. ASSUME NEW m \in Msgs, NEW i \in Tries,
             SaveMessage(m, i) \/ SaveFails(m, i) \/ CheckBlock(m, i) \/ Publish(m, i)
      PROVE  NoRead(x)'
  <2>1. UNCHANGED <<receipt, rcpt>>
    BY <1>4 DEF SaveMessage, SaveFails, CheckBlock, Publish, dbVars
  <2>2. row' = row \/ row' = [row EXCEPT ![m] = "SERVER_RECEIVED"]
    BY <1>4 DEF SaveMessage, SaveFails, CheckBlock, Publish, dbVars
  <2>3. row'[x] = row[x] \/ row'[x] = "SERVER_RECEIVED"
    BY <1>1, <2>2 DEF DbOK
  <2>4. told'[x] \subseteq told[x] \cup {"SERVER_RECEIVED", "FAILED"}
    <3>1. told' = told \/ Tell(m, "FAILED") \/ Tell(m, "SERVER_RECEIVED")
      BY <1>4 DEF SaveMessage, SaveFails, CheckBlock, Publish
    <3> QED
      BY <3>1, TellFrame
  <2>5. \/ Goto(m, i, "block") \/ Goto(m, i, "mark") \/ Goto(m, i, "done")
        \/ send' = [send EXCEPT ![m][i] = [pc |-> "publish", blk |-> blocked]]
    BY <1>4 DEF SaveMessage, SaveFails, CheckBlock, Publish
  <2>6. \A j \in Tries : \/ send'[x][j].pc = send[x][j].pc
                         \/ send'[x][j].pc \in {"block", "publish", "mark", "done"}
    <3>1. CASE send' = [send EXCEPT ![m][i] = [pc |-> "publish", blk |-> blocked]]
      BY <1>1, <3>1 DEF TaskOK
    <3> QED
      BY <1>1, <2>5, <3>1, GotoFrame DEF SendPcs
  <2> QED
    BY <1>1, <2>1, <2>3, <2>4, <2>6 DEF NoRead
<1>5. ASSUME NEW m \in Msgs, NEW i \in Tries, MarkDelivered(m, i)
      PROVE  NoRead(x)'
  <2>1. /\ row' = row \/ SetStatus(m, "DELIVERED")
        /\ Goto(m, i, "store") \/ Goto(m, i, "done")
        /\ UNCHANGED <<told, receipt, rcpt>>
    BY <1>5 DEF MarkDelivered
  <2>2. row'[x] \in {row[x], "DELIVERED"}
    BY <1>1, <2>1 DEF SetStatus, DbOK
  <2>3. \A j \in Tries : send'[x][j].pc \in {send[x][j].pc, "store", "done"}
    BY <1>1, <2>1, GotoFrame DEF SendPcs
  <2> QED
    BY <1>1, <2>1, <2>2, <2>3 DEF NoRead
<1>6. ASSUME NEW m \in Msgs, NEW i \in Tries,
             StoreDelivered(m, i) \/ CheckActive(m, i) \/ CheckSettings(m, i)
      PROVE  NoRead(x)'
  <2>1. UNCHANGED <<row, rcpt>>
    BY <1>6 DEF StoreDelivered, CheckActive, CheckSettings, dbVars
  <2>2. receipt' = receipt \/ receipt' = [receipt EXCEPT ![m]["1"] = "DELIVERED"]
    BY <1>6 DEF StoreDelivered, CheckActive, CheckSettings, dbVars
  <2>3. \A d \in Devices : receipt'[x][d] \in {receipt[x][d], "DELIVERED"}
    BY <1>1, <2>2 DEF DbOK
  <2>4. told' = told \/ Tell(m, "DELIVERED")
    BY <1>6 DEF StoreDelivered, CheckActive, CheckSettings
  <2>5. told'[x] \subseteq told[x] \cup {"DELIVERED"}
    BY <2>4, TellFrame
  <2>6. Goto(m, i, "active") \/ Goto(m, i, "settings") \/ Goto(m, i, "done")
    BY <1>0, <1>6 DEF StoreDelivered, CheckActive, CheckSettings
  <2>7. \A j \in Tries : send'[x][j].pc \in {send[x][j].pc, "active", "settings", "done"}
    BY <1>1, <2>6, GotoFrame DEF SendPcs
  <2> QED
    BY <1>1, <2>1, <2>3, <2>5, <2>7 DEF NoRead
<1>7. ASSUME NEW m \in Msgs, NEW i \in Tries, MarkRead(m, i) \/ StoreRead(m, i)
      PROVE  FALSE
  BY <1>0, <1>7 DEF MarkRead, StoreRead, NoRead
<1>8. ASSUME NEW m \in Msgs, NEW s \in Marks, ReceiptStep(m, s)
      PROVE  NoRead(x)'
  <2> DEFINE st == rcpt[m][s].st
             running == rcpt[m][s].pc \in {"update", "upsert"}
  <2>0. st \in Marks
    BY <1>1 DEF TaskOK, Receipts
  <2>1. running => st = "DELIVERED"
    BY <1>0, <2>0 DEF NoRead, Marks
  <2>2. send' = send
    BY <1>8 DEF ReceiptStep, LookUpReceipt, HandleReceipt, StoreReceipt, LoseReceipt
  <2>3. row' = row \/ (running /\ SetStatus(m, st))
    BY <1>8 DEF ReceiptStep, LookUpReceipt, HandleReceipt, StoreReceipt, LoseReceipt, dbVars
  <2>4. receipt' = receipt \/ (running /\ receipt' = [receipt EXCEPT ![m]["device"] = st])
    BY <1>8 DEF ReceiptStep, LookUpReceipt, HandleReceipt, StoreReceipt, LoseReceipt, dbVars
  <2>5. told' = told \/ (running /\ Tell(m, st))
    BY <1>8 DEF ReceiptStep, LookUpReceipt, HandleReceipt, StoreReceipt, LoseReceipt
  <2>6. \A t \in Marks : rcpt'[x][t].pc \in {"update", "upsert"} => rcpt'[x][t].st # "READ"
    BY <1>0, <1>1, <1>3, <1>8, NoReadReceipts
  <2> HIDE DEF st, running
  <2>7. row'[x] \in {row[x], "DELIVERED"}
    BY <1>1, <2>1, <2>3 DEF SetStatus, DbOK
  <2>8. \A d \in Devices : receipt'[x][d] \in {receipt[x][d], "DELIVERED"}
    BY <1>1, <2>1, <2>4 DEF DbOK
  <2>9. told'[x] \subseteq told[x] \cup {"DELIVERED"}
    BY <2>1, <2>5, TellFrame
  <2> QED
    BY <1>1, <2>2, <2>6, <2>7, <2>8, <2>9 DEF NoRead
<1>9. ASSUME ServerCrash
      PROVE  NoRead(x)'
  <2>1. UNCHANGED <<row, told, receipt>>
    BY <1>9 DEF ServerCrash, dbVars
  <2> QED
    BY <1>1, <1>9, <2>1, CrashFrame DEF NoRead
<1>14. ASSUME NEW k \in Socks, ReceiverReceive(k)
       PROVE  NoRead(x)'
  <2>1. UNCHANGED <<row, told, receipt, send>>
    BY <1>14 DEF ReceiverReceive, dbVars
  <2>2. \A t \in Marks : rcpt'[x][t] = rcpt[x][t] \/ rcpt'[x][t].pc = "transit"
    BY <1>1, <1>14, ReceiveFrame
  <2> QED
    BY <1>1, <2>1, <2>2 DEF NoRead
<1>15. ASSUME OpenChat
       PROVE  NoRead(x)'
  <2>1. UNCHANGED <<row, told, receipt, send>>
    BY <1>15 DEF OpenChat, dbVars
  <2>2. \A t \in Marks : rcpt'[x][t] = rcpt[x][t] \/ rcpt'[x][t].pc = "transit"
    BY <1>1, <1>15, OpenFrame
  <2> QED
    BY <1>1, <2>1, <2>2 DEF NoRead
<1>10. ASSUME NEW m \in Msgs, WipeStep(m) \/ Expire(m)
       PROVE  UNCHANGED <<row, told, receipt, send, rcpt>>
  BY <1>10 DEF WipeStep, WipeCheck, WipeCommit, Expire, dbVars, taskVars
<1>11. ASSUME NEW k \in Socks,
              Connect(k) \/ GapQuery(k) \/ GapEmit(k) \/ NoticeDisconnect(k) \/ MarkOffline(k)
              \/ HandleChat(k) \/ TransportDies(k)
       PROVE  UNCHANGED <<row, told, receipt, send, rcpt>>
  BY <1>11 DEF Connect, GapQuery, GapEmit, NoticeDisconnect, MarkOffline, HandleChat,
               TransportDies, dbVars, taskVars
<1>12. ASSUME CloseChat \/ OwnSend \/ WriteCursor \/ LeaveStep \/ ToggleBlock
       PROVE  UNCHANGED <<row, told, receipt, send, rcpt>>
  BY <1>12 DEF CloseChat, OwnSend, WriteCursor, LeaveStep, Leave, ListMessages, HideMessages,
               ToggleBlock, dbVars, taskVars
<1>13. CASE UNCHANGED vars
  BY <1>2, <1>13 DEF vars, dbVars, taskVars
<1> QED
  BY <1>2, <1>4, <1>5, <1>6, <1>7, <1>8, <1>9, <1>10, <1>11, <1>12, <1>13,
     <1>14, <1>15
     DEF Next, SendStep, LinkStep

-----------------------------------------------------------------------------
(* The invariants.                                                         *)

\* The inductive invariant of the relay: what each handler step relies on.
THEOREM RelayInvariant == Spec => []RelayInv
<1>1. TypeOK /\ RelayInv /\ [Next]_vars => RelayInv'
  BY RowFirstStep, EvidenceStep, StatusStep, NoReadStep DEF RelayInv
<1> QED
  BY <1>1, InitRelayInv, TypeCorrect, PTL DEF Spec

\* The ack and the ticks never run ahead of the durable write of createMessage.
THEOREM AckDurable == Spec => []AckIsDurable
<1>1. RelayInv => AckIsDurable
  BY DEF RelayInv, RowFirst, NoTrace, AckIsDurable
<1> QED
  BY <1>1, RelayInvariant, PTL

\* clearCiphertextsAfterDelivery wipes only messages the database has evidence for.
THEOREM WipeJustified == Spec => []WipeHasEvidence
<1>1. RelayInv => WipeHasEvidence
  BY DEF RelayInv, EvidenceFirst, WipeHasEvidence
<1> QED
  BY <1>1, RelayInvariant, PTL

\* Without failed writes no tick is shown that the row's status does not back.
THEOREM TicksBacked == Spec => []TickIsBacked
<1>1. RelayInv => TickIsBacked
  BY DEF RelayInv, StatusFirst, Quiet, TickIsBacked
<1> QED
  BY <1>1, RelayInvariant, PTL

\* With read receipts off on one side, and while every query succeeds, neither handler
\* records or announces a READ.
THEOREM ReadReceiptsMutual == Spec => []ReadReceiptsAreMutual
<1>1. RelayInv => ReadReceiptsAreMutual
  BY DEF RelayInv, NoReadWhenOff, NoRead, ReadReceiptsAreMutual
<1> QED
  BY <1>1, RelayInvariant, PTL

-----------------------------------------------------------------------------
(* No empty delivery: a second inductive invariant on top of RelayInv.     *)

\* While no query has failed, a wipe that runs or that took the content, whatever for, finds the
\* status marked, so that the gap fill, which asks for the status alone, passes over the row.
Taken(m) == content[m] \in {"wiped", "dropped"} \/ wipe[m] # {}
WipesBacked == faults = 0 => \A m \in Msgs : Taken(m) => row[m] \in Marks

\* Frames without content are of expired messages, wherever they are.
Whole == {f \in Frames : f.body \/ content[f.m] = "expired"}
QueuesWhole == \A k \in Socks : inbox[k] \in Seq(Whole) /\ fill[k].got \subseteq Whole
NothingEmpty ==
  faults = 0 => QueuesWhole /\ \A m \in Msgs : have[m] = "empty" => content[m] = "expired"

LEMMA WipesBackedStep ==
  TypeOK /\ RelayInv /\ WipesBacked /\ [Next]_vars => WipesBacked'
<1> SUFFICES ASSUME TypeOK, RelayInv, WipesBacked, [Next]_vars, faults' = 0,
                    NEW x \in Msgs, Taken(x)'
             PROVE  row'[x] \in Marks
  BY DEF WipesBacked
<1>1. /\ DbOK /\ TaskOK /\ faults = 0 /\ (row[x] \in Marks => row'[x] \in Marks)
      /\ Taken(x) => row[x] \in Marks
      /\ row[x] \in Marks \/ Quiet(x)
  BY FaultsGrow, StoreKeeps DEF TypeOK, Kept, WipesBacked, RelayInv, StatusFirst
<1>2. CASE Taken(x)
  BY <1>1, <1>2
<1>3. ASSUME NEW m \in Msgs, NEW i \in Tries, StoreDelivered(m, i)
      PROVE  row'[x] \in Marks
  <2>1. wipe' = [wipe EXCEPT ![m] = @ \cup {"check"}] /\ UNCHANGED content
    BY <1>3 DEF StoreDelivered
  <2>2. CASE x = m
    BY <1>1, <1>3, <2>2 DEF Quiet, StoreDelivered
  <2> QED
    BY <1>1, <1>2, <2>1, <2>2 DEF Taken, TaskOK
<1>4. ASSUME NEW m \in Msgs, NEW s \in Marks, StoreReceipt(m, s)
      PROVE  row'[x] \in Marks
  <2>1. wipe' = [wipe EXCEPT ![m] = @ \cup {"check"}] /\ UNCHANGED content
    BY <1>4 DEF StoreReceipt
  <2>2. CASE x = m
    BY <1>1, <1>4, <2>2 DEF Quiet, StoreReceipt
  <2> QED
    BY <1>1, <1>2, <2>1, <2>2 DEF Taken, TaskOK
<1>5. ASSUME NEW m \in Msgs, WipeStep(m) \/ Expire(m)
      PROVE  Taken(x)
  <2>1. CASE WipeCheck(m)
    <3>1. "check" \in wipe[m] /\ UNCHANGED content /\ (x # m => wipe'[x] = wipe[x])
      BY <1>1, <2>1 DEF WipeCheck, dbVars, TaskOK
    <3> QED
      BY <3>1 DEF Taken
  <2>2. ASSUME NEW why, WipeCommit(m, why)
        PROVE  Taken(x)
    <3>1. wipe[m] # {} /\ (x # m => wipe'[x] = wipe[x] /\ content'[x] = content[x])
      BY <1>1, <2>2 DEF WipeCommit, TaskOK, DbOK
    <3> QED
      BY <3>1 DEF Taken
  <2>3. CASE Expire(m)
    BY <1>1, <2>3 DEF Taken, Expire, taskVars, DbOK
  <2> QED
    BY <1>5, <2>1, <2>2, <2>3 DEF WipeStep
<1>6. ASSUME NEW m \in Msgs, NEW i \in Tries,
             SaveMessage(m, i) \/ SaveFails(m, i) \/ CheckBlock(m, i) \/ Publish(m, i)
             \/ MarkDelivered(m, i) \/ CheckActive(m, i) \/ CheckSettings(m, i)
             \/ MarkRead(m, i) \/ StoreRead(m, i)
      PROVE  UNCHANGED <<content, wipe>>
  BY <1>6 DEF SaveMessage, SaveFails, CheckBlock, Publish, MarkDelivered, CheckActive,
              CheckSettings, MarkRead, StoreRead, dbVars
<1>7. ASSUME NEW m \in Msgs, NEW s \in Marks,
             LookUpReceipt(m, s) \/ HandleReceipt(m, s) \/ LoseReceipt(m, s)
      PROVE  UNCHANGED <<content, wipe>>
  BY <1>7 DEF LookUpReceipt, HandleReceipt, LoseReceipt, dbVars
<1>8. ASSUME NEW k \in Socks, LinkStep(k) \/ TransportDies(k)
      PROVE  UNCHANGED <<content, wipe>>
  BY <1>8 DEF LinkStep, Connect, GapQuery, GapEmit, NoticeDisconnect, MarkOffline,
              HandleChat, ReceiverReceive, TransportDies, dbVars, taskVars
<1>9. ASSUME OpenChat \/ CloseChat \/ OwnSend \/ WriteCursor \/ LeaveStep \/ ToggleBlock
      PROVE  UNCHANGED <<content, wipe>>
  BY <1>9 DEF OpenChat, CloseChat, OwnSend, WriteCursor, LeaveStep, Leave, ListMessages,
              HideMessages, ToggleBlock, dbVars, taskVars
<1>11. ASSUME ServerCrash
       PROVE  Taken(x)
  BY <1>11 DEF Taken, ServerCrash, dbVars
<1>10. CASE UNCHANGED vars
  BY <1>2, <1>10 DEF vars, dbVars, taskVars, Taken
<1>12. CASE UNCHANGED <<content, wipe>>
  BY <1>2, <1>12 DEF Taken
<1> QED
  BY <1>2, <1>3, <1>4, <1>5, <1>6, <1>7, <1>8, <1>9, <1>10, <1>11, <1>12
     DEF Next, SendStep, ReceiptStep

\* Expired content stays expired, so a frame or a copy once accounted for stays so.
LEMMA ExpiryStays ==
  ASSUME TypeOK, [Next]_vars, NEW x \in Msgs, content[x] = "expired" PROVE content'[x] = "expired"
<1>1. DbOK
  BY DEF TypeOK
<1>2. ASSUME NEW m \in Msgs, WipeStep(m) \/ Expire(m)
      PROVE  content'[x] = "expired"
  BY <1>1, <1>2 DEF WipeStep, WipeCheck, WipeCommit, Expire, dbVars, DbOK
<1>3. ASSUME NEW m \in Msgs, NEW i \in Tries, SendStep(m, i)
      PROVE  UNCHANGED content
  BY <1>3 DEF SendStep, SaveMessage, SaveFails, CheckBlock, Publish, MarkDelivered,
              StoreDelivered, CheckActive, CheckSettings, MarkRead, StoreRead, dbVars
<1>4. ASSUME NEW m \in Msgs, NEW s \in Marks, ReceiptStep(m, s)
      PROVE  UNCHANGED content
  BY <1>4 DEF ReceiptStep, LookUpReceipt, HandleReceipt, StoreReceipt, LoseReceipt, dbVars
<1>5. ASSUME NEW k \in Socks, LinkStep(k) \/ TransportDies(k)
      PROVE  UNCHANGED content
  BY <1>5 DEF LinkStep, Connect, GapQuery, GapEmit, NoticeDisconnect, MarkOffline,
              HandleChat, ReceiverReceive, TransportDies, dbVars
<1>6. ASSUME OpenChat \/ CloseChat \/ OwnSend \/ WriteCursor \/ LeaveStep \/ ToggleBlock
             \/ ServerCrash
      PROVE  UNCHANGED content
  BY <1>6 DEF OpenChat, CloseChat, OwnSend, WriteCursor, LeaveStep, Leave, ListMessages,
              HideMessages, ToggleBlock, ServerCrash, dbVars
<1>7. CASE UNCHANGED vars
  BY <1>7 DEF vars, dbVars
<1> QED
  BY <1>2, <1>3, <1>4, <1>5, <1>6, <1>7 DEF Next

LEMMA WholeQueuesStep ==
  ASSUME TypeOK, RelayInv, WipesBacked, QueuesWhole, [Next]_vars, faults' = 0
  PROVE  QueuesWhole'
<1>0. faults = 0 /\ ~Fail
  BY FaultsGrow
<1>1. TaskOK /\ LinkOK /\ \A k \in Socks : inbox[k] \in Seq(Whole) /\ fill[k].got \subseteq Whole
  BY DEF QueuesWhole, TypeOK
<1>2. Whole \subseteq Whole'
  BY ExpiryStays DEF Whole, Frames
<1>3. \A k \in Socks : inbox[k] \in Seq(Whole') /\ fill[k].got \subseteq Whole'
  BY <1>1, <1>2
<1>4. CASE UNCHANGED <<inbox, fill>>
  BY <1>3, <1>4 DEF QueuesWhole
<1>5. ASSUME NEW m \in Msgs, NEW i \in Tries, Publish(m, i)
      PROVE  QueuesWhole'
  <2>1. [m |-> m, body |-> TRUE] \in Whole'
    BY DEF Whole, Frames
  <2>2. \A k \in Socks : Append(inbox[k], [m |-> m, body |-> TRUE]) \in Seq(Whole')
    BY <1>3, <2>1
  <2>3. /\ inbox' = [k \in Socks |->
                      IF Connected(k) /\ ~send[m][i].blk
                        THEN Append(inbox[k], [m |-> m, body |-> TRUE]) ELSE inbox[k]]
        /\ fill' = fill
    BY <1>5 DEF Publish
  <2> QED
    BY <1>3, <2>2, <2>3 DEF QueuesWhole
<1>6. ASSUME NEW c \in Socks, GapQuery(c)
      PROVE  QueuesWhole'
  <2> DEFINE missed == Missed(c)
             got == {[m |-> m, body |-> content[m] = "kept"] : m \in missed}
             p == IF missed = {} THEN "none" ELSE "emit"
  <2>1. /\ fill' = [fill EXCEPT ![c].pc = p, ![c].got = got,
                                ![c].past = @ \cup (Unseen(c) \ Missed(c))]
        /\ UNCHANGED <<inbox, content>>
    BY <1>0, <1>6 DEF GapQuery, linkVars, dbVars
  <2>2. ASSUME NEW m \in missed PROVE m \in Msgs /\ content[m] \notin {"wiped", "dropped"}
    <3>1. m \in Msgs /\ row[m] \notin Marks
      BY DEF Missed, Unseen, Marks
    <3> QED
      BY <1>0, <3>1 DEF WipesBacked, Taken
  <2>3. \A m \in missed : [m |-> m, body |-> content[m] = "kept"] \in Whole
    BY <2>2 DEF Whole, Frames, TypeOK, DbOK
  <2>4. \A f \in got : \E m \in missed : f = [m |-> m, body |-> content[m] = "kept"]
    OBVIOUS
  <2> HIDE DEF missed, got, p
  <2>5. got \subseteq Whole'
    BY <1>2, <2>3, <2>4
  <2>6. \A k \in Socks : fill'[k].got = fill[k].got \/ fill'[k].got = got
    BY <1>1, <2>1 DEF TaskOK
  <2> QED
    BY <1>3, <2>1, <2>5, <2>6 DEF QueuesWhole
<1>7. ASSUME NEW c \in Socks, GapEmit(c)
      PROVE  QueuesWhole'
  <2>1. PICK f \in fill[c].got :
          /\ inbox' = IF Connected(c) THEN [inbox EXCEPT ![c] = Append(@, f)] ELSE inbox
          /\ fill' = [fill EXCEPT ![c].got = @ \ {f},
                                 ![c].pc = IF fill[c].got = {f} THEN "none" ELSE "emit"]
    BY <1>7 DEF GapEmit
  <2>2. f \in Whole'
    BY <1>3
  <2>3. \A k \in Socks : fill'[k].got \subseteq fill[k].got
    BY <1>1, <2>1 DEF TaskOK
  <2>4. \A k \in Socks : inbox'[k] \in Seq(Whole')
    BY <1>1, <1>3, <2>1, <2>2 DEF LinkOK
  <2> QED
    BY <1>3, <2>3, <2>4 DEF QueuesWhole
<1>8. ASSUME NEW c \in Socks, ReceiverReceive(c) \/ TransportDies(c)
      PROVE  QueuesWhole'
  <2>1. /\ \/ inbox[c] # <<>> /\ inbox' = [inbox EXCEPT ![c] = Tail(@)]
           \/ inbox' = [inbox EXCEPT ![c] = <<>>]
        /\ UNCHANGED fill
    BY <1>8 DEF ReceiverReceive, TransportDies, taskVars
  <2>2. \A k \in Socks : inbox'[k] = inbox[k] \/ (k = c /\ inbox[c] # <<>> /\ inbox'[k] = Tail(inbox[k]))
                         \/ inbox'[k] = <<>>
    BY <1>1, <2>1 DEF LinkOK
  <2>3. \A q \in Seq(Whole') : q # <<>> => Tail(q) \in Seq(Whole')
    OBVIOUS
  <2>4. <<>> \in Seq(Whole')
    OBVIOUS
  <2>5. \A k \in Socks : inbox'[k] \in Seq(Whole')
    BY <1>3, <2>2, <2>3, <2>4
  <2> QED
    BY <1>3, <2>1, <2>5 DEF QueuesWhole
<1>9. ASSUME ServerCrash
      PROVE  QueuesWhole'
  <2>1. inbox' = [k \in Socks |-> <<>>]
    BY Zenon, <1>9 DEF ServerCrash
  <2>2. fill' = [k \in Socks |-> [fill[k] EXCEPT !.pc = "none", !.got = {}]]
    BY Zenon, <1>9 DEF ServerCrash
  <2>3. \A k \in Socks : fill'[k].got = {}
    BY <1>1, <2>2 DEF TaskOK, Fills
  <2> QED
    BY <2>1, <2>3 DEF QueuesWhole
<1>10. ASSUME NEW c \in Socks, Connect(c)
       PROVE  QueuesWhole'
  <2>1. /\ inbox' = inbox
        /\ \E p, v, q : fill' = [fill EXCEPT ![c] = [pc |-> p, since |-> v, got |-> {}, past |-> q]]
    BY <1>10 DEF Connect
  <2>2. \A k \in Socks : fill'[k].got = fill[k].got \/ fill'[k].got = {}
    BY <1>1, <2>1 DEF TaskOK
  <2> QED
    BY <1>3, <2>1, <2>2 DEF QueuesWhole
<1>11. ASSUME NEW m \in Msgs, WipeStep(m) \/ Expire(m)
       PROVE  UNCHANGED <<inbox, fill>>
  BY <1>11 DEF WipeStep, WipeCheck, WipeCommit, Expire, taskVars, linkVars
<1>12. ASSUME NEW m \in Msgs, NEW i \in Tries,
              SaveMessage(m, i) \/ SaveFails(m, i) \/ CheckBlock(m, i) \/ MarkDelivered(m, i)
              \/ StoreDelivered(m, i) \/ CheckActive(m, i) \/ CheckSettings(m, i) \/ MarkRead(m, i)
              \/ StoreRead(m, i)
       PROVE  UNCHANGED <<inbox, fill>>
  BY <1>12 DEF SaveMessage, SaveFails, CheckBlock, MarkDelivered, StoreDelivered, CheckActive,
               CheckSettings,
               MarkRead, StoreRead, linkVars
<1>13. ASSUME NEW m \in Msgs, NEW s \in Marks, ReceiptStep(m, s)
       PROVE  UNCHANGED <<inbox, fill>>
  BY <1>13 DEF ReceiptStep, LookUpReceipt, HandleReceipt, StoreReceipt, LoseReceipt, linkVars
<1>14. ASSUME NEW c \in Socks, NoticeDisconnect(c) \/ MarkOffline(c) \/ HandleChat(c)
       PROVE  UNCHANGED <<inbox, fill>>
  BY <1>14 DEF NoticeDisconnect, MarkOffline, HandleChat, taskVars
<1>15. ASSUME OpenChat \/ CloseChat \/ OwnSend \/ WriteCursor \/ LeaveStep \/ ToggleBlock
       PROVE  UNCHANGED <<inbox, fill>>
  BY <1>15 DEF OpenChat, CloseChat, OwnSend, WriteCursor, LeaveStep, Leave, ListMessages,
               HideMessages, ToggleBlock, taskVars, linkVars
<1>16. CASE UNCHANGED vars
  BY <1>4, <1>16 DEF vars, taskVars, linkVars
<1> QED
  BY <1>4, <1>5, <1>6, <1>7, <1>8, <1>9, <1>10, <1>11, <1>12, <1>13, <1>14, <1>15, <1>16
     DEF Next, SendStep, LinkStep

LEMMA NothingEmptyStep ==
  TypeOK /\ RelayInv /\ WipesBacked /\ NothingEmpty /\ [Next]_vars => NothingEmpty'
<1> SUFFICES ASSUME TypeOK, RelayInv, WipesBacked, NothingEmpty, [Next]_vars, faults' = 0
             PROVE  QueuesWhole' /\ \A x \in Msgs : have'[x] = "empty" => content'[x] = "expired"
  BY DEF NothingEmpty
<1>1. QueuesWhole /\ \A m \in Msgs : have[m] = "empty" => content[m] = "expired"
  BY FaultsGrow DEF NothingEmpty
<1>2. QueuesWhole'
  BY <1>1, WholeQueuesStep
<1>3. SUFFICES ASSUME NEW x \in Msgs, have'[x] = "empty" PROVE content'[x] = "expired"
  BY <1>2
<1>4. have'[x] = have[x] => content'[x] = "expired"
  BY <1>1, <1>3, ExpiryStays
<1>5. ASSUME NEW k \in Socks, ReceiverReceive(k)
      PROVE  content'[x] = "expired"
  <2> DEFINE f == Head(inbox[k])
  <2>1. inbox[k] # <<>> /\ inbox[k] \in Seq(Whole)
    BY <1>1, <1>5 DEF ReceiverReceive, QueuesWhole
  <2>2. f \in Whole
    BY <2>1
  <2>3. have' = have \/ have' = [have EXCEPT ![f.m] = IF f.body THEN "full" ELSE "empty"]
    BY <1>5 DEF ReceiverReceive
  <2> HIDE DEF f
  <2>4. have'[x] = have[x] \/ (x = f.m /\ ~f.body)
    BY <1>3, <2>3 DEF TypeOK, RecvOK
  <2> QED
    BY <1>4, <2>2, <2>4, ExpiryStays DEF Whole
<1>6. ASSUME NEW m \in Msgs, WipeStep(m) \/ Expire(m)
      PROVE  UNCHANGED have
  BY <1>6 DEF WipeStep, WipeCheck, WipeCommit, Expire, recvVars
<1>7. ASSUME NEW m \in Msgs, NEW i \in Tries, SendStep(m, i)
      PROVE  UNCHANGED have
  BY <1>7 DEF SendStep, SaveMessage, SaveFails, CheckBlock, Publish, MarkDelivered,
              StoreDelivered, CheckActive, CheckSettings, MarkRead, StoreRead, recvVars
<1>8. ASSUME NEW m \in Msgs, NEW s \in Marks, ReceiptStep(m, s)
      PROVE  UNCHANGED have
  BY <1>8 DEF ReceiptStep, LookUpReceipt, HandleReceipt, StoreReceipt, LoseReceipt, recvVars
<1>9. ASSUME NEW k \in Socks,
             Connect(k) \/ GapQuery(k) \/ GapEmit(k) \/ NoticeDisconnect(k) \/ MarkOffline(k)
             \/ HandleChat(k) \/ TransportDies(k)
      PROVE  UNCHANGED have
  BY <1>9 DEF Connect, GapQuery, GapEmit, NoticeDisconnect, MarkOffline, HandleChat,
              TransportDies, recvVars
<1>10. ASSUME OpenChat \/ CloseChat \/ OwnSend \/ WriteCursor \/ LeaveStep \/ ToggleBlock
              \/ ServerCrash
       PROVE  UNCHANGED have
  BY <1>10 DEF OpenChat, CloseChat, OwnSend, WriteCursor, LeaveStep, Leave, ListMessages,
               HideMessages, ToggleBlock, ServerCrash, recvVars
<1>11. CASE UNCHANGED vars
  BY <1>4, <1>11 DEF vars, recvVars
<1> QED
  BY <1>4, <1>5, <1>6, <1>7, <1>8, <1>9, <1>10, <1>11 DEF Next, LinkStep

\* While no query fails and until the 30-day expiry no copy without content is delivered
\* (NoEmptyDelivery), whatever crashes and reconnections come between the wipe, whose
\* evidence may be a receipt, and the gap fill, which reads the status.
THEOREM NoEmptyCopies == Spec => []NoEmptyDelivery
<1>1. Init => WipesBacked /\ NothingEmpty
  BY DEF Init, WipesBacked, Taken, NothingEmpty, QueuesWhole, Marks
<1>2. NothingEmpty => NoEmptyDelivery
  BY DEF NothingEmpty, NoEmptyDelivery
<1> QED
  BY <1>1, <1>2, WipesBackedStep, NothingEmptyStep, TypeCorrect, RelayInvariant, PTL DEF Spec

-----------------------------------------------------------------------------
(* The active conversation.                                                *)

\* The last chat frame on a live connection says what is on the screen, and a conversation
\* is active only while a connection is left whose end will clear it.
ChatTracked ==
  /\ ActiveIsTracked
  /\ active => \E k \in Socks : link[k] \in {"open", "dead"}
  /\ \A k \in Socks : /\ link[k] = "idle" => chatq[k] = <<>>
                      /\ link[k] = "open" /\ chatq[k] # <<>> => chatq[k][Len(chatq[k])] = looking

\* The ends of a queue, whatever it holds.
LEMMA QueueEnds ==
  ASSUME NEW S, NEW q \in Seq(S)
  PROVE  /\ \A b \in S : /\ Append(q, b) \in Seq(S) /\ Append(q, b) # <<>>
                         /\ Append(q, b)[Len(Append(q, b))] = b
         /\ q # <<>> /\ Tail(q) # <<>> => Tail(q)[Len(Tail(q))] = q[Len(q)]
         /\ q # <<>> /\ Tail(q) = <<>> => Head(q) = q[Len(q)]
         /\ q # <<>> => Len(q) \in 1..Len(q)
<1>1. ASSUME NEW b \in S
      PROVE  /\ Append(q, b) \in Seq(S) /\ Append(q, b) # <<>>
             /\ Append(q, b)[Len(Append(q, b))] = b
  OBVIOUS
<1>2. q # <<>> /\ Tail(q) # <<>> => Tail(q)[Len(Tail(q))] = q[Len(q)]
  OBVIOUS
<1>3. ASSUME q # <<>>, Tail(q) = <<>>
      PROVE  Head(q) = q[Len(q)]
  <2>1. Len(q) \in Nat /\ Len(q) # 0 /\ Len(Tail(q)) = Len(q) - 1 /\ Head(q) = q[1]
    BY <1>3
  <2>0. Len(<<>>) = 0
    OBVIOUS
  <2>2. Len(Tail(q)) = 0
    BY <1>3, <2>0, Zenon
  <2>3. Len(q) - 1 = 0
    BY <2>1, <2>2, Zenon
  <2>4. \A n \in Nat : n - 1 = 0 => n = 1
    OBVIOUS
  <2>5. Len(q) = 1
    BY <2>1, <2>3, <2>4, Zenon
  <2> QED
    BY <2>1, <2>5, Zenon
<1>4. q # <<>> => Len(q) \in 1..Len(q)
  OBVIOUS
<1> QED
  BY <1>1, <1>2, <1>3, <1>4

\* What sending a chat frame and handling one leave in its queue.
LEMMA ChatQueueEnds ==
  ASSUME NEW q \in Seq(BOOLEAN)
  PROVE  /\ \A b \in BOOLEAN : /\ Append(q, b) \in Seq(BOOLEAN) /\ Append(q, b) # <<>>
                               /\ Append(q, b)[Len(Append(q, b))] = b
         /\ q # <<>> /\ Tail(q) # <<>> => Tail(q)[Len(Tail(q))] = q[Len(q)]
         /\ q # <<>> /\ Tail(q) = <<>> => Head(q) = q[Len(q)]
         /\ q # <<>> => Len(q) \in 1..Len(q)
BY QueueEnds, Zenon

LEMMA ChatStep ==
  ASSUME TypeOK, ~AllowCrash, ChatTracked, [Next]_vars, faults' = 0
  PROVE  ChatTracked'
<1>0. /\ link \in [Socks -> Links] /\ chatq \in [Socks -> Seq(BOOLEAN)] /\ active \in BOOLEAN
      /\ looking \in BOOLEAN
  BY DEF TypeOK, LinkOK, RecvOK
<1>12. faults = 0 /\ ~Fail
  BY FaultsGrow
<1> USE <1>12
<1>1. CASE UNCHANGED <<link, chatq, active, looking>>
  BY <1>1 DEF ChatTracked, ActiveIsTracked
<1>2. ASSUME NEW open \in BOOLEAN, looking = ~open, looking' = open, EmitChat(open),
             UNCHANGED <<link, active>>
      PROVE  ChatTracked'
  <2>1. \A k \in Socks : chatq'[k] = IF link[k] = "open" THEN Append(chatq[k], open) ELSE chatq[k]
    BY <1>2 DEF EmitChat, Connected
  <2>2. \A k \in Socks : link'[k] = "open" /\ chatq'[k] # <<>>
                           => chatq'[k][Len(chatq'[k])] = looking'
    <3> SUFFICES ASSUME NEW k \in Socks, link[k] = "open"
                 PROVE  chatq'[k][Len(chatq'[k])] = open
      BY <1>2
    <3>1. chatq'[k] = Append(chatq[k], open)
      BY <2>1
    <3>2. chatq[k] \in Seq(BOOLEAN)
      BY <1>0
    <3>3. Append(chatq[k], open)[Len(Append(chatq[k], open))] = open
      BY <1>2, <3>2, ChatQueueEnds, Zenon
    <3> QED
      BY <3>1, <3>3, Zenon
  <2>3. ASSUME active, ~open
        PROVE  \E k \in Socks : link[k] = "dead" \/ \E n \in 1..Len(chatq'[k]) : ~chatq'[k][n]
    <3>1. PICK k \in Socks : link[k] \in {"open", "dead"}
      BY <2>3 DEF ChatTracked
    <3>2. CASE link[k] = "open"
      <4>1. chatq'[k] = Append(chatq[k], open) /\ chatq[k] \in Seq(BOOLEAN)
        BY <1>0, <2>1, <3>2
      <4>2. /\ Append(chatq[k], open) \in Seq(BOOLEAN) /\ Append(chatq[k], open) # <<>>
            /\ Append(chatq[k], open)[Len(Append(chatq[k], open))] = open
        BY <1>2, <4>1, ChatQueueEnds, Zenon
      <4>3. /\ chatq'[k] # <<>> /\ chatq'[k] \in Seq(BOOLEAN)
            /\ chatq'[k][Len(chatq'[k])] = open
        BY <4>1, <4>2, Zenon
      <4>4. Len(chatq'[k]) \in 1..Len(chatq'[k])
        BY <4>3, ChatQueueEnds, Zenon
      <4> QED
        BY <2>3, <4>3, <4>4, Zenon
    <3> QED
      BY <3>1, <3>2
  <2>4. ActiveIsTracked'
    BY <1>2, <2>3 DEF ActiveIsTracked
  <2>5. \A k \in Socks : link'[k] = "idle" => chatq'[k] = <<>>
    BY <1>2, <2>1 DEF ChatTracked
  <2> QED
    BY <1>2, <2>2, <2>4, <2>5 DEF ChatTracked
<1>3. ASSUME OpenChat \/ CloseChat
      PROVE  ChatTracked'
  BY <1>0, <1>2, <1>3 DEF OpenChat, CloseChat
<1>4. ASSUME NEW k \in Socks, HandleChat(k)
      PROVE  ChatTracked'
  <2>1. /\ link[k] \in {"open", "dead"} /\ chatq[k] # <<>> /\ active' = Head(chatq[k])
        /\ chatq' = [chatq EXCEPT ![k] = Tail(@)] /\ UNCHANGED <<link, looking>>
    BY <1>4 DEF HandleChat, SetActive, recvVars
  <2>2. chatq[k] \in Seq(BOOLEAN) /\ Tail(chatq[k]) \in Seq(BOOLEAN)
    BY <1>0, <2>1
  <2>3. \A j \in Socks : chatq'[j] = IF j = k THEN Tail(chatq[k]) ELSE chatq[j]
    BY <1>0, <2>1
  <2>4. \A j \in Socks : link[j] = "open" /\ chatq'[j] # <<>> => chatq'[j][Len(chatq'[j])] = looking
    BY <2>1, <2>2, <2>3, ChatQueueEnds DEF ChatTracked
  <2>5. ASSUME active', ~looking, link[k] = "open"
        PROVE  \E n \in 1..Len(chatq'[k]) : ~chatq'[k][n]
    <3>1. chatq[k][Len(chatq[k])] = looking
      BY <2>1, <2>5 DEF ChatTracked
    <3>2. chatq'[k] # <<>>
      <4>1. chatq'[k] = Tail(chatq[k]) /\ chatq[k] # <<>>
        BY <2>1, <2>3
      <4>2. Tail(chatq[k]) = <<>> => Head(chatq[k]) = chatq[k][Len(chatq[k])]
        BY <2>2, <4>1, ChatQueueEnds, Zenon
      <4>3. Head(chatq[k]) # looking
        BY <2>1, <2>5, Zenon
      <4> QED
        BY <3>1, <4>1, <4>2, <4>3, Zenon
    <3>3. chatq'[k][Len(chatq'[k])] = looking /\ Len(chatq'[k]) \in 1..Len(chatq'[k])
      BY <2>2, <2>3, <2>4, <2>5, <3>2, ChatQueueEnds
    <3> QED
      BY <2>5, <3>3
  <2>6. ActiveIsTracked'
    BY <2>1, <2>5 DEF ActiveIsTracked
  <2> QED
    BY <2>1, <2>3, <2>4, <2>6 DEF ChatTracked
<1>5. ASSUME NEW k \in Socks, Connect(k) \/ MarkOffline(k) \/ TransportDies(k) \/ NoticeDisconnect(k)
      PROVE  ChatTracked'
  <2>1. looking' = looking
    BY <1>5 DEF Connect, MarkOffline, TransportDies, NoticeDisconnect, recvVars
  <2>2. CASE NoticeDisconnect(k)
    <3>1. /\ active' = FALSE /\ link[k] = "dead"
          /\ \A j \in Socks : /\ link'[j] = IF j = k THEN "closing" ELSE link[j]
                              /\ chatq'[j] = IF j = k THEN <<>> ELSE chatq[j]
      BY <1>0, <2>2 DEF NoticeDisconnect, SetActive
    <3> QED
      BY <2>1, <3>1 DEF ChatTracked, ActiveIsTracked
  <2>3. CASE Connect(k) \/ MarkOffline(k) \/ TransportDies(k)
    <3>1. UNCHANGED <<active, chatq>>
      BY <2>3 DEF Connect, MarkOffline, TransportDies
    <3>2. /\ \A j \in Socks \ {k} : link'[j] = link[j]
          /\ \/ link[k] = "idle" /\ link'[k] = "open"
             \/ link[k] = "closing" /\ link'[k] = "closed"
             \/ link[k] = "open" /\ link'[k] = "dead"
      BY <1>0, <2>3 DEF Connect, MarkOffline, TransportDies, Connected
    <3>3. /\ \A j \in Socks : link[j] = "dead" => link'[j] = "dead"
          /\ \A j \in Socks : link[j] \in {"open", "dead"} => link'[j] \in {"open", "dead"}
          /\ \A j \in Socks : link'[j] = "idle" => link[j] = "idle"
          /\ \A j \in Socks : link'[j] = "open" => link[j] \in {"idle", "open"}
      BY <3>2
    <3> QED
      BY <2>1, <3>1, <3>3 DEF ChatTracked, ActiveIsTracked
  <2> QED
    BY <1>5, <2>2, <2>3
<1>6. ASSUME NEW m \in Msgs, WipeStep(m) \/ Expire(m)
      PROVE  UNCHANGED <<link, chatq, active, looking>>
  BY <1>6 DEF WipeStep, WipeCheck, WipeCommit, Expire, linkVars, recvVars
<1>7. ASSUME NEW m \in Msgs, NEW i \in Tries, SendStep(m, i)
      PROVE  UNCHANGED <<link, chatq, active, looking>>
  BY <1>7 DEF SendStep, SaveMessage, SaveFails, CheckBlock, Publish, MarkDelivered,
              StoreDelivered, CheckActive, CheckSettings, MarkRead, StoreRead, linkVars, recvVars
<1>8. ASSUME NEW m \in Msgs, NEW s \in Marks, ReceiptStep(m, s)
      PROVE  UNCHANGED <<link, chatq, active, looking>>
  BY <1>8 DEF ReceiptStep, LookUpReceipt, HandleReceipt, StoreReceipt, LoseReceipt, linkVars,
              recvVars
<1>9. ASSUME NEW k \in Socks, GapQuery(k) \/ GapEmit(k) \/ ReceiverReceive(k)
      PROVE  UNCHANGED <<link, chatq, active, looking>>
  BY <1>9 DEF GapQuery, GapEmit, ReceiverReceive, linkVars, recvVars
<1>10. ASSUME OwnSend \/ WriteCursor \/ LeaveStep \/ ToggleBlock \/ ServerCrash
       PROVE  UNCHANGED <<link, chatq, active, looking>>
  BY <1>10 DEF OwnSend, WriteCursor, LeaveStep, Leave, ListMessages, HideMessages, ToggleBlock,
               ServerCrash, linkVars, recvVars
<1>11. CASE UNCHANGED vars
  BY <1>1, <1>11 DEF vars, linkVars, recvVars
<1> QED
  BY <1>1, <1>3, <1>4, <1>5, <1>6, <1>7, <1>8, <1>9, <1>10, <1>11 DEF Next, LinkStep

\* While no call fails, and unless the server crashes and forgets the sockets but not the Redis
\* key, a conversation is active only while it is on the screen or about to be cleared
\* (ActiveIsTracked): a late chat:open cannot outlive the chat:close or the disconnection that
\* follows it.
THEOREM ActiveTracked == ASSUME ~AllowCrash PROVE Spec => []ActiveIsTracked
<1> DEFINE Tracked == faults = 0 => ChatTracked
<1>1. Init => Tracked
  BY DEF Init, ChatTracked, ActiveIsTracked
<1>2. TypeOK /\ Tracked /\ [Next]_vars => Tracked'
  BY ChatStep, FaultsGrow
<1>3. Tracked => ActiveIsTracked
  BY DEF ChatTracked, ActiveIsTracked
<1> QED
  BY <1>1, <1>2, <1>3, TypeCorrect, PTL DEF Spec

-----------------------------------------------------------------------------
(* The relay implements Mailbox.                                           *)

\* The abstract state.
StoredM == {m \in Msgs : row[m] # "absent"}
NotifiedM == {m \in Msgs : told[m] \ {"FAILED"} # {}}
ConfirmedM == {m \in Msgs : Confirmed(m)}
WipedM == {m \in Msgs : content[m] = "wiped"}
ExpiredM == {m \in Msgs : content[m] \in {"dropped", "expired"}}

-----------------------------------------------------------------------------
(* How the building blocks change it.                                      *)

\* A status update of an existing row confirms one message.
LEMMA SetStatusConfirms ==
  ASSUME TypeOK, NEW m \in Msgs, NEW st \in Marks, row[m] # "absent", SetStatus(m, st),
         UNCHANGED receipt
  PROVE  StoredM' = StoredM /\ ConfirmedM' = ConfirmedM \cup {m} /\ m \in StoredM
<1>1. row' = [row EXCEPT ![m] = st] /\ st # "absent" /\ DbOK
  BY DEF TypeOK, SetStatus, Marks
<1>2. StoredM' = StoredM /\ m \in StoredM
  BY <1>1 DEF StoredM, DbOK
<1>3. ASSUME NEW x \in Msgs PROVE Confirmed(x)' <=> Confirmed(x) \/ x = m
  BY <1>1, <1>3 DEF Confirmed, DbOK
<1> QED
  BY <1>2, <1>3 DEF ConfirmedM

\* So does a receipt.
LEMMA ReceiptConfirms ==
  ASSUME TypeOK, NEW m \in Msgs, NEW d \in Devices, NEW st \in Marks,
         receipt' = [receipt EXCEPT ![m][d] = st], UNCHANGED row
  PROVE  ConfirmedM' = ConfirmedM \cup {m}
<1>1. DbOK
  BY DEF TypeOK
<1>2. \A x \in Msgs, e \in Devices :
        receipt'[x][e] = IF x = m /\ e = d THEN st ELSE receipt[x][e]
  BY <1>1 DEF DbOK
<1>3. ASSUME NEW x \in Msgs PROVE Confirmed(x)' <=> Confirmed(x) \/ x = m
  BY <1>2 DEF Confirmed
<1> QED
  BY <1>3 DEF ConfirmedM

LEMMA StoreSame ==
  /\ UNCHANGED row => StoredM' = StoredM
  /\ UNCHANGED <<row, receipt>> => ConfirmedM' = ConfirmedM
  /\ UNCHANGED told => NotifiedM' = NotifiedM
  /\ UNCHANGED content => WipedM' = WipedM /\ ExpiredM' = ExpiredM
  BY DEF StoredM, ConfirmedM, Confirmed, NotifiedM, WipedM, ExpiredM

\* An ack or a tick notifies; an error does not.
LEMMA TellNotifies ==
  ASSUME TypeOK, NEW m \in Msgs, NEW st \in Statuses, Tell(m, st)
  PROVE  NotifiedM' = NotifiedM \cup {m}
<1>1. \A x \in Msgs : told'[x] = IF x = m THEN told[x] \cup {st} ELSE told[x]
  BY TellFrame
<1>2. st # "FAILED"
  BY DEF Statuses, Marks
<1> QED
  BY <1>1, <1>2 DEF NotifiedM

LEMMA FailedIsSilent ==
  ASSUME TypeOK, NEW m \in Msgs, Tell(m, "FAILED")
  PROVE  NotifiedM' = NotifiedM
  BY TellFrame DEF NotifiedM

-----------------------------------------------------------------------------
(* Every step of the relay is a step of Mailbox or a stutter.              *)

Abs == <<StoredM, NotifiedM, ConfirmedM, WipedM, ExpiredM>>
AStore(m) == StoredM' = StoredM \cup {m} /\ m \notin StoredM
             /\ UNCHANGED <<NotifiedM, ConfirmedM, WipedM, ExpiredM>>
AConfirm(m) == m \in StoredM /\ ConfirmedM' = ConfirmedM \cup {m}
               /\ UNCHANGED <<StoredM, NotifiedM, WipedM, ExpiredM>>
ANotify(m) == m \in StoredM /\ NotifiedM' = NotifiedM \cup {m}
              /\ ConfirmedM' \in {ConfirmedM, ConfirmedM \cup {m}}
              /\ UNCHANGED <<StoredM, WipedM, ExpiredM>>
AWipe(m) == m \in ConfirmedM \ ExpiredM /\ WipedM' = WipedM \cup {m}
            /\ UNCHANGED <<StoredM, NotifiedM, ConfirmedM, ExpiredM>>
AExpire(m) == m \in StoredM \ WipedM /\ ExpiredM' = ExpiredM \cup {m}
              /\ UNCHANGED <<StoredM, NotifiedM, ConfirmedM, WipedM>>
AStep == \/ \E m \in Msgs : AStore(m) \/ AConfirm(m) \/ ANotify(m) \/ AWipe(m) \/ AExpire(m)
         \/ UNCHANGED Abs

LEMMA SendImplements ==
  ASSUME TypeOK, RelayInv, NEW m \in Msgs, NEW i \in Tries, SendStep(m, i)
  PROVE  AStep
<1>0. DbOK /\ RowFirst
  BY DEF TypeOK, RelayInv
<1>1. content' = content
  BY DEF SendStep, SaveMessage, SaveFails, CheckBlock, Publish, MarkDelivered, StoreDelivered,
         CheckActive, CheckSettings, MarkRead, StoreRead, dbVars
<1>2. WipedM' = WipedM /\ ExpiredM' = ExpiredM
  BY <1>1, StoreSame
<1>3. CASE SaveMessage(m, i)
  <2>1. receipt' = receipt /\ told' = told
    BY <1>3 DEF SaveMessage
  <2>2. CASE row' = row
    BY <1>2, <2>1, <2>2, StoreSame DEF AStep, Abs
  <2>3. CASE row[m] = "absent" /\ row' = [row EXCEPT ![m] = "SERVER_RECEIVED"]
    <3>1. StoredM' = StoredM \cup {m} /\ m \notin StoredM
      BY <1>0, <2>3 DEF StoredM, DbOK
    <3>2. ASSUME NEW x \in Msgs PROVE Confirmed(x)' <=> Confirmed(x)
      BY <1>0, <2>1, <2>3 DEF Confirmed, DbOK, Marks
    <3>3. ConfirmedM' = ConfirmedM
      BY <3>2 DEF ConfirmedM
    <3> QED
      BY <1>2, <2>1, <3>1, <3>3, StoreSame DEF AStep, AStore
  <2>4. row' = row \/ (row[m] = "absent" /\ row' = [row EXCEPT ![m] = "SERVER_RECEIVED"])
    BY <1>3 DEF SaveMessage
  <2> QED
    BY <2>2, <2>3, <2>4
<1>4. CASE SaveFails(m, i)
  <2>1. UNCHANGED <<row, receipt>> /\ (told' = told \/ Tell(m, "FAILED"))
    BY <1>4 DEF SaveFails, dbVars
  <2> QED
    BY <1>2, <2>1, FailedIsSilent, StoreSame DEF AStep, Abs
<1>5. CASE CheckBlock(m, i)
  <2>1. UNCHANGED <<row, receipt, told>>
    BY <1>5 DEF CheckBlock, dbVars
  <2> QED
    BY <1>2, <2>1, StoreSame DEF AStep, Abs
<1>6. CASE SendStep(m, i) /\ ~SaveMessage(m, i) /\ ~SaveFails(m, i)
  <2>1. send[m][i].pc \notin {"idle", "done"}
    BY <1>6 DEF SendStep, CheckBlock, Publish, MarkDelivered, StoreDelivered, CheckActive,
                CheckSettings,
                MarkRead, StoreRead
  <2>2. row[m] # "absent" /\ m \in StoredM
    BY <1>0, <2>1, RunningHasRow DEF StoredM
  <2>3. CASE Publish(m, i)
    <3>1. UNCHANGED <<row, receipt>> /\ Tell(m, "SERVER_RECEIVED")
      BY <2>3 DEF Publish, dbVars
    <3> QED
      BY <1>2, <2>2, <3>1, TellNotifies, StoreSame DEF AStep, ANotify, Statuses
  <2>4. CASE MarkDelivered(m, i) \/ MarkRead(m, i)
    <3>1. /\ UNCHANGED <<receipt, told>>
          /\ row' = row \/ \E st \in Marks : SetStatus(m, st)
      BY <2>4 DEF MarkDelivered, MarkRead, Marks
    <3>2. CASE row' = row
      BY <1>2, <3>1, <3>2, StoreSame DEF AStep, Abs
    <3>3. CASE \E st \in Marks : SetStatus(m, st)
      BY <1>2, <2>2, <3>1, <3>3, SetStatusConfirms, StoreSame DEF AStep, AConfirm
    <3> QED
      BY <3>1, <3>2, <3>3
  <2>5. CASE StoreDelivered(m, i) \/ StoreRead(m, i)
    <3>1. /\ row' = row
          /\ \E st \in Marks : Tell(m, st)
          /\ receipt' = receipt \/ \E st \in Marks : receipt' = [receipt EXCEPT ![m]["1"] = st]
      BY <2>5 DEF StoreDelivered, StoreRead, Marks
    <3>2. NotifiedM' = NotifiedM \cup {m}
      BY <3>1, TellNotifies DEF Statuses
    <3>3. ConfirmedM' \in {ConfirmedM, ConfirmedM \cup {m}}
      BY <3>1, ReceiptConfirms, StoreSame DEF Devices
    <3> QED
      BY <1>2, <2>2, <3>1, <3>2, <3>3, StoreSame DEF AStep, ANotify
  <2>6. CASE CheckActive(m, i) \/ CheckSettings(m, i)
    <3>1. UNCHANGED <<row, receipt>> /\ (told' = told \/ Tell(m, "DELIVERED"))
      BY <2>6 DEF CheckActive, CheckSettings, dbVars
    <3>2. CASE told' = told
      BY <1>2, <3>1, <3>2, StoreSame DEF AStep, Abs
    <3>3. CASE Tell(m, "DELIVERED")
      BY <1>2, <2>2, <3>1, <3>3, TellNotifies, StoreSame DEF AStep, ANotify, Statuses, Marks
    <3> QED
      BY <3>1, <3>2, <3>3
  <2> QED
    BY <1>5, <1>6, <2>3, <2>4, <2>5, <2>6 DEF SendStep
<1> QED
  BY <1>3, <1>4, <1>6

LEMMA ReceiptImplements ==
  ASSUME TypeOK, RelayInv, NEW m \in Msgs, NEW s \in Marks, ReceiptStep(m, s)
  PROVE  AStep
<1>1. WipedM' = WipedM /\ ExpiredM' = ExpiredM
  BY StoreSame DEF ReceiptStep, LookUpReceipt, HandleReceipt, StoreReceipt, LoseReceipt, dbVars
<1>2. row[m] # "absent" /\ m \in StoredM
  BY DEF RelayInv, RowFirst, NoTrace, ReceiptStep, LookUpReceipt, HandleReceipt, StoreReceipt,
         LoseReceipt, StoredM
<1> DEFINE st == rcpt[m][s].st
<1>3. st \in Marks
  BY DEF TypeOK, TaskOK, Receipts
<1>4. CASE HandleReceipt(m, s)
  <2>1. UNCHANGED <<receipt, told>> /\ (row' = row \/ SetStatus(m, st))
    BY <1>4 DEF HandleReceipt
  <2>2. CASE row' = row
    BY <1>1, <2>1, <2>2, StoreSame DEF AStep, Abs
  <2>3. CASE SetStatus(m, st)
    BY <1>1, <1>2, <1>3, <2>1, <2>3, SetStatusConfirms, StoreSame DEF AStep, AConfirm
  <2> QED
    BY <2>1, <2>2, <2>3
<1>5. CASE StoreReceipt(m, s)
  <2>1. /\ row' = row /\ (told' = told \/ Tell(m, st))
        /\ receipt' = receipt \/ receipt' = [receipt EXCEPT ![m]["device"] = st]
    BY <1>5 DEF StoreReceipt
  <2>2. ConfirmedM' \in {ConfirmedM, ConfirmedM \cup {m}}
    BY <1>3, <2>1, ReceiptConfirms, StoreSame DEF Devices
  <2>3. CASE Tell(m, st)
    <3>1. NotifiedM' = NotifiedM \cup {m}
      BY <1>3, <2>3, TellNotifies DEF Statuses
    <3> QED
      BY <1>1, <1>2, <2>1, <2>2, <3>1, StoreSame DEF AStep, ANotify
  <2>4. CASE told' = told
    BY <1>1, <1>2, <2>1, <2>2, <2>4, StoreSame DEF AStep, AConfirm, Abs
  <2> QED
    BY <2>1, <2>3, <2>4
<1>6. CASE LookUpReceipt(m, s) \/ LoseReceipt(m, s)
  BY <1>6, StoreSame DEF LookUpReceipt, LoseReceipt, dbVars, AStep, Abs
<1> QED
  BY <1>4, <1>5, <1>6 DEF ReceiptStep

LEMMA WipeImplements ==
  ASSUME TypeOK, RelayInv, NEW m \in Msgs, WipeStep(m) \/ Expire(m)
  PROVE  AStep
<1>0. DbOK
  BY DEF TypeOK
<1>1. UNCHANGED <<row, receipt, told>>
  BY DEF WipeStep, WipeCheck, WipeCommit, Expire, dbVars
<1>2. StoredM' = StoredM /\ ConfirmedM' = ConfirmedM /\ NotifiedM' = NotifiedM
  BY <1>1, StoreSame
<1>3. CASE content' = content
  BY <1>2, <1>3, StoreSame DEF AStep, Abs
<1>4. CASE WipeCommit(m, "commit") /\ content[m] = "kept" /\ content' # content
  <2>1. content' = [content EXCEPT ![m] = "wiped"]
    BY <1>0, <1>4 DEF WipeCommit, DbOK
  <2>2. Confirmed(m)
    BY <1>4 DEF RelayInv, EvidenceFirst, WipeCommit
  <2>3. /\ WipedM' = WipedM \cup {m} /\ ExpiredM' = ExpiredM
        /\ m \in ConfirmedM \ ExpiredM
    BY <1>0, <1>4, <2>1, <2>2 DEF WipedM, ExpiredM, ConfirmedM, DbOK
  <2> QED
    BY <1>2, <2>3 DEF AStep, AWipe
<1>5. CASE Expire(m)
  <2>1. content' = [content EXCEPT ![m] = "expired"] /\ content[m] = "kept" /\ row[m] # "absent"
    BY <1>5 DEF Expire
  <2>2. /\ ExpiredM' = ExpiredM \cup {m} /\ WipedM' = WipedM
        /\ m \in StoredM \ WipedM
    BY <1>0, <2>1 DEF WipedM, ExpiredM, StoredM, DbOK
  <2> QED
    BY <1>2, <2>2 DEF AStep, AExpire
<1>8. CASE WipeCommit(m, "drop") /\ content[m] = "kept" /\ content' # content
  <2>1. content' = [content EXCEPT ![m] = "dropped"]
    BY <1>0, <1>8 DEF WipeCommit, DbOK
  <2>2. row[m] # "absent"
    BY <1>8 DEF RelayInv, RowFirst, NoTrace, WipeCommit
  <2>3. /\ ExpiredM' = ExpiredM \cup {m} /\ WipedM' = WipedM
        /\ m \in StoredM \ WipedM
    BY <1>0, <1>8, <2>1, <2>2 DEF WipedM, ExpiredM, StoredM, DbOK
  <2> QED
    BY <1>2, <2>3 DEF AStep, AExpire
<1>6. ASSUME NEW why, WipeCommit(m, why), content[m] # "kept"
      PROVE  AStep
  <2>1. content' = content
    BY <1>0, <1>6 DEF WipeCommit, DbOK
  <2> QED
    BY <1>3, <2>1
<1>7. CASE WipeCheck(m)
  BY <1>3, <1>7 DEF WipeCheck, dbVars
<1> QED
  BY <1>3, <1>4, <1>5, <1>6, <1>7, <1>8 DEF WipeStep

LEMMA NextImplements ==
  ASSUME TypeOK, RelayInv, [Next]_vars
  PROVE  AStep
<1>1. CASE UNCHANGED <<row, receipt, told, content>>
  BY <1>1, StoreSame DEF AStep, Abs
<1>2. ASSUME NEW k \in Socks, LinkStep(k) \/ TransportDies(k)
      PROVE  UNCHANGED <<row, receipt, told, content>>
  BY <1>2 DEF LinkStep, Connect, GapQuery, GapEmit, NoticeDisconnect, MarkOffline, HandleChat,
              ReceiverReceive, TransportDies, dbVars
<1>3. ASSUME OpenChat \/ CloseChat \/ OwnSend \/ WriteCursor \/ LeaveStep \/ ToggleBlock
             \/ ServerCrash
      PROVE  UNCHANGED <<row, receipt, told, content>>
  BY <1>3 DEF OpenChat, CloseChat, OwnSend, WriteCursor, LeaveStep, Leave, ListMessages,
              HideMessages, ToggleBlock, ServerCrash, dbVars
<1>4. CASE UNCHANGED vars
  BY <1>1, <1>4 DEF vars, dbVars
<1> QED
  BY <1>1, <1>2, <1>3, <1>4, SendImplements, ReceiptImplements, WipeImplements DEF Next

-----------------------------------------------------------------------------
\* The relay implements Mailbox: a message is stored before its sender hears of it, and
\* loses its content only after evidence of delivery was recorded or by the expiry.
THEOREM RelayImplementsMailbox == Spec => ImplementsMailbox
<1>1. Init => Mail!Init
  <2> SUFFICES ASSUME Init PROVE Mail!Init
    OBVIOUS
  <2>1. StoredM = {} /\ NotifiedM = {} /\ WipedM = {} /\ ExpiredM = {}
    BY DEF Init, StoredM, NotifiedM, WipedM, ExpiredM
  <2>2. ConfirmedM = {}
    BY DEF Init, ConfirmedM, Confirmed, Marks
  <2> QED
    BY <2>1, <2>2 DEF Mail!Init, StoredM, NotifiedM, ConfirmedM, WipedM, ExpiredM
<1>2. TypeOK /\ RelayInv /\ [Next]_vars => [Mail!Next]_(Mail!vars)
  <2> SUFFICES ASSUME AStep PROVE [Mail!Next]_(Mail!vars)
    BY NextImplements
  <2> USE DEF StoredM, NotifiedM, ConfirmedM, WipedM, ExpiredM
  <2>1. ASSUME NEW m \in Msgs, AStore(m) PROVE Mail!Store(m)
    BY <2>1 DEF AStore, Mail!Store
  <2>2. ASSUME NEW m \in Msgs, AConfirm(m) PROVE Mail!Confirm(m)
    BY <2>2 DEF AConfirm, Mail!Confirm
  <2>3. ASSUME NEW m \in Msgs, ANotify(m) PROVE Mail!Notify(m)
    BY <2>3 DEF ANotify, Mail!Notify
  <2>4. ASSUME NEW m \in Msgs, AWipe(m) PROVE Mail!Wipe(m)
    BY <2>4 DEF AWipe, Mail!Wipe
  <2>5. ASSUME NEW m \in Msgs, AExpire(m) PROVE Mail!Expire(m)
    BY <2>5 DEF AExpire, Mail!Expire
  <2>6. CASE UNCHANGED Abs
    BY <2>6 DEF Abs, Mail!vars
  <2> QED
    BY <2>1, <2>2, <2>3, <2>4, <2>5, <2>6 DEF AStep, Mail!Next
<1> QED
  BY <1>1, <1>2, TypeCorrect, RelayInvariant, PTL DEF Spec, ImplementsMailbox, Mail!Spec

=============================================================================
