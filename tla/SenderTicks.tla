----------------------------- MODULE SenderTicks -----------------------------
(***************************************************************************)
(* The sender's client of a direct message: ChatContext's sendMessage,     *)
(* resendMessage, flushPendingMessages, ack and receipt handlers, the      *)
(* bubbles of chatSlice with their debounced persistence, the outbox of    *)
(* socket.ts, and the frames ChatGateway answers with.                     *)
(*                                                                         *)
(* A bubble is found by its id, which is the clientMessageId until a frame *)
(* with both ids promotes it to the server's.  The same message is emitted *)
(* again and again under one clientMessageId: by the outbox, by the flush  *)
(* of every new connection and by the user.  A conversation that the phone *)
(* knows by a name of its own is resolved to the server's id by whichever  *)
(* of these comes first: its bubbles move to another list, and the message *)
(* being composed is then appended there once more.  What the server       *)
(* stores, and whether the receiver is online, is MessageRelay's subject:  *)
(* here the server ticks, or does not, in every way it can.                *)
(***************************************************************************)
EXTENDS Naturals, Sequences, FiniteSets

CONSTANTS
  Msgs,          \* client message ids
  Conns,         \* identities of the sender's successive connections
  Answers,       \* bound: the receipts the receiver may send
  MaxResends,    \* bound: times the user taps Retry or unblocks the receiver
  MaxFaults,     \* bound: failed lookups, uploads and database calls
  MaxRestarts    \* bound: times the app is killed and started again

ASSUME TicksAssumption == /\ Answers \subseteq {"DELIVERED", "READ"}
                          /\ MaxResends \in Nat /\ MaxFaults \in Nat /\ MaxRestarts \in Nat
                          /\ Msgs # {} /\ Conns # {}
                          /\ {"compose", "encrypt", "resend"} \cap Conns = {}

VARIABLES
  bubble,    \* chatSlice: the message's bubbles in messagesMap
  saved,     \* the copy of them in AsyncStorage
  room,      \* how the phone knows the message's conversation
  written,   \* messages whose client id has been drawn
  jobs,      \* running async functions that will emit the message
  timer,     \* armed timers: 15 s after sendMessage, 12 s after resendMessage emits
  outbox,    \* socket.ts outboxQueue
  conn,      \* the sender's connections
  wire,      \* message:send frames in flight to the server
  down,      \* frames in flight to the client
  task,      \* the bag of running handleSendMessage calls
  stored,    \* messages with a row
  ticked,    \* messages whose delivery the server has recorded
  answered,  \* receipts of the receiver that were handled
  resends, faults, restarts

clientVars == <<bubble, saved, room, written, jobs, timer, outbox, resends>>
netVars == <<conn, wire, down>>
serverVars == <<task, stored, ticked, answered>>
vars == <<clientVars, netVars, serverVars, faults, restarts>>

Marks == {"DELIVERED", "READ"}
Pending == {"SENDING", "FAILED"}
Shown == {"SENT"} \cup Marks

\* room: the list it is in, that of the conversation the user wrote in or that of the id
\* this one was resolved to; id: which id the bubble is found by.
Bubbles == [room : {"home", "real"}, id : {"client", "server"}, st : Pending \cup Shown]

\* The conversation has the server's id; a local name not resolved yet; a local name that
\* convUUIDCacheRef maps; or its resolution moved the messages and took it off the list.
Rooms == {"server", "new", "known", "moved"}

\* What emits: sendMessage, before and after it resolved the conversation, resendMessage,
\* and the flush that connection k started.
Jobs == {"compose", "encrypt", "resend"} \cup Conns

\* A frame to the client.  An ack carries both ids, an error only the client's; a receipt
\* carries both when handleSendMessage ticks and only the server's when handleReceipt does.
Frames == [m : Msgs, ids : {"both", "client", "server"}, st : {"FAILED"} \cup Shown]

Tasks == [m : Msgs, via : Conns, pc : {"save", "block", "ack", "tick", "read"}]

TypeOK ==
  /\ bubble \in [Msgs -> SUBSET Bubbles] /\ saved \in [Msgs -> SUBSET Bubbles]
  /\ room \in [Msgs -> Rooms] /\ written \subseteq Msgs
  /\ jobs \in [Msgs -> SUBSET Jobs] /\ timer \subseteq Msgs \X {"compose", "resend"}
  /\ outbox \in Seq(Msgs)
  /\ conn \in [Conns -> {"idle", "up", "dead", "left", "down"}]
  /\ wire \in [Conns -> Seq(Msgs)] /\ down \in [Conns -> Seq(Frames)]
  /\ task \in [Tasks -> Nat]
  /\ stored \subseteq Msgs /\ ticked \subseteq Msgs /\ answered \subseteq Msgs \X Marks
  /\ resends \in Nat /\ faults \in Nat /\ restarts \in Nat

Init ==
  /\ bubble = [m \in Msgs |-> {}] /\ saved = bubble
  /\ room \in [Msgs -> {"server", "new", "known"}] /\ written = {}
  /\ jobs = [m \in Msgs |-> {}] /\ timer = {} /\ outbox = <<>>
  /\ conn = [k \in Conns |-> "idle"]
  /\ wire = [k \in Conns |-> <<>>] /\ down = [k \in Conns |-> <<>>]
  /\ task = [t \in Tasks |-> 0] /\ stored = {} /\ ticked = {} /\ answered = {}
  /\ resends = 0 /\ faults = 0 /\ restarts = 0

-----------------------------------------------------------------------------
(* Building blocks.                                                        *)

\* socket.connected: true until the client notices that the transport is gone.
Connected(k) == conn[k] \in {"up", "dead"}
SomeConnected == \E k \in Conns : Connected(k)

\* socketService.sendMessage: a frame, or an entry of the outbox.
Emit(m) ==
  /\ wire' = [k \in Conns |-> IF conn[k] = "up" THEN Append(wire[k], m) ELSE wire[k]]
  /\ outbox' = IF SomeConnected THEN outbox ELSE Append(outbox, m)

Home(B) == {b \in B : b.room = "home"}
Waiting(B) == {b \in Home(B) : b.st \in Pending}

\* Mutant of Mark: a bubble is found by either of its ids.
MarkByEither(B, st) == {[b EXCEPT !.st = st] : b \in B}

\* updateMessageStatus as the client itself dispatches it: in every list, by the client id.
Mark(B, st) == {IF b.id = "client" THEN [b EXCEPT !.st = st] ELSE b : b \in B}

\* updateMessageStatus as a frame causes it.
Apply(b, f) ==
  IF \/ b.id = "server" /\ f.ids # "client"
     \/ b.id = "client" /\ f.ids # "server"
    THEN [b EXCEPT !.id = IF f.ids = "client" THEN @ ELSE "server", !.st = f.st]
    ELSE b

\* _resolveConvId: the first answer for a listed conversation gives the list of its id the
\* messages, unless there are none, and removes the conversation and its own list.
Resolved(m) == IF room[m] = "new" /\ Home(bubble[m]) # {}
                 THEN {[b EXCEPT !.room = "real"] : b \in Home(bubble[m])}
                 ELSE bubble[m]

Resolves(m) == room' = [room EXCEPT ![m] = IF @ = "new" THEN "moved" ELSE @]

\* appendMessage of the composed message in the list of the resolved id: a bubble of the
\* same id is overwritten.
Again(B) == {b \in B : ~(b.room = "real" /\ b.id = "client")}
            \cup {[room |-> "real", id |-> "client", st |-> "SENDING"]}

Fail == faults < MaxFaults /\ faults' = faults + 1

-----------------------------------------------------------------------------
(* The client.                                                             *)

\* sendMessage: the optimistic bubble, the async part and the 15 s timer.
SendMessage(m) ==
  /\ m \notin written /\ written' = written \cup {m}
  /\ bubble' = [bubble EXCEPT ![m] = {[room |-> "home", id |-> "client", st |-> "SENDING"]}]
  /\ jobs' = [jobs EXCEPT ![m] = {"compose"}]
  /\ timer' = timer \cup {<<m, "compose">>}
  /\ UNCHANGED <<saved, room, outbox, resends, netVars, serverVars, faults, restarts>>

\* The async part has the conversation's id; when that is not the id the user wrote under,
\* it appends the message again, and awaits the keys.
ComposeResolves(m) ==
  /\ "compose" \in jobs[m] /\ room[m] # "server"
  /\ jobs' = [jobs EXCEPT ![m] = (@ \ {"compose"}) \cup {"encrypt"}]
  /\ bubble' = [bubble EXCEPT ![m] = Again(Resolved(m))] /\ Resolves(m)
  /\ UNCHANGED <<saved, written, timer, outbox, resends, netVars, serverVars, faults, restarts>>

\* Another message of the conversation, or the loading of its history, resolves it first.
ResolveElsewhere(m) ==
  /\ room[m] = "new" /\ Home(bubble[m]) # {}
  /\ bubble' = [bubble EXCEPT ![m] = Resolved(m)] /\ Resolves(m)
  /\ UNCHANGED <<saved, written, jobs, timer, outbox, resends, netVars, serverVars, faults,
                 restarts>>

\* resendMessage, from the Retry of a failed bubble, or of a pending one by unblockUser.
ResendMessage(m) ==
  /\ Waiting(bubble[m]) # {}
  /\ "resend" \notin jobs[m] /\ resends < MaxResends
  /\ resends' = resends + 1
  /\ bubble' = [bubble EXCEPT ![m] = Mark(@, "SENDING")]
  /\ jobs' = [jobs EXCEPT ![m] = @ \cup {"resend"}]
  /\ UNCHANGED <<saved, room, written, timer, outbox, netVars, serverVars, faults, restarts>>

\* The awaits of a job are over and it emits.  Composing has resolved the conversation
\* before, the others do it now; a flush then marks the bubble SENDING, and only a resend
\* arms a timer.
RunJob(m, j) ==
  /\ j \in jobs[m] /\ (j = "compose" => room[m] = "server")
  /\ jobs' = [jobs EXCEPT ![m] = @ \ {j}]
  /\ bubble' = [bubble EXCEPT ![m] = IF j \in Conns THEN Mark(Resolved(m), "SENDING")
                                                     ELSE Resolved(m)]
  /\ Resolves(m)
  /\ timer' = IF j = "resend" THEN timer \cup {<<m, "resend">>} ELSE timer
  /\ Emit(m)
  /\ UNCHANGED <<saved, written, resends, conn, down, serverVars, faults, restarts>>

\* The recipient, the conversation or the upload fails; a failing key does not matter.
JobFails(m, j) ==
  /\ j \in jobs[m] /\ j # "encrypt" /\ Fail
  /\ jobs' = [jobs EXCEPT ![m] = @ \ {j}]
  /\ bubble' = IF j \in Conns THEN bubble ELSE [bubble EXCEPT ![m] = Mark(@, "FAILED")]
  /\ UNCHANGED <<saved, room, written, timer, outbox, resends, netVars, serverVars, restarts>>

\* The timer looks for the bubble in the list of the conversation the user wrote in.
Timeout(m, j) ==
  /\ <<m, j>> \in timer
  /\ timer' = timer \ {<<m, j>>}
  /\ bubble' = IF [room |-> "home", id |-> "client", st |-> "SENDING"] \in bubble[m]
                 THEN [bubble EXCEPT ![m] = Mark(@, "FAILED")] ELSE bubble
  /\ UNCHANGED <<saved, room, written, jobs, outbox, resends, netVars, serverVars, faults,
                 restarts>>

\* _handleMessageAck and _handleReceiptUpdate.
ClientReceive(k) ==
  /\ conn[k] = "up" /\ down[k] # <<>>
  /\ down' = [down EXCEPT ![k] = Tail(@)]
  /\ LET f == Head(down[k])
     IN bubble' = [bubble EXCEPT ![f.m] = {Apply(b, f) : b \in @}]
  /\ UNCHANGED <<saved, room, written, jobs, timer, outbox, resends, conn, wire, serverVars,
                 faults, restarts>>

\* The debounced write of messagesMap; the copy is only read by a restart.
Persist ==
  /\ MaxRestarts > 0
  /\ saved # bubble /\ saved' = bubble
  /\ UNCHANGED <<bubble, room, written, jobs, timer, outbox, resends, netVars, serverVars,
                 faults, restarts>>

\* The app is killed and restores what AsyncStorage holds, lists and conversations; the
\* cache of resolved names is gone, and a name still listed is resolved anew.
Restart ==
  /\ restarts < MaxRestarts /\ \E k \in Conns : conn[k] = "idle"
  /\ restarts' = restarts + 1
  /\ bubble' = saved
  /\ room' = [m \in Msgs |-> IF room[m] = "server" THEN "server"
                             ELSE IF Home(saved[m]) # {} THEN "new" ELSE "moved"]
  /\ jobs' = [m \in Msgs |-> {}] /\ timer' = {} /\ outbox' = <<>>
  /\ conn' = [k \in Conns |-> IF Connected(k) THEN "left" ELSE conn[k]]
  /\ down' = [k \in Conns |-> <<>>]
  /\ UNCHANGED <<saved, written, resends, wire, serverVars, faults>>

-----------------------------------------------------------------------------
(* The connection.                                                         *)

\* Mutant of Connect: only the outbox is flushed.
ConnectOutboxOnly(k) ==
  /\ conn[k] = "idle" /\ ~SomeConnected
  /\ conn' = [conn EXCEPT ![k] = "up"]
  /\ wire' = [wire EXCEPT ![k] = outbox] /\ outbox' = <<>>
  /\ UNCHANGED <<bubble, saved, room, written, jobs, timer, resends, down, serverVars, faults,
                 restarts>>

\* on('connect'): the outbox is flushed, then flushPendingMessages starts with the pending
\* bubbles of the conversations that are listed.
Connect(k) ==
  /\ conn[k] = "idle" /\ ~SomeConnected
  /\ conn' = [conn EXCEPT ![k] = "up"]
  /\ wire' = [wire EXCEPT ![k] = outbox] /\ outbox' = <<>>
  /\ jobs' = [m \in Msgs |-> IF Waiting(bubble[m]) # {} THEN jobs[m] \cup {k} ELSE jobs[m]]
  /\ UNCHANGED <<bubble, saved, room, written, timer, resends, down, serverVars, faults,
                 restarts>>

\* The transport dies, unnoticed at first, or the client disconnects; the frames in
\* flight to the client are lost.  A later connection is always possible: the client
\* reconnects for ever.
Disconnect(k) ==
  /\ \/ /\ conn[k] = "up" /\ \E j \in Conns : conn[j] = "idle"
        /\ conn' \in {[conn EXCEPT ![k] = "dead"], [conn EXCEPT ![k] = "left"]}
     \/ conn[k] = "dead" /\ conn' = [conn EXCEPT ![k] = "left"]
  /\ down' = [down EXCEPT ![k] = <<>>]
  /\ UNCHANGED <<clientVars, wire, serverVars, faults, restarts>>

\* The server drops the connection and what it has not read of it.
Drop(k) ==
  /\ conn[k] \in {"dead", "left"} /\ wire[k] # <<>>
  /\ wire' = [wire EXCEPT ![k] = <<>>]
  /\ UNCHANGED <<clientVars, conn, down, serverVars, faults, restarts>>

-----------------------------------------------------------------------------
(* The server: handleSendMessage and handleReceipt as the sender sees them. *)

Reply(k, f) == down' = IF conn[k] = "up" THEN [down EXCEPT ![k] = Append(@, f)] ELSE down

\* A task of the bag goes on at p, or ends.
Goto(t, p) == task' = [task EXCEPT ![t] = @ - 1, ![[t EXCEPT !.pc = p]] = @ + 1]
End(t) == task' = [task EXCEPT ![t] = @ - 1]

Arrive(k) ==
  /\ wire[k] # <<>>
  /\ wire' = [wire EXCEPT ![k] = Tail(@)]
  /\ task' = [task EXCEPT ![[m |-> Head(wire[k]), via |-> k, pc |-> "save"]] = @ + 1]
  /\ UNCHANGED <<clientVars, conn, down, stored, ticked, answered, faults, restarts>>

\* Mutant of Save: the catch block forgets to return.
SaveOrGoOn(t) ==
  /\ task[t] > 0 /\ t.pc = "save"
  /\ Goto(t, "block")
  /\ \/ stored' = stored \cup {t.m} /\ UNCHANGED faults
     \/ Fail /\ UNCHANGED stored
  /\ UNCHANGED <<clientVars, netVars, ticked, answered, restarts>>

\* createMessage, or the row of an earlier attempt; another error is acked as such.
Save(t) ==
  /\ task[t] > 0 /\ t.pc = "save"
  /\ \/ stored' = stored \cup {t.m} /\ Goto(t, "block") /\ UNCHANGED <<down, faults>>
     \/ /\ Fail /\ End(t) /\ UNCHANGED stored
        /\ Reply(t.via, [m |-> t.m, ids |-> "client", st |-> "FAILED"])
  /\ UNCHANGED <<clientVars, conn, wire, ticked, answered, restarts>>

\* The block query is outside every try block: when it fails there is no ack.
CheckBlock(t) ==
  /\ task[t] > 0 /\ t.pc = "block"
  /\ \/ Goto(t, "ack") /\ UNCHANGED faults
     \/ Fail /\ End(t)
  /\ UNCHANGED <<clientVars, netVars, stored, ticked, answered, restarts>>

\* The ack; the nextTick callback goes on only if the receiver is online.
Ack(t) ==
  /\ task[t] > 0 /\ t.pc = "ack"
  /\ Reply(t.via, [m |-> t.m, ids |-> "both", st |-> "SENT"])
  /\ Goto(t, "tick") \/ End(t)
  /\ UNCHANGED <<clientVars, conn, wire, stored, ticked, answered, faults, restarts>>

\* message.update and the double tick; then perhaps the auto-READ.
Tick(t) ==
  /\ task[t] > 0 /\ t.pc = "tick"
  /\ ticked' = ticked \cup {t.m}
  /\ Reply(t.via, [m |-> t.m, ids |-> "both", st |-> "DELIVERED"])
  /\ Goto(t, "read") \/ End(t)
  /\ UNCHANGED <<clientVars, conn, wire, stored, answered, faults, restarts>>

AutoRead(t) ==
  /\ task[t] > 0 /\ t.pc = "read"
  /\ \E st \in Marks :
       Reply(t.via, [m |-> t.m, ids |-> "both", st |-> st])
  /\ End(t)
  /\ UNCHANGED <<clientVars, conn, wire, stored, ticked, answered, faults, restarts>>

ServerStep(t) == Save(t) \/ CheckBlock(t) \/ Ack(t) \/ Tick(t) \/ AutoRead(t)

\* handleReceipt fans out to the sender's room, on whatever connection is there, with
\* the server's id alone.  The receiver sends each receipt once.
Receipt(m, s) ==
  /\ m \in stored /\ <<m, s>> \notin answered
  /\ answered' = answered \cup {<<m, s>>}
  /\ ticked' = ticked \cup {m}
  /\ \E st \in {s, "DELIVERED"} :
       down' = [k \in Conns |->
                  IF conn[k] = "up"
                    THEN Append(down[k], [m |-> m, ids |-> "server", st |-> st])
                    ELSE down[k]]
  /\ UNCHANGED <<clientVars, conn, wire, task, stored, faults, restarts>>

\* The process dies with its handlers and its connections.
ServerCrash ==
  /\ Fail /\ \E k \in Conns : conn[k] = "idle"
  /\ task' = [t \in Tasks |-> 0]
  /\ conn' = [k \in Conns |-> IF conn[k] = "up" THEN "dead" ELSE conn[k]]
  /\ wire' = [k \in Conns |-> <<>>] /\ down' = [k \in Conns |-> <<>>]
  /\ UNCHANGED <<clientVars, stored, ticked, answered, restarts>>

-----------------------------------------------------------------------------
Next ==
  \/ \E m \in Msgs : \/ SendMessage(m) \/ ResendMessage(m)
                     \/ ComposeResolves(m) \/ ResolveElsewhere(m)
  \/ \E m \in Msgs, j \in Jobs : RunJob(m, j) \/ JobFails(m, j) \/ Timeout(m, j)
  \/ \E k \in Conns : ClientReceive(k) \/ Connect(k) \/ Disconnect(k) \/ Drop(k) \/ Arrive(k)
  \/ \E t \in Tasks : ServerStep(t)
  \/ \E m \in Msgs, s \in Answers : Receipt(m, s)
  \/ Persist \/ Restart \/ ServerCrash

Spec == Init /\ [][Next]_vars

(* Timers fire, async functions return, the client reconnects for ever and *)
(* the server's handlers run to completion; nothing makes the user write,  *)
(* retry or kill the app, nor the receiver answer.                         *)
Fairness ==
  /\ \A m \in Msgs : /\ WF_vars(ComposeResolves(m))
                     /\ \A j \in Jobs : WF_vars(RunJob(m, j)) /\ WF_vars(Timeout(m, j))
  /\ \A k \in Conns : /\ WF_vars(ClientReceive(k)) /\ WF_vars(Connect(k))
                      /\ WF_vars(Arrive(k))
                      /\ WF_vars(conn[k] = "dead" /\ Disconnect(k))
  /\ \A t \in Tasks : WF_vars(ServerStep(t))

FairSpec == Spec /\ Fairness

-----------------------------------------------------------------------------
(* Safety.                                                                 *)

\* A bubble that is still pending, and may be retried, is found by its client id: a retry
\* under the server's id would be stored as a second message.
PendingKeepsItsClientId ==
  \A m \in Msgs : \A b \in bubble[m] : b.st \in Pending => b.id = "client"

Earned(b, m) == /\ b.st \in Shown => m \in stored
                /\ b.st \in Marks => m \in ticked

\* The ticks on the screen, and those restored after a restart, are never ahead of the
\* server: a single tick means a row, a double tick a recorded delivery.
TickIsEarned == \A m \in Msgs : \A b \in bubble[m] \cup saved[m] : Earned(b, m)

Confirmed(B) == \E b \in B : b.id = "server"
Settled(B) == \A b \in B : b.id = "server" /\ b.st \notin Pending

\* sendMessage has resolved the conversation and appends its message once more.
AppendsAgain(m) == "compose" \in jobs[m] \ jobs'[m] /\ "encrypt" \in jobs'[m]

\* While the app lives, a confirmed message stays confirmed, and no late timer, error,
\* flush or answer to an earlier attempt puts it back among the pending ones; only the
\* second append of its own sendMessage can.
ConfirmedIsFinal ==
  [][\A m \in Msgs : Confirmed(bubble[m]) /\ restarts' = restarts
        => /\ Confirmed(bubble'[m])
           /\ Settled(bubble[m]) => Settled(bubble'[m]) \/ AppendsAgain(m)]_vars

-----------------------------------------------------------------------------
(* Liveness.                                                               *)

\* A message that reached the device's storage is eventually sent, however often the
\* connection dies with its frames, the timer fails it or the app restarts, unless the
\* resolution of its conversation took this off the list: then the flush passes it by.
PersistedIsSent ==
  \A m \in Msgs : (saved[m] # {}) ~> \/ \E b \in bubble[m] : b.st \in Shown
                                      \/ room[m] = "moved"

=============================================================================
