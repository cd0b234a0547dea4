-------------------------- MODULE SenderTicks_proofs --------------------------
(***************************************************************************)
(* Proofs about SenderTicks, for any messages, connections and bounds:     *)
(* what a bubble shows has been recorded by the server, a bubble that may  *)
(* be sent again is found by its client id, and a confirmed one stays so.  *)
(***************************************************************************)
EXTENDS SenderTicks, TLAPS

-----------------------------------------------------------------------------
(* The inductive invariant.                                                *)

\* What is right about a bubble, on the screen or in AsyncStorage.
Right(b, m) == Earned(b, m) /\ (b.st \in Pending => b.id = "client")

\* While the bubble in the list the user wrote in has the client's id, nothing has confirmed
\* the message: that list is the one a resolution keeps.
HomeIsLast(B) == \A b, c \in B : b.room = "home" /\ b.id = "client" => c.id = "client"

AllRight(B, m) == HomeIsLast(B) /\ \A b \in B : Right(b, m)

BubblesRight == \A m \in Msgs : AllRight(bubble[m], m) /\ AllRight(saved[m], m)

\* A frame in flight tells the truth about the rows S and the deliveries T, and one that carries
\* the server's id confirms the message.
TrueFrames(S, T) == {f \in Frames : /\ f.ids # "client" => f.st \in Shown
                                    /\ f.st \in Shown => f.m \in S
                                    /\ f.st \in Marks => f.m \in T}

FramesSound == down \in [Conns -> Seq(TrueFrames(stored, ticked))]

\* A handler that got past a statement has done what the statement does.
TasksSound == \A t \in Tasks : task[t] > 0 =>
                /\ t.pc # "save" => t.m \in stored
                /\ t.pc = "read" => t.m \in ticked

Inv == TypeOK /\ BubblesRight /\ FramesSound /\ TasksSound

-----------------------------------------------------------------------------
(* Lemmas.                                                                 *)

LEMMA AppendFacts ==
  ASSUME NEW S, NEW s \in Seq(S), NEW x \in S PROVE Append(s, x) \in Seq(S)
  OBVIOUS

LEMMA TailFacts ==
  ASSUME NEW S, NEW s \in Seq(S), s # <<>>
  PROVE  Tail(s) \in Seq(S) /\ Head(s) \in S
  OBVIOUS

LEMMA EmptyFacts == ASSUME NEW S PROVE <<>> \in Seq(S)
  OBVIOUS

LEMMA SeqGrows ==
  ASSUME NEW S, NEW T, S \subseteq T PROVE Seq(S) \subseteq Seq(T)
  OBVIOUS

\* What the server has recorded stays recorded.
LEMMA RecordsGrow ==
  ASSUME FramesSound, stored \subseteq stored', ticked \subseteq ticked'
  PROVE  down \in [Conns -> Seq(TrueFrames(stored', ticked'))]
<1>1. TrueFrames(stored, ticked) \subseteq TrueFrames(stored', ticked')
  BY DEF TrueFrames
<1>2. Seq(TrueFrames(stored, ticked)) \subseteq Seq(TrueFrames(stored', ticked'))
  BY <1>1, SeqGrows
<1> QED
  BY <1>2 DEF FramesSound

LEMMA BubblesStay ==
  ASSUME stored \subseteq stored', ticked \subseteq ticked',
         \A m \in Msgs : AllRight(bubble[m], m) /\ AllRight(saved[m], m),
         UNCHANGED <<bubble, saved>>
  PROVE  BubblesRight'
  BY DEF BubblesRight, AllRight, Right, Earned

\* The server answers on a connection.
LEMMA ReplyAdds ==
  ASSUME Inv, NEW k \in Conns, NEW f \in TrueFrames(stored', ticked'), Reply(k, f),
         stored \subseteq stored', ticked \subseteq ticked'
  PROVE  FramesSound'
<1> DEFINE S == Seq(TrueFrames(stored', ticked'))
<1>1. down \in [Conns -> S]
  BY RecordsGrow DEF Inv
<1>2. Append(down[k], f) \in S
  BY <1>1, AppendFacts
<1>3. down' \in [Conns -> S]
  BY <1>1, <1>2 DEF Reply
<1> QED
  BY <1>3 DEF FramesSound

LEMMA FramesAreTyped ==
  ASSUME NEW S, NEW T PROVE Seq(TrueFrames(S, T)) \subseteq Seq(Frames)
<1>1. TrueFrames(S, T) \subseteq Frames
  BY DEF TrueFrames
<1> QED
  BY <1>1, SeqGrows

LEMMA StepType == ASSUME NEW t \in Tasks, NEW p \in {"block", "ack", "tick", "read"}
                  PROVE  /\ [t EXCEPT !.pc = p] \in Tasks
                         /\ [t EXCEPT !.pc = p].m = t.m
                         /\ [t EXCEPT !.pc = p].pc = p
  BY DEF Tasks

\* A handler goes on to its next statement.
LEMMA TaskGoesOn ==
  ASSUME Inv, NEW t \in Tasks, task[t] > 0, NEW p \in {"block", "ack", "tick", "read"},
         t.pc # p, Goto(t, p), t.m \in stored', p = "read" => t.m \in ticked',
         stored \subseteq stored', ticked \subseteq ticked'
  PROVE  task' \in [Tasks -> Nat] /\ TasksSound'
<1> DEFINE u == [t EXCEPT !.pc = p]
<1>0. u \in Tasks /\ u.m = t.m /\ u.pc = p
  BY StepType
<1>1. u \in Tasks /\ u.m = t.m /\ u.pc = p /\ u # t
  BY <1>0
<1>2. task \in [Tasks -> Nat] /\ task' = [task EXCEPT ![t] = @ - 1, ![u] = @ + 1]
  BY DEF Inv, TypeOK, Goto
<1> HIDE DEF u
<1>3. task'[t] = task[t] - 1 /\ task'[u] = task[u] + 1
      /\ \A x \in Tasks \ {t, u} : task'[x] = task[x]
  BY <1>1, <1>2
<1>4. task' \in [Tasks -> Nat]
  <2>1. \A x \in Tasks : task'[x] \in Nat
    BY <1>1, <1>2, <1>3
  <2> QED
    BY <1>2, <2>1
<1>5. ASSUME NEW x \in Tasks, task'[x] > 0
      PROVE  (x.pc # "save" => x.m \in stored') /\ (x.pc = "read" => x.m \in ticked')
  <2>1. CASE x = u
    BY <1>1, <2>1
  <2>2. CASE x # u
    <3>1. task[x] > 0
      BY <1>2, <1>3, <1>5, <2>2
    <3> QED
      BY <3>1 DEF Inv, TasksSound
  <2> QED
    BY <2>1, <2>2
<1> QED
  BY <1>4, <1>5 DEF TasksSound

LEMMA TaskEnds ==
  ASSUME Inv, NEW t \in Tasks, task[t] > 0, End(t),
         stored \subseteq stored', ticked \subseteq ticked'
  PROVE  task' \in [Tasks -> Nat] /\ TasksSound'
<1>1. task \in [Tasks -> Nat] /\ task' = [task EXCEPT ![t] = @ - 1]
  BY DEF Inv, TypeOK, End
<1>2. task' \in [Tasks -> Nat] /\ \A x \in Tasks : task'[x] > 0 => task[x] > 0
  BY <1>1
<1> QED
  BY <1>2 DEF Inv, TasksSound

LEMMA TasksStay ==
  ASSUME Inv, UNCHANGED task, stored \subseteq stored', ticked \subseteq ticked'
  PROVE  task' \in [Tasks -> Nat] /\ TasksSound'
  BY DEF Inv, TypeOK, TasksSound

\* A step of the server's changes nothing on the phone.
LEMMA ServerSteps ==
  ASSUME Inv, UNCHANGED <<clientVars, wire, answered, restarts>>,
         stored \subseteq stored', ticked \subseteq ticked', FramesSound',
         task' \in [Tasks -> Nat], TasksSound', stored' \subseteq Msgs, ticked' \subseteq Msgs,
         faults' \in Nat, UNCHANGED conn
  PROVE  Inv'
<1>1. down' \in [Conns -> Seq(Frames)]
  BY FramesAreTyped DEF FramesSound
<1>2. BubblesRight'
  BY BubblesStay DEF Inv, BubblesRight, clientVars
<1> QED
  BY <1>1, <1>2 DEF Inv, TypeOK, clientVars

-----------------------------------------------------------------------------
(* The server's steps.                                                     *)

LEMMA FramesStay ==
  ASSUME Inv, UNCHANGED down, stored \subseteq stored', ticked \subseteq ticked'
  PROVE  FramesSound'
  BY RecordsGrow DEF Inv, FramesSound

LEMMA SaveStep ==
  ASSUME Inv, NEW t \in Tasks, Save(t) PROVE Inv'
<1> USE DEF Save
<1>1. t.m \in Msgs /\ t.via \in Conns /\ t.pc = "save" /\ task[t] > 0
  BY DEF Tasks
<1>2. CASE stored' = stored \cup {t.m} /\ Goto(t, "block") /\ UNCHANGED <<down, faults>>
  <2>1. stored \subseteq stored' /\ ticked \subseteq ticked' /\ t.m \in stored'
        /\ stored' \subseteq Msgs /\ ticked' \subseteq Msgs /\ faults' \in Nat
    BY <1>1, <1>2 DEF Inv, TypeOK
  <2>2. task' \in [Tasks -> Nat] /\ TasksSound'
    BY <1>1, <1>2, <2>1, TaskGoesOn
  <2> QED
    BY <1>2, <2>1, <2>2, FramesStay, ServerSteps
<1>3. CASE /\ Fail /\ End(t) /\ UNCHANGED stored
           /\ Reply(t.via, [m |-> t.m, ids |-> "client", st |-> "FAILED"])
  <2>1. stored \subseteq stored' /\ ticked \subseteq ticked'
        /\ stored' \subseteq Msgs /\ ticked' \subseteq Msgs /\ faults' \in Nat
    BY <1>3 DEF Inv, TypeOK, Fail
  <2>2. task' \in [Tasks -> Nat] /\ TasksSound'
    BY <1>1, <1>3, <2>1, TaskEnds
  <2>3. [m |-> t.m, ids |-> "client", st |-> "FAILED"] \in TrueFrames(stored', ticked')
    BY <1>1 DEF TrueFrames, Frames, Shown, Marks
  <2> QED
    BY <1>1, <1>3, <2>1, <2>2, <2>3, ReplyAdds, ServerSteps
<1> QED
  BY <1>2, <1>3

LEMMA CheckBlockStep ==
  ASSUME Inv, NEW t \in Tasks, CheckBlock(t) PROVE Inv'
<1>1. t.pc = "block" /\ task[t] > 0 /\ t.m \in stored /\ UNCHANGED <<stored, ticked, down>>
  BY DEF CheckBlock, Inv, TasksSound, netVars
<1>2. stored \subseteq stored' /\ ticked \subseteq ticked'
      /\ stored' \subseteq Msgs /\ ticked' \subseteq Msgs /\ faults' \in Nat
  BY <1>1 DEF CheckBlock, Inv, TypeOK, Fail
<1>3. task' \in [Tasks -> Nat] /\ TasksSound'
  BY <1>1, <1>2, TaskGoesOn, TaskEnds DEF CheckBlock
<1> QED
  BY <1>1, <1>2, <1>3, FramesStay, ServerSteps DEF CheckBlock, netVars

LEMMA AckStep ==
  ASSUME Inv, NEW t \in Tasks, Ack(t) PROVE Inv'
<1>1. t.pc = "ack" /\ task[t] > 0 /\ t.m \in stored /\ UNCHANGED <<stored, ticked>>
      /\ t.m \in Msgs /\ t.via \in Conns
  BY DEF Ack, Inv, TasksSound, Tasks
<1>2. stored \subseteq stored' /\ ticked \subseteq ticked'
      /\ stored' \subseteq Msgs /\ ticked' \subseteq Msgs /\ faults' \in Nat
  BY <1>1 DEF Ack, Inv, TypeOK
<1>3. task' \in [Tasks -> Nat] /\ TasksSound'
  BY <1>1, <1>2, TaskGoesOn, TaskEnds DEF Ack
<1>4. [m |-> t.m, ids |-> "both", st |-> "SENT"] \in TrueFrames(stored', ticked')
  BY <1>1 DEF TrueFrames, Frames, Shown, Marks
<1> QED
  BY <1>1, <1>2, <1>3, <1>4, ReplyAdds, ServerSteps DEF Ack

LEMMA TickStep ==
  ASSUME Inv, NEW t \in Tasks, Tick(t) PROVE Inv'
<1>1. t.pc = "tick" /\ task[t] > 0 /\ t.m \in stored /\ UNCHANGED stored
      /\ t.m \in Msgs /\ t.via \in Conns
  BY DEF Tick, Inv, TasksSound, Tasks
<1>2. stored \subseteq stored' /\ ticked \subseteq ticked' /\ t.m \in ticked'
      /\ stored' \subseteq Msgs /\ ticked' \subseteq Msgs /\ faults' \in Nat
  BY <1>1 DEF Tick, Inv, TypeOK
<1>3. task' \in [Tasks -> Nat] /\ TasksSound'
  BY <1>1, <1>2, TaskGoesOn, TaskEnds DEF Tick
<1>4. [m |-> t.m, ids |-> "both", st |-> "DELIVERED"] \in TrueFrames(stored', ticked')
  BY <1>1, <1>2 DEF TrueFrames, Frames, Shown, Marks
<1> QED
  BY <1>1, <1>2, <1>3, <1>4, ReplyAdds, ServerSteps DEF Tick

LEMMA AutoReadStep ==
  ASSUME Inv, NEW t \in Tasks, AutoRead(t) PROVE Inv'
<1>1. t.pc = "read" /\ task[t] > 0 /\ t.m \in stored /\ t.m \in ticked
      /\ UNCHANGED <<stored, ticked>> /\ t.m \in Msgs /\ t.via \in Conns
  BY DEF AutoRead, Inv, TasksSound, Tasks
<1>2. stored \subseteq stored' /\ ticked \subseteq ticked'
      /\ stored' \subseteq Msgs /\ ticked' \subseteq Msgs /\ faults' \in Nat
  BY <1>1 DEF AutoRead, Inv, TypeOK
<1>3. task' \in [Tasks -> Nat] /\ TasksSound'
  BY <1>1, <1>2, TaskEnds DEF AutoRead
<1>4. PICK st \in Marks : Reply(t.via, [m |-> t.m, ids |-> "both", st |-> st])
  BY DEF AutoRead
<1>5. [m |-> t.m, ids |-> "both", st |-> st] \in TrueFrames(stored', ticked')
  BY <1>1 DEF TrueFrames, Frames, Shown, Marks
<1> QED
  BY <1>1, <1>2, <1>3, <1>4, <1>5, ReplyAdds, ServerSteps DEF AutoRead

LEMMA ArriveStep ==
  ASSUME Inv, NEW k \in Conns, Arrive(k) PROVE Inv'
<1> DEFINE t == [m |-> Head(wire[k]), via |-> k, pc |-> "save"]
<1>1. wire \in [Conns -> Seq(Msgs)] /\ wire[k] # <<>>
  BY DEF Arrive, Inv, TypeOK
<1>2. Head(wire[k]) \in Msgs /\ Tail(wire[k]) \in Seq(Msgs)
  BY <1>1, TailFacts
<1>3. t \in Tasks /\ t.pc = "save"
  BY <1>2 DEF Tasks
<1>4. task \in [Tasks -> Nat] /\ task' = [task EXCEPT ![t] = @ + 1]
  BY DEF Arrive, Inv, TypeOK
<1> HIDE DEF t
<1>5. task' \in [Tasks -> Nat] /\ \A x \in Tasks : x # t => task'[x] = task[x]
  BY <1>3, <1>4
<1>6. TasksSound'
  BY <1>3, <1>5 DEF Inv, TasksSound, Arrive
<1>7. wire' \in [Conns -> Seq(Msgs)]
  BY <1>1, <1>2 DEF Arrive
<1>8. FramesSound' /\ BubblesRight'
  BY DEF Arrive, Inv, clientVars, FramesSound, BubblesRight, AllRight, Right, Earned
<1> QED
  BY <1>5, <1>6, <1>7, <1>8 DEF Inv, TypeOK, Arrive, clientVars

LEMMA ReceiptStep ==
  ASSUME Inv, NEW m \in Msgs, NEW s \in Answers, Receipt(m, s) PROVE Inv'
<1>1. stored' = stored /\ stored \subseteq stored' /\ ticked \subseteq ticked'
      /\ m \in stored' /\ m \in ticked' /\ stored' \subseteq Msgs /\ ticked' \subseteq Msgs
      /\ s \in Marks /\ UNCHANGED task
  BY TicksAssumption DEF Receipt, Inv, TypeOK, Marks
<1> DEFINE S == Seq(TrueFrames(stored', ticked'))
<1>2. down \in [Conns -> S]
  BY <1>1, RecordsGrow DEF Inv
<1>3. PICK st \in {s, "DELIVERED"} :
        down' = [k \in Conns |-> IF conn[k] = "up"
                   THEN Append(down[k], [m |-> m, ids |-> "server", st |-> st])
                   ELSE down[k]]
  BY DEF Receipt
<1>4. [m |-> m, ids |-> "server", st |-> st] \in TrueFrames(stored', ticked')
  BY <1>1 DEF TrueFrames, Frames, Shown, Marks
<1>5. \A k \in Conns : Append(down[k], [m |-> m, ids |-> "server", st |-> st]) \in S
  BY <1>2, <1>4, AppendFacts
<1>6. down' \in [Conns -> S]
  BY <1>2, <1>3, <1>5
<1>7. FramesSound' /\ down' \in [Conns -> Seq(Frames)]
  BY <1>6, FramesAreTyped DEF FramesSound
<1>8. task' \in [Tasks -> Nat] /\ TasksSound'
  BY <1>1, TasksStay
<1>9. BubblesRight'
  BY <1>1, BubblesStay DEF Receipt, Inv, BubblesRight, clientVars
<1>10. answered' \subseteq Msgs \X Marks
  BY <1>1 DEF Receipt, Inv, TypeOK
<1> QED
  BY <1>1, <1>7, <1>8, <1>9, <1>10 DEF Inv, TypeOK, Receipt, clientVars

-----------------------------------------------------------------------------
(* The steps of the phone and of its connections.                          *)

\* A step that the server takes no part in, but for losing what it runs.
LEMMA PhoneSteps ==
  ASSUME Inv, UNCHANGED <<stored, ticked, answered>>,
         FramesSound', task' \in [Tasks -> Nat], \A t \in Tasks : task'[t] > 0 => task[t] > 0,
         bubble' \in [Msgs -> SUBSET Bubbles], saved' \in [Msgs -> SUBSET Bubbles],
         \A m \in Msgs : AllRight(bubble'[m], m) /\ AllRight(saved'[m], m),
         room' \in [Msgs -> Rooms], written' \subseteq Msgs,
         jobs' \in [Msgs -> SUBSET Jobs], timer' \subseteq Msgs \X {"compose", "resend"},
         outbox' \in Seq(Msgs), wire' \in [Conns -> Seq(Msgs)],
         conn' \in [Conns -> {"idle", "up", "dead", "left", "down"}],
         resends' \in Nat, faults' \in Nat, restarts' \in Nat
  PROVE  Inv'
<1>1. down' \in [Conns -> Seq(Frames)]
  BY FramesAreTyped DEF FramesSound
<1>2. BubblesRight'
  BY DEF BubblesRight, AllRight, Right, Earned
<1>3. TasksSound'
  BY DEF Inv, TasksSound
<1> QED
  BY <1>1, <1>2, <1>3 DEF Inv, TypeOK

\* The parts of the invariant, one by one.
LEMMA Parts ==
  ASSUME Inv
  PROVE  /\ FramesSound /\ down \in [Conns -> Seq(TrueFrames(stored, ticked))]
         /\ task \in [Tasks -> Nat]
         /\ bubble \in [Msgs -> SUBSET Bubbles] /\ saved \in [Msgs -> SUBSET Bubbles]
         /\ \A m \in Msgs : AllRight(bubble[m], m) /\ AllRight(saved[m], m)
         /\ room \in [Msgs -> Rooms] /\ written \subseteq Msgs
         /\ jobs \in [Msgs -> SUBSET Jobs] /\ timer \subseteq Msgs \X {"compose", "resend"}
         /\ outbox \in Seq(Msgs) /\ wire \in [Conns -> Seq(Msgs)]
         /\ conn \in [Conns -> {"idle", "up", "dead", "left", "down"}]
         /\ resends \in Nat /\ faults \in Nat /\ restarts \in Nat
         /\ stored \subseteq Msgs /\ ticked \subseteq Msgs /\ answered \subseteq Msgs \X Marks
  BY DEF Inv, TypeOK, BubblesRight, FramesSound

LEMMA MarkIsRight ==
  ASSUME NEW m, NEW B, B \subseteq Bubbles, AllRight(B, m), NEW st \in Pending
  PROVE  Mark(B, st) \subseteq Bubbles /\ AllRight(Mark(B, st), m)
<1> DEFINE M(b) == IF b.id = "client" THEN [b EXCEPT !.st = st] ELSE b
<1>1. ASSUME NEW b \in B
      PROVE  M(b) \in Bubbles /\ Right(M(b), m) /\ M(b).room = b.room /\ M(b).id = b.id
  BY DEF AllRight, Bubbles, Right, Earned, Pending, Shown, Marks
<1>2. Mark(B, st) = {M(b) : b \in B}
  BY DEF Mark
<1> HIDE DEF M
<1> QED
  BY <1>1, <1>2 DEF AllRight, HomeIsLast

LEMMA ApplyIsRight ==
  ASSUME NEW f \in TrueFrames(stored, ticked), NEW b \in Bubbles, Right(b, f.m)
  PROVE  Apply(b, f) \in Bubbles /\ Right(Apply(b, f), f.m)
<1>1. f.ids \in {"both", "client", "server"} /\ f.st \in {"FAILED"} \cup Shown
  BY DEF TrueFrames, Frames
<1>2. CASE \/ b.id = "server" /\ f.ids # "client"
           \/ b.id = "client" /\ f.ids # "server"
  <2> DEFINE c == [b EXCEPT !.id = IF f.ids = "client" THEN @ ELSE "server", !.st = f.st]
  <2>1. Apply(b, f) = c
    BY <1>2 DEF Apply
  <2>2. c.st = f.st /\ c.id \in {"client", "server"} /\ (f.ids = "client" => c.id = "client")
    BY <1>2 DEF Bubbles
  <2>3. c \in Bubbles
    BY <1>1, <1>2 DEF Bubbles, Pending
  <2> HIDE DEF c
  <2>4. Right(c, f.m)
    BY <1>1, <2>2 DEF TrueFrames, Right, Earned, Pending, Shown, Marks
  <2> QED
    BY <2>1, <2>3, <2>4
<1>3. CASE ~ \/ b.id = "server" /\ f.ids # "client"
             \/ b.id = "client" /\ f.ids # "server"
  BY <1>3 DEF Apply
<1> QED
  BY <1>2, <1>3

\* What a frame does to the ids of a message's bubbles.
LEMMA ApplyToId ==
  ASSUME NEW f \in Frames, NEW b \in Bubbles
  PROVE  /\ Apply(b, f).room = b.room
         /\ Apply(b, f).id = IF b.id = "client" /\ f.ids # "both" THEN "client" ELSE "server"
         /\ Apply(b, f) = b \/ Apply(b, f).st = f.st
         /\ b.id = "server" /\ f.ids = "client" => Apply(b, f) = b
  BY DEF Apply, Bubbles, Frames

LEMMA AppliedIsRight ==
  ASSUME NEW f \in TrueFrames(stored, ticked), NEW B, B \subseteq Bubbles, AllRight(B, f.m)
  PROVE  LET A == {Apply(b, f) : b \in B} IN A \subseteq Bubbles /\ AllRight(A, f.m)
<1>1. ASSUME NEW b \in B PROVE Apply(b, f) \in Bubbles /\ Right(Apply(b, f), f.m)
  BY ApplyIsRight DEF AllRight
<1>2. f \in Frames
  BY DEF TrueFrames
<1>3. ASSUME NEW b \in B, NEW c \in B, Apply(b, f).room = "home", Apply(b, f).id = "client"
      PROVE  Apply(c, f).id = "client"
  <2>1. b.room = "home" /\ b.id = "client" /\ f.ids # "both"
    BY <1>2, <1>3, ApplyToId
  <2>2. c.id = "client"
    BY <2>1 DEF AllRight, HomeIsLast
  <2> QED
    BY <1>2, <2>1, <2>2, ApplyToId
<1> QED
  BY <1>1, <1>3 DEF AllRight, HomeIsLast

\* The list that a resolution keeps.
LEMMA ResolvedIsRight ==
  ASSUME Inv, NEW m \in Msgs
  PROVE  /\ Resolved(m) \subseteq Bubbles /\ AllRight(Resolved(m), m)
         /\ Confirmed(bubble[m]) => Confirmed(Resolved(m))
         /\ Settled(bubble[m]) => Settled(Resolved(m))
<1> DEFINE R(b) == [b EXCEPT !.room = "real"]
<1>1. bubble[m] \subseteq Bubbles /\ AllRight(bubble[m], m)
  BY Parts
<1>2. ASSUME NEW b \in bubble[m]
      PROVE  /\ R(b) \in Bubbles /\ Right(R(b), m) /\ R(b).room = "real"
             /\ R(b).id = b.id /\ R(b).st = b.st
  BY <1>1 DEF AllRight, Bubbles, Right, Earned
<1>3. CASE room[m] = "new" /\ Home(bubble[m]) # {}
  <2>1. Resolved(m) = {R(b) : b \in Home(bubble[m])}
    BY <1>3 DEF Resolved
  <2> HIDE DEF R
  <2>2. Home(bubble[m]) \subseteq bubble[m] /\ \A b \in Home(bubble[m]) : b.room = "home"
    BY DEF Home
  <2>3. PICK h \in Home(bubble[m]) : TRUE
    BY <1>3
  <2>4. Confirmed(bubble[m]) => h.id = "server"
    BY <1>1, <2>2, <2>3 DEF Confirmed, AllRight, HomeIsLast, Bubbles
  <2> QED
    BY <1>2, <2>1, <2>2, <2>3, <2>4 DEF AllRight, HomeIsLast, Confirmed, Settled
<1>4. CASE ~(room[m] = "new" /\ Home(bubble[m]) # {})
  BY <1>1, <1>4 DEF Resolved
<1> QED
  BY <1>3, <1>4

LEMMA AgainIsRight ==
  ASSUME NEW m, NEW B, B \subseteq Bubbles, AllRight(B, m)
  PROVE  Again(B) \subseteq Bubbles /\ AllRight(Again(B), m)
<1> DEFINE a == [room |-> "real", id |-> "client", st |-> "SENDING"]
<1>1. a \in Bubbles /\ Right(a, m) /\ a.room # "home" /\ a.id = "client"
  BY DEF Bubbles, Right, Earned, Pending, Shown, Marks
<1>2. \A b \in Again(B) : b = a \/ b \in B
  BY DEF Again
<1> HIDE DEF a
<1> QED
  BY <1>1, <1>2 DEF AllRight, HomeIsLast

LEMMA RoomType == ASSUME Inv, NEW m \in Msgs, Resolves(m) PROVE room' \in [Msgs -> Rooms]
  BY Parts DEF Resolves, Rooms

LEMMA BubbleMarked ==
  ASSUME Inv, NEW m \in Msgs, NEW st \in Pending, bubble' = [bubble EXCEPT ![m] = Mark(@, st)]
  PROVE  bubble' \in [Msgs -> SUBSET Bubbles] /\ \A n \in Msgs : AllRight(bubble'[n], n)
<1>1. Mark(bubble[m], st) \subseteq Bubbles /\ AllRight(Mark(bubble[m], st), m)
  BY Parts, MarkIsRight
<1> QED
  BY <1>1, Parts

LEMMA EmitType ==
  ASSUME Inv, NEW m \in Msgs, Emit(m)
  PROVE  wire' \in [Conns -> Seq(Msgs)] /\ outbox' \in Seq(Msgs)
<1>1. Append(outbox, m) \in Seq(Msgs) /\ \A k \in Conns : Append(wire[k], m) \in Seq(Msgs)
  BY Parts, AppendFacts
<1> QED
  BY <1>1, Parts DEF Emit

LEMMA TypesOfJobs ==
  /\ {"compose", "encrypt", "resend"} \subseteq Jobs /\ Conns \subseteq Jobs
  /\ "SENDING" \in Pending /\ "FAILED" \in Pending
  BY DEF Jobs, Pending

LEMMA SendMessageStep ==
  ASSUME Inv, NEW m \in Msgs, SendMessage(m) PROVE Inv'
<1> DEFINE b == [room |-> "home", id |-> "client", st |-> "SENDING"]
<1>1. {b} \subseteq Bubbles /\ AllRight({b}, m)
  BY DEF Bubbles, AllRight, HomeIsLast, Right, Earned, Pending, Shown, Marks
<1>2. bubble' \in [Msgs -> SUBSET Bubbles] /\ \A n \in Msgs : AllRight(bubble'[n], n)
  BY <1>1, Parts DEF SendMessage
<1>3. jobs' \in [Msgs -> SUBSET Jobs]
  BY Parts, TypesOfJobs DEF SendMessage
<1>4. timer' \subseteq Msgs \X {"compose", "resend"}
  BY Parts DEF SendMessage
<1>5. FramesSound'
  BY FramesStay DEF SendMessage, netVars, serverVars
<1> QED
  BY <1>2, <1>3, <1>4, <1>5, Parts, PhoneSteps DEF SendMessage, netVars, serverVars

LEMMA ComposeResolvesStep ==
  ASSUME Inv, NEW m \in Msgs, ComposeResolves(m) PROVE Inv'
<1>1. Again(Resolved(m)) \subseteq Bubbles /\ AllRight(Again(Resolved(m)), m)
  BY ResolvedIsRight, AgainIsRight
<1>2. bubble' \in [Msgs -> SUBSET Bubbles] /\ \A n \in Msgs : AllRight(bubble'[n], n)
  BY <1>1, Parts DEF ComposeResolves
<1>3. jobs' \in [Msgs -> SUBSET Jobs] /\ room' \in [Msgs -> Rooms]
  BY Parts, TypesOfJobs, RoomType DEF ComposeResolves
<1>4. FramesSound'
  BY FramesStay DEF ComposeResolves, netVars, serverVars
<1> QED
  BY <1>2, <1>3, <1>4, Parts, PhoneSteps DEF ComposeResolves, netVars, serverVars

LEMMA ResolveElsewhereStep ==
  ASSUME Inv, NEW m \in Msgs, ResolveElsewhere(m) PROVE Inv'
<1>1. bubble' \in [Msgs -> SUBSET Bubbles] /\ \A n \in Msgs : AllRight(bubble'[n], n)
  BY ResolvedIsRight, Parts DEF ResolveElsewhere
<1>2. room' \in [Msgs -> Rooms] /\ FramesSound'
  BY FramesStay, RoomType DEF ResolveElsewhere, netVars, serverVars
<1> QED
  BY <1>1, <1>2, Parts, PhoneSteps DEF ResolveElsewhere, netVars, serverVars

LEMMA ResendMessageStep ==
  ASSUME Inv, NEW m \in Msgs, ResendMessage(m) PROVE Inv'
<1>1. bubble' \in [Msgs -> SUBSET Bubbles] /\ \A n \in Msgs : AllRight(bubble'[n], n)
  BY BubbleMarked, TypesOfJobs DEF ResendMessage
<1>2. jobs' \in [Msgs -> SUBSET Jobs]
  BY Parts, TypesOfJobs DEF ResendMessage
<1>3. FramesSound' /\ resends' \in Nat
  BY FramesStay, Parts DEF ResendMessage, netVars, serverVars
<1> QED
  BY <1>1, <1>2, <1>3, Parts, PhoneSteps DEF ResendMessage, netVars, serverVars

LEMMA RunJobStep ==
  ASSUME Inv, NEW m \in Msgs, NEW j \in Jobs, RunJob(m, j) PROVE Inv'
<1> DEFINE B == IF j \in Conns THEN Mark(Resolved(m), "SENDING") ELSE Resolved(m)
<1>0. B \subseteq Bubbles /\ AllRight(B, m)
  BY ResolvedIsRight, MarkIsRight, TypesOfJobs
<1>1. bubble' \in [Msgs -> SUBSET Bubbles] /\ \A n \in Msgs : AllRight(bubble'[n], n)
  BY <1>0, Parts DEF RunJob
<1>2. room' \in [Msgs -> Rooms] /\ jobs' \in [Msgs -> SUBSET Jobs] /\ timer' \subseteq Msgs \X {"compose", "resend"}
  BY Parts, RoomType DEF RunJob
<1>3. wire' \in [Conns -> Seq(Msgs)] /\ outbox' \in Seq(Msgs)
  BY EmitType DEF RunJob
<1>4. FramesSound'
  BY FramesStay DEF RunJob, serverVars
<1> QED
  BY <1>1, <1>2, <1>3, <1>4, Parts, PhoneSteps DEF RunJob, serverVars

LEMMA JobFailsStep ==
  ASSUME Inv, NEW m \in Msgs, NEW j \in Jobs, JobFails(m, j) PROVE Inv'
<1>1. bubble' \in [Msgs -> SUBSET Bubbles] /\ \A n \in Msgs : AllRight(bubble'[n], n)
  BY BubbleMarked, TypesOfJobs, Parts DEF JobFails
<1>2. jobs' \in [Msgs -> SUBSET Jobs] /\ faults' \in Nat
  BY Parts DEF JobFails, Fail
<1>3. FramesSound'
  BY FramesStay DEF JobFails, serverVars, netVars
<1> QED
  BY <1>1, <1>2, <1>3, Parts, PhoneSteps DEF JobFails, serverVars, netVars

LEMMA TimeoutStep ==
  ASSUME Inv, NEW m \in Msgs, NEW j \in Jobs, Timeout(m, j) PROVE Inv'
<1>1. bubble' \in [Msgs -> SUBSET Bubbles] /\ \A n \in Msgs : AllRight(bubble'[n], n)
  <2>1. CASE bubble' = [bubble EXCEPT ![m] = Mark(@, "FAILED")]
    BY <2>1, BubbleMarked, TypesOfJobs
  <2>2. CASE bubble' = bubble
    BY <2>2, Parts
  <2> QED
    BY <2>1, <2>2 DEF Timeout
<1>2. timer' \subseteq Msgs \X {"compose", "resend"} /\ FramesSound'
  BY FramesStay, Parts DEF Timeout, serverVars, netVars
<1> QED
  BY <1>1, <1>2, Parts, PhoneSteps DEF Timeout, serverVars, netVars

LEMMA ClientReceiveStep ==
  ASSUME Inv, NEW k \in Conns, ClientReceive(k) PROVE Inv'
<1> DEFINE S == TrueFrames(stored, ticked)
           f == Head(down[k])
<1>1. down \in [Conns -> Seq(S)] /\ down[k] \in Seq(S) /\ down[k] # <<>>
  BY Parts DEF ClientReceive
<1>2. f \in S /\ Tail(down[k]) \in Seq(S)
  BY <1>1, TailFacts
<1>3. down' \in [Conns -> Seq(S)]
  BY <1>1, <1>2 DEF ClientReceive
<1>4. FramesSound'
  BY <1>3 DEF ClientReceive, FramesSound, serverVars
<1>5. f.m \in Msgs /\ bubble' = [bubble EXCEPT ![f.m] = {Apply(b, f) : b \in @}]
  BY <1>2 DEF ClientReceive, TrueFrames, Frames
<1> HIDE DEF f
<1>6. LET A == {Apply(b, f) : b \in bubble[f.m]} IN A \subseteq Bubbles /\ AllRight(A, f.m)
  BY <1>2, <1>5, AppliedIsRight, Parts
<1>7. bubble' \in [Msgs -> SUBSET Bubbles] /\ \A n \in Msgs : AllRight(bubble'[n], n)
  BY <1>5, <1>6, Parts
<1> QED
  BY <1>4, <1>7, Parts, PhoneSteps DEF ClientReceive, serverVars

LEMMA PersistStep ==
  ASSUME Inv, Persist PROVE Inv'
<1>1. FramesSound'
  BY FramesStay DEF Persist, serverVars, netVars
<1> QED
  BY <1>1, Parts, PhoneSteps DEF Persist, serverVars, netVars

\* The frames to the phone are lost.
LEMMA FramesLost ==
  ASSUME Inv, UNCHANGED <<stored, ticked>>,
         \/ \E k \in Conns : down' = [down EXCEPT ![k] = <<>>]
         \/ down' = [k \in Conns |-> <<>>]
  PROVE  FramesSound'
<1>1. \A S : <<>> \in Seq(S)
  BY EmptyFacts
<1>2. down' \in [Conns -> Seq(TrueFrames(stored, ticked))]
  BY <1>1, Parts
<1> QED
  BY <1>2 DEF FramesSound

LEMMA RestartStep ==
  ASSUME Inv, Restart PROVE Inv'
<1>1. FramesSound'
  BY FramesLost DEF Restart, serverVars
<1>2. outbox' \in Seq(Msgs) /\ jobs' \in [Msgs -> SUBSET Jobs]
      /\ timer' \subseteq Msgs \X {"compose", "resend"}
  BY EmptyFacts DEF Restart
<1>3. conn' \in [Conns -> {"idle", "up", "dead", "left", "down"}] /\ restarts' \in Nat
      /\ room' \in [Msgs -> Rooms]
  BY Parts DEF Restart, Rooms
<1> QED
  BY <1>1, <1>2, <1>3, Parts, PhoneSteps DEF Restart, serverVars

LEMMA ConnectStep ==
  ASSUME Inv, NEW k \in Conns, Connect(k) PROVE Inv'
<1>1. FramesSound'
  BY FramesStay DEF Connect, serverVars
<1>2. outbox' \in Seq(Msgs) /\ wire' \in [Conns -> Seq(Msgs)]
  BY Parts, EmptyFacts DEF Connect
<1>3. jobs' \in [Msgs -> SUBSET Jobs]
      /\ conn' \in [Conns -> {"idle", "up", "dead", "left", "down"}]
  BY Parts, TypesOfJobs DEF Connect
<1> QED
  BY <1>1, <1>2, <1>3, Parts, PhoneSteps DEF Connect, serverVars

LEMMA DisconnectStep ==
  ASSUME Inv, NEW k \in Conns, Disconnect(k) PROVE Inv'
<1>1. FramesSound'
  BY FramesLost DEF Disconnect, serverVars
<1>2. conn' \in [Conns -> {"idle", "up", "dead", "left", "down"}]
  BY Parts DEF Disconnect
<1> QED
  BY <1>1, <1>2, Parts, PhoneSteps DEF Disconnect, serverVars, clientVars

LEMMA DropStep ==
  ASSUME Inv, NEW k \in Conns, Drop(k) PROVE Inv'
<1>1. FramesSound'
  BY FramesStay DEF Drop, serverVars
<1>2. wire' \in [Conns -> Seq(Msgs)]
  BY Parts, EmptyFacts DEF Drop
<1> QED
  BY <1>1, <1>2, Parts, PhoneSteps DEF Drop, serverVars, clientVars

LEMMA ServerCrashStep ==
  ASSUME Inv, ServerCrash PROVE Inv'
<1>1. FramesSound'
  BY FramesLost DEF ServerCrash
<1>2. conn' \in [Conns -> {"idle", "up", "dead", "left", "down"}]
      /\ wire' \in [Conns -> Seq(Msgs)] /\ faults' \in Nat
  BY Parts, EmptyFacts DEF ServerCrash, Fail
<1>3. task' \in [Tasks -> Nat] /\ \A t \in Tasks : ~(task'[t] > 0)
  BY DEF ServerCrash
<1> QED
  BY <1>1, <1>2, <1>3, Parts, PhoneSteps DEF ServerCrash, clientVars

-----------------------------------------------------------------------------
(* The theorems.                                                           *)

LEMMA InvInit == Init => Inv
<1> SUFFICES ASSUME Init PROVE Inv
  OBVIOUS
<1>1. \A m : AllRight({}, m)
  BY DEF AllRight, HomeIsLast
<1>2. \A S : <<>> \in Seq(S)
  BY EmptyFacts
<1>3. FramesSound
  BY <1>2 DEF Init, FramesSound
<1>4. BubblesRight
  BY <1>1 DEF Init, BubblesRight
<1>5. TasksSound
  BY DEF Init, TasksSound
<1>6. TypeOK
  BY <1>2 DEF Init, TypeOK, Rooms
<1> QED
  BY <1>3, <1>4, <1>5, <1>6 DEF Inv

LEMMA InvStep == Inv /\ [Next]_vars => Inv'
<1> SUFFICES ASSUME Inv, [Next]_vars PROVE Inv'
  OBVIOUS
<1>1. ASSUME NEW m \in Msgs, \/ SendMessage(m) \/ ResendMessage(m)
                            \/ ComposeResolves(m) \/ ResolveElsewhere(m)
      PROVE Inv'
  BY <1>1, SendMessageStep, ResendMessageStep, ComposeResolvesStep, ResolveElsewhereStep
<1>2. ASSUME NEW m \in Msgs, NEW j \in Jobs, RunJob(m, j) \/ JobFails(m, j) \/ Timeout(m, j)
      PROVE Inv'
  BY <1>2, RunJobStep, JobFailsStep, TimeoutStep
<1>3. ASSUME NEW k \in Conns,
             ClientReceive(k) \/ Connect(k) \/ Disconnect(k) \/ Drop(k) \/ Arrive(k)
      PROVE Inv'
  BY <1>3, ClientReceiveStep, ConnectStep, DisconnectStep, DropStep, ArriveStep
<1>4. ASSUME NEW t \in Tasks, ServerStep(t) PROVE Inv'
  BY <1>4, SaveStep, CheckBlockStep, AckStep, TickStep, AutoReadStep DEF ServerStep
<1>5. ASSUME NEW m \in Msgs, NEW s \in Answers, Receipt(m, s) PROVE Inv'
  BY <1>5, ReceiptStep
<1>6. CASE Persist \/ Restart \/ ServerCrash
  BY <1>6, PersistStep, RestartStep, ServerCrashStep
<1>7. CASE UNCHANGED vars
  BY <1>7 DEF vars, clientVars, netVars, serverVars, Inv, TypeOK, BubblesRight, AllRight, Right,
              Earned, FramesSound, TasksSound
<1> QED
  BY <1>1, <1>2, <1>3, <1>4, <1>5, <1>6, <1>7 DEF Next

LEMMA InvHolds == Spec => []Inv
  BY InvInit, InvStep, PTL DEF Spec

\* Every variable keeps its type, the bag of running handlers and the queues included.
THEOREM TypeCorrect == Spec => []TypeOK
<1>1. Inv => TypeOK
  BY DEF Inv
<1> QED
  BY <1>1, InvHolds, PTL

\* The ticks on the screen and in the store are never ahead of what the server recorded,
\* whichever attempts, connections and restarts a frame has outlived.
THEOREM TicksAreEarned == Spec => []TickIsEarned
<1>1. Inv => TickIsEarned
  BY DEF Inv, BubblesRight, AllRight, Right, TickIsEarned
<1> QED
  BY <1>1, InvHolds, PTL

\* A bubble that may be sent again carries the client's id, so that the retry is recognised.
THEOREM RetriesAreRecognised == Spec => []PendingKeepsItsClientId
<1>1. Inv => PendingKeepsItsClientId
  BY DEF Inv, BubblesRight, AllRight, Right, PendingKeepsItsClientId
<1> QED
  BY <1>1, InvHolds, PTL
\* Nothing is known of a message whose client id has not been drawn.
Unknown == \A m \in Msgs \ written : bubble[m] = {} /\ saved[m] = {} /\ jobs[m] = {}

LEMMA UnknownStep == Inv /\ Unknown /\ [Next]_vars => Unknown'
<1> SUFFICES ASSUME Inv, Unknown, [Next]_vars PROVE Unknown'
  OBVIOUS
<1> USE DEF Unknown
<1>1. bubble \in [Msgs -> SUBSET Bubbles] /\ jobs \in [Msgs -> SUBSET Jobs]
  BY Parts
<1>2. ASSUME NEW m \in Msgs, \/ SendMessage(m) \/ ResendMessage(m)
                            \/ ComposeResolves(m) \/ ResolveElsewhere(m)
      PROVE Unknown'
  BY <1>1, <1>2 DEF SendMessage, ResendMessage, ComposeResolves, ResolveElsewhere, Home, Waiting
<1>3. ASSUME NEW m \in Msgs, NEW j \in Jobs, RunJob(m, j) \/ JobFails(m, j) \/ Timeout(m, j)
      PROVE Unknown'
  <2>1. bubble[m] = {} => bubble'[m] = {}
    BY <1>1, <1>3 DEF RunJob, JobFails, Timeout, Mark, Resolved, Home
  <2>2. \A n \in Msgs \ {m} : bubble'[n] = bubble[n]
    BY <1>1, <1>3 DEF RunJob, JobFails, Timeout
  <2> QED
    BY <1>1, <1>3, <2>1, <2>2 DEF RunJob, JobFails, Timeout
<1>4. ASSUME NEW k \in Conns,
             ClientReceive(k) \/ Connect(k) \/ Disconnect(k) \/ Drop(k) \/ Arrive(k)
      PROVE Unknown'
  <2>1. CASE ClientReceive(k)
    BY <1>1, <2>1 DEF ClientReceive
  <2>2. CASE Connect(k)
    BY <1>1, <2>2 DEF Connect, Waiting, Home
  <2>3. CASE Disconnect(k) \/ Drop(k) \/ Arrive(k)
    BY <2>3 DEF Disconnect, Drop, Arrive, clientVars
  <2> QED
    BY <1>4, <2>1, <2>2, <2>3
<1>5. ASSUME NEW t \in Tasks, ServerStep(t) PROVE Unknown'
  BY <1>5 DEF ServerStep, Save, CheckBlock, Ack, Tick, AutoRead, clientVars
<1>6. ASSUME NEW m \in Msgs, NEW s \in Answers, Receipt(m, s) PROVE Unknown'
  BY <1>6 DEF Receipt, clientVars
<1>7. CASE Persist \/ Restart \/ ServerCrash \/ UNCHANGED vars
  BY <1>7 DEF Persist, Restart, ServerCrash, vars, clientVars
<1> QED
  BY <1>2, <1>3, <1>4, <1>5, <1>6, <1>7 DEF Next

LEMMA UnknownHolds == Spec => []Unknown
<1>1. Init => Unknown
  BY DEF Init, Unknown
<1> QED
  BY <1>1, UnknownStep, InvHolds, PTL DEF Spec

\* Marking touches no confirmed bubble.
LEMMA MarkKeeps ==
  ASSUME NEW B, NEW st
  PROVE  /\ Confirmed(B) => Confirmed(Mark(B, st))
         /\ Settled(B) => Settled(Mark(B, st))
  BY DEF Confirmed, Settled, Mark

LEMMA AppliedKeeps ==
  ASSUME NEW f \in TrueFrames(stored, ticked), NEW B, B \subseteq Bubbles
  PROVE  LET A == {Apply(b, f) : b \in B}
         IN  /\ Confirmed(B) => Confirmed(A)
             /\ Settled(B) => Settled(A)
<1>1. f \in Frames /\ (f.ids # "client" => f.st \notin Pending)
  BY DEF TrueFrames, Frames, Pending, Shown, Marks
<1>2. ASSUME NEW b \in B, b.id = "server"
      PROVE  Apply(b, f).id = "server" /\ (Apply(b, f) = b \/ Apply(b, f).st \notin Pending)
  BY <1>1, <1>2, ApplyToId
<1> QED
  BY <1>2 DEF Confirmed, Settled

LEMMA AgainKeeps == ASSUME NEW B, Confirmed(B) PROVE Confirmed(Again(B))
  BY DEF Confirmed, Again

\* What a step may do to a confirmed message.
StaysConfirmed(m) == /\ Confirmed(bubble'[m])
                     /\ Settled(bubble[m]) => Settled(bubble'[m]) \/ AppendsAgain(m)

LEMMA ConfirmedStep ==
  ASSUME Inv, Unknown, [Next]_vars, NEW m \in Msgs, Confirmed(bubble[m]), restarts' = restarts
  PROVE  StaysConfirmed(m)
<1>1. bubble \in [Msgs -> SUBSET Bubbles] /\ jobs \in [Msgs -> SUBSET Jobs] /\ restarts \in Nat
  BY Parts
<1>2. ASSUME bubble'[m] = bubble[m] PROVE StaysConfirmed(m)
  BY <1>2 DEF StaysConfirmed
<1>3. ASSUME NEW st, bubble'[m] = Mark(bubble[m], st) PROVE StaysConfirmed(m)
  BY <1>3, MarkKeeps DEF StaysConfirmed
<1>4. ASSUME bubble'[m] = Resolved(m) PROVE StaysConfirmed(m)
  BY <1>4, ResolvedIsRight DEF StaysConfirmed
<1>5. m \in written
  BY DEF Unknown, Confirmed
<1>6. ASSUME NEW n \in Msgs, SendMessage(n) \/ ResendMessage(n) PROVE StaysConfirmed(m)
  BY <1>1, <1>2, <1>3, <1>5, <1>6 DEF SendMessage, ResendMessage
<1>7. ASSUME NEW n \in Msgs, ComposeResolves(n) PROVE StaysConfirmed(m)
  <2>1. CASE n = m
    <3>1. Confirmed(bubble'[m])
      BY <1>1, <1>7, <2>1, ResolvedIsRight, AgainKeeps DEF ComposeResolves
    <3>2. AppendsAgain(m)
      BY <1>1, <1>7, <2>1, TypesOfJobs DEF ComposeResolves, AppendsAgain
    <3> QED
      BY <3>1, <3>2 DEF StaysConfirmed
  <2>2. CASE n # m
    BY <1>1, <1>2, <1>7, <2>2 DEF ComposeResolves
  <2> QED
    BY <2>1, <2>2
<1>8. ASSUME NEW n \in Msgs, ResolveElsewhere(n) PROVE StaysConfirmed(m)
  BY <1>1, <1>2, <1>4, <1>8 DEF ResolveElsewhere
<1>9. ASSUME NEW n \in Msgs, NEW j \in Jobs, RunJob(n, j) PROVE StaysConfirmed(m)
  <2>1. CASE n # m
    BY <1>1, <1>2, <1>9, <2>1 DEF RunJob
  <2>2. CASE n = m /\ bubble'[m] = Resolved(m)
    BY <1>4, <2>2
  <2>3. CASE n = m /\ bubble'[m] = Mark(Resolved(m), "SENDING")
    BY <2>3, ResolvedIsRight, MarkKeeps DEF StaysConfirmed
  <2> QED
    BY <1>1, <1>9, <2>1, <2>2, <2>3 DEF RunJob
<1>10. ASSUME NEW n \in Msgs, NEW j \in Jobs, JobFails(n, j) \/ Timeout(n, j)
       PROVE  StaysConfirmed(m)
  BY <1>1, <1>2, <1>3, <1>10 DEF JobFails, Timeout
<1>11. ASSUME NEW k \in Conns, ClientReceive(k) PROVE StaysConfirmed(m)
  <2> DEFINE f == Head(down[k])
  <2>1. f \in TrueFrames(stored, ticked)
    BY <1>11, Parts, TailFacts DEF ClientReceive
  <2>2. f.m \in Msgs
    BY <2>1 DEF TrueFrames, Frames
  <2>3. bubble' = [bubble EXCEPT ![f.m] = {Apply(b, f) : b \in @}]
    BY <1>11 DEF ClientReceive
  <2> HIDE DEF f
  <2>4. CASE f.m = m
    <3>1. bubble'[m] = {Apply(b, f) : b \in bubble[m]}
      BY <1>1, <2>3, <2>4
    <3> QED
      BY <1>1, <2>1, <3>1, AppliedKeeps DEF StaysConfirmed
  <2>5. CASE f.m # m
    BY <1>1, <1>2, <2>3, <2>5
  <2> QED
    BY <2>4, <2>5
<1>12. ASSUME NEW k \in Conns, Connect(k) \/ Disconnect(k) \/ Drop(k) \/ Arrive(k)
       PROVE  StaysConfirmed(m)
  BY <1>2, <1>12 DEF Connect, Disconnect, Drop, Arrive, clientVars
<1>13. ASSUME NEW t \in Tasks, ServerStep(t) PROVE StaysConfirmed(m)
  BY <1>2, <1>13 DEF ServerStep, Save, CheckBlock, Ack, Tick, AutoRead, clientVars
<1>14. ASSUME NEW n \in Msgs, NEW s \in Answers, Receipt(n, s) PROVE StaysConfirmed(m)
  BY <1>2, <1>14 DEF Receipt, clientVars
<1>15. ~Restart
  BY <1>1 DEF Restart
<1>16. CASE Persist \/ ServerCrash \/ UNCHANGED vars
  BY <1>2, <1>16 DEF Persist, ServerCrash, vars, clientVars
<1> QED
  BY <1>6, <1>7, <1>8, <1>9, <1>10, <1>11, <1>12, <1>13, <1>14, <1>15, <1>16 DEF Next

\* While the app lives, no timer, flush, error or answer to an earlier attempt takes a confirmed
\* message back among the pending ones; the second append of its own sendMessage alone does.
THEOREM ConfirmationIsFinal == Spec => ConfirmedIsFinal
<1> DEFINE A == \A m \in Msgs : Confirmed(bubble[m]) /\ restarts' = restarts
                        => StaysConfirmed(m)
<1>1. Inv /\ Unknown /\ [Next]_vars => [A]_vars
  BY ConfirmedStep
<1>2. Spec => [][A]_vars
  BY <1>1, InvHolds, UnknownHolds, PTL DEF Spec
<1> QED
  BY <1>2 DEF ConfirmedIsFinal, StaysConfirmed

=============================================================================
