----------------------- MODULE CallSignalling_proofs ------------------------
(***************************************************************************)
(* Proofs about CallSignalling: its types, that no live session is         *)
(* replaced, and, as long as no connection is lost, that activeCalls       *)
(* forgets what is over and that no phone rings for a caller who has gone. *)
(*                                                                         *)
(* The last two need to know who is who in a call, which no variable says: *)
(* the invariant states that there are functions by and to, from calls to  *)
(* the users who place and receive them, with which all frames, handlers   *)
(* and sessions agree.                                                     *)
(***************************************************************************)
EXTENDS CallSignalling, TLAPS

-----------------------------------------------------------------------------
(* The inductive invariant.                                                *)

\* An event of call c in a queue, at most one, and an end behind every ring.
Has(q, ev, c) == \E n \in 1..Len(q) : q[n].ev = ev /\ q[n].c = c
Once(q, ev, c) ==
  \A n, m \in 1..Len(q) : /\ q[n].ev = ev /\ q[n].c = c
                          /\ q[m].ev = ev /\ q[m].c = c
                          => n = m
Behind(q, c) ==
  \E k \in 1..Len(q) : /\ q[k].ev = "ended" /\ q[k].c = c
                       /\ \A n \in 1..Len(q) : q[n].ev = "incoming" /\ q[n].c = c => n < k

\* Nothing knows of a call that was not placed.
Unused == \A c \in fresh : /\ c \notin cancelled
                           /\ \A x \in Users : ~In(x, c) /\ c \notin handled[x]

\* Sessions are those of the caller and of the callee.
Parties(by, to) ==
  /\ \A c \in Calls \ fresh : by[c] # to[c]
  /\ \A x \in Users : session[x].st # "none" =>
       LET c == session[x].c
       IN IF session[x].caller THEN x = by[c] /\ session[x].peer = to[c] /\ session[x].st # "INCOMING"
                               ELSE x = to[c] /\ session[x].peer = by[c]
  /\ \A x \in Users : \A c \in accepting[x] : c \notin fresh /\ x = to[c]

\* What x may ask of the gateway: an end reaches the callee unless it went astray.
Asks(by, to, x) ==
  {f \in Requests : /\ f.c \notin fresh
                    /\ f.ev = "initiate" => x = by[f.c] /\ f.to = to[f.c]
                    /\ f.ev = "end" => f.c \in strays \/ x = to[f.c] \/ f.to = to[f.c]}

\* What the gateway may tell x.
Tells(by, to, x) ==
  {e \in Events : /\ e.c \notin fresh
                  /\ e.ev = "incoming" => x = to[e.c] /\ e.from = by[e.c]
                  /\ e.ev = "ended" => e.c \in cancelled}

Frames(by, to) ==
  /\ \A x \in Users : up[x] \in Seq(Asks(by, to, x)) /\ down[x] \in Seq(Tells(by, to, x))
  /\ \A t \in task : /\ t.req \in Asks(by, to, t.by)
                     /\ t.req.ev = "end" => t.req.c \in cancelled

Calling(c) == \E t \in task : t.req.ev = "initiate" /\ t.req.c = c
Ending(c) == \E t \in task : t.req.ev = "end" /\ t.req.c = c
EndSent(c) == \E x \in Users : Has(up[x], "end", c)
Incoming(x, c) == In(x, c) /\ session[x].st = "INCOMING"

\* A call rings at its callee once: request, lookup, frame and session exclude each other.
OneRing(caller, callee, c) ==
  LET asked == Has(up[caller], "initiate", c)
      rung == Has(down[callee], "incoming", c)
  IN /\ Once(up[caller], "initiate", c) /\ Once(down[callee], "incoming", c)
     /\ asked => ~Calling(c)
     /\ asked \/ Calling(c) => ~rung
     /\ asked \/ Calling(c) \/ rung => ~In(callee, c) /\ c \notin handled[callee]
     /\ Incoming(callee, c) => c \notin handled[callee]
RingsOnce(by, to) == \A c \in Calls \ fresh : OneRing(by[c], to[c], c)

\* The caller of a call that the gateway does not know to be over is in it, or has said so.
CallerLives(by) ==
  \A c \in Calls \ (fresh \cup cancelled) : EndSent(c) \/ (In(by[c], c) /\ Live(session[by[c]]))

\* Who rings, or is about to, for a call that is over will be told, and not before the ring.
EndReaches(to) ==
  \A c \in cancelled \ strays :
    Incoming(to[c], c) \/ Has(down[to[c]], "incoming", c)
      => Ending(c) \/ Behind(down[to[c]], c)

Good(by, to) ==
  /\ \A x \in Users : online[x]
  /\ Unused /\ active \cap cancelled = {}
  /\ Parties(by, to) /\ Frames(by, to) /\ RingsOnce(by, to) /\ CallerLives(by) /\ EndReaches(to)

Inv == /\ TypeOK
       /\ drops = 0 => \/ Users = {} /\ active = {}
                      \/ \E by, to \in [Calls -> Users] : Good(by, to)

-----------------------------------------------------------------------------
(* Lemmas about queues.                                                    *)

LEMMA SeqGrows ==
  ASSUME NEW S, NEW T, S \subseteq T, NEW q \in Seq(S) PROVE q \in Seq(T)
  OBVIOUS

LEMMA AppendTyped ==
  ASSUME NEW S, NEW q \in Seq(S), NEW f \in S PROVE Append(q, f) \in Seq(S)
  OBVIOUS

LEMMA TailTyped ==
  ASSUME NEW S, NEW q \in Seq(S), q # <<>> PROVE Tail(q) \in Seq(S) /\ Head(q) \in S
  OBVIOUS

\* What an append and a tail do to the entries.
LEMMA AppendEntries ==
  ASSUME NEW S, NEW q \in Seq(S), NEW f \in S
  PROVE  /\ Len(q) \in Nat /\ Len(Append(q, f)) = Len(q) + 1
         /\ \A n \in 1..Len(q) : Append(q, f)[n] = q[n]
         /\ Append(q, f)[Len(q) + 1] = f
  OBVIOUS

LEMMA TailEntries ==
  ASSUME NEW S, NEW q \in Seq(S), q # <<>>
  PROVE  /\ Len(q) \in Nat \ {0} /\ Len(Tail(q)) = Len(q) - 1
         /\ \A n \in 1..Len(q) - 1 : Tail(q)[n] = q[n + 1]
         /\ Head(q) = q[1]
  OBVIOUS

LEMMA HasAppend ==
  ASSUME NEW S, NEW q \in Seq(S), NEW f \in S, NEW ev, NEW c
  PROVE  Has(Append(q, f), ev, c) <=> Has(q, ev, c) \/ (f.ev = ev /\ f.c = c)
  BY AppendEntries DEF Has

LEMMA HasTail ==
  ASSUME NEW S, NEW q \in Seq(S), q # <<>>, NEW ev, NEW c
  PROVE  Has(q, ev, c) <=> Has(Tail(q), ev, c) \/ (Head(q).ev = ev /\ Head(q).c = c)
<1>1. ASSUME Has(q, ev, c), ~(Head(q).ev = ev /\ Head(q).c = c) PROVE Has(Tail(q), ev, c)
  <2>1. PICK n \in 1..Len(q) : q[n].ev = ev /\ q[n].c = c
    BY <1>1 DEF Has
  <2>2. n # 1
    BY <1>1, <2>1, TailEntries
  <2>3. n - 1 \in 1..Len(Tail(q)) /\ Tail(q)[n - 1] = q[n]
    BY <2>2, TailEntries
  <2> QED
    BY <2>1, <2>3 DEF Has
<1>2. ASSUME Has(Tail(q), ev, c) PROVE Has(q, ev, c)
  <2>1. PICK n \in 1..Len(Tail(q)) : Tail(q)[n].ev = ev /\ Tail(q)[n].c = c
    BY <1>2 DEF Has
  <2>2. n + 1 \in 1..Len(q) /\ Tail(q)[n] = q[n + 1]
    BY TailEntries
  <2> QED
    BY <2>1, <2>2 DEF Has
<1>3. ASSUME Head(q).ev = ev, Head(q).c = c PROVE Has(q, ev, c)
  BY <1>3, TailEntries DEF Has
<1> QED
  BY <1>1, <1>2, <1>3

LEMMA OnceAppend ==
  ASSUME NEW S, NEW q \in Seq(S), NEW f \in S, NEW ev, NEW c, Once(q, ev, c),
         Has(q, ev, c) => ~(f.ev = ev /\ f.c = c)
  PROVE  Once(Append(q, f), ev, c)
  BY AppendEntries DEF Has, Once

LEMMA OnceTail ==
  ASSUME NEW S, NEW q \in Seq(S), q # <<>>, NEW ev, NEW c, Once(q, ev, c)
  PROVE  /\ Once(Tail(q), ev, c)
         /\ Head(q).ev = ev /\ Head(q).c = c => ~Has(Tail(q), ev, c)
<1>1. \A n \in 1..Len(Tail(q)) : n + 1 \in 1..Len(q) /\ Tail(q)[n] = q[n + 1] /\ n \in Int
  BY TailEntries
<1>2. Once(Tail(q), ev, c)
  BY <1>1 DEF Once
<1>3. 1 \in 1..Len(q) /\ Head(q) = q[1]
  BY TailEntries
<1> QED
  BY <1>1, <1>2, <1>3 DEF Once, Has

LEMMA BehindAppend ==
  ASSUME NEW S, NEW q \in Seq(S), NEW f \in S, NEW c,
         \/ Behind(q, c) /\ ~(f.ev = "incoming" /\ f.c = c)
         \/ f.ev = "ended" /\ f.c = c
  PROVE  Behind(Append(q, f), c)
<1> DEFINE r == Append(q, f)
<1>1. CASE Behind(q, c) /\ ~(f.ev = "incoming" /\ f.c = c)
  <2>1. PICK k \in 1..Len(q) :
          /\ q[k].ev = "ended" /\ q[k].c = c
          /\ \A n \in 1..Len(q) : q[n].ev = "incoming" /\ q[n].c = c => n < k
    BY <1>1 DEF Behind
  <2>2. k \in 1..Len(r) /\ r[k] = q[k]
    BY AppendEntries
  <2>3. \A n \in 1..Len(r) : r[n].ev = "incoming" /\ r[n].c = c => n \in 1..Len(q) /\ r[n] = q[n]
    BY <1>1, AppendEntries
  <2> QED
    BY <2>1, <2>2, <2>3 DEF Behind
<1>2. CASE f.ev = "ended" /\ f.c = c
  <2>1. Len(q) + 1 \in 1..Len(r) /\ r[Len(q) + 1] = f
    BY AppendEntries
  <2>2. \A n \in 1..Len(r) : r[n].ev = "incoming" /\ r[n].c = c => n < Len(q) + 1
    BY <1>2, AppendEntries
  <2> QED
    BY <1>2, <2>1, <2>2 DEF Behind
<1> QED
  BY <1>1, <1>2

LEMMA BehindTail ==
  ASSUME NEW S, NEW q \in Seq(S), q # <<>>, NEW c, Behind(q, c)
  PROVE  \/ Behind(Tail(q), c)
         \/ Head(q).ev = "ended" /\ Head(q).c = c /\ ~Has(Tail(q), "incoming", c)
<1>1. PICK k \in 1..Len(q) :
        /\ q[k].ev = "ended" /\ q[k].c = c
        /\ \A n \in 1..Len(q) : q[n].ev = "incoming" /\ q[n].c = c => n < k
  BY DEF Behind
<1>2. \A n \in 1..Len(Tail(q)) : n + 1 \in 1..Len(q) /\ Tail(q)[n] = q[n + 1] /\ n \in Int
  BY TailEntries
<1>3. CASE k = 1
  <2>1. Head(q).ev = "ended" /\ Head(q).c = c
    BY <1>1, <1>3, TailEntries
  <2>2. ~Has(Tail(q), "incoming", c)
    BY <1>1, <1>2, <1>3 DEF Has
  <2> QED
    BY <2>1, <2>2
<1>4. CASE k # 1
  <2>1. k - 1 \in 1..Len(Tail(q)) /\ Tail(q)[k - 1] = q[k]
    BY <1>4, TailEntries
  <2>2. \A n \in 1..Len(Tail(q)) :
          Tail(q)[n].ev = "incoming" /\ Tail(q)[n].c = c => n < k - 1
    BY <1>1, <1>2
  <2> QED
    BY <1>1, <2>1, <2>2 DEF Behind
<1> QED
  BY <1>3, <1>4

-----------------------------------------------------------------------------
(* Types.                                                                  *)

PhoneTyped ==
  /\ session \in [Users -> Sessions]
  /\ timer \in [Users -> BOOLEAN] /\ resets \in [Users -> Nat] /\ waking \in [Users -> Nat]
  /\ accepting \in [Users -> SUBSET Calls] /\ offering \in [Users -> SUBSET Calls]
  /\ handled \in [Users -> SUBSET Calls]
  /\ fresh \subseteq Calls
  /\ fails \in Nat /\ ends \in Nat /\ strays \subseteq Calls
NetTyped == /\ online \in [Users -> BOOLEAN] /\ drops \in Nat
            /\ up \in [Users -> Seq(Requests)] /\ down \in [Users -> Seq(Events)]
GateTyped == task \subseteq Tasks /\ cancelled \subseteq Calls /\ active \subseteq Calls

LEMMA TypeParts == TypeOK <=> PhoneTyped /\ NetTyped /\ GateTyped
  BY DEF TypeOK, PhoneTyped, NetTyped, GateTyped

LEMMA SessionFacts ==
  ASSUME NEW s \in Sessions, s.st # "none"
  PROVE  /\ s.c \in Calls /\ s.peer \in Users /\ s.caller \in BOOLEAN
         /\ s.st \in Ringing \cup {"CONNECTED", "ENDED"}
         /\ \A st \in Ringing \cup {"CONNECTED", "ENDED"} : [s EXCEPT !.st = st] \in Sessions
  BY DEF Sessions, NoSession, Ringing

LEMMA SendTyped ==
  ASSUME NetTyped, NEW u \in Users, NEW f \in Requests, Send(u, f.ev, f.c, f.to)
  PROVE  up' \in [Users -> Seq(Requests)]
<1>1. [ev |-> f.ev, c |-> f.c, to |-> f.to] \in Requests
  BY DEF Requests
<1>2. Append(up[u], [ev |-> f.ev, c |-> f.c, to |-> f.to]) \in Seq(Requests)
  BY <1>1, AppendTyped DEF NetTyped
<1> QED
  BY <1>2 DEF Send, NetTyped

LEMMA EmitTyped ==
  ASSUME NEW q \in [Users -> Seq(Events)], NEW u \in Users, NEW e \in Events
  PROVE  Emit(q, u, e) \in [Users -> Seq(Events)]
<1>1. Append(q[u], e) \in Seq(Events)
  BY AppendTyped
<1> QED
  BY <1>1 DEF Emit

LEMMA DismissTyped ==
  ASSUME PhoneTyped, NEW u \in Users, session[u].st # "none", Dismiss(u)
  PROVE  /\ session' \in [Users -> Sessions] /\ timer' \in [Users -> BOOLEAN]
         /\ handled' \in [Users -> SUBSET Calls] /\ resets' \in [Users -> Nat]
<1>1. session[u] \in Sessions
  BY DEF PhoneTyped
<1>2. [session[u] EXCEPT !.st = "ENDED"] \in Sessions /\ session[u].c \in Calls
  BY <1>1, SessionFacts
<1>3. session' = [session EXCEPT ![u] = [session[u] EXCEPT !.st = "ENDED"]]
  BY DEF Dismiss, SetState, PhoneTyped
<1>4. session' \in [Users -> Sessions]
  BY <1>2, <1>3 DEF PhoneTyped
<1>5. handled' \in [Users -> SUBSET Calls]
  BY <1>2 DEF Dismiss, PhoneTyped
<1>6. timer' \in [Users -> BOOLEAN] /\ resets' \in [Users -> Nat]
  BY DEF Dismiss, ArmTimer, PhoneTyped
<1> QED
  BY <1>4, <1>5, <1>6

LEMMA SetStateTyped ==
  ASSUME PhoneTyped, NEW u \in Users, session[u].st # "none",
         NEW st \in Ringing \cup {"CONNECTED", "ENDED"}, SetState(u, st)
  PROVE  session' \in [Users -> Sessions]
<1>1. session[u] \in Sessions
  BY DEF PhoneTyped
<1>2. [session[u] EXCEPT !.st = st] \in Sessions
  BY <1>1, SessionFacts
<1>3. session' = [session EXCEPT ![u] = [session[u] EXCEPT !.st = st]]
  BY DEF SetState, PhoneTyped
<1> QED
  BY <1>2, <1>3 DEF PhoneTyped

LEMMA HangUpTyped ==
  ASSUME PhoneTyped, NetTyped, NEW u \in Users, session[u].st # "none", HangUp(u) \/ Decline(u)
  PROVE  /\ session' \in [Users -> Sessions] /\ timer' \in [Users -> BOOLEAN]
         /\ handled' \in [Users -> SUBSET Calls] /\ resets' \in [Users -> Nat]
         /\ up' \in [Users -> Seq(Requests)]
<1>1. Dismiss(u)
  BY DEF HangUp, Decline
<1>2. session[u].c \in Calls /\ session[u].peer \in Users
  BY SessionFacts DEF PhoneTyped
<1>3. PICK to \in Users : Send(u, "end", session[u].c, to)
  BY <1>2 DEF HangUp, Decline
<1> DEFINE f == [ev |-> "end", c |-> session[u].c, to |-> to]
<1>4. f \in Requests /\ Send(u, f.ev, f.c, f.to)
  BY <1>2, <1>3 DEF Requests
<1>5. up' \in [Users -> Seq(Requests)]
  BY <1>4, SendTyped
<1> QED
  BY <1>1, <1>5, DismissTyped

\* What a phone does when an event arrives.
LEMMA ReceiveTyped ==
  ASSUME PhoneTyped, NetTyped, NEW u \in Users, Receive(u)
  PROVE  /\ session' \in [Users -> Sessions] /\ timer' \in [Users -> BOOLEAN]
         /\ handled' \in [Users -> SUBSET Calls] /\ resets' \in [Users -> Nat]
         /\ waking' \in [Users -> Nat]
         /\ up' \in [Users -> Seq(Requests)] /\ down' \in [Users -> Seq(Events)]
<1> DEFINE e == Head(down[u])
<1>1. down[u] \in Seq(Events) /\ down[u] # <<>>
  BY DEF NetTyped, Receive
<1>2. e \in Events /\ Tail(down[u]) \in Seq(Events)
  BY <1>1, TailTyped
<1>3. down' \in [Users -> Seq(Events)]
  BY <1>2 DEF Receive, NetTyped
<1>4. e.c \in Calls /\ e.from \in Users
  BY <1>2 DEF Events
<1>5. CASE OnIncoming(u, e)
  <2>1. CASE Send(u, "end", e.c, e.from) /\ UNCHANGED <<session, timer>>
    <3> DEFINE f == [ev |-> "end", c |-> e.c, to |-> e.from]
    <3>1. f \in Requests /\ Send(u, f.ev, f.c, f.to)
      BY <1>4, <2>1 DEF Requests
    <3> QED
      BY <1>3, <1>5, <2>1, <3>1, SendTyped DEF OnIncoming, PhoneTyped
  <2>2. CASE UNCHANGED <<session, timer, up>>
    BY <1>3, <1>5, <2>2 DEF OnIncoming, PhoneTyped, NetTyped
  <2>3. CASE /\ session' = [session EXCEPT ![u] = [c |-> e.c, peer |-> e.from, caller |-> FALSE,
                                                   st |-> "INCOMING"]]
             /\ ArmTimer(u, TRUE)
             /\ Send(u, "ringing", e.c, e.from)
    <3> DEFINE f == [ev |-> "ringing", c |-> e.c, to |-> e.from]
    <3>1. f \in Requests /\ Send(u, f.ev, f.c, f.to)
      BY <1>4, <2>3 DEF Requests
    <3>2. session' \in [Users -> Sessions]
      BY <1>4, <2>3 DEF PhoneTyped, Sessions, Ringing
    <3> QED
      BY <1>3, <1>5, <2>3, <3>1, <3>2, SendTyped DEF OnIncoming, PhoneTyped, ArmTimer
  <2> QED
    BY <1>5, <2>1, <2>2, <2>3 DEF OnIncoming
<1>6. CASE OnProgress(u, e)
  <2>1. session' \in [Users -> Sessions]
    <3>1. CASE UNCHANGED session
      BY <3>1 DEF PhoneTyped
    <3>2. CASE /\ session[u].st # "none"
               /\ \E st \in Ringing \cup {"CONNECTED", "ENDED"} : SetState(u, st)
      BY <3>2, SetStateTyped
    <3> QED
      BY <1>6, <3>1, <3>2 DEF OnProgress, In, Ringing
  <2> QED
    BY <1>3, <1>6, <2>1 DEF OnProgress, PhoneTyped, NetTyped
<1>7. CASE OnAccepted(u, e)
  BY <1>3, <1>7 DEF OnAccepted, PhoneTyped, NetTyped
<1>8. CASE OnEnded(u, e)
  <2>1. CASE Dismiss(u) /\ session[u].st # "none"
    BY <1>3, <1>8, <2>1, DismissTyped DEF OnEnded, PhoneTyped, NetTyped
  <2>2. CASE UNCHANGED <<session, timer, resets, handled>>
    BY <1>3, <1>8, <2>2 DEF OnEnded, PhoneTyped, NetTyped
  <2> QED
    BY <1>8, <2>1, <2>2 DEF OnEnded, In
<1> QED
  BY <1>5, <1>6, <1>7, <1>8 DEF Receive

LEMMA HandleTyped ==
  ASSUME NetTyped, GateTyped, NEW t \in task, Handle(t)
  PROVE  down' \in [Users -> Seq(Events)] /\ active' \subseteq Calls /\ cancelled' \subseteq Calls
<1>1. t \in Tasks
  BY DEF GateTyped
<1>2. t.req \in Requests /\ t.by \in Users /\ t.req.c \in Calls /\ t.req.to \in Users
  BY <1>1 DEF Tasks, Requests
<1>3. \A ev \in {"incoming", "ringing", "calling", "accepted", "ended"}, x \in Users :
        Event(ev, t.req.c, x) \in Events
  BY <1>2 DEF Event, Events
<1>4. CASE Initiate(t)
  <2> DEFINE ring == Emit(down, t.req.to, Event("incoming", t.req.c, t.by))
  <2>1. down \in [Users -> Seq(Events)] /\ ring \in [Users -> Seq(Events)]
    BY <1>2, <1>3, EmitTyped DEF NetTyped
  <2>2. \A ev \in {"ringing", "calling", "ended"} :
          /\ Emit(down, t.by, Event(ev, t.req.c, t.req.to)) \in [Users -> Seq(Events)]
          /\ Emit(ring, t.by, Event(ev, t.req.c, t.req.to)) \in [Users -> Seq(Events)]
    <3> HIDE DEF ring
    <3> QED
      BY <1>2, <1>3, <2>1, EmitTyped
  <2> QED
    BY <1>2, <1>4, <2>2 DEF Initiate, GateTyped
<1>5. CASE Relay(t)
  BY <1>2, <1>3, <1>5, EmitTyped DEF Relay, NetTyped, GateTyped
<1>6. CASE EndBoth(t)
  <2>1. Emit(down, t.req.to, Event("ended", t.req.c, t.by)) \in [Users -> Seq(Events)]
    BY <1>2, <1>3, EmitTyped DEF NetTyped
  <2> QED
    BY <1>2, <1>3, <1>6, <2>1, EmitTyped DEF EndBoth, GateTyped
<1> QED
  BY <1>4, <1>5, <1>6 DEF Handle

LEMMA TypeStep == TypeOK /\ [Next]_vars => TypeOK'
<1> SUFFICES ASSUME PhoneTyped, NetTyped, GateTyped, [Next]_vars
             PROVE  PhoneTyped' /\ NetTyped' /\ GateTyped'
  BY TypeParts DEF TypeOK, PhoneTyped, NetTyped, GateTyped
<1>1. ASSUME NEW u \in Users, NEW v \in Users, NEW c \in Calls, StartCall(u, v, c)
      PROVE  PhoneTyped' /\ NetTyped' /\ GateTyped'
  <2> DEFINE f == [ev |-> "initiate", c |-> c, to |-> v]
  <2>1. f \in Requests /\ Send(u, f.ev, f.c, f.to)
    BY <1>1 DEF Requests, StartCall
  <2>2. up' \in [Users -> Seq(Requests)]
    BY <2>1, SendTyped
  <2>3. [c |-> c, peer |-> v, caller |-> TRUE, st |-> "CALLING"] \in Sessions
    BY DEF Sessions, Ringing
  <2>4. session' \in [Users -> Sessions]
    BY <1>1, <2>3 DEF StartCall, PhoneTyped
  <2> QED
    BY <1>1, <2>2, <2>4 DEF StartCall, ArmTimer, PhoneTyped, NetTyped, GateTyped, gateVars
<1>2. ASSUME NEW u \in Users, EndCall(u) \/ RejectCall(u)
      PROVE  PhoneTyped' /\ NetTyped' /\ GateTyped'
  <2>1. session[u].st # "none" /\ (HangUp(u) \/ Decline(u))
    BY <1>2 DEF EndCall, RejectCall, Live
  <2> QED
    BY <1>2, <2>1, HangUpTyped DEF EndCall, RejectCall, PhoneTyped, NetTyped, GateTyped, gateVars
<1>3. ASSUME NEW u \in Users, AcceptCall(u)
      PROVE  PhoneTyped' /\ NetTyped' /\ GateTyped'
  <2>1. session[u].st # "none" /\ SetState(u, "CONNECTED")
    BY <1>3 DEF AcceptCall
  <2>2. session' \in [Users -> Sessions]
    BY <2>1, SetStateTyped
  <2>3. session[u].c \in Calls
    BY <2>1, SessionFacts DEF PhoneTyped
  <2> QED
    BY <1>3, <2>2, <2>3
    DEF AcceptCall, ArmTimer, PhoneTyped, NetTyped, GateTyped, gateVars, netVars
<1>4. ASSUME NEW u \in Users, NEW c \in Calls, OfferFails(u, c) \/ AcceptFails(u, c)
      PROVE  PhoneTyped' /\ NetTyped' /\ GateTyped'
  <2>1. /\ session' \in [Users -> Sessions] /\ timer' \in [Users -> BOOLEAN]
        /\ handled' \in [Users -> SUBSET Calls] /\ resets' \in [Users -> Nat]
        /\ up' \in [Users -> Seq(Requests)]
    <3>1. CASE session[u].st # "none" /\ (HangUp(u) \/ Decline(u))
      BY <3>1, HangUpTyped
    <3>2. CASE UNCHANGED <<session, timer, resets, handled, up>>
      BY <3>2 DEF PhoneTyped, NetTyped
    <3> QED
      BY <1>4, <3>1, <3>2 DEF OfferFails, AcceptFails, In
  <2>2. strays' \subseteq Calls
    BY <1>4, SessionFacts DEF OfferFails, AcceptFails, PhoneTyped
  <2>3. /\ accepting' \in [Users -> SUBSET Calls] /\ offering' \in [Users -> SUBSET Calls]
        /\ fails' \in Nat
    BY <1>4 DEF OfferFails, AcceptFails, PhoneTyped
  <2>4. UNCHANGED <<waking, fresh, ends, online, down, drops, gateVars>>
    BY <1>4 DEF OfferFails, AcceptFails
  <2> QED
    BY <2>1, <2>2, <2>3, <2>4 DEF PhoneTyped, NetTyped, GateTyped, gateVars
<1>5. ASSUME NEW u \in Users, NEW c \in Calls, FinishAccept(u, c)
      PROVE  PhoneTyped' /\ NetTyped' /\ GateTyped'
  <2>1. up' \in [Users -> Seq(Requests)]
    <3>1. CASE In(u, c) /\ Send(u, "accept", c, session[u].peer)
      <4> DEFINE f == [ev |-> "accept", c |-> c, to |-> session[u].peer]
      <4>1. session[u].peer \in Users
        BY <3>1, SessionFacts DEF PhoneTyped, In
      <4>2. f \in Requests /\ Send(u, f.ev, f.c, f.to)
        BY <3>1, <4>1 DEF Requests
      <4> QED
        BY <4>2, SendTyped
    <3>2. CASE UNCHANGED up
      BY <3>2 DEF NetTyped
    <3> QED
      BY <1>5, <3>1, <3>2 DEF FinishAccept
  <2> QED
    BY <1>5, <2>1 DEF FinishAccept, PhoneTyped, NetTyped, GateTyped, gateVars
<1>6. ASSUME NEW u \in Users, Timeout(u)
      PROVE  PhoneTyped' /\ NetTyped' /\ GateTyped'
  <2>1. /\ session' \in [Users -> Sessions] /\ timer' \in [Users -> BOOLEAN]
        /\ handled' \in [Users -> SUBSET Calls] /\ resets' \in [Users -> Nat]
        /\ up' \in [Users -> Seq(Requests)]
    <3>1. CASE session[u].st # "none" /\ (HangUp(u) \/ Decline(u))
      BY <3>1, HangUpTyped
    <3>2. CASE ArmTimer(u, FALSE) /\ UNCHANGED <<session, resets, handled, up>>
      BY <3>2 DEF PhoneTyped, NetTyped, ArmTimer
    <3> QED
      BY <1>6, <3>1, <3>2 DEF Timeout, Ringing
  <2> QED
    BY <1>6, <2>1 DEF Timeout, PhoneTyped, NetTyped, GateTyped, gateVars
<1>7. ASSUME NEW u \in Users, Reset(u) \/ Wake(u)
      PROVE  PhoneTyped' /\ NetTyped' /\ GateTyped'
  <2>1. session' \in [Users -> Sessions]
    <3>1. CASE UNCHANGED session
      BY <3>1 DEF PhoneTyped
    <3>2. CASE session' = [session EXCEPT ![u] = NoSession]
      BY <3>2 DEF PhoneTyped, Sessions
    <3>3. CASE session[u].st # "none" /\ SetState(u, "CONNECTED")
      BY <3>3, SetStateTyped
    <3> QED
      BY <1>7, <3>1, <3>2, <3>3 DEF Reset, Wake
  <2>2. resets' \in [Users -> Nat] /\ waking' \in [Users -> Nat]
    BY <1>7 DEF Reset, Wake, PhoneTyped
  <2> QED
    BY <1>7, <2>1, <2>2 DEF Reset, Wake, PhoneTyped, NetTyped, GateTyped, gateVars, netVars
<1>8. ASSUME NEW u \in Users, Receive(u)
      PROVE  PhoneTyped' /\ NetTyped' /\ GateTyped'
  BY <1>8, ReceiveTyped DEF Receive, PhoneTyped, NetTyped, GateTyped, gateVars
<1>9. ASSUME NEW u \in Users, Arrive(u)
      PROVE  PhoneTyped' /\ NetTyped' /\ GateTyped'
  <2>1. up[u] \in Seq(Requests) /\ up[u] # <<>>
    BY <1>9 DEF NetTyped, Arrive
  <2>2. Head(up[u]) \in Requests /\ Tail(up[u]) \in Seq(Requests)
    BY <2>1, TailTyped
  <2>3. [req |-> Head(up[u]), by |-> u] \in Tasks /\ Head(up[u]).c \in Calls
    BY <2>2 DEF Tasks, Requests
  <2>4. up' \in [Users -> Seq(Requests)]
    BY <1>9, <2>2 DEF Arrive, NetTyped
  <2>5. GateTyped'
    BY <1>9, <2>3 DEF Arrive, GateTyped
  <2> QED
    BY <1>9, <2>4, <2>5 DEF Arrive, PhoneTyped, NetTyped, phoneVars
<1>10. ASSUME NEW u \in Users, Disconnect(u) \/ Reconnect(u)
       PROVE  PhoneTyped' /\ NetTyped' /\ GateTyped'
  <2>1. <<>> \in Seq(Requests) /\ <<>> \in Seq(Events)
    OBVIOUS
  <2>2. PhoneTyped' /\ GateTyped'
    BY <1>10 DEF Disconnect, Reconnect, PhoneTyped, GateTyped, phoneVars, gateVars
  <2>3. CASE Disconnect(u)
    BY <2>1, <2>2, <2>3 DEF Disconnect, NetTyped
  <2>4. CASE Reconnect(u)
    BY <2>2, <2>4 DEF Reconnect, NetTyped
  <2> QED
    BY <1>10, <2>3, <2>4
<1>11. ASSUME NEW t \in task, Handle(t)
       PROVE  PhoneTyped' /\ NetTyped' /\ GateTyped'
  BY <1>11, HandleTyped DEF Handle, PhoneTyped, NetTyped, GateTyped, phoneVars
<1>12. CASE UNCHANGED vars
  BY <1>12 DEF vars, phoneVars, netVars, gateVars, PhoneTyped, NetTyped, GateTyped
<1> QED
  BY <1>1, <1>2, <1>3, <1>4, <1>5, <1>6, <1>7, <1>8, <1>9, <1>10, <1>11, <1>12
  DEF Next, Phone

LEMMA InitTyped == Init => TypeOK
<1>1. <<>> \in Seq(Requests) /\ <<>> \in Seq(Events)
  OBVIOUS
<1> QED
  BY <1>1 DEF Init, TypeOK, Sessions

\* Sessions, frames and handlers keep their types (TypeOK): the session an event or a timer
\* goes on with is always a whole one.
THEOREM TypeCorrect == Spec => []TypeOK
  BY InitTyped, TypeStep, PTL DEF Spec

-----------------------------------------------------------------------------
(* Live sessions.                                                          *)

\* A change of its state leaves everything else of a session as it is.
LEMMA SetStateFacts ==
  ASSUME PhoneTyped, NEW u \in Users, session[u].st # "none",
         NEW st \in Ringing \cup {"CONNECTED", "ENDED"}, SetState(u, st), NEW x \in Users
  PROVE  /\ session'[x].st = IF x = u THEN st ELSE session[x].st
         /\ session[x].st # "none" => /\ session'[x].c = session[x].c
                                      /\ session'[x].peer = session[x].peer
                                      /\ session'[x].caller = session[x].caller
<1>1. session[u] \in Sessions /\ session[u] # NoSession
  BY DEF PhoneTyped, NoSession
<1>2. session' = [session EXCEPT ![u] = [session[u] EXCEPT !.st = st]]
  BY DEF SetState, PhoneTyped
<1>3. session'[x] = IF x = u THEN [session[u] EXCEPT !.st = st] ELSE session[x]
  BY <1>2 DEF PhoneTyped
<1> QED
  BY <1>1, <1>3 DEF Sessions

LEMMA DismissFacts ==
  ASSUME PhoneTyped, NEW u \in Users, session[u].st # "none", Dismiss(u), NEW x \in Users
  PROVE  /\ session'[x].st = IF x = u THEN "ENDED" ELSE session[x].st
         /\ session[x].st # "none" => /\ session'[x].c = session[x].c
                                      /\ session'[x].peer = session[x].peer
                                      /\ session'[x].caller = session[x].caller
         /\ handled'[x] = IF x = u THEN handled[u] \cup {session[u].c} ELSE handled[x]
<1>1. SetState(u, "ENDED")
  BY DEF Dismiss
<1>2. handled' = [handled EXCEPT ![u] = handled[u] \cup {session[u].c}]
  BY DEF Dismiss
<1> QED
  BY <1>1, <1>2, SetStateFacts DEF PhoneTyped

Kept(x) == Live(session[x]) => /\ (session'[x]).st # "none"
                               /\ (session'[x]).c = session[x].c

LEMMA LiveStep ==
  ASSUME TypeOK, [Next]_vars, NEW x \in Users
  PROVE  Kept(x)
<1>0. PhoneTyped
  BY TypeParts
<1>1. CASE UNCHANGED session
  BY <1>1 DEF Kept, Live
<1>2. ASSUME NEW u \in Users, session[u].st # "none", Dismiss(u)
      PROVE  Kept(x)
  BY <1>0, <1>2, DismissFacts DEF Kept, Live
<1>3. ASSUME NEW u \in Users, session[u].st # "none",
             NEW st \in Ringing \cup {"CONNECTED", "ENDED"}, SetState(u, st)
      PROVE  Kept(x)
  BY <1>0, <1>3, SetStateFacts DEF Kept, Live, Ringing
<1>4. ASSUME NEW u \in Users, NEW v \in Users, NEW c \in Calls, StartCall(u, v, c)
      PROVE  Kept(x)
  BY <1>0, <1>4 DEF StartCall, Kept, Live, PhoneTyped
<1>5. ASSUME NEW u \in Users, EndCall(u) \/ RejectCall(u) \/ Timeout(u)
      PROVE  Kept(x)
  BY <1>1, <1>2, <1>5
  DEF EndCall, RejectCall, Timeout, HangUp, Decline, Ringing, Live
<1>6. ASSUME NEW u \in Users, NEW c \in Calls, OfferFails(u, c) \/ AcceptFails(u, c)
      PROVE  Kept(x)
  BY <1>1, <1>2, <1>6 DEF OfferFails, AcceptFails, HangUp, Decline, In
<1>7. ASSUME NEW u \in Users, AcceptCall(u) \/ Wake(u)
      PROVE  Kept(x)
  BY <1>1, <1>3, <1>7 DEF AcceptCall, Wake
<1>8. ASSUME NEW u \in Users, Reset(u)
      PROVE  Kept(x)
  BY <1>0, <1>8 DEF Reset, Kept, Live, PhoneTyped
<1>9. ASSUME NEW u \in Users, Receive(u)
      PROVE  Kept(x)
  <2> DEFINE e == Head(down[u])
  <2>1. CASE OnIncoming(u, e)
    <3>1. CASE /\ ~(Live(session[u]) /\ ~In(u, e.c))
               /\ session' = [session EXCEPT ![u] = [c |-> e.c, peer |-> e.from, caller |-> FALSE,
                                                     st |-> "INCOMING"]]
      <4>1. session'[u].c = e.c /\ session'[u].st = "INCOMING"
        BY <1>0, <3>1 DEF PhoneTyped
      <4>2. x # u => session'[x] = session[x]
        BY <1>0, <3>1 DEF PhoneTyped
      <4> QED
        BY <3>1, <4>1, <4>2 DEF Kept, Live, In
    <3> QED
      BY <1>1, <2>1, <3>1 DEF OnIncoming
  <2>2. CASE OnProgress(u, e)
    <3>1. CASE In(u, e.c) /\ session[u].st # "CONNECTED"
      <4>1. \E st \in {"RINGING", "CALLING"} : SetState(u, st)
        BY <2>2, <3>1 DEF OnProgress
      <4> QED
        BY <1>3, <3>1, <4>1 DEF In, Ringing
    <3> QED
      BY <1>1, <2>2, <3>1 DEF OnProgress
  <2>3. CASE OnAccepted(u, e)
    BY <1>1, <2>3 DEF OnAccepted
  <2>4. CASE OnEnded(u, e)
    BY <1>1, <1>2, <2>4 DEF OnEnded, In
  <2> QED
    BY <1>9, <2>1, <2>2, <2>3, <2>4 DEF Receive
<1>10. CASE \/ \E u \in Users, c \in Calls : FinishAccept(u, c)
            \/ \E u \in Users : Arrive(u) \/ Disconnect(u) \/ Reconnect(u)
            \/ \E t \in task : Handle(t)
            \/ UNCHANGED vars
  BY <1>1, <1>10 DEF FinishAccept, Arrive, Disconnect, Reconnect, Handle, vars, phoneVars
<1> QED
  BY <1>4, <1>5, <1>6, <1>7, <1>8, <1>9, <1>10 DEF Next, Phone

\* No event and no handler replaces a live session (LiveSessionIsKept): whatever reaches a
\* phone late, the call it is in ends before another takes its place.
THEOREM LiveSessionsStay == Spec => LiveSessionIsKept
<1>1. TypeOK /\ [Next]_vars => \A x \in Users : Kept(x)
  BY LiveStep
<1>2. (\A x \in Users : Kept(x))
       => [\A u \in Users : Live(session[u]) => /\ (session'[u]).st # "none"
                                                /\ (session'[u]).c = session[u].c]_vars
  BY DEF Kept
<1> QED
  BY <1>1, <1>2, TypeCorrect, PTL DEF Spec, LiveSessionIsKept

-----------------------------------------------------------------------------
(* The steps of the phones.                                                *)

\* What a phone may do in a step that begins no session: it may leave its call, telling the
\* gateway unless that call is known to be over, send a frame that is no call:initiate, and
\* take the first event of its queue, after an end of which it does not ring for that call.
Turn(by, to, x) ==
  /\ session'[x].st # "none" =>
       /\ session[x].st # "none" /\ session'[x].c = session[x].c
       /\ session'[x].peer = session[x].peer /\ session'[x].caller = session[x].caller
  /\ session'[x].st = "INCOMING" => session[x].st = "INCOMING"
  /\ \A c \in accepting'[x] : c \in accepting[x] \/ (c \notin fresh /\ x = to[c])
  /\ \A c \in handled'[x] : c \in handled[x] \/ (In(x, c) /\ session'[x].st # "INCOMING")
  /\ Live(session[x]) /\ session[x].c \notin cancelled
       => \/ Live(session'[x]) /\ session'[x].c = session[x].c
          \/ Has(up'[x], "end", session[x].c)
  /\ \/ up'[x] = up[x]
     \/ \E f \in Asks(by, to, x)' : f.ev # "initiate" /\ up'[x] = Append(up[x], f)
  /\ \/ down'[x] = down[x]
     \/ /\ down[x] # <<>> /\ down'[x] = Tail(down[x])
        /\ Head(down[x]).ev = "ended" => \A c \in Calls : Head(down[x]).c = c => ~Incoming(x, c)'

\* The queues of a phone after a step of it.
LEMMA TurnQueues ==
  ASSUME TypeOK, NEW by \in [Calls -> Users], NEW to \in [Calls -> Users], Good(by, to),
         UNCHANGED <<fresh, cancelled>>, strays \subseteq strays',
         NEW x \in Users, Turn(by, to, x)
  PROVE  /\ up'[x] \in Seq(Asks(by, to, x)') /\ down'[x] \in Seq(Tells(by, to, x)')
         /\ \A c : Has(up'[x], "initiate", c) <=> Has(up[x], "initiate", c)
         /\ \A c : Has(up[x], "end", c) => Has(up'[x], "end", c)
         /\ \A c : Once(up[x], "initiate", c) => Once(up'[x], "initiate", c)
         /\ \A c : Has(down'[x], "incoming", c) => Has(down[x], "incoming", c)
         /\ \A c : Once(down[x], "incoming", c) => Once(down'[x], "incoming", c)
         /\ \A c : Behind(down[x], c)
              => \/ Behind(down'[x], c)
                 \/ ~Incoming(x, c)' /\ ~Has(down'[x], "incoming", c)
<1>1. Asks(by, to, x) \subseteq Asks(by, to, x)' /\ Tells(by, to, x) = Tells(by, to, x)'
  BY DEF Asks, Tells
<1>2. up[x] \in Seq(Asks(by, to, x)) /\ down[x] \in Seq(Tells(by, to, x))
  BY DEF Good, Frames
<1>3. up[x] \in Seq(Asks(by, to, x)')
  BY <1>1, <1>2, SeqGrows
<1>4. /\ up'[x] \in Seq(Asks(by, to, x)')
      /\ \A c : Has(up'[x], "initiate", c) <=> Has(up[x], "initiate", c)
      /\ \A c : Has(up[x], "end", c) => Has(up'[x], "end", c)
      /\ \A c : Once(up[x], "initiate", c) => Once(up'[x], "initiate", c)
  <2>1. CASE up'[x] = up[x]
    BY <1>3, <2>1
  <2>2. ASSUME NEW f \in Asks(by, to, x)', f.ev # "initiate", up'[x] = Append(up[x], f)
        PROVE  <1>4!1 /\ <1>4!2 /\ <1>4!3 /\ <1>4!4
    BY <1>3, <2>2, AppendTyped, HasAppend, OnceAppend
  <2> QED
    BY <2>1, <2>2 DEF Turn
<1>5. /\ down'[x] \in Seq(Tells(by, to, x)')
      /\ \A c : Has(down'[x], "incoming", c) => Has(down[x], "incoming", c)
      /\ \A c : Once(down[x], "incoming", c) => Once(down'[x], "incoming", c)
      /\ \A c : Behind(down[x], c)
           => \/ Behind(down'[x], c)
              \/ ~Incoming(x, c)' /\ ~Has(down'[x], "incoming", c)
  <2>1. CASE down'[x] = down[x]
    BY <1>1, <1>2, <2>1
  <2>2. CASE /\ down[x] # <<>> /\ down'[x] = Tail(down[x])
             /\ Head(down[x]).ev = "ended"
                  => \A c \in Calls : Head(down[x]).c = c => ~Incoming(x, c)'
    <3>1. Head(down[x]).c \in Calls
      BY <1>2, <2>2, TailTyped DEF Tells, Events
    <3>2. \A c : Head(down[x]).ev = "ended" /\ Head(down[x]).c = c => ~Incoming(x, c)'
      BY <2>2, <3>1
    <3> QED
      BY <1>1, <1>2, <2>2, <3>2, TailTyped, HasTail, OnceTail, BehindTail
  <2> QED
    BY <2>1, <2>2 DEF Turn
<1> QED
  BY <1>4, <1>5

LEMMA TurnStep ==
  ASSUME TypeOK, NEW by \in [Calls -> Users], NEW to \in [Calls -> Users], Good(by, to),
         UNCHANGED <<fresh, task, cancelled, active, online>>, strays \subseteq strays',
         \A x \in Users : Turn(by, to, x)
  PROVE  Good(by, to)'
<1>1. /\ \A x \in Users : online'[x]
      /\ (active \cap cancelled = {})'
  BY DEF Good
<1>2. Unused'
  BY DEF Good, Unused, Turn, In
<1>3. Parties(by, to)'
  BY DEF Good, Parties, Turn
<1>4. Frames(by, to)'
  <2>1. \A x \in Users : up'[x] \in Seq(Asks(by, to, x)') /\ down'[x] \in Seq(Tells(by, to, x)')
    BY TurnQueues
  <2>2. \A x \in Users : Asks(by, to, x) \subseteq Asks(by, to, x)'
    BY DEF Asks
  <2>3. \A t \in task : t.by \in Users
    BY DEF TypeOK, Tasks
  <2> QED
    BY <2>1, <2>2, <2>3 DEF Good, Frames
<1>5. RingsOnce(by, to)'
  <2> SUFFICES ASSUME NEW c \in Calls \ fresh PROVE OneRing(by[c], to[c], c)'
    BY DEF RingsOnce
  <2>1. by[c] \in Users /\ to[c] \in Users /\ OneRing(by[c], to[c], c)
    BY DEF Good, RingsOnce
  <2>2. /\ Once(up'[by[c]], "initiate", c) /\ Once(down'[to[c]], "incoming", c)
        /\ Has(up'[by[c]], "initiate", c) <=> Has(up[by[c]], "initiate", c)
        /\ Has(down'[to[c]], "incoming", c) => Has(down[to[c]], "incoming", c)
    BY <2>1, TurnQueues DEF OneRing
  <2>3. /\ In(to[c], c)' => In(to[c], c)
        /\ Incoming(to[c], c)' => Incoming(to[c], c)
        /\ c \in handled'[to[c]] => c \in handled[to[c]] \/ (In(to[c], c) /\ ~Incoming(to[c], c)')
    BY <2>1 DEF Turn, In, Incoming
  <2>4. Calling(c)' = Calling(c)
    BY DEF Calling
  <2> QED
    BY <2>1, <2>2, <2>3, <2>4 DEF OneRing
<1>6. CallerLives(by)'
  <2> SUFFICES ASSUME NEW c \in Calls \ (fresh \cup cancelled)
               PROVE  EndSent(c)' \/ (In(by[c], c)' /\ Live(session'[by[c]]))
    BY DEF CallerLives
  <2>1. by[c] \in Users
    OBVIOUS
  <2>2. CASE EndSent(c)
    BY <2>2, TurnQueues DEF EndSent
  <2>3. CASE In(by[c], c) /\ Live(session[by[c]])
    BY <2>1, <2>3 DEF Turn, In, Live, EndSent
  <2> QED
    BY <2>2, <2>3 DEF Good, CallerLives
<1>7. EndReaches(to)'
  <2> SUFFICES ASSUME NEW c \in cancelled \ strays',
                      Incoming(to[c], c)' \/ Has(down'[to[c]], "incoming", c)
               PROVE  Ending(c) \/ Behind(down'[to[c]], c)
    BY DEF EndReaches, Ending
  <2>1. c \in Calls /\ to[c] \in Users /\ c \notin strays
    BY DEF TypeOK
  <2>2. Incoming(to[c], c)' => Incoming(to[c], c)
    BY <2>1 DEF Turn, In, Incoming
  <2>3. Ending(c) \/ Behind(down[to[c]], c)
    BY <2>1, <2>2, TurnQueues DEF Good, EndReaches
  <2> QED
    BY <2>1, <2>3, TurnQueues
<1> QED
  BY <1>1, <1>2, <1>3, <1>4, <1>5, <1>6, <1>7 DEF Good

\* A phone to which nothing happens.
LEMMA StillTurn ==
  ASSUME NEW by, NEW to, NEW x \in Users,
         session'[x] = session[x], accepting'[x] \subseteq accepting[x],
         handled'[x] = handled[x], up'[x] = up[x], down'[x] = down[x]
  PROVE  Turn(by, to, x)
  BY DEF Turn, Live

\* Leaving a call: the callee leaves, or is told, or the call went astray.
LEMMA LeaveStep ==
  ASSUME TypeOK, NEW by \in [Calls -> Users], NEW to \in [Calls -> Users], Good(by, to),
         NEW u \in Users, NEW v \in Users, session[u].st # "none",
         Dismiss(u), Send(u, "end", session[u].c, v),
         \/ session[u].c \in strays' \/ u = to[session[u].c] \/ v = to[session[u].c],
         \A x \in Users : accepting'[x] \subseteq accepting[x], strays \subseteq strays',
         UNCHANGED <<fresh, task, cancelled, active, online, down>>
  PROVE  Good(by, to)'
<1> DEFINE c == session[u].c
           f == [ev |-> "end", c |-> c, to |-> v]
<1>0. PhoneTyped /\ NetTyped
  BY TypeParts
<1>1. c \in Calls /\ c \notin fresh
  BY <1>0, SessionFacts DEF PhoneTyped, Good, Unused, In
<1>2. f \in Asks(by, to, u)'
  BY <1>1 DEF Asks, Requests
<1>3. \A x \in Users : up'[x] = IF x = u THEN Append(up[u], f) ELSE up[x]
  BY <1>0 DEF Send, NetTyped, Good
<1>4. up[u] \in Seq(Requests) /\ f \in Requests
  BY <1>0, <1>2 DEF NetTyped, Asks
<1>5. Has(up'[u], "end", c)
  BY <1>3, <1>4, HasAppend
<1>6. Turn(by, to, u)
  <2>1. /\ session'[u].st = "ENDED" /\ session'[u].c = c
        /\ session'[u].peer = session[u].peer /\ session'[u].caller = session[u].caller
        /\ handled'[u] = handled[u] \cup {c}
    BY <1>0, DismissFacts
  <2> HIDE DEF f
  <2>2. \A d \in handled'[u] : d \in handled[u] \/ (In(u, d) /\ session'[u].st # "INCOMING")
    BY <2>1 DEF In
  <2>3. f.ev # "initiate" /\ up'[u] = Append(up[u], f)
    BY <1>3 DEF f
  <2> QED
    BY <1>2, <1>5, <2>1, <2>2, <2>3 DEF Turn
<1>7. \A x \in Users \ {u} : session'[x] = session[x] /\ handled'[x] = handled[x]
  BY <1>0 DEF Dismiss, SetState, PhoneTyped
<1>8. \A x \in Users : Turn(by, to, x)
  BY <1>3, <1>6, <1>7, StillTurn
<1> QED
  BY <1>8, TurnStep

\* Who is the caller, and who the callee, of a phone's session.
LEMMA WhoIsWho ==
  ASSUME TypeOK, NEW by \in [Calls -> Users], NEW to \in [Calls -> Users], Good(by, to),
         NEW u \in Users, session[u].st # "none"
  PROVE  /\ session[u].c \in Calls \ fresh /\ session[u].peer \in Users
         /\ session[u].caller
              => u = by[session[u].c] /\ session[u].peer = to[session[u].c]
                 /\ session[u].st # "INCOMING" /\ u # to[session[u].c]
         /\ ~session[u].caller => u = to[session[u].c] /\ session[u].peer = by[session[u].c]
<1>1. session[u].c \in Calls /\ session[u].peer \in Users /\ session[u].caller \in BOOLEAN
  BY SessionFacts DEF TypeOK
<1>2. session[u].c \notin fresh
  BY DEF Good, Unused, In
<1> QED
  BY <1>1, <1>2 DEF Good, Parties

LEMMA HangUpStep ==
  ASSUME TypeOK, NEW by \in [Calls -> Users], NEW to \in [Calls -> Users], Good(by, to),
         NEW u \in Users, session[u].st # "none",
         HangUp(u) \/ (Decline(u) /\ (session[u].caller => session[u].c \in strays')),
         \A x \in Users : accepting'[x] \subseteq accepting[x], strays \subseteq strays',
         UNCHANGED <<fresh, task, cancelled, active, online, down>>
  PROVE  Good(by, to)'
<1>1. CASE HangUp(u)
  BY <1>1, WhoIsWho, LeaveStep DEF HangUp
<1>2. CASE Decline(u) /\ session[u].caller /\ session[u].c \in strays'
  BY <1>2, WhoIsWho, LeaveStep DEF Decline
<1>3. CASE Decline(u) /\ ~session[u].caller
  BY <1>3, WhoIsWho, LeaveStep DEF Decline
<1> QED
  BY <1>1, <1>2, <1>3

\* All ways in which a phone ends a call by itself.
LEMMA LeavingSteps ==
  ASSUME TypeOK, NEW by \in [Calls -> Users], NEW to \in [Calls -> Users], Good(by, to),
         NEW u \in Users,
         \/ EndCall(u) \/ RejectCall(u) \/ Timeout(u)
         \/ \E c \in Calls : OfferFails(u, c) \/ AcceptFails(u, c)
  PROVE  Good(by, to)'
<1>0. PhoneTyped /\ NetTyped
  BY TypeParts
<1>1. CASE EndCall(u)
  BY <1>1, HangUpStep DEF EndCall, Live, gateVars
<1>2. CASE RejectCall(u)
  BY <1>2, HangUpStep, WhoIsWho DEF RejectCall, gateVars
<1>3. CASE Timeout(u)
  <2>1. CASE session[u].st \in Ringing
    <3>1. HangUp(u) \/ (Decline(u) /\ ~session[u].caller)
      BY <1>3, <2>1 DEF Timeout
    <3> QED
      BY <1>3, <2>1, <3>1, HangUpStep DEF Timeout, gateVars, Ringing
  <2>2. CASE session[u].st \notin Ringing
    <3>1. \A x \in Users : Turn(by, to, x)
      BY <1>3, <2>2, StillTurn DEF Timeout
    <3> QED
      BY <1>3, <3>1, TurnStep DEF Timeout, gateVars
  <2> QED
    BY <2>1, <2>2
<1>4. ASSUME NEW c \in Calls, OfferFails(u, c)
      PROVE  Good(by, to)'
  <2>1. CASE In(u, c)
    BY <1>4, <2>1, HangUpStep DEF OfferFails, In, gateVars
  <2>2. CASE ~In(u, c)
    <3>1. \A x \in Users : Turn(by, to, x)
      BY <1>4, <2>2, StillTurn DEF OfferFails
    <3> QED
      BY <1>4, <3>1, TurnStep DEF OfferFails, gateVars
  <2> QED
    BY <2>1, <2>2
<1>5. ASSUME NEW c \in Calls, AcceptFails(u, c)
      PROVE  Good(by, to)'
  <2>1. /\ \A x \in Users : accepting'[x] \subseteq accepting[x]
        /\ strays \subseteq strays'
        /\ UNCHANGED <<fresh, task, cancelled, active, online, down>>
    BY <1>0, <1>5 DEF AcceptFails, PhoneTyped, gateVars
  <2>2. CASE session[u].st # "none"
    <3>1. Decline(u)
      BY <1>5, <2>2 DEF AcceptFails
    <3>2. u = to[c]
      BY <1>5 DEF AcceptFails, Good, Parties
    <3>3. session[u].caller => ~In(u, c)
      BY <2>2, <3>2, WhoIsWho DEF In
    <3>4. session[u].caller => session[u].c \in strays'
      BY <1>5, <2>2, <3>3 DEF AcceptFails
    <3> QED
      BY <2>1, <2>2, <3>1, <3>4, HangUpStep
  <2>3. CASE session[u].st = "none"
    <3>1. UNCHANGED <<session, timer, resets, handled, up>>
      BY <1>5, <2>3 DEF AcceptFails
    <3>2. \A x \in Users : Turn(by, to, x)
      BY <2>1, <3>1, StillTurn
    <3> QED
      BY <2>1, <3>2, TurnStep
  <2> QED
    BY <2>2, <2>3
<1> QED
  BY <1>1, <1>2, <1>3, <1>4, <1>5

\* The steps that only change the state of a session, or clear one that has ended.
LEMMA RestateTurn ==
  ASSUME TypeOK, NEW by, NEW to, NEW u \in Users, session[u].st # "none",
         NEW st \in {"CALLING", "RINGING", "CONNECTED"}, SetState(u, st), handled' = handled,
         NEW x \in Users, \A c \in accepting'[x] : c \in accepting[x] \/ (c \notin fresh /\ x = to[c]),
         up'[x] = up[x],
         \/ down'[x] = down[x]
         \/ down[x] # <<>> /\ down'[x] = Tail(down[x]) /\ Head(down[x]).ev # "ended"
  PROVE  Turn(by, to, x)
<1>1. PhoneTyped /\ st \in Ringing \cup {"CONNECTED", "ENDED"}
  BY TypeParts DEF Ringing
<1>2. /\ session'[x].st = IF x = u THEN st ELSE session[x].st
      /\ session[x].st # "none" => /\ session'[x].c = session[x].c
                                   /\ session'[x].peer = session[x].peer
                                   /\ session'[x].caller = session[x].caller
  BY <1>1, SetStateFacts
<1> QED
  BY <1>2 DEF Turn, Live

LEMMA RestatingSteps ==
  ASSUME TypeOK, NEW by \in [Calls -> Users], NEW to \in [Calls -> Users], Good(by, to),
         NEW u \in Users, AcceptCall(u) \/ Wake(u) \/ Reset(u)
  PROVE  Good(by, to)'
<1>0. PhoneTyped
  BY TypeParts
<1>1. CASE AcceptCall(u)
  <2>1. session[u].st # "none" /\ SetState(u, "CONNECTED")
    BY <1>1 DEF AcceptCall
  <2>2. session[u].c \notin fresh /\ u = to[session[u].c]
    BY <1>1, <2>1, WhoIsWho, SessionFacts DEF AcceptCall, TypeOK
  <2>3. \A x \in Users : \A c \in accepting'[x] : c \in accepting[x] \/ (c \notin fresh /\ x = to[c])
    BY <1>0, <1>1, <2>2 DEF AcceptCall, PhoneTyped
  <2>4. \A x \in Users : Turn(by, to, x)
    BY <1>1, <2>1, <2>3, RestateTurn DEF AcceptCall, netVars
  <2> QED
    BY <1>1, <2>4, TurnStep DEF AcceptCall, netVars, gateVars
<1>2. CASE Wake(u)
  <2>1. \A x \in Users : Turn(by, to, x)
    <3>1. CASE session[u].st = "none"
      BY <1>2, <3>1, StillTurn DEF Wake, netVars
    <3>2. CASE session[u].st # "none"
      <4>1. SetState(u, "CONNECTED")
        BY <1>2, <3>2 DEF Wake
      <4> QED
        BY <1>2, <3>2, <4>1, RestateTurn DEF Wake, netVars
    <3> QED
      BY <3>1, <3>2
  <2> QED
    BY <1>2, <2>1, TurnStep DEF Wake, netVars, gateVars
<1>3. CASE Reset(u)
  <2>1. ASSUME NEW x \in Users PROVE Turn(by, to, x)
    <3>1. CASE session'[x] = session[x]
      BY <1>3, <3>1, StillTurn DEF Reset, netVars
    <3>2. CASE session[x].st = "ENDED" /\ session'[x] = NoSession
      BY <1>3, <3>2 DEF Turn, Reset, NoSession, Live, netVars
    <3> QED
      BY <1>0, <1>3, <3>1, <3>2 DEF Reset, PhoneTyped
  <2> QED
    BY <1>3, <2>1, TurnStep DEF Reset, netVars, gateVars
<1> QED
  BY <1>1, <1>2, <1>3

\* A phone that says something of a call, other than that it is placed.
LEMMA SendTurn ==
  ASSUME TypeOK, NEW by \in [Calls -> Users], NEW to \in [Calls -> Users], Good(by, to),
         NEW u \in Users, NEW c \in Calls \ fresh, NEW v \in Users,
         NEW ev \in {"ringing", "accept", "end"}, Send(u, ev, c, v),
         ev = "end" => u = to[c], UNCHANGED <<session, handled, fresh, strays>>,
         \A x \in Users : accepting'[x] \subseteq accepting[x],
         \A x \in Users : \/ down'[x] = down[x]
                          \/ down[x] # <<>> /\ down'[x] = Tail(down[x]) /\ Head(down[x]).ev # "ended",
         NEW x \in Users
  PROVE  Turn(by, to, x)
<1> DEFINE f == [ev |-> ev, c |-> c, to |-> v]
<1>1. f \in Asks(by, to, u)'
  BY DEF Asks, Requests
<1>2. up'[x] = IF x = u THEN Append(up[u], f) ELSE up[x]
  BY DEF Send, TypeOK, Good
<1>3. f.ev # "initiate"
  OBVIOUS
<1> HIDE DEF f
<1>4. up'[x] = up[x] \/ \E g \in Asks(by, to, x)' : g.ev # "initiate" /\ up'[x] = Append(up[x], g)
  BY <1>1, <1>2, <1>3
<1> QED
  BY <1>4 DEF Turn, Live

LEMMA FinishAcceptStep ==
  ASSUME TypeOK, NEW by \in [Calls -> Users], NEW to \in [Calls -> Users], Good(by, to),
         NEW u \in Users, NEW c \in Calls, FinishAccept(u, c)
  PROVE  Good(by, to)'
<1>1. \A x \in Users : accepting'[x] \subseteq accepting[x]
  BY DEF FinishAccept, TypeOK
<1>2. \A x \in Users : Turn(by, to, x)
  <2>1. CASE In(u, c)
    <3>1. c \in Calls \ fresh /\ session[u].peer \in Users
      BY <2>1, WhoIsWho DEF In
    <3> QED
      BY <1>1, <2>1, <3>1, SendTurn DEF FinishAccept
  <2>2. CASE ~In(u, c)
    BY <1>1, <2>2, StillTurn DEF FinishAccept
  <2> QED
    BY <2>1, <2>2
<1> QED
  BY <1>2, TurnStep DEF FinishAccept, gateVars

-----------------------------------------------------------------------------
(* The steps of the phones that begin a session.                           *)

\* A ring that finds the phone free: nothing else of this call is on its way any more.
LEMMA RingStep ==
  ASSUME TypeOK, NEW by \in [Calls -> Users], NEW to \in [Calls -> Users], Good(by, to),
         NEW u \in Users, Receive(u), Head(down[u]).ev = "incoming", ~Live(session[u]),
         session' = [session EXCEPT ![u] = [c |-> Head(down[u]).c, peer |-> Head(down[u]).from,
                                            caller |-> FALSE, st |-> "INCOMING"]],
         Send(u, "ringing", Head(down[u]).c, Head(down[u]).from), handled' = handled
  PROVE  Good(by, to)'
<1> DEFINE e == Head(down[u])
           c == e.c
           f == [ev |-> "ringing", c |-> c, to |-> e.from]
<1>0. UNCHANGED <<accepting, fresh, online, strays, task, cancelled, active>>
  BY DEF Receive, gateVars
<1>1. down[u] # <<>> /\ down' = [down EXCEPT ![u] = Tail(@)]
  BY DEF Receive
<1>2. e \in Tells(by, to, u) /\ down[u] \in Seq(Tells(by, to, u))
  BY <1>1, TailTyped DEF Good, Frames
<1>3. c \in Calls \ fresh /\ u = to[c] /\ e.from = by[c] /\ e.from \in Users
  BY <1>2 DEF Tells, Events
<1>4. f \in Asks(by, to, u) /\ f.ev = "ringing"
  BY <1>3 DEF Asks, Requests
<1>5. \A x \in Users : up'[x] = IF x = u THEN Append(up[u], f) ELSE up[x]
  BY DEF Send, TypeOK, Good
<1>6. \A x \in Users : down'[x] = IF x = u THEN Tail(down[u]) ELSE down[x]
  BY <1>1 DEF TypeOK
<1>7. \A x \in Users : session'[x] = IF x = u THEN [c |-> c, peer |-> e.from, caller |-> FALSE,
                                                    st |-> "INCOMING"] ELSE session[x]
  BY DEF TypeOK
<1>8. OneRing(by[c], to[c], c)
  BY <1>3 DEF Good, RingsOnce
<1>9. Has(down[u], "incoming", c)
  BY <1>1, <1>2, HasTail
<1>10. /\ Once(Tail(down[u]), "incoming", c) /\ ~Has(Tail(down[u]), "incoming", c)
       /\ ~In(u, c) /\ c \notin handled[u] /\ ~Calling(c) /\ ~Has(up[by[c]], "initiate", c)
  BY <1>1, <1>2, <1>3, <1>8, <1>9, OnceTail DEF OneRing
<1> HIDE DEF f, e, c
<1>11. ASSUME NEW x \in Users
       PROVE  /\ up'[x] \in Seq(Asks(by, to, x)) /\ down'[x] \in Seq(Tells(by, to, x))
              /\ \A d : Has(up'[x], "initiate", d) <=> Has(up[x], "initiate", d)
              /\ \A d : Has(up[x], "end", d) => Has(up'[x], "end", d)
              /\ \A d : Once(up[x], "initiate", d) => Once(up'[x], "initiate", d)
              /\ \A d : Has(down'[x], "incoming", d) => Has(down[x], "incoming", d)
              /\ \A d : Once(down[x], "incoming", d) => Once(down'[x], "incoming", d)
              /\ \A d : Behind(down[x], d) => Behind(down'[x], d)
  <2>1. up[x] \in Seq(Asks(by, to, x)) /\ down[x] \in Seq(Tells(by, to, x))
    BY DEF Good, Frames
  <2>2. CASE x = u
    <3>1. up'[x] = Append(up[x], f) /\ down'[x] = Tail(down[x]) /\ Head(down[x]).ev = "incoming"
      BY <1>5, <1>6, <2>2
    <3>2. down'[x] \in Seq(Tells(by, to, x)) /\ up'[x] \in Seq(Asks(by, to, x))
      BY <1>1, <1>4, <2>1, <2>2, <3>1, TailTyped, AppendTyped
    <3>3. \A ev, d : Has(up'[x], ev, d) <=> Has(up[x], ev, d) \/ (f.ev = ev /\ f.c = d)
      BY <1>4, <2>1, <2>2, <3>1, HasAppend
    <3>4. \A d : Once(up[x], "initiate", d) => Once(up'[x], "initiate", d)
      BY <1>4, <2>1, <2>2, <3>1, OnceAppend
    <3>5. \A ev, d : Has(down'[x], ev, d) => Has(down[x], ev, d)
      BY <1>1, <2>1, <2>2, <3>1, HasTail
    <3>6. \A ev, d : Once(down[x], ev, d) => Once(down'[x], ev, d)
      BY <1>1, <2>1, <2>2, <3>1, OnceTail
    <3>7. \A d : Behind(down[x], d) => Behind(down'[x], d)
      BY <1>1, <2>1, <2>2, <3>1, BehindTail
    <3> QED
      BY <1>4, <3>2, <3>3, <3>4, <3>5, <3>6, <3>7
  <2>3. CASE x # u
    BY <1>5, <1>6, <2>1, <2>3
  <2> QED
    BY <2>2, <2>3
<1>12. \A x \in Users : Asks(by, to, x)' = Asks(by, to, x) /\ Tells(by, to, x)' = Tells(by, to, x)
  BY <1>0 DEF Asks, Tells
<1>13. (\A x \in Users : online[x])' /\ (active \cap cancelled = {})'
  BY <1>0 DEF Good
<1>14. Unused'
  BY <1>0, <1>3, <1>7 DEF Good, Unused, In
<1>15. Parties(by, to)'
  BY <1>0, <1>3, <1>7 DEF Good, Parties
<1>16. Frames(by, to)'
  <2>1. \A t \in task : t.by \in Users
    BY DEF TypeOK, Tasks
  <2> QED
    BY <1>0, <1>11, <1>12, <2>1 DEF Good, Frames
<1>17. RingsOnce(by, to)'
  <2> SUFFICES ASSUME NEW d \in Calls \ fresh PROVE OneRing(by[d], to[d], d)'
    BY <1>0 DEF RingsOnce
  <2>1. by[d] \in Users /\ to[d] \in Users /\ OneRing(by[d], to[d], d)
    BY DEF Good, RingsOnce
  <2>2. /\ Once(up'[by[d]], "initiate", d) /\ Once(down'[to[d]], "incoming", d)
        /\ Has(up'[by[d]], "initiate", d) <=> Has(up[by[d]], "initiate", d)
        /\ Has(down'[to[d]], "incoming", d) => Has(down[to[d]], "incoming", d)
    BY <1>11, <2>1 DEF OneRing
  <2>3. Calling(d)' = Calling(d)
    BY <1>0 DEF Calling
  <2>4. CASE d = c
    <3>1. ~Has(down'[to[d]], "incoming", d)
      BY <1>3, <1>6, <1>10, <2>4
    <3>2. ~Has(up'[by[d]], "initiate", d) /\ ~Calling(d) /\ d \notin handled'[to[d]]
      BY <1>3, <1>10, <2>2, <2>4
    <3> QED
      BY <2>2, <2>3, <3>1, <3>2 DEF OneRing
  <2>5. CASE d # c
    <3>1. In(to[d], d)' => In(to[d], d)
      BY <1>7, <2>1, <2>5 DEF In
    <3>2. Incoming(to[d], d)' => Incoming(to[d], d)
      BY <1>7, <2>1, <2>5 DEF In, Incoming
    <3> QED
      BY <2>1, <2>2, <2>3, <3>1, <3>2 DEF OneRing
  <2> QED
    BY <2>4, <2>5
<1>18. CallerLives(by)'
  <2> SUFFICES ASSUME NEW d \in Calls \ (fresh \cup cancelled)
               PROVE  EndSent(d)' \/ (In(by[d], d)' /\ Live(session'[by[d]]))
    BY <1>0 DEF CallerLives
  <2>1. EndSent(d) => EndSent(d)'
    BY <1>11 DEF EndSent
  <2> QED
    BY <1>7, <2>1 DEF Good, CallerLives, In
<1>19. EndReaches(to)'
  <2> SUFFICES ASSUME NEW d \in cancelled \ strays,
                      Incoming(to[d], d)' \/ Has(down'[to[d]], "incoming", d)
               PROVE  Ending(d) \/ Behind(down'[to[d]], d)
    BY <1>0 DEF EndReaches, Ending
  <2>1. d \in Calls /\ to[d] \in Users
    BY DEF TypeOK
  <2>2. Incoming(to[d], d)' => Incoming(to[d], d) \/ d = c
    BY <1>7, <2>1 DEF In, Incoming
  <2>3. Incoming(to[d], d) \/ Has(down[to[d]], "incoming", d)
    BY <1>3, <1>9, <1>11, <2>1, <2>2
  <2> QED
    BY <1>11, <2>1, <2>3 DEF Good, EndReaches
<1> QED
  BY <1>13, <1>14, <1>15, <1>16, <1>17, <1>18, <1>19 DEF Good

LEMMA ReceiveStep ==
  ASSUME TypeOK, NEW by \in [Calls -> Users], NEW to \in [Calls -> Users], Good(by, to),
         NEW u \in Users, Receive(u)
  PROVE  Good(by, to)'
<1> DEFINE e == Head(down[u])
<1>0. UNCHANGED <<accepting, fresh, online, strays, task, cancelled, active>>
  BY DEF Receive, gateVars
<1>1. /\ down[u] # <<>>
      /\ \A x \in Users : down'[x] = IF x = u THEN Tail(down[u]) ELSE down[x]
  BY DEF Receive, TypeOK
<1>2. e \in Tells(by, to, u) /\ down[u] \in Seq(Tells(by, to, u))
  BY <1>1, TailTyped DEF Good, Frames
<1>3. e.c \in Calls \ fresh /\ e.from \in Users
  BY <1>2 DEF Tells, Events
<1>4. ASSUME e.ev # "ended", UNCHANGED <<session, handled, up>> PROVE Good(by, to)'
  <2>1. \A x \in Users : Turn(by, to, x)
    BY <1>0, <1>1, <1>4 DEF Turn, Live
  <2> QED
    BY <1>0, <2>1, TurnStep
<1>5. CASE e.ev = "incoming" /\ OnIncoming(u, e)
  <2>1. Has(down[u], "incoming", e.c)
    BY <1>1, <1>2, <1>5, HasTail
  <2>2. u = to[e.c] /\ ~In(u, e.c)
    BY <1>2, <1>3, <1>5, <2>1 DEF Tells, Good, RingsOnce, OneRing
  <2>3. CASE Live(session[u])
    <3>1. Send(u, "end", e.c, e.from) /\ UNCHANGED <<session, handled>>
      BY <1>5, <2>2, <2>3 DEF OnIncoming
    <3>2. \A x \in Users : down'[x] = down[x]
             \/ (down[x] # <<>> /\ down'[x] = Tail(down[x]) /\ Head(down[x]).ev # "ended")
      BY <1>1, <1>5
    <3>3. \A x \in Users : Turn(by, to, x)
      BY <1>0, <1>3, <2>2, <3>1, <3>2, SendTurn
    <3> QED
      BY <1>0, <3>3, TurnStep
  <2>4. CASE ~Live(session[u])
    BY <1>5, <2>2, <2>4, RingStep DEF OnIncoming
  <2> QED
    BY <2>3, <2>4
<1>6. CASE e.ev \in {"ringing", "calling"} /\ OnProgress(u, e)
  <2>1. CASE session[u].st # "none" /\ \E st \in {"CALLING", "RINGING", "CONNECTED"} : SetState(u, st)
    <3>1. \A x \in Users : Turn(by, to, x)
      BY <1>0, <1>1, <1>6, <2>1, RestateTurn DEF OnProgress
    <3> QED
      BY <1>0, <3>1, TurnStep
  <2> QED
    BY <1>4, <1>6, <2>1 DEF OnProgress, In
<1>7. CASE e.ev = "accepted" /\ OnAccepted(u, e)
  BY <1>4, <1>7 DEF OnAccepted
<1>8. CASE e.ev = "ended" /\ OnEnded(u, e)
  <2>1. e.c \in cancelled
    BY <1>2, <1>8 DEF Tells
  <2>2. CASE In(u, e.c) /\ Dismiss(u)
    <3>1. session[u].st # "none" /\ session[u].c = e.c /\ PhoneTyped
      BY <2>2, TypeParts DEF In
    <3>2. /\ session'[u].st = "ENDED" /\ session'[u].c = session[u].c
          /\ session'[u].peer = session[u].peer /\ session'[u].caller = session[u].caller
          /\ handled'[u] = handled[u] \cup {session[u].c}
      BY <2>2, <3>1, DismissFacts
    <3>3. \A x \in Users \ {u} : session'[x] = session[x] /\ handled'[x] = handled[x]
      BY <2>2, <3>1 DEF Dismiss, SetState, PhoneTyped
    <3>4. UNCHANGED up
      BY <1>8 DEF OnEnded
    <3>5. Turn(by, to, u)
      BY <1>0, <1>1, <2>1, <3>1, <3>2, <3>4 DEF Turn, In, Incoming
    <3>6. \A x \in Users \ {u} : Turn(by, to, x)
      BY <1>0, <1>1, <3>3, <3>4, StillTurn
    <3> QED
      BY <1>0, <3>5, <3>6, TurnStep
  <2>3. CASE ~(In(u, e.c) /\ Dismiss(u))
    <3>1. UNCHANGED <<session, handled, up>>
      BY <1>8, <2>3 DEF OnEnded
    <3>2. In(u, e.c) => session[u].st = "ENDED" \/ e.c \in handled[u]
      BY <1>8, <2>3 DEF OnEnded
    <3>3. ~Incoming(u, e.c)
      <4>1. SUFFICES ASSUME Incoming(u, e.c) PROVE FALSE
        OBVIOUS
      <4>2. session[u].st = "INCOMING" /\ session[u].c = e.c /\ e.c \in handled[u]
        BY <3>2, <4>1 DEF Incoming, In
      <4>3. u = to[e.c]
        BY <4>2, WhoIsWho
      <4> QED
        BY <1>3, <4>1, <4>2, <4>3 DEF Good, RingsOnce, OneRing
    <3>4. \A c \in Calls : e.c = c => ~Incoming(u, c)'
      BY <3>1, <3>3 DEF Incoming, In
    <3>5. Turn(by, to, u)
      BY <1>0, <1>1, <3>1, <3>4 DEF Turn, Live
    <3>6. \A x \in Users \ {u} : Turn(by, to, x)
      BY <1>0, <1>1, <3>1, StillTurn
    <3> QED
      BY <1>0, <3>5, <3>6, TurnStep
  <2> QED
    BY <2>2, <2>3
<1> QED
  BY <1>5, <1>6, <1>7, <1>8 DEF Receive

\* A new call: its caller and its callee are added to those of the calls so far.
LEMMA StartStep ==
  ASSUME TypeOK, NEW by \in [Calls -> Users], NEW to \in [Calls -> Users], Good(by, to),
         NEW u \in Users, NEW v \in Users, NEW c \in Calls, StartCall(u, v, c)
  PROVE  \E by2, to2 \in [Calls -> Users] : Good(by2, to2)'
<1> DEFINE b == [by EXCEPT ![c] = u]
           a == [to EXCEPT ![c] = v]
           f == [ev |-> "initiate", c |-> c, to |-> v]
<1>0. /\ u # v /\ c \in fresh /\ fresh' = fresh \ {c} /\ ~Live(session[u])
      /\ UNCHANGED <<accepting, handled, online, down, strays, task, cancelled, active>>
  BY DEF StartCall, gateVars
<1>1. /\ b \in [Calls -> Users] /\ a \in [Calls -> Users] /\ b[c] = u /\ a[c] = v
      /\ \A d \in Calls \ {c} : b[d] = by[d] /\ a[d] = to[d]
  OBVIOUS
<1>2. \A x \in Users : up'[x] = IF x = u THEN Append(up[u], f) ELSE up[x]
  BY DEF StartCall, Send, TypeOK, Good
<1>3. \A x \in Users : session'[x] = IF x = u THEN [c |-> c, peer |-> v, caller |-> TRUE,
                                                    st |-> "CALLING"] ELSE session[x]
  BY DEF StartCall, TypeOK
<1>4. /\ f.ev = "initiate" /\ f.c = c /\ f.to = v /\ f \in Requests
  BY DEF Requests
<1>5. f \in Asks(b, a, u)'
  BY <1>0, <1>1, <1>4 DEF Asks
<1>6. \A x \in Users : Asks(by, to, x) \subseteq Asks(b, a, x)'
  BY <1>0, <1>1 DEF Asks, Requests
<1>7. \A x \in Users : Tells(by, to, x) \subseteq Tells(b, a, x)'
  BY <1>0, <1>1 DEF Tells, Events
<1>8. \A x \in Users : up[x] \in Seq(Asks(by, to, x)) /\ down[x] \in Seq(Tells(by, to, x))
  BY DEF Good, Frames
<1>9. \A t \in task : t.by \in Users /\ t.req \in Asks(by, to, t.by)
  BY DEF Good, Frames, TypeOK, Tasks
<1> HIDE DEF b, a, f
<1>10. ASSUME NEW x \in Users
       PROVE  /\ up'[x] \in Seq(Asks(b, a, x)') /\ down'[x] \in Seq(Tells(b, a, x)')
              /\ \A ev, d : Has(up'[x], ev, d) <=> \/ Has(up[x], ev, d)
                                                   \/ x = u /\ ev = "initiate" /\ d = c
              /\ \A ev, d : Once(up[x], ev, d) /\ ~(Has(up[x], ev, d) /\ x = u /\ ev = "initiate" /\ d = c)
                    => Once(up'[x], ev, d)
  <2>1. up[x] \in Seq(Asks(b, a, x)') /\ down[x] \in Seq(Tells(b, a, x)')
    BY <1>6, <1>7, <1>8, SeqGrows
  <2>2. CASE x = u
    <3>1. up'[x] = Append(up[x], f) /\ f \in Asks(b, a, x)' /\ down'[x] = down[x]
      BY <1>0, <1>2, <1>5, <2>2
    <3>2. \A ev, d : Has(up'[x], ev, d) <=> Has(up[x], ev, d) \/ (f.ev = ev /\ f.c = d)
      BY <2>1, <3>1, HasAppend
    <3>3. \A ev, d : Once(up[x], ev, d) /\ (Has(up[x], ev, d) => ~(f.ev = ev /\ f.c = d))
                       => Once(up'[x], ev, d)
      BY <2>1, <3>1, OnceAppend
    <3>4. up'[x] \in Seq(Asks(b, a, x)')
      BY <2>1, <3>1, AppendTyped
    <3>5. \A ev, d : Has(up'[x], ev, d)
                  <=> Has(up[x], ev, d) \/ (x = u /\ ev = "initiate" /\ d = c)
      BY <1>4, <2>2, <3>2
    <3>6. \A ev, d : Once(up[x], ev, d) /\ ~(Has(up[x], ev, d) /\ x = u /\ ev = "initiate" /\ d = c)
             => Once(up'[x], ev, d)
      BY <1>4, <2>2, <3>3
    <3> QED
      BY <2>1, <3>1, <3>4, <3>5, <3>6
  <2>3. CASE x # u
    <3>1. up'[x] = up[x] /\ down'[x] = down[x]
      BY <1>0, <1>2, <2>3
    <3>2. \A ev, d : Has(up'[x], ev, d)
                  <=> Has(up[x], ev, d) \/ (x = u /\ ev = "initiate" /\ d = c)
      BY <2>3, <3>1
    <3>3. \A ev, d : Once(up[x], ev, d) /\ ~(Has(up[x], ev, d) /\ x = u /\ ev = "initiate" /\ d = c)
             => Once(up'[x], ev, d)
      BY <2>3, <3>1
    <3> QED
      BY <2>1, <3>1, <3>2, <3>3
  <2> QED
    BY <2>2, <2>3
<1>11. \A x \in Users : ~Has(up[x], "initiate", c) /\ ~Has(down[x], "incoming", c)
  <2>1. SUFFICES ASSUME NEW x \in Users
                 PROVE  ~Has(up[x], "initiate", c) /\ ~Has(down[x], "incoming", c)
    OBVIOUS
  <2>2. \A n \in 1..Len(up[x]) : up[x][n] \in Asks(by, to, x)
    BY <1>8
  <2>3. \A n \in 1..Len(down[x]) : down[x][n] \in Tells(by, to, x)
    BY <1>8
  <2> QED
    BY <1>0, <2>2, <2>3 DEF Has, Asks, Tells
<1>12. ~Calling(c)
  BY <1>0, <1>9 DEF Calling, Asks
<1>13. (\A x \in Users : online[x])' /\ (active \cap cancelled = {})'
  BY <1>0 DEF Good
<1>14. Unused'
  BY <1>0, <1>3 DEF Good, Unused, In
<1>15. Parties(b, a)'
  <2>1. (\A d \in Calls \ fresh : b[d] # a[d])'
    BY <1>0, <1>1 DEF Good, Parties
  <2>2. ASSUME NEW x \in Users, session'[x].st # "none"
        PROVE  IF session'[x].caller
                 THEN /\ x = b[session'[x].c] /\ session'[x].peer = a[session'[x].c]
                      /\ session'[x].st # "INCOMING"
                 ELSE x = a[session'[x].c] /\ session'[x].peer = b[session'[x].c]
    <3>1. CASE x = u
      BY <1>1, <1>3, <3>1
    <3>2. CASE x # u
      <4>1. session'[x] = session[x] /\ session[x].c \in Calls \ {c}
        BY <1>0, <1>3, <2>2, <3>2, WhoIsWho
      <4> QED
        BY <1>1, <2>2, <4>1 DEF Good, Parties
    <3> QED
      BY <3>1, <3>2
  <2>3. ASSUME NEW x \in Users, NEW d \in accepting'[x] PROVE d \notin fresh' /\ x = a[d]
    <3>1. d \in Calls
      BY <1>0 DEF TypeOK
    <3> QED
      BY <1>0, <1>1, <3>1 DEF Good, Parties
  <2> QED
    BY <2>1, <2>2, <2>3 DEF Parties
<1>16. Frames(b, a)'
  BY <1>0, <1>6, <1>9, <1>10 DEF Good, Frames
<1>17. RingsOnce(b, a)'
  <2> SUFFICES ASSUME NEW d \in Calls \ fresh' PROVE OneRing(b[d], a[d], d)'
    BY DEF RingsOnce
  <2>1. b[d] \in Users /\ a[d] \in Users
    BY <1>1
  <2>2. Calling(d)' = Calling(d)
    BY <1>0 DEF Calling
  <2>3. CASE d = c
    <3>0. Once(up[u], "initiate", c) /\ Once(down[v], "incoming", c)
      BY <1>11 DEF Once, Has
    <3>1. Once(up'[u], "initiate", c) /\ Once(down'[v], "incoming", c)
      BY <1>0, <1>10, <1>11, <3>0
    <3>2. ~Has(down'[v], "incoming", c) /\ ~Calling(c)'
      BY <1>0, <1>11, <1>12, <2>2, <2>3
    <3>3. ~In(v, c)' /\ c \notin handled'[v]
      BY <1>0, <1>3 DEF Good, Unused, In
    <3> QED
      BY <1>1, <2>3, <3>1, <3>2, <3>3 DEF OneRing, Incoming
  <2>4. CASE d # c
    <3>1. OneRing(by[d], to[d], d) /\ b[d] = by[d] /\ a[d] = to[d]
      BY <1>0, <1>1, <2>4 DEF Good, RingsOnce
    <3>2. /\ Once(up'[b[d]], "initiate", d) /\ Once(down'[a[d]], "incoming", d)
          /\ Has(up'[b[d]], "initiate", d) <=> Has(up[b[d]], "initiate", d)
          /\ Has(down'[a[d]], "incoming", d) <=> Has(down[a[d]], "incoming", d)
      BY <1>0, <1>10, <2>1, <2>4, <3>1 DEF OneRing
    <3>3. In(a[d], d)' => In(a[d], d)
      BY <1>3, <2>1, <2>4 DEF In
    <3>4. Incoming(a[d], d)' => Incoming(a[d], d)
      BY <1>3, <2>1, <2>4 DEF In, Incoming
    <3> QED
      BY <1>0, <2>2, <3>1, <3>2, <3>3, <3>4 DEF OneRing
  <2> QED
    BY <2>3, <2>4
<1>18. CallerLives(b)'
  <2> SUFFICES ASSUME NEW d \in Calls \ (fresh' \cup cancelled)
               PROVE  EndSent(d)' \/ (In(b[d], d)' /\ Live(session'[b[d]]))
    BY <1>0 DEF CallerLives
  <2>1. EndSent(d) => EndSent(d)'
    BY <1>10 DEF EndSent
  <2>2. CASE d = c
    BY <1>1, <1>3, <2>2 DEF In, Live
  <2>3. CASE d # c
    BY <1>0, <1>1, <1>3, <2>1, <2>3 DEF Good, CallerLives, In
  <2> QED
    BY <2>2, <2>3
<1>19. EndReaches(a)'
  <2> SUFFICES ASSUME NEW d \in cancelled \ strays,
                      Incoming(a[d], d)' \/ Has(down[a[d]], "incoming", d)
               PROVE  Ending(d) \/ Behind(down[a[d]], d)
    BY <1>0 DEF EndReaches, Ending
  <2>1. d \in Calls \ {c}
    BY <1>0 DEF TypeOK, Good, Unused
  <2>2. a[d] = to[d] /\ to[d] \in Users
    BY <1>1, <2>1
  <2>3. Incoming(a[d], d)' => Incoming(to[d], d)
    BY <1>3, <2>1, <2>2 DEF In, Incoming
  <2> QED
    BY <2>2, <2>3 DEF Good, EndReaches
<1> QED
  BY <1>1, <1>13, <1>14, <1>15, <1>16, <1>17, <1>18, <1>19 DEF Good

-----------------------------------------------------------------------------
(* The steps of the gateway.                                               *)

LEMMA ArriveStep ==
  ASSUME TypeOK, NEW by \in [Calls -> Users], NEW to \in [Calls -> Users], Good(by, to),
         NEW u \in Users, Arrive(u)
  PROVE  Good(by, to)'
<1> DEFINE r == Head(up[u])
           n == [req |-> r, by |-> u]
<1>0. /\ UNCHANGED <<session, accepting, handled, fresh, strays, online, down>>
      /\ up[u] # <<>> /\ task' = task \cup {n}
      /\ r.ev = "end" => cancelled' = cancelled \cup {r.c} /\ active' = active \ {r.c}
      /\ r.ev # "end" => cancelled' = cancelled /\ active' = active
  BY DEF Arrive, phoneVars
<1>1. \A x \in Users : up'[x] = IF x = u THEN Tail(up[u]) ELSE up[x]
  BY DEF Arrive, TypeOK
<1>2. \A x \in Users : up[x] \in Seq(Asks(by, to, x)) /\ down[x] \in Seq(Tells(by, to, x))
  BY DEF Good, Frames
<1>3. r \in Asks(by, to, u) /\ r.c \in Calls \ fresh
  <2>1. r \in Asks(by, to, u)
    BY <1>0, <1>2, TailTyped
  <2> QED
    BY <2>1 DEF Asks, Requests
<1>4. /\ \A x \in Users : Asks(by, to, x)' = Asks(by, to, x)
      /\ \A x \in Users : Tells(by, to, x) \subseteq Tells(by, to, x)'
      /\ cancelled \subseteq cancelled' /\ cancelled' \subseteq Calls
      /\ \A c \in cancelled' : c \in cancelled \/ (c = r.c /\ r.ev = "end")
  BY <1>0, <1>3 DEF Asks, Tells, TypeOK
<1>5. n.req = r /\ n.by = u
  OBVIOUS
<1> HIDE DEF n, r
<1>6. \A c : /\ Calling(c)' <=> Calling(c) \/ (r.ev = "initiate" /\ r.c = c)
             /\ Ending(c)' <=> Ending(c) \/ (r.ev = "end" /\ r.c = c)
  BY <1>0, <1>5 DEF Calling, Ending
<1>7. ASSUME NEW x \in Users
      PROVE  /\ up'[x] \in Seq(Asks(by, to, x)')
             /\ \A ev, c : Has(up'[x], ev, c) => Has(up[x], ev, c)
             /\ \A ev, c : Has(up[x], ev, c) => Has(up'[x], ev, c) \/ (r.ev = ev /\ r.c = c)
             /\ \A ev, c : Once(up[x], ev, c) => Once(up'[x], ev, c)
             /\ \A ev, c : Once(up[x], ev, c) /\ x = u /\ r.ev = ev /\ r.c = c
                             => ~Has(up'[x], ev, c)
  <2>1. CASE x = u
    <3>1. up'[x] = Tail(up[x]) /\ r = Head(up[x]) /\ up[x] # <<>>
      BY <1>0, <1>1, <2>1 DEF r
    <3> QED
      BY <1>2, <1>4, <3>1, TailTyped, HasTail, OnceTail
  <2>2. CASE x # u
    BY <1>1, <1>2, <1>4, <2>2
  <2> QED
    BY <2>1, <2>2
<1>8. (\A x \in Users : online[x])' /\ (active \cap cancelled = {})'
  BY <1>0 DEF Good
<1>9. Unused'
  BY <1>0, <1>3, <1>4 DEF Good, Unused, In
<1>10. Parties(by, to)'
  BY <1>0 DEF Good, Parties
<1>11. Frames(by, to)'
  <2>1. \A t \in task : t.by \in Users
    BY DEF TypeOK, Tasks
  <2>2. \A x \in Users : up'[x] \in Seq(Asks(by, to, x)') /\ down'[x] \in Seq(Tells(by, to, x)')
    BY <1>0, <1>2, <1>4, <1>7, SeqGrows
  <2>3. ASSUME NEW t \in task'
        PROVE  t.req \in Asks(by, to, t.by)' /\ (t.req.ev = "end" => t.req.c \in cancelled')
    BY <1>0, <1>3, <1>4, <1>5, <2>1, <2>3 DEF Good, Frames
  <2> QED
    BY <2>2, <2>3 DEF Frames
<1>12. RingsOnce(by, to)'
  <2> SUFFICES ASSUME NEW c \in Calls \ fresh PROVE OneRing(by[c], to[c], c)'
    BY <1>0 DEF RingsOnce
  <2>1. by[c] \in Users /\ to[c] \in Users /\ OneRing(by[c], to[c], c)
    BY DEF Good, RingsOnce
  <2>2. /\ Once(up'[by[c]], "initiate", c)
        /\ Has(up'[by[c]], "initiate", c) => Has(up[by[c]], "initiate", c)
    BY <1>7, <2>1 DEF OneRing
  <2>3. In(to[c], c)' = In(to[c], c) /\ Incoming(to[c], c)' = Incoming(to[c], c)
    BY <1>0 DEF In, Incoming
  <2>4. CASE r.ev = "initiate" /\ r.c = c
    <3>1. u = by[c]
      BY <1>3, <2>4 DEF Asks
    <3>2. Has(up[by[c]], "initiate", c)
      <4>1. r = Head(up[by[c]]) /\ up[by[c]] # <<>>
        BY <1>0, <3>1 DEF r
      <4> QED
        BY <1>2, <2>1, <2>4, <4>1, HasTail
    <3>3. ~Has(up'[by[c]], "initiate", c)
      BY <1>7, <2>1, <2>4, <3>1 DEF OneRing
    <3> QED
      BY <1>0, <1>6, <2>1, <2>2, <2>3, <3>2, <3>3 DEF OneRing
  <2>5. CASE ~(r.ev = "initiate" /\ r.c = c)
    <3>1. Calling(c)' <=> Calling(c)
      BY <1>6, <2>5
    <3> QED
      BY <1>0, <2>1, <2>2, <2>3, <3>1 DEF OneRing
  <2> QED
    BY <2>4, <2>5
<1>13. CallerLives(by)'
  <2> SUFFICES ASSUME NEW c \in Calls \ (fresh \cup cancelled')
               PROVE  EndSent(c)' \/ (In(by[c], c) /\ Live(session[by[c]]))
    BY <1>0 DEF CallerLives, In
  <2>1. c \notin cancelled /\ ~(r.ev = "end" /\ r.c = c)
    BY <1>0, <1>4
  <2>2. EndSent(c) => EndSent(c)'
    BY <1>7, <2>1 DEF EndSent
  <2> QED
    BY <2>1, <2>2 DEF Good, CallerLives
<1>14. EndReaches(to)'
  <2> SUFFICES ASSUME NEW c \in cancelled' \ strays,
                      Incoming(to[c], c) \/ Has(down[to[c]], "incoming", c)
               PROVE  Ending(c)' \/ Behind(down[to[c]], c)
    BY <1>0 DEF EndReaches, Incoming, In
  <2> QED
    BY <1>4, <1>6 DEF Good, EndReaches
<1> QED
  BY <1>8, <1>9, <1>10, <1>11, <1>12, <1>13, <1>14 DEF Good

\* Queues of what the gateway may tell, and those that follow them with rings added.
Told(by, to, q) ==
  q \in [Users -> Seq(Events)] /\ \A x \in Users : q[x] \in Seq(Tells(by, to, x))
Follows(q, d, rings) ==
  \A x \in Users : \A c :
    /\ Has(d[x], "incoming", c) => Has(q[x], "incoming", c) \/ <<x, c>> \in rings
    /\ Once(q[x], "incoming", c) /\ (Has(q[x], "incoming", c) => <<x, c>> \notin rings)
         => Once(d[x], "incoming", c)
    /\ Behind(q[x], c) => Behind(d[x], c) \/ <<x, c>> \in rings

\* An event put in a phone's queue, while that phone is connected.
LEMMA EmitQueue ==
  ASSUME NEW by, NEW to, NEW q, Told(by, to, q),
         NEW u \in Users, online[u], NEW e \in Tells(by, to, u)
  PROVE  /\ Told(by, to, Emit(q, u, e))
         /\ Follows(q, Emit(q, u, e), IF e.ev = "incoming" THEN {<<u, e.c>>} ELSE {})
         /\ e.ev = "ended" => Behind(Emit(q, u, e)[u], e.c)
<1> DEFINE d == Emit(q, u, e)
           rings == IF e.ev = "incoming" THEN {<<u, e.c>>} ELSE {}
<1>1. d \in [Users -> Seq(Events)]
  BY EmitTyped DEF Told, Tells
<1>2. \A x \in Users : d[x] = IF x = u THEN Append(q[x], e) ELSE q[x]
  BY DEF Emit, Told
<1>3. \A x \in Users : q[x] \in Seq(Tells(by, to, x))
  BY DEF Told
<1>4. \A x \in Users : \A c : <<x, c>> \in rings <=> x = u /\ e.ev = "incoming" /\ e.c = c
  OBVIOUS
<1> HIDE DEF d, rings
<1>5. /\ d[u] \in Seq(Tells(by, to, u))
      /\ \A ev, c : Has(d[u], ev, c) <=> Has(q[u], ev, c) \/ (e.ev = ev /\ e.c = c)
      /\ \A ev, c : Once(q[u], ev, c) /\ (Has(q[u], ev, c) => ~(e.ev = ev /\ e.c = c))
                      => Once(d[u], ev, c)
      /\ \A c : Behind(q[u], c) /\ ~(e.ev = "incoming" /\ e.c = c) => Behind(d[u], c)
      /\ e.ev = "ended" => Behind(d[u], e.c)
  <2>1. d[u] = Append(q[u], e) /\ q[u] \in Seq(Tells(by, to, u)) /\ e \in Tells(by, to, u)
    BY <1>2, <1>3
  <2>2. d[u] \in Seq(Tells(by, to, u))
    BY <2>1, AppendTyped
  <2>3. \A ev, c : Has(d[u], ev, c) <=> Has(q[u], ev, c) \/ (e.ev = ev /\ e.c = c)
    BY <2>1, HasAppend
  <2>4. \A ev, c : Once(q[u], ev, c) /\ (Has(q[u], ev, c) => ~(e.ev = ev /\ e.c = c))
                     => Once(d[u], ev, c)
    BY <2>1, OnceAppend
  <2>5. \A c : Behind(q[u], c) /\ ~(e.ev = "incoming" /\ e.c = c) => Behind(d[u], c)
    BY <2>1, BehindAppend
  <2>6. e.ev = "ended" => Behind(d[u], e.c)
    BY <2>1, BehindAppend
  <2> QED
    BY <2>2, <2>3, <2>4, <2>5, <2>6
<1>6. ASSUME NEW x \in Users, NEW c
      PROVE  /\ d[x] \in Seq(Tells(by, to, x))
             /\ Has(d[x], "incoming", c) => Has(q[x], "incoming", c) \/ <<x, c>> \in rings
             /\ Once(q[x], "incoming", c) /\ (Has(q[x], "incoming", c) => <<x, c>> \notin rings)
                  => Once(d[x], "incoming", c)
             /\ Behind(q[x], c) => Behind(d[x], c) \/ <<x, c>> \in rings
  <2>1. CASE x = u
    BY <1>4, <1>5, <2>1
  <2>2. CASE x # u
    BY <1>2, <1>3, <2>2
  <2> QED
    BY <2>1, <2>2
<1>7. Told(by, to, d)
  BY <1>1, <1>6 DEF Told
<1>8. Follows(q, d, rings)
  BY <1>6 DEF Follows
<1> QED
  BY <1>5, <1>7, <1>8 DEF d, rings

LEMMA FollowsTwice ==
  ASSUME NEW q, NEW d, NEW d2, NEW rings, Follows(q, d, rings), Follows(d, d2, {})
  PROVE  Follows(q, d2, rings)
  BY DEF Follows

\* What a handler leaves: its own call rings, at the callee alone, only if it was asked to
\* and the call is not known to be over; the end of a call is behind all of its rings.
LEMMA HandledStep ==
  ASSUME TypeOK, NEW by \in [Calls -> Users], NEW to \in [Calls -> Users], Good(by, to),
         NEW t \in task, task' = task \ {t},
         UNCHANGED <<session, accepting, handled, fresh, strays, online, up, cancelled>>,
         active' \cap cancelled = {},
         Told(by, to, down'), NEW rings, rings \subseteq {<<to[t.req.c], t.req.c>>},
         rings # {} => t.req.ev = "initiate" /\ t.req.c \notin cancelled,
         Follows(down, down', rings),
         t.req.ev = "end" => t.req.c \in strays \/ Behind(down'[to[t.req.c]], t.req.c)
  PROVE  Good(by, to)'
<1>0. /\ t.req \in Asks(by, to, t.by) /\ t.req \in Requests /\ t.by \in Users
      /\ t.req.ev = "end" => t.req.c \in cancelled
      /\ t.req.c \in Calls \ fresh
  BY DEF Good, Frames, Asks, TypeOK, Tasks, Requests
<1>1. \A c : /\ Calling(c)' => Calling(c)
             /\ Ending(c) => Ending(c)' \/ (t.req.ev = "end" /\ t.req.c = c)
  BY DEF Calling, Ending
<1>2. t.req.ev = "initiate" => Calling(t.req.c) /\ ~Calling(t.req.c)'
  <2> SUFFICES ASSUME t.req.ev = "initiate" PROVE Calling(t.req.c) /\ ~Calling(t.req.c)'
    OBVIOUS
  <2>1. Calling(t.req.c)
    BY DEF Calling
  <2>2. ASSUME NEW s \in task, s.req.ev = "initiate", s.req.c = t.req.c PROVE s = t
    <3>1. s \in Tasks /\ t \in Tasks /\ s.req \in Asks(by, to, s.by)
      BY DEF TypeOK, Good, Frames
    <3>2. s.by = t.by /\ s.req.to = t.req.to
      BY <1>0, <2>2, <3>1 DEF Asks
    <3>3. s.req = t.req
      BY <2>2, <3>1, <3>2 DEF Tasks, Requests
    <3> QED
      BY <3>1, <3>2, <3>3 DEF Tasks
  <2>3. ASSUME NEW s \in task', s.req.ev = "initiate", s.req.c = t.req.c PROVE FALSE
    <3>1. s \in task /\ s # t
      OBVIOUS
    <3> QED
      BY <2>2, <2>3, <3>1
  <2>4. Calling(t.req.c)' <=> \E s \in task' : s.req.ev = "initiate" /\ s.req.c = t.req.c
    <3>1. \A c : Calling(c)' <=> \E s \in task' : s.req.ev = "initiate" /\ s.req.c = c
      BY DEF Calling
    <3> QED
      BY <3>1
  <2> QED
    BY <2>1, <2>3, <2>4
<1>3. (\A x \in Users : online[x])' /\ (active \cap cancelled = {})' /\ Unused' /\ Parties(by, to)'
  BY DEF Good, Unused, Parties, In
<1>4. Frames(by, to)'
  <2>1. \A x \in Users : Asks(by, to, x)' = Asks(by, to, x) /\ Tells(by, to, x)' = Tells(by, to, x)
    BY DEF Asks, Tells
  <2>2. \A s \in task : s.by \in Users
    BY DEF TypeOK, Tasks
  <2> QED
    BY <2>1, <2>2 DEF Good, Frames, Told
<1>5. RingsOnce(by, to)'
  <2> SUFFICES ASSUME NEW c \in Calls \ fresh PROVE OneRing(by[c], to[c], c)'
    BY DEF RingsOnce
  <2>1. by[c] \in Users /\ to[c] \in Users /\ OneRing(by[c], to[c], c)
    BY DEF Good, RingsOnce
  <2>2. In(to[c], c)' = In(to[c], c) /\ Incoming(to[c], c)' = Incoming(to[c], c)
    BY DEF In, Incoming
  <2>3. CASE <<to[c], c>> \in rings
    <3>1. Calling(c) /\ ~Calling(c)'
      BY <1>2, <2>3
    <3>2. ~Has(down[to[c]], "incoming", c) /\ Once(down'[to[c]], "incoming", c)
      BY <2>1, <3>1 DEF OneRing, Follows
    <3>3. ~Has(up'[by[c]], "initiate", c) /\ ~In(to[c], c)' /\ c \notin handled'[to[c]]
      BY <2>1, <2>2, <3>1 DEF OneRing
    <3> QED
      BY <2>1, <2>2, <3>1, <3>2, <3>3 DEF OneRing
  <2>4. CASE <<to[c], c>> \notin rings
    <3>1. /\ Once(down'[to[c]], "incoming", c)
          /\ Has(down'[to[c]], "incoming", c) => Has(down[to[c]], "incoming", c)
      BY <2>1, <2>4 DEF OneRing, Follows
    <3> QED
      BY <1>1, <2>1, <2>2, <3>1 DEF OneRing
  <2> QED
    BY <2>3, <2>4
<1>6. CallerLives(by)'
  BY DEF Good, CallerLives, EndSent, In
<1>7. EndReaches(to)'
  <2> SUFFICES ASSUME NEW c \in cancelled \ strays,
                      Incoming(to[c], c) \/ Has(down'[to[c]], "incoming", c)
               PROVE  Ending(c)' \/ Behind(down'[to[c]], c)
    BY DEF EndReaches, Incoming, In
  <2>1. c \in Calls /\ to[c] \in Users
    BY DEF TypeOK
  <2>2. <<to[c], c>> \notin rings
    OBVIOUS
  <2>3. Has(down'[to[c]], "incoming", c) => Has(down[to[c]], "incoming", c)
    BY <2>1, <2>2 DEF Follows
  <2>4. Ending(c) \/ Behind(down[to[c]], c)
    BY <2>1, <2>3 DEF Good, EndReaches
  <2>5. Behind(down[to[c]], c) => Behind(down'[to[c]], c)
    BY <2>1, <2>2 DEF Follows
  <2> QED
    BY <1>1, <2>1, <2>4, <2>5
<1> QED
  BY <1>3, <1>4, <1>5, <1>6, <1>7 DEF Good

LEMMA HandleStep ==
  ASSUME TypeOK, NEW by \in [Calls -> Users], NEW to \in [Calls -> Users], Good(by, to),
         NEW t \in task, Handle(t)
  PROVE  Good(by, to)'
<1> DEFINE r == t.req
           c == t.req.c
<1>0. /\ task' = task \ {t}
      /\ UNCHANGED <<session, accepting, handled, fresh, strays, online, up, cancelled>>
  BY DEF Handle, Initiate, Relay, EndBoth, phoneVars
<1>1. /\ r \in Asks(by, to, t.by) /\ r \in Requests /\ t.by \in Users /\ r.to \in Users
      /\ r.ev = "end" => c \in cancelled
      /\ c \in Calls \ fresh
  BY DEF Good, Frames, Asks, TypeOK, Tasks, Requests
<1>2. \A ev \in {"incoming", "ringing", "calling", "accepted", "ended"}, x \in Users :
        LET e == Event(ev, c, x) IN e \in Events /\ e.ev = ev /\ e.c = c /\ e.from = x
  BY <1>1 DEF Event, Events
<1>3. /\ Told(by, to, down) /\ \A x \in Users : online[x]
      /\ active \cap cancelled = {}
  BY DEF TypeOK, Good, Frames, Told
<1>4. \A ev \in {"ringing", "calling", "accepted", "ended"}, x, y \in Users :
        (ev = "ended" => c \in cancelled) => Event(ev, c, y) \in Tells(by, to, x)
  BY <1>1, <1>2 DEF Tells
<1>5. ASSUME NEW x \in Users, NEW y \in Users,
             NEW ev \in {"ringing", "calling", "accepted", "ended"}, ev = "ended" => c \in cancelled,
             r.ev # "end", down' = Emit(down, y, Event(ev, c, x)), active' = active
      PROVE  Good(by, to)'
  <2> DEFINE e == Event(ev, c, x)
  <2>1. e \in Tells(by, to, y) /\ e.ev # "incoming"
    BY <1>2, <1>4, <1>5
  <2> HIDE DEF e
  <2>2. Told(by, to, down') /\ Follows(down, down', {})
    BY <1>3, <1>5, <2>1, EmitQueue DEF e
  <2> QED
    BY <1>0, <1>3, <1>5, <2>2, HandledStep
<1>6. CASE Relay(t)
  <2>1. \E ev \in {"ringing", "accepted"} : down' = Emit(down, r.to, Event(ev, c, t.by))
    BY <1>6 DEF Relay
  <2> QED
    BY <1>1, <1>5, <1>6, <2>1 DEF Relay
<1>7. CASE EndBoth(t)
  <2> DEFINE e == Event("ended", c, t.by)
             d == Emit(down, r.to, e)
  <2>1. r.ev = "end" /\ c \in cancelled /\ down' = Emit(d, t.by, e) /\ active' = active
    BY <1>1, <1>7 DEF EndBoth
  <2>2. e.ev = "ended" /\ e.c = c /\ \A x \in Users : e \in Tells(by, to, x)
    BY <1>1, <1>2, <1>4, <2>1
  <2>3. c \in strays \/ t.by = to[c] \/ r.to = to[c]
    BY <1>1, <2>1 DEF Asks
  <2> HIDE DEF e, d
  <2>4. Told(by, to, d) /\ Follows(down, d, {}) /\ Behind(d[r.to], c)
    BY <1>1, <1>3, <2>2, EmitQueue DEF d
  <2>5. Told(by, to, down') /\ Follows(d, down', {}) /\ Behind(down'[t.by], c)
    BY <1>1, <1>3, <2>1, <2>2, <2>4, EmitQueue
  <2>6. Behind(down'[r.to], c)
    BY <1>1, <2>4, <2>5 DEF Follows
  <2>7. c \in strays \/ Behind(down'[to[c]], c)
    BY <2>3, <2>5, <2>6
  <2>8. Follows(down, down', {})
    BY <2>4, <2>5, FollowsTwice
  <2> QED
    BY <1>0, <1>3, <2>1, <2>5, <2>7, <2>8, HandledStep
<1>8. CASE Initiate(t)
  <2>1. r.ev = "initiate" /\ t.by = by[c] /\ r.to = to[c]
    BY <1>1, <1>8 DEF Initiate, Asks
  <2>2. CASE down' = Emit(down, t.by, Event("calling", c, r.to)) /\ UNCHANGED active
    BY <1>1, <1>5, <2>1, <2>2
  <2>3. CASE c \in cancelled /\ down' = Emit(down, t.by, Event("ended", c, r.to)) /\ UNCHANGED active
    BY <1>1, <1>5, <2>1, <2>3
  <2>4. ASSUME NEW st \in {"ringing", "calling"}, c \notin cancelled, active' = active \cup {c},
               down' = Emit(Emit(down, r.to, Event("incoming", c, t.by)), t.by, Event(st, c, r.to))
        PROVE  Good(by, to)'
    <3> DEFINE e == Event("incoming", c, t.by)
               f == Event(st, c, r.to)
               d == Emit(down, r.to, e)
    <3>1. /\ e.ev = "incoming" /\ e.c = c /\ e \in Tells(by, to, r.to)
          /\ f.ev # "incoming" /\ f \in Tells(by, to, t.by)
      BY <1>1, <1>2, <2>1, <2>4 DEF Tells
    <3>2. down' = Emit(d, t.by, f)
      BY <2>4
    <3> HIDE DEF e, f, d
    <3>3. Told(by, to, d) /\ Follows(down, d, {<<r.to, c>>})
      BY <1>1, <1>3, <3>1, EmitQueue DEF d
    <3>4. Told(by, to, down') /\ Follows(d, down', {})
      BY <1>1, <1>3, <3>1, <3>2, <3>3, EmitQueue
    <3>5. Follows(down, down', {<<to[c], c>>})
      BY <2>1, <3>3, <3>4, FollowsTwice
    <3>6. active' \cap cancelled = {} /\ r.ev # "end"
      BY <1>3, <2>1, <2>4
    <3> QED
      BY <1>0, <2>1, <2>4, <3>4, <3>5, <3>6, HandledStep
  <2> QED
    BY <1>8, <2>2, <2>3, <2>4 DEF Initiate
<1> QED
  BY <1>6, <1>7, <1>8 DEF Handle

-----------------------------------------------------------------------------
(* The invariant, and what follows from it.                                *)

LEMMA InitInv == Init => Inv
<1> SUFFICES ASSUME Init, NEW u \in Users PROVE \E by, to \in [Calls -> Users] : Good(by, to)
  BY InitTyped DEF Inv, Init
<1> DEFINE f == [c \in Calls |-> u]
<1>1. f \in [Calls -> Users]
  OBVIOUS
<1>2. \A x \in Users : up[x] \in Seq(Asks(f, f, x)) /\ down[x] \in Seq(Tells(f, f, x))
  BY DEF Init
<1>3. \A x \in Users : online[x]
  BY DEF Init
<1> HIDE DEF f
<1>4. Unused /\ active \cap cancelled = {} /\ RingsOnce(f, f) /\ CallerLives(f) /\ EndReaches(f)
  BY DEF Init, Unused, RingsOnce, CallerLives, EndReaches, In, NoSession
<1>5. Parties(f, f) /\ Frames(f, f)
  BY <1>2 DEF Init, Parties, Frames, NoSession
<1> QED
  BY <1>1, <1>3, <1>4, <1>5 DEF Good

\* No step loses sight of a call while no connection is lost.
LEMMA InvStep == Inv /\ [Next]_vars => Inv'
<1> SUFFICES ASSUME Inv, [Next]_vars, drops' = 0
             PROVE  \/ Users = {} /\ active' = {}
                    \/ \E by, to \in [Calls -> Users] : Good(by, to)'
  BY TypeStep DEF Inv
<1>1. TypeOK
  BY DEF Inv
<1>2. CASE UNCHANGED vars
  <2>1. drops = 0 /\ UNCHANGED active
    BY <1>2 DEF vars, netVars, gateVars
  <2>2. ASSUME NEW by \in [Calls -> Users], NEW to \in [Calls -> Users], Good(by, to)
        PROVE  Good(by, to)'
    BY <1>1, <1>2, <2>2, TurnStep, StillTurn DEF vars, phoneVars, netVars, gateVars
  <2> QED
    BY <2>1, <2>2 DEF Inv
<1>3. CASE Next
  <2>1. drops = 0 /\ Users # {}
    <3>1. ASSUME NEW u \in Users, NEW v \in Users, NEW c \in Calls, StartCall(u, v, c)
          PROVE  drops' = drops
      BY <3>1 DEF StartCall
    <3>2. ASSUME NEW u \in Users, EndCall(u) \/ RejectCall(u) \/ AcceptCall(u) \/ Phone(u)
          PROVE  drops' = drops
      BY <3>2 DEF EndCall, RejectCall, AcceptCall, Phone, Timeout, Reset, Wake, Receive, netVars
    <3>3. ASSUME NEW u \in Users, NEW c \in Calls,
                 OfferFails(u, c) \/ FinishAccept(u, c) \/ AcceptFails(u, c)
          PROVE  drops' = drops
      BY <3>3 DEF OfferFails, FinishAccept, AcceptFails
    <3>4. ASSUME NEW u \in Users, Arrive(u) \/ Reconnect(u)
          PROVE  drops' = drops
      BY <3>4 DEF Arrive, Reconnect
    <3>5. ASSUME NEW u \in Users, Disconnect(u)
          PROVE  FALSE
      BY <1>1, <3>5 DEF Disconnect, TypeOK
    <3>6. ASSUME NEW t \in task, Handle(t)
          PROVE  drops' = drops /\ t.by \in Users
      BY <1>1, <3>6 DEF Handle, TypeOK, Tasks
    <3> QED
      BY <1>3, <3>1, <3>2, <3>3, <3>4, <3>5, <3>6 DEF Next
  <2>2. PICK by, to \in [Calls -> Users] : Good(by, to)
    BY <2>1 DEF Inv
  <2>3. ASSUME NEW u \in Users, NEW v \in Users, NEW c \in Calls, StartCall(u, v, c)
        PROVE  \E by2, to2 \in [Calls -> Users] : Good(by2, to2)'
    BY <1>1, <2>2, <2>3, StartStep
  <2>4. ASSUME NEW u \in Users, EndCall(u) \/ RejectCall(u) \/ AcceptCall(u) \/ Phone(u)
        PROVE  Good(by, to)'
    BY <1>1, <2>2, <2>4, LeavingSteps, RestatingSteps, ReceiveStep DEF Phone
  <2>5. ASSUME NEW u \in Users, NEW c \in Calls,
               OfferFails(u, c) \/ FinishAccept(u, c) \/ AcceptFails(u, c)
        PROVE  Good(by, to)'
    BY <1>1, <2>2, <2>5, LeavingSteps, FinishAcceptStep
  <2>6. ASSUME NEW u \in Users, Arrive(u)
        PROVE  Good(by, to)'
    BY <1>1, <2>2, <2>6, ArriveStep
  <2>7. ASSUME NEW u \in Users, Disconnect(u) \/ Reconnect(u)
        PROVE  FALSE
    BY <1>1, <2>1, <2>2, <2>7 DEF Disconnect, Reconnect, Good, TypeOK
  <2>8. ASSUME NEW t \in task, Handle(t)
        PROVE  Good(by, to)'
    BY <1>1, <2>2, <2>8, HandleStep
  <2> QED
    BY <1>3, <2>2, <2>3, <2>4, <2>5, <2>6, <2>7, <2>8 DEF Next
<1> QED
  BY <1>2, <1>3

\* The inductive invariant holds: while no connection is lost, every frame, handler and
\* session of a call agrees on its two parties, and no cancelled call is active.
THEOREM CallsAreTracked == Spec => []Inv
  BY InitInv, InvStep, PTL DEF Spec

\* As long as no connection is lost, activeCalls keeps no call that is over (NoLeakedCall):
\* a call:initiate that is handled after the call:end of its call does not revive it.
THEOREM NoCallLeaks == Spec => []NoLeakedCall
<1>1. Inv => NoLeakedCall
  <2> SUFFICES ASSUME Inv, drops = 0, NEW c \in active, Over(c) PROVE FALSE
    BY DEF NoLeakedCall
  <2>1. PICK by, to \in [Calls -> Users] : Good(by, to)
    BY DEF Inv
  <2>2. c \in Calls \ (fresh \cup cancelled)
    BY <2>1 DEF Inv, TypeOK, Good, Over
  <2>3. EndSent(c) \/ (In(by[c], c) /\ Live(session[by[c]]))
    BY <2>1, <2>2 DEF Good, CallerLives
  <2>4. by[c] \in Users
    BY <2>1, <2>2
  <2> QED
    BY <2>3, <2>4 DEF Over, EndSent, Has
<1> QED
  BY <1>1, CallsAreTracked, PTL

\* As long as no connection is lost, a phone rings only for a caller who is still in the
\* call, or for a call whose end is on its way to it (NoGhostRing): however the lookups of
\* the gateway interleave, no ring outlives the call but for those that went astray.
THEOREM NoRingOutlivesItsCall == Spec => []NoGhostRing
<1>1. Inv => NoGhostRing
  <2> SUFFICES ASSUME Inv, drops = 0, NEW u \in Users, NEW v \in Users, NEW c \in Calls \ strays,
                      In(u, c), session[u].st = "INCOMING", session[u].peer = v,
                      ~(In(v, c) /\ Live(session[v]))
               PROVE  EndOnItsWay(c, u)
    BY DEF NoGhostRing
  <2>1. PICK by, to \in [Calls -> Users] : Good(by, to)
    BY DEF Inv
  <2>2. TypeOK /\ session[u].c = c
    BY DEF Inv, In
  <2>3. c \notin fresh /\ ~session[u].caller /\ u = to[c] /\ v = by[c]
    BY <2>1, <2>2, WhoIsWho
  <2>4. Incoming(to[c], c)
    BY <2>3 DEF Incoming
  <2>5. CASE c \in cancelled
    <3>1. Ending(c) \/ Behind(down[u], c)
      BY <2>1, <2>3, <2>4, <2>5 DEF Good, EndReaches
    <3> QED
      BY <3>1 DEF Ending, Behind, EndOnItsWay
  <2>6. CASE c \notin cancelled
    <3>1. EndSent(c)
      BY <2>1, <2>3, <2>6 DEF Good, CallerLives
    <3> QED
      BY <3>1 DEF EndSent, Has, EndOnItsWay
  <2> QED
    BY <2>5, <2>6
<1> QED
  BY <1>1, CallsAreTracked, PTL

=============================================================================
