--------------------------- MODULE CallSignalling ---------------------------
(***************************************************************************)
(* Audio and video calls: callService.ts on each phone and the call        *)
(* handlers of ChatGateway between them.                                   *)
(*                                                                         *)
(* A phone has at most one session.  Its handlers await sounds and media   *)
(* and then go on with whatever session there is; timers end an unanswered *)
(* call and clear an ended one.  The gateway relays: every handler awaits  *)
(* a lookup before it emits, and the ids of ended calls are remembered so  *)
(* that a late call:initiate is dropped.  Of the six events that announce  *)
(* the end of a call, to all of which the same handler listens, one frame  *)
(* stands for all; SDP and ICE relays keep no state and are left out.      *)
(***************************************************************************)
EXTENDS Naturals, Sequences, FiniteSets, FiniteSetsExt

CONSTANTS
  Users,
  Calls,     \* call ids; each is used by one startCall
  Dials,     \* bound: pairs of a caller and a call id that it may use
  MaxDrops,  \* bound: lost connections
  MaxFails,  \* bound: offers and answers for which there is no media
  MaxEnds,   \* bound: calls ended or rejected by a user
  MaxBusy    \* bound: frames and lookups in progress when a user starts a call

ASSUME CallAssumption ==
  Dials \subseteq Users \X Calls /\ {MaxDrops, MaxFails, MaxEnds, MaxBusy} \subseteq Nat

VARIABLES
  session,    \* callService.currentSession of each phone
  timer,      \* callTimeoutTimer is armed
  resets,     \* pending timers that clear an ended session
  waking,     \* "connected" handlers that await stopCallSounds
  accepting,  \* acceptCall runs that await media
  offering,   \* calls whose offer is being made in the background
  handled,    \* handledEndedCallIds
  fresh,      \* call ids not used so far
  online,     \* the phone's socket is connected
  up, down,   \* frames in flight to and from the gateway
  task,       \* gateway handlers that await a lookup
  cancelled,  \* cancelledCallIds
  active,     \* activeCalls
  drops, fails, ends,
  strays      \* history: outgoing calls rejected by the failed acceptance of another

phoneVars == <<session, timer, resets, waking, accepting, offering, handled, fresh,
               fails, ends, strays>>
netVars == <<online, up, down, drops>>
gateVars == <<task, cancelled, active>>
vars == <<phoneVars, netVars, gateVars>>

Ringing == {"CALLING", "RINGING", "INCOMING"}
NoSession == [st |-> "none"]
Sessions == [c : Calls, peer : Users, caller : BOOLEAN,
             st : Ringing \cup {"CONNECTED", "ENDED"}] \cup {NoSession}
Requests == [ev : {"initiate", "ringing", "accept", "end"}, c : Calls, to : Users]
Events == [ev : {"incoming", "ringing", "calling", "accepted", "ended"}, c : Calls, from : Users]
Tasks == [req : Requests, by : Users]

TypeOK ==
  /\ session \in [Users -> Sessions]
  /\ timer \in [Users -> BOOLEAN] /\ resets \in [Users -> Nat] /\ waking \in [Users -> Nat]
  /\ accepting \in [Users -> SUBSET Calls] /\ offering \in [Users -> SUBSET Calls]
  /\ handled \in [Users -> SUBSET Calls]
  /\ fresh \subseteq Calls
  /\ online \in [Users -> BOOLEAN]
  /\ up \in [Users -> Seq(Requests)] /\ down \in [Users -> Seq(Events)]
  /\ task \subseteq Tasks /\ cancelled \subseteq Calls /\ active \subseteq Calls
  /\ drops \in Nat /\ fails \in Nat /\ ends \in Nat /\ strays \subseteq Calls

Init ==
  /\ session = [u \in Users |-> NoSession]
  /\ timer = [u \in Users |-> FALSE]
  /\ resets = [u \in Users |-> 0] /\ waking = [u \in Users |-> 0]
  /\ accepting = [u \in Users |-> {}] /\ offering = [u \in Users |-> {}]
  /\ handled = [u \in Users |-> {}] /\ fresh = Calls
  /\ online = [u \in Users |-> TRUE]
  /\ up = [u \in Users |-> <<>>] /\ down = [u \in Users |-> <<>>]
  /\ task = {} /\ cancelled = {} /\ active = {} /\ drops = 0 /\ fails = 0 /\ ends = 0
  /\ strays = {}

-----------------------------------------------------------------------------
(* Building blocks.                                                        *)

Live(s) == s.st \notin {"none", "ENDED"}
In(u, c) == session[u].st # "none" /\ session[u].c = c

SetState(u, st) == session' = [session EXCEPT ![u].st = st]
ArmTimer(u, b) == timer' = [timer EXCEPT ![u] = b]

\* socketService.emit: nothing without a connection.
Send(u, ev, c, to) ==
  up' = IF online[u] THEN [up EXCEPT ![u] = Append(@, [ev |-> ev, c |-> c, to |-> to])] ELSE up

Event(ev, c, from) == [ev |-> ev, c |-> c, from |-> from]

\* server.to(user room).emit
Emit(q, u, e) == IF online[u] THEN [q EXCEPT ![u] = Append(@, e)] ELSE q

\* What endCall, rejectCall and handleRemoteEnd do to the session.
Dismiss(u) ==
  /\ SetState(u, "ENDED")
  /\ handled' = [handled EXCEPT ![u] = @ \cup {session[u].c}]
  /\ ArmTimer(u, FALSE)
  /\ resets' = [resets EXCEPT ![u] = @ + 1]

\* endCall; the gateway treats call:end and call:reject alike.
HangUp(u) ==
  /\ Dismiss(u)
  /\ Send(u, "end", session[u].c, session[u].peer)

\* rejectCall tells the caller of the session, which may be the phone itself.
Decline(u) ==
  /\ Dismiss(u)
  /\ Send(u, "end", session[u].c, IF session[u].caller THEN u ELSE session[u].peer)

-----------------------------------------------------------------------------
(* The user and the timers of a phone.                                     *)

InProgress == FoldSet(LAMBDA u, n : n + Len(up[u]) + Len(down[u]), Cardinality(task), Users)

StartCall(u, v, c) ==
  /\ InProgress <= MaxBusy
  /\ u # v /\ c \in fresh /\ <<u, c>> \in Dials /\ ~Live(session[u])
  /\ fresh' = fresh \ {c}
  /\ session' = [session EXCEPT ![u] = [c |-> c, peer |-> v, caller |-> TRUE, st |-> "CALLING"]]
  /\ ArmTimer(u, TRUE)
  /\ offering' = [offering EXCEPT ![u] = @ \cup {c}]
  /\ Send(u, "initiate", c, v)
  /\ UNCHANGED <<resets, waking, accepting, handled, online, down, drops, fails, ends,
                 strays, gateVars>>

EndCall(u) ==
  /\ Live(session[u]) /\ session[u].st # "INCOMING" /\ ends < MaxEnds
  /\ ends' = ends + 1
  /\ HangUp(u)
  /\ UNCHANGED <<waking, accepting, offering, fresh, online, down, drops, fails,
                 strays, gateVars>>

RejectCall(u) ==
  /\ session[u].st = "INCOMING" /\ ends < MaxEnds
  /\ ends' = ends + 1
  /\ Decline(u)
  /\ UNCHANGED <<waking, accepting, offering, fresh, online, down, drops, fails,
                 strays, gateVars>>

\* Microphone, camera or SDP fails: the call is ended, whatever its state.
OfferFails(u, c) ==
  /\ c \in offering[u] /\ fails < MaxFails
  /\ fails' = fails + 1
  /\ offering' = [offering EXCEPT ![u] = @ \ {c}]
  /\ IF In(u, c) THEN HangUp(u) ELSE UNCHANGED <<session, timer, resets, handled, up>>
  /\ UNCHANGED <<waking, accepting, fresh, ends, online, down, drops, strays, gateVars>>

\* acceptCall up to its first await: the session is CONNECTED at once ...
AcceptCall(u) ==
  /\ session[u].st = "INCOMING"
  /\ SetState(u, "CONNECTED")
  /\ ArmTimer(u, FALSE)
  /\ accepting' = [accepting EXCEPT ![u] = @ \cup {session[u].c}]
  /\ UNCHANGED <<resets, waking, offering, handled, fresh, fails, ends, netVars, strays, gateVars>>

\* ... and after it: the session must still be this call's.
FinishAccept(u, c) ==
  /\ c \in accepting[u]
  /\ accepting' = [accepting EXCEPT ![u] = @ \ {c}]
  /\ IF In(u, c) THEN Send(u, "accept", c, session[u].peer) ELSE UNCHANGED up
  /\ UNCHANGED <<session, timer, resets, waking, offering, handled, fresh, fails,
                 ends, online, down, drops, strays, gateVars>>

\* The catch of acceptCall rejects whatever call the phone is in by now.
AcceptFails(u, c) ==
  /\ c \in accepting[u] /\ fails < MaxFails
  /\ fails' = fails + 1
  /\ accepting' = [accepting EXCEPT ![u] = @ \ {c}]
  /\ IF session[u].st # "none" THEN Decline(u)
                                ELSE UNCHANGED <<session, timer, resets, handled, up>>
  /\ strays' = IF session[u].st # "none" /\ ~In(u, c) /\ session[u].caller
                  THEN strays \cup {session[u].c} ELSE strays
  /\ UNCHANGED <<waking, offering, fresh, ends, online, down, drops, gateVars>>

\* 45 s without an answer.
Timeout(u) ==
  /\ timer[u]
  /\ IF session[u].st \in Ringing
       THEN IF session[u].caller THEN HangUp(u) ELSE Decline(u)
       ELSE ArmTimer(u, FALSE) /\ UNCHANGED <<session, resets, handled, up>>
  /\ UNCHANGED <<waking, accepting, offering, fresh, online, down, drops, fails, ends,
                 strays, gateVars>>

\* 350 or 400 ms after the end.
Reset(u) ==
  /\ resets[u] > 0
  /\ resets' = [resets EXCEPT ![u] = @ - 1]
  /\ session' = IF session[u].st = "ENDED" THEN [session EXCEPT ![u] = NoSession] ELSE session
  /\ UNCHANGED <<timer, waking, accepting, offering, handled, fresh, fails, ends,
                 netVars, strays, gateVars>>

\* Mutant of Wake: the session is used without asking whether there still is one.
WakeUnchecked(u) ==
  /\ waking[u] > 0
  /\ waking' = [waking EXCEPT ![u] = @ - 1]
  /\ SetState(u, "CONNECTED")
  /\ UNCHANGED <<timer, resets, accepting, offering, handled, fresh, fails, ends,
                 netVars, strays, gateVars>>

\* stopCallSounds has returned: whatever session there is becomes CONNECTED.
Wake(u) ==
  /\ waking[u] > 0
  /\ waking' = [waking EXCEPT ![u] = @ - 1]
  /\ IF session[u].st = "none" THEN UNCHANGED session ELSE SetState(u, "CONNECTED")
  /\ UNCHANGED <<timer, resets, accepting, offering, handled, fresh, fails, ends,
                 netVars, strays, gateVars>>

-----------------------------------------------------------------------------
(* The events of a phone.                                                  *)

\* Mutant of OnIncoming: the session is replaced without looking at its state.
OnIncomingAlways(u, e) ==
  /\ session' = [session EXCEPT ![u] = [c |-> e.c, peer |-> e.from, caller |-> FALSE,
                                        st |-> "INCOMING"]]
  /\ ArmTimer(u, TRUE)
  /\ Send(u, "ringing", e.c, e.from)
  /\ UNCHANGED <<resets, waking, handled>>

\* Mutant of OnIncoming: only the caller arms a timer.
OnIncomingUntimed(u, e) ==
  /\ IF Live(session[u]) THEN UNCHANGED <<session, up>>
     ELSE /\ session' = [session EXCEPT ![u] = [c |-> e.c, peer |-> e.from, caller |-> FALSE,
                                                st |-> "INCOMING"]]
          /\ Send(u, "ringing", e.c, e.from)
  /\ UNCHANGED <<timer, resets, waking, handled>>

\* call:incoming: busy, already ringing, or a new session.
OnIncoming(u, e) ==
  /\ IF Live(session[u]) /\ ~In(u, e.c)
       THEN Send(u, "end", e.c, e.from) /\ UNCHANGED <<session, timer>>
     ELSE IF In(u, e.c) /\ session[u].st = "INCOMING"
       THEN UNCHANGED <<session, timer, up>>
     ELSE /\ session' = [session EXCEPT ![u] = [c |-> e.c, peer |-> e.from, caller |-> FALSE,
                                                st |-> "INCOMING"]]
          /\ ArmTimer(u, TRUE)
          /\ Send(u, "ringing", e.c, e.from)
  /\ UNCHANGED <<resets, waking, handled>>

\* call:status RINGING or CALLING.
OnProgress(u, e) ==
  /\ IF In(u, e.c) /\ session[u].st # "CONNECTED"
       THEN SetState(u, IF e.ev = "ringing" THEN "RINGING" ELSE "CALLING")
       ELSE UNCHANGED session
  /\ UNCHANGED <<timer, resets, waking, handled, up>>

\* call:accepted and call:status CONNECTED.  The first ignores another call's id only
\* on a callee, the second always.
OnAccepted(u, e) ==
  /\ LET n == IF session[u].st = "none" THEN 0
              ELSE IF In(u, e.c) THEN 2 ELSE IF session[u].caller THEN 1 ELSE 0
     IN  /\ waking' = [waking EXCEPT ![u] = @ + n]
         /\ timer' = IF n = 0 THEN timer ELSE [timer EXCEPT ![u] = FALSE]
  /\ UNCHANGED <<session, resets, handled, up>>

\* handleRemoteEnd: only for the session's call, and only once.
OnEnded(u, e) ==
  /\ IF In(u, e.c) /\ session[u].st # "ENDED" /\ e.c \notin handled[u]
       THEN Dismiss(u) ELSE UNCHANGED <<session, timer, resets, handled>>
  /\ UNCHANGED <<waking, up>>

Receive(u) ==
  /\ down[u] # <<>>
  /\ down' = [down EXCEPT ![u] = Tail(@)]
  /\ LET e == Head(down[u])
     IN  \/ e.ev = "incoming" /\ OnIncoming(u, e)
         \/ e.ev \in {"ringing", "calling"} /\ OnProgress(u, e)
         \/ e.ev = "accepted" /\ OnAccepted(u, e)
         \/ e.ev = "ended" /\ OnEnded(u, e)
  /\ UNCHANGED <<accepting, offering, fresh, fails, ends, online, drops, strays, gateVars>>

-----------------------------------------------------------------------------
(* The gateway.                                                            *)

\* Mutant of Arrive: ending a call does not remember its id.
ArriveForgetful(u) ==
  /\ up[u] # <<>>
  /\ up' = [up EXCEPT ![u] = Tail(@)]
  /\ LET r == Head(up[u])
     IN  /\ task' = task \cup {[req |-> r, by |-> u]}
         /\ active' = IF r.ev = "end" THEN active \ {r.c} ELSE active
  /\ UNCHANGED <<phoneVars, online, down, drops, cancelled>>

\* Mutant of Arrive: an end is dropped unless the call is active.
ArriveActive(u) ==
  /\ up[u] # <<>>
  /\ up' = [up EXCEPT ![u] = Tail(@)]
  /\ LET r == Head(up[u])
     IN  IF r.ev = "end" /\ r.c \notin active THEN UNCHANGED <<task, cancelled, active>>
         ELSE /\ task' = task \cup {[req |-> r, by |-> u]}
              /\ cancelled' = IF r.ev = "end" THEN cancelled \cup {r.c} ELSE cancelled
              /\ active' = IF r.ev = "end" THEN active \ {r.c} ELSE active
  /\ UNCHANGED <<phoneVars, online, down, drops>>

\* A handler up to its await: call:end and call:reject first remember the id.
Arrive(u) ==
  /\ up[u] # <<>>
  /\ up' = [up EXCEPT ![u] = Tail(@)]
  /\ LET r == Head(up[u])
     IN  /\ task' = task \cup {[req |-> r, by |-> u]}
         /\ IF r.ev = "end" THEN cancelled' = cancelled \cup {r.c} /\ active' = active \ {r.c}
                            ELSE UNCHANGED <<cancelled, active>>
  /\ UNCHANGED <<phoneVars, online, down, drops>>

\* handleCallInitiate after the block query.  A receiver whose connection is dead may
\* still count as online.
Initiate(t) ==
  LET r == t.req
      ring == Emit(down, r.to, Event("incoming", r.c, t.by))
  IN  /\ r.ev = "initiate"
      /\ \/ down' = Emit(down, t.by, Event("calling", r.c, r.to)) /\ UNCHANGED active  \* blocked
         \/ /\ r.c \in cancelled
            /\ down' = Emit(down, t.by, Event("ended", r.c, r.to)) /\ UNCHANGED active
         \/ /\ r.c \notin cancelled
            /\ active' = active \cup {r.c}
            /\ \E st \in {"ringing", "calling"} :
                 /\ online[r.to] => st = "ringing"
                 /\ down' = Emit(ring, t.by, Event(st, r.c, r.to))
      /\ UNCHANGED cancelled

\* handleCallRinging and handleCallAccept relay without looking at the call's state.
Relay(t) ==
  /\ t.req.ev \in {"ringing", "accept"}
  /\ down' = Emit(down, t.req.to,
                  Event(IF t.req.ev = "ringing" THEN "ringing" ELSE "accepted", t.req.c, t.by))
  /\ UNCHANGED <<cancelled, active>>

\* handleCallEnd and handleCallReject: both sides are told.
EndBoth(t) ==
  /\ t.req.ev = "end"
  /\ down' = Emit(Emit(down, t.req.to, Event("ended", t.req.c, t.by)),
                  t.by, Event("ended", t.req.c, t.by))
  /\ UNCHANGED <<cancelled, active>>

Handle(t) ==
  /\ t \in task
  /\ task' = task \ {t}
  /\ Initiate(t) \/ Relay(t) \/ EndBoth(t)
  /\ UNCHANGED <<phoneVars, online, up, drops>>

Disconnect(u) ==
  /\ online[u] /\ drops < MaxDrops
  /\ drops' = drops + 1
  /\ online' = [online EXCEPT ![u] = FALSE]
  /\ up' = [up EXCEPT ![u] = <<>>] /\ down' = [down EXCEPT ![u] = <<>>]
  /\ UNCHANGED <<phoneVars, gateVars>>

Reconnect(u) ==
  /\ ~online[u]
  /\ online' = [online EXCEPT ![u] = TRUE]
  /\ UNCHANGED <<phoneVars, up, down, drops, gateVars>>

-----------------------------------------------------------------------------
Phone(u) == Timeout(u) \/ Reset(u) \/ Wake(u) \/ Receive(u)

Next ==
  \/ \E u, v \in Users, c \in Calls : StartCall(u, v, c)
  \/ \E u \in Users : EndCall(u) \/ RejectCall(u) \/ AcceptCall(u) \/ Phone(u)
  \/ \E u \in Users, c \in Calls : OfferFails(u, c) \/ FinishAccept(u, c) \/ AcceptFails(u, c)
  \/ \E u \in Users : Arrive(u) \/ Disconnect(u) \/ Reconnect(u)
  \/ \E t \in task : Handle(t)

Spec == Init /\ [][Next]_vars

(* Timers fire, frames are handled and the gateway's lookups return; the   *)
(* users do nothing, media may never come, and a phone may stay offline.   *)
Fairness ==
  /\ \A u \in Users : WF_vars(Timeout(u)) /\ WF_vars(Reset(u)) /\ WF_vars(Wake(u))
                      /\ WF_vars(Receive(u)) /\ WF_vars(Arrive(u))
  /\ \A t \in Tasks : WF_vars(Handle(t))

FairSpec == Spec /\ Fairness

-----------------------------------------------------------------------------
(* Safety.                                                                 *)

\* Something on its way to u will end call c there.
EndOnItsWay(c, u) ==
  \/ \E v \in Users : \E n \in 1..Len(up[v]) : up[v][n].ev = "end" /\ up[v][n].c = c
  \/ \E t \in task : t.req.ev = "end" /\ t.req.c = c
  \/ \E n \in 1..Len(down[u]) : down[u][n].ev = "ended" /\ down[u][n].c = c

\* While no connection is lost, a phone rings only for a caller that is still in the call,
\* or the end is on its way: in no order does the ring overtake the cancellation.  The one
\* exception is a call that its caller's phone has rejected, telling itself, because the
\* media of another call came too late and failed.
NoGhostRing ==
  drops = 0 =>
    \A u, v \in Users, c \in Calls \ strays :
      /\ In(u, c) /\ session[u].st = "INCOMING" /\ session[u].peer = v
      /\ ~(In(v, c) /\ Live(session[v]))
      => EndOnItsWay(c, u)

\* Nothing about call c is running anywhere.
Over(c) ==
  /\ c \notin fresh
  /\ \A u \in Users : /\ ~(In(u, c) /\ Live(session[u]))
                      /\ \A n \in 1..Len(up[u]) : up[u][n].c # c
  /\ \A t \in task : t.req.c # c

\* While no connection is lost, activeCalls holds no call that is over.
NoLeakedCall == drops = 0 => \A c \in active : ~Over(c)

\* A live session is never replaced by another call: neither an incoming call, nor a
\* stale event, nor the user's own next call takes it away without ending it first.
LiveSessionIsKept ==
  [][\A u \in Users : Live(session[u]) => /\ (session'[u]).st # "none"
                                          /\ (session'[u]).c = session[u].c]_vars

-----------------------------------------------------------------------------
(* Liveness.                                                               *)

\* A phone does not ring for ever, whatever frames were lost.
RingingStops ==
  \A u \in Users : (session[u].st = "INCOMING") ~> (session[u].st # "INCOMING")

=============================================================================
