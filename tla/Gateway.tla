------------------------------- MODULE Gateway -------------------------------
(***************************************************************************)
(* The gateway's connections and the sessions that outlive them            *)
(* (gateway/gateway.cpp).                                                  *)
(*                                                                         *)
(* Everything here runs on the loop thread, so a handler is one action.    *)
(* What interleaves is who calls: a client on any of its sockets, a socket *)
(* that closes or dies without the service noticing, the service below     *)
(* with answers, kills and drops, the timer with resume deadlines, and a   *)
(* stop.  The service below is Supervisor.tla reduced to which sessions it *)
(* knows and which requests a seat will still answer.                      *)
(*                                                                         *)
(* A frame is the id of the request it ends; progress frames are left out, *)
(* the gateway may shed any of them.  A detached session bears the stamp   *)
(* of its deadline, later than any armed: grace periods are all one        *)
(* length, so deadlines come in the order of the detaches.                 *)
(***************************************************************************)
EXTENDS Integers, Sequences, FiniteSets, Functions, SequencesExt, Ordering

CONSTANTS
    Sessions,       \* sessions a client may open, each at most once
    Ids,            \* request ids, each used at most once
    Request,        \* what each request asks
    MaxConns,       \* Options::maxConnections
    MaxPerConn,     \* Options::maxSessionsPerConnection
    MaxDetached,    \* Options::maxDetachedSessions
    MaxHeld,        \* kMaxHeldFrames
    StartsMayFail,  \* whether a seat's thread may fail to start
    Moves,          \* whether the requests make a session change its placement
    MaxDrops        \* bound on the sockets that close before the stop

Kinds == {"open", "work", "cancel", "close", "resume"}

ASSUME RequestAssumption ==
    /\ Ids \subseteq Nat \ {0} /\ IsFiniteSet(Ids) /\ IsFiniteSet(Sessions)
    /\ Request \in [Ids -> [session : Sessions, kind : Kinds, of : Ids]]
    /\ \A i, j \in Ids :
         /\ Request[i].kind = "open" /\ Request[j].kind = "open"
         /\ Request[i].session = Request[j].session
         => i = j
ASSUME LimitAssumption ==
    /\ MaxConns \in Nat \ {0} /\ MaxPerConn \in Nat /\ MaxDetached \in Nat
    /\ MaxHeld \in Nat /\ MaxDrops \in Nat
    /\ StartsMayFail \in BOOLEAN /\ Moves \in BOOLEAN

Conns == 1..MaxConns
NoConn == 0
Here == [since |-> 0, held |-> <<>>, lost |-> {}]   \* a session that is not detached
S(i) == Request[i].session
Of(s) == {i \in Ids : S(i) = s}

VARIABLES
    resumable,    \* whether Options::resumeGrace is positive
    line,         \* a socket: none, up, or dead and not yet known to be
    slots,        \* Conn::openSessions
    meta,         \* Gateway sessions: none, opening or open
    route,        \* sessionConn
    outstanding,  \* ids the client is owed a terminal frame for, per session
    away,         \* detached: since when, frames held, ids whose frame was lost
    deadlines,    \* resume deadlines armed and not fired, in order
    drops,        \* sockets closed so far
    phase,        \* serving, draining or stopped
    below,        \* what the supervisor has: none, live, or hollow for no seat
    running,      \* ids a seat will still answer
    sent,         \* ids the client has used
    tokens,       \* sessions whose SessionOpened reached the client
    told,         \* terminal frames that reached the client, per id
    unheard,      \* ids whose terminal frame went to a dead socket
    orphaned      \* ids failed while a seat still had them

sockets == <<line, slots, drops>>
window == <<away, deadlines>>
client == <<sent, tokens, told, unheard>>
service == <<below, running, orphaned>>
vars == <<resumable, sockets, meta, route, outstanding, window, phase, service, client>>

Init ==
    /\ resumable \in BOOLEAN
    /\ line = [c \in Conns |-> "none"] /\ slots = [c \in Conns |-> {}] /\ drops = 0
    /\ meta = [s \in Sessions |-> "none"] /\ route = [s \in Sessions |-> NoConn]
    /\ outstanding = [s \in Sessions |-> {}]
    /\ away = [s \in Sessions |-> Here] /\ deadlines = <<>>
    /\ phase = "serving"
    /\ below = [s \in Sessions |-> "none"] /\ running = {} /\ orphaned = {}
    /\ sent = {} /\ tokens = {} /\ told = [i \in Ids |-> 0] /\ unheard = {}
-----------------------------------------------------------------------------
(* Outbound *)

IsAway(s) == away[s].since # 0
Times(i, frames) == Cardinality({k \in DOMAIN frames : frames[k] = i})

\* Terminal frames written to a socket, in order.
Write(c, frames) ==
    IF line[c] = "up"
    THEN /\ told' = [i \in Ids |-> told[i] + Times(i, frames)]
         /\ UNCHANGED unheard
    ELSE /\ unheard' = unheard \union Range(frames)
         /\ UNCHANGED told
WriteIfRouted(s, frames) ==
    IF route[s] # NoConn THEN Write(route[s], frames) ELSE UNCHANGED <<told, unheard>>

\* Terminal frames for session s, whose outstanding ids are owed and whose meta
\* is m by then: to its socket, or held for its client, or to nobody.
\* Variant for mutation testing: a frame that is sent stays owed.
RoutedStillOwed(s, frames, owed, m) ==
    /\ route[s] # NoConn
    /\ Write(route[s], frames)
    /\ outstanding' = [outstanding EXCEPT ![s] = owed]
    /\ UNCHANGED <<route, away>>
Routed(s, frames, owed, m) ==
    /\ route[s] # NoConn
    /\ Write(route[s], frames)
    /\ LET left == owed \ Range(frames)
       IN  /\ outstanding' = [outstanding EXCEPT ![s] = left]
           /\ route' = [route EXCEPT ![s] = IF m = "none" /\ left = {} THEN NoConn ELSE @]
    /\ UNCHANGED away

\* How many of the frames there is still room to hold.
Fit(s, frames) ==
    LET room == MaxHeld - Len(away[s].held)
    IN  IF room < Len(frames) THEN room ELSE Len(frames)
\* Variant for mutation testing: a frame past the limit is owed no more.
HeldOrForgotten(s, frames, owed) ==
    /\ route[s] = NoConn /\ IsAway(s)
    /\ away' = [away EXCEPT ![s].held = @ \o SubSeq(frames, 1, Fit(s, frames))]
    /\ outstanding' = [outstanding EXCEPT ![s] = owed \ Range(frames)]
    /\ UNCHANGED <<route, told, unheard>>
Held(s, frames, owed) ==
    /\ route[s] = NoConn /\ IsAway(s)
    /\ LET over == Range(SubSeq(frames, Fit(s, frames) + 1, Len(frames)))
       IN  /\ away' = [away EXCEPT ![s].held = @ \o SubSeq(frames, 1, Fit(s, frames)),
                                   ![s].lost = @ \union over]
           /\ outstanding' = [outstanding EXCEPT ![s] = (owed \ Range(frames)) \union over]
    /\ UNCHANGED <<route, told, unheard>>

Vanished(s, frames, owed) ==
    /\ route[s] = NoConn /\ ~IsAway(s)
    /\ outstanding' = [outstanding EXCEPT ![s] = owed \ Range(frames)]
    /\ UNCHANGED <<route, away, told, unheard>>

Deliver(s, frames, owed, m) ==
    \/ Routed(s, frames, owed, m) \/ Held(s, frames, owed) \/ Vanished(s, frames, owed)

\* release(): everything the gateway holds for a session.
\* Variant for mutation testing: the connection's count keeps the session.
ReleaseKeepsSlot(s) ==
    /\ outstanding' = [outstanding EXCEPT ![s] = {}]
    /\ away' = [away EXCEPT ![s] = Here]
    /\ meta' = [meta EXCEPT ![s] = "none"]
    /\ route' = [route EXCEPT ![s] = NoConn]
    /\ UNCHANGED slots
Release(s) ==
    /\ outstanding' = [outstanding EXCEPT ![s] = {}]
    /\ away' = [away EXCEPT ![s] = Here]
    /\ meta' = [meta EXCEPT ![s] = "none"]
    /\ route' = [route EXCEPT ![s] = NoConn]
    /\ slots' = [c \in Conns |-> slots[c] \ {s}]

\* What dispatching a close leaves below.  It throws where there is no seat.
\* Variant for mutation testing: no close is dispatched.
NotClosed(status) == status
Closed(status) == IF status = "live" THEN "none" ELSE status
-----------------------------------------------------------------------------
(* Inbound *)

\* A client sends each id once, on a socket that works, and names a session in a
\* request for one only when its SessionOpened has told it which.
Sends(c, i) ==
    /\ line[c] = "up" /\ phase # "stopped" /\ i \notin sent
    /\ Request[i].kind \in {"open", "resume"} \/ S(i) \in tokens
    /\ sent' = sent \union {i}

MayStart(i) == phase = "serving" \/ Request[i].kind \in {"cancel", "close"}
HasRoom(c) == Cardinality(slots[c]) < MaxPerConn
Resumable(i) == IsAway(S(i)) /\ meta[S(i)] # "none" /\ S(i) \in tokens
Owns(c, i) == route[S(i)] = c

Serves(c, i) ==
    /\ MayStart(i)
    /\ CASE Request[i].kind = "open"   -> HasRoom(c)
         [] Request[i].kind = "resume" -> Resumable(i) /\ HasRoom(c)
         [] OTHER                      -> Owns(c, i)

\* reject(): on the socket it came in on, and nothing else is touched.  A resume
\* whose session still has its route, to a socket that has died, is one of them.
Refuse(c, i) ==
    /\ Sends(c, i) /\ ~Serves(c, i)
    /\ Write(c, <<i>>)
    /\ UNCHANGED <<resumable, sockets, meta, route, outstanding, window, phase, service, tokens>>

Open(c, i) ==
    /\ Sends(c, i) /\ Serves(c, i) /\ Request[i].kind = "open"
    /\ route' = [route EXCEPT ![S(i)] = c]
    /\ slots' = [slots EXCEPT ![c] = @ \union {S(i)}]
    /\ meta' = [meta EXCEPT ![S(i)] = "opening"]
    /\ outstanding' = [outstanding EXCEPT ![S(i)] = {i}]
    /\ below' = [below EXCEPT ![S(i)] = "live"]
    /\ running' = running \union {i}
    /\ UNCHANGED <<resumable, line, drops, window, phase, orphaned, tokens, told, unheard>>

\* The supervisor threw: the request is failed and the session released.
OpenThrows(c, i) ==
    /\ Sends(c, i) /\ Serves(c, i) /\ Request[i].kind = "open"
    /\ StartsMayFail
    /\ Write(c, <<i>>)
    /\ UNCHANGED <<resumable, sockets, meta, route, outstanding, window, phase, service, tokens>>

\* The opening frame again, what was held in the order it came, then an error for
\* each frame that could not be held.
\* Variant for mutation testing: no error for those.
HeldFrames(i) == <<i>> \o away[S(i)].held
ResumeFrames(i) == <<i>> \o away[S(i)].held \o Ascending(away[S(i)].lost)
Resume(c, i) ==
    /\ Sends(c, i) /\ Serves(c, i) /\ Request[i].kind = "resume"
    /\ route' = [route EXCEPT ![S(i)] = c]
    /\ slots' = [slots EXCEPT ![c] = @ \union {S(i)}]
    /\ away' = [away EXCEPT ![S(i)] = Here]
    /\ Write(c, ResumeFrames(i))
    /\ outstanding' = [outstanding EXCEPT ![S(i)] = @ \ Range(ResumeFrames(i))]
    /\ UNCHANGED <<resumable, line, drops, meta, deadlines, phase, service, tokens>>

\* Cancels are acknowledged here whatever became of their target.  Only one that
\* finds it still queued on the seat changes anything above the supervisor.
CancelQueued(c, i) ==
    LET t == Request[i].of IN
    /\ Sends(c, i) /\ Serves(c, i) /\ Request[i].kind = "cancel"
    /\ t \in outstanding[S(i)] /\ t \in running /\ below[S(i)] = "live"
    /\ running' = running \ {t}
    /\ Write(c, <<t, i>>)
    /\ outstanding' = [outstanding EXCEPT ![S(i)] = @ \ {t}]
    /\ UNCHANGED <<resumable, sockets, meta, route, window, phase, below, orphaned, tokens>>
CancelOther(c, i) ==
    /\ Sends(c, i) /\ Serves(c, i) /\ Request[i].kind = "cancel"
    /\ Write(c, <<i>>)
    /\ UNCHANGED <<resumable, sockets, meta, route, outstanding, window, phase, service, tokens>>

\* Whatever a seat will answer: forwarded.  A close ends the session here.
Dispatch(c, i) ==
    /\ Sends(c, i) /\ Serves(c, i) /\ Request[i].kind = "work"
    /\ below[S(i)] = "live"
    /\ outstanding' = [outstanding EXCEPT ![S(i)] = @ \union {i}]
    /\ running' = running \union {i}
    /\ UNCHANGED <<resumable, sockets, meta, route, window, phase, below, orphaned,
                   tokens, told, unheard>>
Close(c, i) ==
    /\ Sends(c, i) /\ Serves(c, i) /\ Request[i].kind = "close"
    /\ below[S(i)] = "live"
    /\ meta' = [meta EXCEPT ![S(i)] = "none"]
    /\ slots' = [slots EXCEPT ![c] = @ \ {S(i)}]
    /\ outstanding' = [outstanding EXCEPT ![S(i)] = @ \union {i}]
    /\ below' = [below EXCEPT ![S(i)] = "none"]
    /\ running' = running \union {i}
    /\ UNCHANGED <<resumable, line, drops, route, window, phase, orphaned, tokens, told, unheard>>

\* The supervisor answers at once: a session it does not know, a session without
\* a seat, or a move whose new seat does not start, which leaves it without one.
DispatchFails(c, i) ==
    /\ Sends(c, i) /\ Serves(c, i) /\ Request[i].kind \in {"work", "close"}
    /\ \/ below[S(i)] # "live" /\ UNCHANGED below
       \/ /\ below[S(i)] = "live" /\ Request[i].kind = "work" /\ StartsMayFail /\ Moves
          /\ below' = [below EXCEPT ![S(i)] = "hollow"]
    /\ LET m == IF Request[i].kind = "close" THEN "none" ELSE meta[S(i)]
       IN  /\ meta' = [meta EXCEPT ![S(i)] = m]
           /\ slots' = [slots EXCEPT ![c] = IF m = "none" THEN @ \ {S(i)} ELSE @]
           /\ Deliver(S(i), <<i>>, outstanding[S(i)] \union {i}, m)
    /\ UNCHANGED <<resumable, line, drops, deadlines, phase, running, orphaned, tokens>>
-----------------------------------------------------------------------------
(* From below *)

\* onWorkerFrame: the seat's answer to a request, other than an open's.
Answer(i) ==
    /\ phase # "stopped" /\ i \in running /\ Request[i].kind # "open"
    /\ running' = running \ {i}
    /\ Deliver(S(i), <<i>>, outstanding[S(i)], meta[S(i)])
    /\ UNCHANGED <<resumable, sockets, meta, deadlines, phase, below, orphaned,
                   sent, tokens>>

Opened(i) ==
    /\ phase # "stopped" /\ i \in running /\ Request[i].kind = "open"
    /\ running' = running \ {i}
    /\ meta' = [meta EXCEPT ![S(i)] = IF @ = "opening" THEN "open" ELSE @]
    /\ Deliver(S(i), <<i>>, outstanding[S(i)], meta[S(i)])
    /\ tokens' = IF told' # told /\ meta[S(i)] = "opening" THEN tokens \union {S(i)} ELSE tokens
    /\ UNCHANGED <<resumable, sockets, deadlines, phase, below, orphaned, sent>>

\* The refusal of an open is delivered and the session is closed and released.
OpenRefused(i) ==
    /\ phase # "stopped" /\ i \in running /\ Request[i].kind = "open"
    /\ running' = running \ {i}
    /\ IF meta[S(i)] = "opening"
       THEN /\ WriteIfRouted(S(i), <<i>>)
            /\ Release(S(i))
            /\ below' = [below EXCEPT ![S(i)] = Closed(@)]
       ELSE /\ Deliver(S(i), <<i>>, outstanding[S(i)], meta[S(i)])
            /\ UNCHANGED <<meta, slots, below>>
    /\ UNCHANGED <<resumable, line, drops, deadlines, phase, orphaned, sent, tokens>>

\* The requests the disruption sink fails.
\* Variant for mutation testing: none.
NoneLost(s) == <<>>
LostBy(s) == Ascending(outstanding[s])

\* A kill or a dropped graph took the session's seat and it was rebuilt: all its
\* owed requests are failed.  Those in kept are on a seat it moved away from
\* before, which answers them all the same.
Disrupt(s, kept) ==
    /\ phase # "stopped" /\ below[s] # "none"
    /\ below' = [below EXCEPT ![s] = "live"]
    /\ running' = (running \ Of(s)) \union kept
    /\ orphaned' = orphaned \union (kept \intersect outstanding[s])
    /\ Deliver(s, LostBy(s), outstanding[s], meta[s])
    /\ UNCHANGED <<resumable, sockets, meta, deadlines, phase, sent, tokens>>

\* It could not be rebuilt: its owed requests are failed and it is released.
Drop(s, kept) ==
    /\ phase # "stopped" /\ below[s] # "none" /\ StartsMayFail
    /\ below' = [below EXCEPT ![s] = "none"]
    /\ running' = (running \ Of(s)) \union kept
    /\ orphaned' = orphaned \union (kept \intersect outstanding[s])
    /\ WriteIfRouted(s, Ascending(outstanding[s]))
    /\ Release(s)
    /\ UNCHANGED <<resumable, line, drops, deadlines, phase, sent, tokens>>

OnMovedSeats(s) == SUBSET {i \in running : Moves /\ S(i) = s /\ Request[i].kind = "work"}
-----------------------------------------------------------------------------
(* Sockets, the timer and the stop *)

\* The upgrade is refused at the connection limit, and nothing listens any more
\* once a stop is seen.
Connect(c) ==
    /\ phase = "serving"
    /\ line[c] = "none" /\ \A d \in 1..(c - 1) : line[d] # "none"
    /\ line' = [line EXCEPT ![c] = "up"]
    /\ UNCHANGED <<resumable, slots, drops, meta, route, outstanding, window, phase,
                   service, client>>

\* The client is gone and the service has yet to notice.
LineDies(c) ==
    /\ line[c] = "up" /\ drops < MaxDrops
    /\ line' = [line EXCEPT ![c] = "dead"]
    /\ UNCHANGED <<resumable, slots, drops, meta, route, outstanding, window, phase,
                   service, client>>

Detached == {s \in Sessions : IsAway(s)}
Latest == IF deadlines = <<>> THEN 0 ELSE Last(deadlines).since
\* detach() one session after the other, giving up the longest waiting when there
\* are too many: the newest are kept, never less than the one just detached.
Survivors(stamp, waiting) ==
    LET most == IF MaxDetached = 0 THEN 1 ELSE MaxDetached
    IN  {s \in waiting : Cardinality({t \in waiting : stamp[t] > stamp[s]}) < most}

\* The sessions on the sockets cs that are detached rather than closed.
Staying(cs) == {s \in UNION {slots[c] : c \in cs} : resumable /\ meta[s] # "none"}

\* The deadlines armed for them, in the order they are detached.
\* Variant for mutation testing: only for one that has none armed yet.
ArmedOnce(order) ==
    SelectSeq([k \in DOMAIN order |-> [session |-> order[k], since |-> Latest + k]],
              LAMBDA d : \A k \in DOMAIN deadlines : deadlines[k].session # d.session)
\* Variant for mutation testing: a deadline earlier than its session's.
ArmedEarly(order) ==
    [k \in DOMAIN order |-> [session |-> order[k], since |-> Latest + k - 1]]
Armed(order) == [k \in DOMAIN order |-> [session |-> order[k], since |-> Latest + k]]

\* onClose for the sockets cs: each session on them, in some order, is detached,
\* or closed when the window is off; closed too are those given up for room.
Leave(cs, order) ==
    LET gone == UNION {slots[c] : c \in cs}
        stays == Range(order)
        stamp == [s \in Sessions |->
                    IF s \in stays THEN Latest + CHOOSE k \in DOMAIN order : order[k] = s
                    ELSE away[s].since]
        waiting == Detached \union stays
        ended == (waiting \ Survivors(stamp, waiting)) \union (gone \ stays)
    IN  /\ away' = [s \in Sessions |->
                      IF s \in ended THEN Here
                      ELSE IF s \in stays THEN [Here EXCEPT !.since = stamp[s]] ELSE away[s]]
        /\ deadlines' = deadlines \o Armed(order)
        /\ meta' = [s \in Sessions |-> IF s \in ended THEN "none" ELSE meta[s]]
        /\ outstanding' = [s \in Sessions |-> IF s \in ended THEN {} ELSE outstanding[s]]
        /\ below' = [s \in Sessions |-> IF s \in ended THEN Closed(below[s]) ELSE below[s]]
        /\ route' = [s \in Sessions |-> IF route[s] \in cs THEN NoConn ELSE route[s]]
        /\ line' = [c \in Conns |-> IF c \in cs THEN "none" ELSE line[c]]
        /\ slots' = [c \in Conns |-> IF c \in cs THEN {} ELSE slots[c]]
Orders(cs) == SetToSeqs(Staying(cs))

CloseSocket(c) ==
    /\ line[c] # "none" /\ drops < MaxDrops
    /\ \E order \in Orders({c}) : Leave({c}, order)
    /\ drops' = drops + 1
    /\ UNCHANGED <<resumable, phase, running, orphaned, client>>

\* The earliest deadline.  It is stale when its session came back, even if it has
\* left again since.
\* Variant for mutation testing: a deadline closes whatever is detached by then.
CloseAnyAbsent(d) ==
    /\ outstanding' = [outstanding EXCEPT ![d.session] = IF IsAway(d.session) THEN {} ELSE @]
    /\ away' = [away EXCEPT ![d.session] = Here]
    /\ meta' = [meta EXCEPT ![d.session] = IF IsAway(d.session) THEN "none" ELSE @]
    /\ below' = [below EXCEPT ![d.session] = IF IsAway(d.session) THEN Closed(@) ELSE @]
CloseAbsent(d) ==
    IF IsAway(d.session) /\ away[d.session].since <= d.since
    THEN /\ outstanding' = [outstanding EXCEPT ![d.session] = {}]
         /\ away' = [away EXCEPT ![d.session] = Here]
         /\ meta' = [meta EXCEPT ![d.session] = "none"]
         /\ below' = [below EXCEPT ![d.session] = Closed(@)]
    ELSE UNCHANGED <<outstanding, away, meta, below>>
FireDeadline ==
    /\ phase # "stopped" /\ deadlines # <<>>
    /\ CloseAbsent(Head(deadlines))
    /\ deadlines' = Tail(deadlines)
    /\ UNCHANGED <<resumable, sockets, route, phase, running, orphaned, client>>

\* checkStop: it waits while anything is owed and the grace lasts, and then ends
\* every socket and the loop.
Owing == \E s \in Sessions : outstanding[s] # {}
BeginDrain ==
    /\ phase = "serving" /\ Owing
    /\ phase' = "draining"
    /\ UNCHANGED <<resumable, sockets, meta, route, outstanding, window, service, client>>
Stop ==
    /\ phase = "draining" \/ (phase = "serving" /\ ~Owing)
    /\ phase' = "stopped"
    /\ \E order \in Orders(Conns) : Leave(Conns, order)
    /\ UNCHANGED <<resumable, drops, running, orphaned, client>>
-----------------------------------------------------------------------------
Client(c, i) ==
    \/ Refuse(c, i) \/ Open(c, i) \/ OpenThrows(c, i) \/ Resume(c, i)
    \/ CancelQueued(c, i) \/ CancelOther(c, i)
    \/ Dispatch(c, i) \/ Close(c, i) \/ DispatchFails(c, i)
Reply(i) == Answer(i) \/ Opened(i) \/ OpenRefused(i)
Socket(c) == Connect(c) \/ LineDies(c) \/ CloseSocket(c)

Next ==
    \/ \E c \in Conns : Socket(c) \/ \E i \in Ids : Client(c, i)
    \/ \E i \in Ids : Reply(i)
    \/ \E s \in Sessions : \E kept \in OnMovedSeats(s) : Disrupt(s, kept) \/ Drop(s, kept)
    \/ FireDeadline \/ BeginDrain \/ Stop

\* The timer ticks, and what a seat runs comes to an end: pricing calls return, or
\* are killed.  Nothing makes a client come back or a stop be asked for.
Spec ==
    /\ Init /\ [][Next]_vars
    /\ \A i \in Ids : WF_vars(Reply(i))
    /\ WF_vars(FireDeadline)
-----------------------------------------------------------------------------
(* Correctness *)

Absence == [since : Nat, held : Seq(Ids), lost : SUBSET Ids]
Deadline == [session : Sessions, since : Nat \ {0}]

TypeOK ==
    /\ resumable \in BOOLEAN
    /\ line \in [Conns -> {"none", "up", "dead"}]
    /\ slots \in [Conns -> SUBSET Sessions]
    /\ meta \in [Sessions -> {"none", "opening", "open"}]
    /\ route \in [Sessions -> Conns \union {NoConn}]
    /\ outstanding \in [Sessions -> SUBSET Ids]
    /\ away \in [Sessions -> Absence]
    /\ deadlines \in Seq(Deadline)
    /\ drops \in 0..MaxDrops
    /\ phase \in {"serving", "draining", "stopped"}
    /\ below \in [Sessions -> {"none", "live", "hollow"}]
    /\ running \subseteq Ids /\ orphaned \subseteq Ids
    /\ sent \subseteq Ids /\ tokens \subseteq Sessions
    /\ told \in [Ids -> Nat] /\ unheard \subseteq Ids

\* A session the gateway has is on exactly one socket, which counts it, or waits
\* for its client, and never both; one it has let go of keeps a route only while
\* something is owed on it (release, dropRouteIfDone, onClose, gateway.cpp:362).
BooksAgree ==
    \A s \in Sessions :
        /\ \A c \in Conns : s \in slots[c] <=> meta[s] # "none" /\ route[s] = c
        /\ meta[s] # "none" => (IsAway(s) <=> route[s] = NoConn)
        /\ IsAway(s) => meta[s] # "none"
        /\ route[s] # NoConn => line[route[s]] # "none"
        /\ meta[s] = "none" /\ route[s] # NoConn => outstanding[s] # {}

\* No seat is kept for a session the gateway has let go of, and none is missing for
\* one it has; without a seat to start there is none to keep (gateway.cpp:829).
SeatsFollowSessions ==
    \A s \in Sessions : meta[s] # "none" <=> below[s] # "none"

\* A request is answered, or still owed, or its answer waits for the client or was
\* lost with a dead socket, or its session is over (gateway.cpp:261).
NoneForgotten ==
    \A i \in sent :
        \/ told[i] > 0 \/ i \in unheard
        \/ i \in outstanding[S(i)] \/ i \in Range(away[S(i)].held)
        \/ meta[S(i)] = "none"

\* What is owed will be answered: by a seat, or at a resume that says it is lost.
\* Else a drain waits for nobody (gateway.cpp:198, 424).
OwedIsServed ==
    \A s \in Sessions : \A i \in outstanding[s] : i \in running \/ i \in away[s].lost

\* Whatever socket it takes and however often the session is left and resumed, a
\* request gets one terminal frame, unless it was failed while a seat it had been
\* left on still had it (gateway.cpp:242, 709).
Terminals(i) ==
    told[i] + (IF i \in unheard THEN 1 ELSE 0) + (IF i \in away[S(i)].lost THEN 1 ELSE 0)
      + Times(i, away[S(i)].held)
OneTerminal == \A i \in Ids \ orphaned : Terminals(i) <= 1

\* A deadline closes the session only if it was armed for the absence it ends; a
\* client that came back and left again has its whole window (gateway.cpp:863).
DeadlinesEndTheirOwn ==
    [][Len(deadlines') < Len(deadlines) =>
         \A s \in Sessions : meta[s] # meta'[s] =>
             Head(deadlines) = [session |-> s, since |-> away[s].since]]_vars

\* Nobody waits for ever: every request comes to a terminal frame or to a session
\* that is over, if need be because its client stayed away (DESIGN 9.4).
EveryRequestSettles ==
    \A i \in Ids :
        i \in sent ~> (\/ told[i] > 0 \/ i \in unheard
                       \/ meta[S(i)] = "none" \/ phase = "stopped")

\* A window ends: resumed, expired or given up (gateway.cpp:861).
AbsencesEnd ==
    \A s \in Sessions : IsAway(s) ~> (~IsAway(s) \/ phase = "stopped")
=============================================================================
