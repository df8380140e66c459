----------------------------- MODULE Supervisor -----------------------------
(***************************************************************************)
(* The supervisor with the host it drives and the gateway's ledger         *)
(* (session/supervisor.cpp, gateway/threadhost.cpp, gateway/gateway.cpp).  *)
(*                                                                         *)
(* The loop is one thread, so a handler is one action: it may touch the    *)
(* supervisor's sessions and pool, the host's seats and the ledger of      *)
(* requests the client is owed an answer for.  Between two handlers, and   *)
(* between the sessions a kill recovers one by one, the seats' threads run *)
(* on: each takes a frame, serves it and posts its answer, and the loop    *)
(* takes the posts in the order they were made.  Timers fire whenever.     *)
(*                                                                         *)
(* A seat is Worker.tla reduced to its queue, its running frame and the    *)
(* value of its graph.  The market is one quote, a write is the id of the  *)
(* request that made it, and the session's log is the write it last        *)
(* recorded.  Worker processes and seats are numbered, and a number is     *)
(* given again once nothing refers to it.                                  *)
(***************************************************************************)
EXTENDS Integers, Sequences, SequencesExt, FiniteSets, Ordering

CONSTANTS
    Sessions,       \* sessions a client may open, each at most once
    Ids,            \* request ids, each used at most once
    Request,        \* what each request asks
    PerWorker,      \* Options::sessionsPerSharedWorker
    StartsMayFail,  \* whether a seat's thread may fail to start
    InOrder,        \* whether a client numbers a session's requests in order
    MaxWorkers,     \* bound on the processes that live or are remembered
    MaxSeats        \* bound on the seats that live or are winding down

Kinds == {"open", "update", "sweep", "price", "close"}
Writes == {"update", "sweep"}       \* a sweep here keeps its last value
Placements == {"shared", "sacrificial"}
\* What a request's graph makes of it: the same on every graph of the session.
Fates == {"ok", "refused", "breaks"}

ASSUME RequestAssumption ==
    /\ Ids \subseteq Nat \ {0} /\ IsFiniteSet(Ids) /\ IsFiniteSet(Sessions)
    /\ Request \in [Ids -> [session : Sessions, kind : Kinds, wants : Placements, fate : Fates]]
    /\ \A i, j \in Ids :
         /\ Request[i].kind = "open" /\ Request[j].kind = "open"
         /\ Request[i].session = Request[j].session
         => i = j
ASSUME BoundsAssumption ==
    /\ PerWorker \in Nat \ {0}
    /\ StartsMayFail \in BOOLEAN /\ InOrder \in BOOLEAN
    /\ MaxWorkers \in Nat /\ MaxSeats \in Nat

Workers == 1..MaxWorkers
SeatIds == 1..MaxSeats
\* The quote's value: 0 as opened, i as request i wrote it, -i as a sweep left it
\* that was stopped or failed before its last point.
Values == Ids \union {0} \union {-i : i \in Ids}

\* Frames on a seat: the client's, and the supervisor's own, which carry id 0
\* and whose answers the gateway drops.
Frame(i) == [id |-> i, kind |-> Request[i].kind, of |-> i]
Reopen(value) == [id |-> 0, kind |-> "open", of |-> value]
Rewrite(i) == [id |-> 0, kind |-> "update", of |-> i]
Hangup == [id |-> 0, kind |-> "close", of |-> 0]

NoSeat == [session |-> "", worker |-> 0, held |-> FALSE, queue |-> <<>>,
           busy |-> FALSE, stop |-> FALSE, graph |-> "none", value |-> 0]
NoWorker == [placement |-> "shared", sessions |-> 0]
NoSession == [worker |-> 0, placement |-> "shared", log |-> 0, pending |-> {},
              targets |-> {}, armed |-> FALSE, generation |-> 0]

VARIABLES
    sessions,    \* Supervisor::sessions_; worker 0 where there is none
    pool,        \* Supervisor::workers_ and the host's processes
    todo,        \* the sessions recoverSessionsOn() has still to replay
    timers,      \* cancel deadlines armed and not fired, in order
    seats,       \* seats not disowned; "held" while in the host's table
    posts,       \* what seats posted and the loop has not taken
    meta,        \* Gateway sessions: none, opening or open
    route,       \* Gateway sessionConn
    outstanding, \* ids the client is owed a terminal frame for
    sent,        \* ids the client has used
    told,        \* terminal frames the client was sent, per id
    orphaned,    \* ids failed while a seat still had them
    crossed      \* sessions with a write that two seats saw in another order or state

supervisor == <<sessions, pool, todo, timers>>
host == <<seats, posts>>
ledger == <<meta, route, outstanding, sent, told, orphaned>>
vars == <<supervisor, host, ledger, crossed>>

Init ==
    /\ sessions = [s \in Sessions |-> NoSession]
    /\ pool = [w \in Workers |-> NoWorker]
    /\ todo = {} /\ timers = <<>>
    /\ seats = [n \in SeatIds |-> NoSeat] /\ posts = <<>>
    /\ meta = [s \in Sessions |-> "none"] /\ route = {}
    /\ outstanding = {} /\ sent = {} /\ told = [i \in Ids |-> 0]
    /\ orphaned = {} /\ crossed = {}
-----------------------------------------------------------------------------
(* Seats and processes *)

Exists(s) == sessions[s].worker # 0

\* The host's lookup, processes_[w].seats[s].
SeatsAt(ss, w, s) == {n \in SeatIds : ss[n].held /\ ss[n].worker = w /\ ss[n].session = s}

\* The session's seat where the supervisor would send to; empty when its thread
\* never started.
Placed(s) == SeatsAt(seats, sessions[s].worker, s)

Send(ss, n, f) ==
    [ss EXCEPT ![n].queue = Append(@, f), ![n].held = f.kind # "close"]

\* A disowned seat delivers nothing more: it and its posts are out of the picture.
Disown(ss, gone) == [n \in SeatIds |-> IF n \in gone THEN NoSeat ELSE ss[n]]
\* Variant for mutation testing: the process goes and its seats stay.
KillNobody(ss, w) == ss
Kill(ss, w) == Disown(ss, {n \in SeatIds : ss[n].held /\ ss[n].worker = w})
Deliverable(ps, ss) == Kept(ps, {k \in DOMAIN ps : ss[ps[k].seat] # NoSeat})

\* acquireSeat: the first shared worker with room, any of them here since ids
\* sort as strings, or a fresh process.  A sacrificial one is always fresh.
\* Variant for mutation testing: a sacrificial worker is shared.
HasRoomAnywhere(p, w) == p[w].sessions \in 1..(PerWorker - 1)
HasRoom(p, w) == p[w].placement = "shared" /\ p[w].sessions \in 1..(PerWorker - 1)
Unused(p, ss) == {w \in Workers : p[w] = NoWorker /\ \A n \in SeatIds : ss[n].worker # w}
Openings(p, ss, placement) ==
    IF placement = "shared" /\ \E w \in Workers : HasRoom(p, w)
    THEN {w \in Workers : HasRoom(p, w)}
    ELSE {w \in Unused(p, ss) : \A v \in Unused(p, ss) : w <= v}
Acquire(p, w, placement) ==
    IF p[w] = NoWorker THEN [p EXCEPT ![w] = [placement |-> placement, sessions |-> 1]]
    ELSE [p EXCEPT ![w].sessions = @ + 1]

\* releaseSeat: an emptied process is retired, with whatever seat is left in it.
\* Variant for mutation testing: the count goes down twice.
ReleaseTwice(p, w) == [p EXCEPT ![w].sessions = @ - 2]
Release(p, w) ==
    IF p[w].sessions = 1 THEN [p EXCEPT ![w] = NoWorker]
    ELSE [p EXCEPT ![w].sessions = @ - 1]
Retire(ss, p, w) == IF p[w] = NoWorker THEN Kill(ss, w) ELSE ss

FreeSeats(ss) == {n \in SeatIds : ss[n] = NoSeat /\ \A m \in 1..(n - 1) : ss[m] # NoSeat}
NewSeat(s, w, frames) ==
    [session |-> s, worker |-> w, held |-> TRUE, queue |-> frames,
     busy |-> FALSE, stop |-> FALSE, graph |-> "none", value |-> 0]

\* rebuildOn: the log, then the writes still unacked, in the order of their ids.
Rebuild(rec) ==
    <<Reopen(rec.log)>> \o
        [k \in 1..Cardinality(rec.pending) |-> Rewrite(Ascending(rec.pending)[k])]
-----------------------------------------------------------------------------
(* The gateway's ledger *)

OwedOn(s) == {i \in outstanding : Request[i].session = s}

\* Terminal frames for these ids, if the session still has a route.
Tell(ids, s) ==
    told' = [i \in Ids |-> IF i \in ids /\ s \in route THEN told[i] + 1 ELSE told[i]]

\* deliver() of a terminal frame and dropRouteIfDone.
Deliver(i, s) ==
    /\ Tell({i}, s)
    /\ outstanding' = outstanding \ {i}
    /\ route' = IF meta'[s] = "none" /\ OwedOn(s) \ {i} = {} THEN route \ {s} ELSE route

\* release(): what is still owed is forgotten.
Forget(s) ==
    /\ outstanding' = outstanding \ OwedOn(s)
    /\ meta' = [meta EXCEPT ![s] = "none"]
    /\ route' = route \ {s}

\* A client's frame reaching Gateway::handle for a session on its connection.
\* Session ids are minted by the service, so it names one only once it is open.
Receive(i) ==
    /\ todo = {}
    /\ i \notin sent /\ Request[i].kind # "open"
    /\ LET s == Request[i].session IN
        /\ s \in route /\ meta[s] # "opening"
        /\ InOrder => \A j \in Ids : j < i /\ Request[j].session = s => j \in sent
    /\ sent' = sent \union {i}

\* A request answered within its own handler is tracked and untracked in it.
Answered(i) == Deliver(i, Request[i].session)
-----------------------------------------------------------------------------
(* The loop: requests *)

OpenSession(i) ==
    LET s == Request[i].session IN
    /\ todo = {}
    /\ i \notin sent /\ Request[i].kind = "open" /\ meta[s] = "none" /\ ~Exists(s)
    /\ sent' = sent \union {i}
    /\ \E w \in Openings(pool, seats, "shared"), n \in FreeSeats(seats) :
         /\ pool' = Acquire(pool, w, "shared")
         /\ sessions' = [sessions EXCEPT ![s] = [NoSession EXCEPT !.worker = w]]
         /\ seats' = [seats EXCEPT ![n] = NewSeat(s, w, <<Frame(i)>>)]
    /\ meta' = [meta EXCEPT ![s] = "opening"]
    /\ route' = route \union {s}
    /\ outstanding' = outstanding \union {i}
    /\ UNCHANGED <<todo, timers, posts, told, orphaned, crossed>>

\* The send threw: the seat is given back and the gateway lets go of its side.
OpenThrows(i) ==
    /\ todo = {}
    /\ StartsMayFail
    /\ i \notin sent /\ Request[i].kind = "open" /\ ~Exists(Request[i].session)
    /\ sent' = sent \union {i}
    /\ told' = [told EXCEPT ![i] = @ + 1]
    /\ UNCHANGED <<supervisor, host, meta, route, outstanding, orphaned, crossed>>

\* A session closed or dropped, with its route still there for what is owed.
DispatchUnknown(i) ==
    /\ Receive(i)
    /\ ~Exists(Request[i].session)
    /\ meta' = meta
    /\ Answered(i)
    /\ UNCHANGED <<supervisor, host, orphaned, crossed>>

DispatchClose(i) ==
    LET s == Request[i].session
        w == sessions[s].worker
    IN
    /\ Receive(i) /\ Request[i].kind = "close" /\ Exists(s)
    /\ \E n \in Placed(s) : seats' = Retire(Send(seats, n, Frame(i)), Release(pool, w), w)
    /\ pool' = Release(pool, w)
    /\ sessions' = [sessions EXCEPT ![s] = NoSession]
    /\ meta' = [meta EXCEPT ![s] = "none"]
    /\ outstanding' = outstanding \union {i}
    /\ UNCHANGED <<todo, timers, posts, route, told, orphaned, crossed>>

\* Variant for mutation testing: a session moves from under its cancel.
MovesAnyway(i) ==
    LET rec == sessions[Request[i].session] IN
    /\ Request[i].kind \in {"price", "sweep"}
    /\ Request[i].wants # rec.placement

\* placementFor differs from where the session is, and no cancel is being served.
Moves(i) ==
    LET rec == sessions[Request[i].session] IN
    /\ Request[i].kind \in {"price", "sweep"}
    /\ Request[i].wants # rec.placement
    /\ rec.targets = {}

\* The write the log will take when the request ends well.
Parked(i) == IF Request[i].kind \in Writes THEN {i} ELSE {}

\* A write overtaking an older one whose answer comes from a seat left behind.
Crossing(i) ==
    LET s == Request[i].session
        Behind(j) == \A n \in Placed(s) :
            /\ \A k \in DOMAIN seats[n].queue : seats[n].queue[k].id # j
            /\ \A k \in DOMAIN posts : posts[k].seat = n => posts[k].id # j
    IN crossed' = IF Parked(i) # {} /\ \E j \in sessions[s].pending : Behind(j)
                  THEN crossed \union {s} ELSE crossed

Dispatch(i) ==
    LET s == Request[i].session IN
    /\ Receive(i) /\ Request[i].kind # "close" /\ Exists(s) /\ ~Moves(i)
    /\ \E n \in Placed(s) : seats' = Send(seats, n, Frame(i))
    /\ sessions' = [sessions EXCEPT ![s].pending = @ \union Parked(i)]
    /\ outstanding' = outstanding \union {i}
    /\ Crossing(i)
    /\ UNCHANGED <<pool, todo, timers, posts, meta, route, told, orphaned>>

\* dispatch() of a request that belongs elsewhere: detach, acquireSeat,
\* rebuildOn.  The old seat drains its queue and answers it.
Relocate(i) ==
    LET s == Request[i].session
        rec == sessions[s]
        freed == Release(pool, rec.worker)
    IN
    /\ Receive(i) /\ Exists(s) /\ Moves(i)
    /\ \E old \in Placed(s) :
       LET left == Retire(Send(seats, old, Hangup), freed, rec.worker) IN
       \E w \in Openings(freed, left, Request[i].wants), n \in FreeSeats(left) :
         /\ pool' = Acquire(freed, w, Request[i].wants)
         /\ seats' = [left EXCEPT ![n] = NewSeat(s, w, Append(Rebuild(rec), Frame(i)))]
         /\ sessions' = [sessions EXCEPT ![s].worker = w, ![s].placement = Request[i].wants,
                                         ![s].pending = @ \union Parked(i)]
    /\ outstanding' = outstanding \union {i}
    /\ crossed' = IF Parked(i) # {} /\ rec.pending # {} THEN crossed \union {s} ELSE crossed
    /\ UNCHANGED <<todo, timers, posts, meta, route, told, orphaned>>

\* The new seat's thread did not start: the session has left the old seat and
\* its place on the new worker is empty.
RelocateThrows(i) ==
    LET s == Request[i].session
        rec == sessions[s]
        freed == Release(pool, rec.worker)
    IN
    /\ StartsMayFail
    /\ Receive(i) /\ Exists(s) /\ Moves(i)
    /\ \E old \in Placed(s) :
       LET left == Retire(Send(seats, old, Hangup), freed, rec.worker) IN
       /\ seats' = left
       /\ \E w \in Openings(freed, left, Request[i].wants) :
            /\ pool' = Acquire(freed, w, Request[i].wants)
            /\ sessions' = [sessions EXCEPT ![s].worker = w, ![s].placement = Request[i].wants]
    /\ meta' = meta
    /\ Answered(i)
    /\ UNCHANGED <<todo, timers, posts, orphaned, crossed>>

\* The session's seat is not there: the host refuses the frame.  A write has
\* been parked by then, and a close has cost the session its token.
DispatchThrows(i) ==
    LET s == Request[i].session IN
    /\ Receive(i) /\ Exists(s) /\ Placed(s) = {}
    /\ sessions' = IF Moves(i) THEN sessions
                   ELSE [sessions EXCEPT ![s].pending = @ \union Parked(i)]
    /\ meta' = IF Request[i].kind = "close" THEN [meta EXCEPT ![s] = "none"] ELSE meta
    /\ Answered(i)
    /\ UNCHANGED <<pool, todo, timers, host, orphaned, crossed>>
-----------------------------------------------------------------------------
(* The loop: cancels *)

\* Gateway::handle's part of a cancel: only a request still owed is anything to
\* stop.  The cancel's own Ack is the gateway's and is left out.
Cancellable(i) ==
    LET s == Request[i].session IN
    todo = {} /\ i \in outstanding /\ s \in route /\ meta[s] # "opening" /\ Exists(s)

Runs(n, i) == seats[n].busy /\ Head(seats[n].queue).id = i

\* Variant for mutation testing: a withdrawn request is never answered.
CancelQueuedUnanswered(i) ==
    LET s == Request[i].session IN
    /\ Cancellable(i) /\ i \notin sessions[s].targets
    /\ \E n \in Placed(s) : \E k \in DOMAIN seats[n].queue :
         /\ ~Runs(n, i) /\ seats[n].queue[k] = Frame(i)
         /\ seats' = [seats EXCEPT ![n].queue = RemoveAt(@, k)]
    /\ sessions' = [sessions EXCEPT ![s].pending = @ \ {i}]
    /\ UNCHANGED <<pool, todo, timers, posts, ledger, crossed>>

\* requestStop took it out of the queue: answered here.
CancelQueued(i) ==
    LET s == Request[i].session IN
    /\ Cancellable(i) /\ i \notin sessions[s].targets
    /\ \E n \in Placed(s) : \E k \in DOMAIN seats[n].queue :
         /\ ~Runs(n, i) /\ seats[n].queue[k] = Frame(i)
         /\ seats' = [seats EXCEPT ![n].queue = RemoveAt(@, k)]
    /\ sessions' = [sessions EXCEPT ![s].pending = @ \ {i}]
    /\ meta' = meta
    /\ Answered(i)
    /\ UNCHANGED <<pool, todo, timers, posts, sent, orphaned, crossed>>

\* Variant for mutation testing: the cancel answers its target at once.
CancelRunningAnswers(i) ==
    LET s == Request[i].session IN
    /\ Cancellable(i) /\ i \notin sessions[s].targets
    /\ \E n \in Placed(s) : Runs(n, i) /\ seats' = [seats EXCEPT ![n].stop = TRUE]
    /\ sessions' = [sessions EXCEPT ![s].targets = @ \union {i}, ![s].armed = TRUE]
    /\ timers' = IF sessions[s].armed THEN timers
                 ELSE Append(timers, [session |-> s, generation |-> sessions[s].generation])
    /\ Tell({i}, s)
    /\ UNCHANGED <<pool, todo, posts, meta, route, outstanding, sent, orphaned, crossed>>

\* Variant for mutation testing: later cancels rely on a deadline nobody armed.
CancelRunningArmsNothing(i) ==
    LET s == Request[i].session IN
    /\ Cancellable(i) /\ i \notin sessions[s].targets
    /\ \E n \in Placed(s) : Runs(n, i) /\ seats' = [seats EXCEPT ![n].stop = TRUE]
    /\ sessions' = [sessions EXCEPT ![s].targets = @ \union {i}, ![s].armed = TRUE]
    /\ UNCHANGED <<pool, todo, timers, posts, ledger, crossed>>

\* It runs: stopped politely, with the kill behind it.  A stop that comes after
\* the answer was posted and before the thread moved on counts as one before.
CancelRunning(i) ==
    LET s == Request[i].session IN
    /\ Cancellable(i) /\ i \notin sessions[s].targets
    /\ \E n \in Placed(s) : Runs(n, i) /\ seats' = [seats EXCEPT ![n].stop = TRUE]
    /\ sessions' = [sessions EXCEPT ![s].targets = @ \union {i}, ![s].armed = TRUE]
    /\ timers' = IF sessions[s].armed THEN timers
                 ELSE Append(timers, [session |-> s, generation |-> sessions[s].generation])
    /\ UNCHANGED <<pool, todo, posts, ledger, crossed>>
-----------------------------------------------------------------------------
(* The loop: kills and replays *)

\* Variant for mutation testing: only the cancel's targets are answered.
FailTargetsOnly(s) ==
    /\ Tell(sessions[s].targets, s)
    /\ orphaned' = orphaned

\* What disrupted_ or dropped_ fails: the cancel targets as CANCELLED, the rest
\* of what is owed as WORKER_DIED, each once.
Fail(s) ==
    /\ Tell(OwedOn(s) \union sessions[s].targets, s)
    /\ orphaned' = orphaned \union
         {i \in OwedOn(s) : \E n \in SeatIds :
             /\ seats'[n] # NoSeat
             /\ \/ \E k \in DOMAIN seats'[n].queue : seats'[n].queue[k].id = i
                \/ \E k \in DOMAIN posts' : posts'[k].seat = n /\ posts'[k].id = i}

Replayed(s, p, ss) ==
    LET rec == sessions[s] IN
    /\ \E w \in Openings(p, ss, rec.placement), n \in FreeSeats(ss) :
         /\ pool' = Acquire(p, w, rec.placement)
         /\ seats' = [ss EXCEPT ![n] = NewSeat(s, w, <<Reopen(rec.log)>>)]
         /\ sessions' = [sessions EXCEPT ![s] =
                [rec EXCEPT !.worker = w, !.pending = {}, !.targets = {}, !.armed = FALSE,
                            !.generation = rec.generation + 1]]
    /\ Fail(s)
    /\ outstanding' = outstanding \ OwedOn(s)
    /\ route' = IF meta[s] = "none" /\ OwedOn(s) # {} THEN route \ {s} ELSE route
    /\ meta' = meta

\* Two starts in a row failed: the session is reported and dropped.
Dropped(s, p, ss) ==
    /\ StartsMayFail
    /\ pool' = p /\ seats' = ss
    /\ sessions' = [sessions EXCEPT ![s] = NoSession]
    /\ Fail(s)
    /\ Forget(s)

Replay(s, p, ss) == Replayed(s, p, ss) \/ Dropped(s, p, ss)

\* A timer nobody wants any more.
TimerStale ==
    /\ todo = {} /\ timers # <<>>
    /\ LET t == Head(timers) IN
        ~Exists(t.session) \/ t.generation # sessions[t.session].generation
            \/ sessions[t.session].targets = {}
    /\ timers' = Tail(timers)
    /\ UNCHANGED <<sessions, pool, todo, host, ledger, crossed>>

\* The grace is spent: killWorker, and every session on it is to be replayed.
GraceExpires ==
    /\ todo = {} /\ timers # <<>>
    /\ LET t == Head(timers)
           w == sessions[t.session].worker
       IN
        /\ Exists(t.session) /\ t.generation = sessions[t.session].generation
        /\ sessions[t.session].targets # {}
        /\ seats' = Kill(seats, w)
        /\ pool' = [pool EXCEPT ![w] = NoWorker]
        /\ todo' = {s \in Sessions : sessions[s].worker = w}
    /\ posts' = Deliverable(posts, seats')
    /\ timers' = Tail(timers)
    /\ UNCHANGED <<sessions, ledger, crossed>>

\* recoverSessionsOn, one session of the killed worker.
Recover(s) ==
    /\ s \in todo
    /\ todo' = todo \ {s}
    /\ posts' = posts
    /\ Replay(s, pool, seats)
    /\ UNCHANGED <<timers, sent, crossed>>
-----------------------------------------------------------------------------
(* The loop: what the seats post *)

\* Variant for mutation testing: a finished round leaves its deadline standing.
TerminatedKeepsRound(rec, p) ==
    [rec EXCEPT !.log = IF p.id \in rec.pending /\ p.code \in {"ack", "swept"} THEN p.id ELSE @,
                !.pending = @ \ {p.id},
                !.targets = @ \ {p.id},
                !.armed = @ /\ rec.targets \ {p.id} # {}]

\* Variant for mutation testing: a write enters the log whatever it ended in.
TerminatedLogsAll(rec, p) ==
    LET over == p.id \in rec.targets /\ rec.targets = {p.id} IN
    [rec EXCEPT !.log = IF p.id \in rec.pending THEN p.id ELSE @,
                !.pending = @ \ {p.id},
                !.targets = @ \ {p.id},
                !.armed = IF over THEN FALSE ELSE @,
                !.generation = IF over THEN @ + 1 ELSE @]

\* onRequestTerminated: the log advances on a write's success, and the round of
\* cancels closes with its last target.
Terminated(rec, p) ==
    LET over == p.id \in rec.targets /\ rec.targets = {p.id} IN
    [rec EXCEPT !.log = IF p.id \in rec.pending /\ p.code \in {"ack", "swept"} THEN p.id ELSE @,
                !.pending = @ \ {p.id},
                !.targets = @ \ {p.id},
                !.armed = IF over THEN FALSE ELSE @,
                !.generation = IF over THEN @ + 1 ELSE @]

OpenRefused(p) ==
    /\ p.code = "error" /\ Request[p.id].kind = "open"
    /\ meta[Request[p.id].session] = "opening"

\* A write failed by the seat its session has left, for the graph an older write
\* broke there: the seat the session is on may have taken it.
FailedBehind(p) ==
    /\ p.id \in sessions[seats[p.seat].session].pending /\ ~seats[p.seat].held
    /\ p.code = "error" /\ Request[p.id].fate = "ok"

LandAnswer ==
    /\ todo = {} /\ posts # <<>>
    /\ LET p == Head(posts)
           s == seats[p.seat].session
       IN
        /\ p.code # "died" /\ ~OpenRefused(p)
        /\ sessions' = IF Exists(s) THEN [sessions EXCEPT ![s] = Terminated(sessions[s], p)]
                       ELSE sessions
        /\ meta' = IF p.code = "opened" /\ meta[s] # "none"
                   THEN [meta EXCEPT ![s] = "open"] ELSE meta
        /\ Deliver(p.id, s)
        /\ crossed' = IF FailedBehind(p) THEN crossed \union {s} ELSE crossed
    /\ posts' = Tail(posts)
    /\ UNCHANGED <<pool, todo, timers, seats, sent, orphaned>>

\* closeFailedOpen: delivered, then closed on every side.
LandRefusedOpen ==
    /\ todo = {} /\ posts # <<>>
    /\ LET p == Head(posts)
           s == seats[p.seat].session
           w == sessions[s].worker
       IN
        /\ p.code # "died" /\ OpenRefused(p)
        /\ \E n \in Placed(s) : seats' = Retire(Send(seats, n, Hangup), Release(pool, w), w)
        /\ pool' = Release(pool, w)
        /\ sessions' = [sessions EXCEPT ![s] = NoSession]
        /\ Tell({p.id}, s)
        /\ Forget(s)
    /\ posts' = Tail(posts)
    /\ UNCHANGED <<todo, timers, sent, orphaned, crossed>>

\* onSeatDied finds no seat of that session on that process any more.
LandStaleDeath ==
    /\ todo = {} /\ posts # <<>> /\ Head(posts).code = "died"
    /\ LET from == seats[Head(posts).seat] IN SeatsAt(seats, from.worker, from.session) = {}
    /\ posts' = Tail(posts)
    /\ UNCHANGED <<supervisor, seats, ledger, crossed>>

\* onSeatDied and Supervisor::onSessionDied: the seat goes, its place is given
\* back and the session is replayed.  The seat is looked up by process and
\* session, whichever seat it was that died.
LandDeath ==
    /\ todo = {} /\ posts # <<>> /\ Head(posts).code = "died"
    /\ LET from == seats[Head(posts).seat]
           s == from.session
           w == sessions[s].worker
       IN
       \E n \in SeatsAt(seats, from.worker, s) :
         LET freed == Release(pool, w)
             left == Retire(Disown(seats, {n}), freed, w)
         IN
         /\ Exists(s)
         /\ posts' = Deliverable(Tail(posts), left)
         /\ Replay(s, freed, left)
    /\ UNCHANGED <<todo, timers, sent, crossed>>
-----------------------------------------------------------------------------
(* The seats' threads *)

Take(n) ==
    /\ seats[n].queue # <<>> /\ ~seats[n].busy
    /\ seats' = [seats EXCEPT ![n].busy = TRUE, ![n].stop = FALSE]
    /\ UNCHANGED <<supervisor, posts, ledger, crossed>>

Serving(n, kind) == seats[n].busy /\ Head(seats[n].queue).kind = kind

\* The terminal frame of the running request, the graph it leaves, and the
\* seat's death if the graph was dropped.  Answers with id 0 end in the gateway.
Finish(n, code, graph, value, died) ==
    LET id == Head(seats[n].queue).id IN
    /\ seats' = [seats EXCEPT ![n].queue = Tail(@), ![n].busy = FALSE, ![n].stop = FALSE,
                              ![n].graph = graph, ![n].value = value]
    /\ posts' = posts
         \o (IF id = 0 THEN <<>> ELSE <<[seat |-> n, id |-> id, code |-> code]>>)
         \o (IF died THEN <<[seat |-> n, id |-> 0, code |-> "died"]>> ELSE <<>>)
    /\ UNCHANGED <<supervisor, ledger, crossed>>

\* A definition that was refused is refused again when it is replayed.
Defined(s) == \A i \in Ids :
    Request[i].kind = "open" /\ Request[i].session = s => Request[i].fate = "ok"

ServeOpen(n) ==
    LET f == Head(seats[n].queue) IN
    /\ Serving(n, "open")
    /\ IF ~Defined(seats[n].session) THEN Finish(n, "error", "none", 0, FALSE)
       ELSE Finish(n, "opened", "clean", IF f.id = 0 THEN f.of ELSE 0, FALSE)

ServeClose(n) == Serving(n, "close") /\ Finish(n, "ack", "none", 0, FALSE)

Graphed(n) == Serving(n, "update") \/ Serving(n, "sweep") \/ Serving(n, "price")

ServeWithoutGraph(n) ==
    Graphed(n) /\ seats[n].graph = "none" /\ Finish(n, "error", "none", 0, FALSE)

\* The session is dropped with the refusal, unless a malformed sweep or batch is
\* refused before its graph is looked at.
ServeDirtyGraph(n) ==
    /\ Graphed(n) /\ seats[n].graph = "dirty"
    /\ \/ Finish(n, "error", "none", 0, TRUE)
       \/ /\ \/ Serving(n, "price")
             \/ Serving(n, "sweep") /\ Request[Head(seats[n].queue).of].fate = "refused"
          /\ Finish(n, "error", "dirty", 0, FALSE)

\* A kept sweep replayed as the write it would have left has nothing to refuse.
ServeUpdate(n) ==
    LET i == Head(seats[n].queue).of
        left == IF Request[i].kind = "sweep" THEN -i ELSE seats[n].value
    IN
    /\ Serving(n, "update") /\ seats[n].graph = "clean"
    /\ \/ Request[i].fate = "ok" /\ Finish(n, "ack", "clean", i, FALSE)
       \/ Request[i].fate = "refused" /\ Finish(n, "error", "clean", left, FALSE)
       \/ Request[i].fate = "breaks" /\ Finish(n, "error", "none", 0, TRUE)
       \/ Request[i].fate = "breaks" /\ Finish(n, "error", "dirty", 0, FALSE)

\* A kept axis is not put back when the sweep stops early or fails.
ServeSweep(n) ==
    LET i == Head(seats[n].queue).of IN
    /\ Serving(n, "sweep") /\ seats[n].graph = "clean"
    /\ \/ Request[i].fate = "ok" /\ Finish(n, "swept", "clean", i, FALSE)
       \/ Request[i].fate = "ok" /\ seats[n].stop /\ Finish(n, "swept", "clean", -i, FALSE)
       \/ Request[i].fate = "refused" /\ \E v \in {seats[n].value, -i} :
            Finish(n, "error", "clean", v, FALSE)
       \/ Request[i].fate = "breaks" /\ Finish(n, "error", "none", 0, TRUE)

ServePrice(n) ==
    /\ Serving(n, "price") /\ seats[n].graph = "clean"
    /\ Finish(n, "result", "clean", seats[n].value, FALSE)

\* The reaper's join returns: nothing of the seat is left.
Reap(n) ==
    /\ seats[n] # NoSeat /\ ~seats[n].held /\ seats[n].queue = <<>>
    /\ \A k \in DOMAIN posts : posts[k].seat # n
    /\ seats' = [seats EXCEPT ![n] = NoSeat]
    /\ UNCHANGED <<supervisor, posts, ledger, crossed>>
-----------------------------------------------------------------------------
Serve(n) ==
    \/ ServeOpen(n) \/ ServeClose(n) \/ ServeWithoutGraph(n) \/ ServeDirtyGraph(n)
    \/ ServeUpdate(n) \/ ServeSweep(n) \/ ServePrice(n)

SeatStep(n) == Take(n) \/ Serve(n) \/ Reap(n)

Client ==
    \E i \in Ids :
        \/ OpenSession(i) \/ OpenThrows(i) \/ DispatchUnknown(i) \/ DispatchClose(i)
        \/ Dispatch(i) \/ Relocate(i) \/ RelocateThrows(i) \/ DispatchThrows(i)
        \/ CancelQueued(i) \/ CancelRunning(i)

Timer == TimerStale \/ GraceExpires
Loop ==
    \/ LandAnswer \/ LandRefusedOpen \/ LandStaleDeath \/ LandDeath
    \/ \E s \in Sessions : Recover(s)

Next == Client \/ Timer \/ Loop \/ \E n \in SeatIds : SeatStep(n)

Spec == Init /\ [][Next]_vars

\* The loop takes what is posted and fires what is due.
LoopFairness == WF_vars(Loop) /\ WF_vars(Timer)
\* Threads run and engine calls return.
SeatFairness == \A n \in SeatIds : WF_vars(SeatStep(n))

\* Engines may never return: a cancel has to work all the same.
LoopFairSpec == Spec /\ LoopFairness
-----------------------------------------------------------------------------
(* Properties *)

Record == [worker : Workers \union {0}, placement : Placements, log : Ids \union {0},
           pending : SUBSET Ids, targets : SUBSET Ids, armed : BOOLEAN, generation : Nat]
Process == [placement : Placements, sessions : Nat]
Deadline == [session : Sessions, generation : Nat]
Waiting == [id : Ids \union {0}, kind : Kinds, of : Values]
Seat == [session : Sessions, worker : Workers, held : BOOLEAN, queue : Seq(Waiting),
         busy : BOOLEAN, stop : BOOLEAN, graph : {"none", "clean", "dirty"}, value : Values]
Post == [seat : SeatIds, id : Ids \union {0},
         code : {"opened", "ack", "result", "swept", "error", "died"}]

TypeOK ==
    /\ sessions \in [Sessions -> Record]
    /\ pool \in [Workers -> Process]
    /\ todo \subseteq Sessions
    /\ timers \in Seq(Deadline)
    /\ seats \in [SeatIds -> Seat \union {NoSeat}]
    /\ posts \in Seq(Post)
    /\ meta \in [Sessions -> {"none", "opening", "open"}]
    /\ route \subseteq Sessions /\ outstanding \subseteq sent /\ sent \subseteq Ids
    /\ told \in [Ids -> Nat] /\ orphaned \subseteq sent /\ crossed \subseteq Sessions

Settled == todo = {}

\* The supervisor's count of a worker is the sessions it has there, so no seat
\* leaks and no worker is retired under a session; a sacrificial worker has one.
PoolMatchesSessions ==
    Settled => \A w \in Workers :
        /\ pool[w].sessions = Cardinality({s \in Sessions : sessions[s].worker = w})
        /\ pool[w].sessions <= IF pool[w].placement = "sacrificial" THEN 1 ELSE PerWorker

\* The host's table and the supervisor's map are two views of one fact: every
\* seat in the table is its session's, where the session is, and a session has
\* its seat unless a thread of its once failed to start.
SeatsMatchSessions ==
    Settled =>
        /\ \A n \in SeatIds : seats[n].held => sessions[seats[n].session].worker = seats[n].worker
        /\ \A s \in Sessions : Cardinality(Placed(s)) <= 1
        /\ \A s \in Sessions : Exists(s) /\ ~StartsMayFail => Placed(s) # {}

Holds(n, i) ==
    \/ \E k \in DOMAIN seats[n].queue : seats[n].queue[k].id = i
    \/ \E k \in DOMAIN posts : posts[k].seat = n /\ posts[k].id = i

\* Every request the client used an id for has been answered or is somewhere its
\* answer will come from, across kills, replays, moves and drops.
NoneForgotten ==
    Settled => \A i \in sent :
        IF i \in outstanding THEN \E n \in SeatIds : Holds(n, i) ELSE told[i] > 0

\* One terminal frame per request, except for one left running on a seat its
\* session moved off and then failed with the session's new worker.
OneTerminal == \A i \in Ids : told[i] <= IF i \in orphaned THEN 2 ELSE 1

\* Every cancel that waits for its grace is for a request that runs, or has just
\* answered, on the seat the kill would take: the kill never misses it and takes
\* no worker for nothing.
TargetsAreHere ==
    Settled => \A s \in Sessions : \A i \in sessions[s].targets :
        /\ i \in outstanding
        /\ \E n \in Placed(s) : Runs(n, i) \/ \E k \in DOMAIN posts :
                posts[k].seat = n /\ posts[k].id = i

\* A round of cancels has exactly one deadline to come, and a closed round none
\* that a later one could be cut short by.
OneDeadlinePerRound ==
    Settled => \A s \in Sessions : Exists(s) =>
        Cardinality({k \in DOMAIN timers :
            timers[k] = [session |-> s, generation |-> sessions[s].generation]})
        = IF sessions[s].targets # {} THEN 1 ELSE 0

\* A session at rest: everything it asked is answered and its seat has a graph.
AtRest(s) ==
    /\ Settled /\ Exists(s) /\ OwedOn(s) = {}
    /\ \E n \in Placed(s) : seats[n].graph = "clean" /\ seats[n].queue = <<>>

\* What a replay would rebuild is what the seat's graph holds, whatever kills,
\* moves and refused writes came before: unless a kept sweep ended early, or a
\* write overtook an older one on a seat left behind, or failed there on a graph
\* that an older one had broken.
LogIsTheGraph ==
    \A s \in Sessions : AtRest(s) /\ s \notin crossed =>
        \A n \in Placed(s) : seats[n].value \in {sessions[s].log} \union {-i : i \in Ids}

\* A cancelled request is answered even if its engine call never returns.
CancelsResolve ==
    \A s \in Sessions : \A i \in Ids :
        i \in sessions[s].targets ~> i \notin sessions[s].targets

\* Where engine calls do return, every request is answered in the end.
EveryRequestAnswered ==
    SeatFairness => \A i \in Ids : (i \in outstanding) ~> (i \notin outstanding)

(* What the documentation says of the program, which the code does not hold to *)

\* "Every request gets exactly one terminal frame" (doc/api/connecting.md).
ExactlyOneTerminal == \A i \in Ids : told[i] <= 1

\* A session whose seat dies has "its seat" given back, and no other
\* (Supervisor::onSessionDied).
DeathsTakeTheirOwn ==
    [][LandDeath =>
        LET from == seats[Head(posts).seat] IN
        SeatsAt(seats, from.worker, from.session) = {Head(posts).seat}]_vars

\* "A terminal error on that id before then is an open that failed, and a session
\* that never opened is closed rather than left holding a seat, a slot and a
\* token" (Gateway SessionMeta, gateway.cpp:225).
FailedOpensAreClosed ==
    \A i \in Ids :
        Request[i].kind = "open" /\ told[i] > 0 => meta[Request[i].session] # "opening"
=============================================================================
