------------------------------- MODULE Worker -------------------------------
(***************************************************************************)
(* One seat: a Worker, the thread it runs and the event loop that holds it *)
(* (session/worker.cpp, gateway/threadhost.cpp).                           *)
(*                                                                         *)
(* Three actors interleave here.  The loop submits frames, aims stops,     *)
(* disowns the seat and takes what the thread posted.  The worker's thread *)
(* pops one frame at a time, serves it and posts its terminal frame.  The  *)
(* reaper destroys a seat the loop has let go of.  Queue, current,         *)
(* abandoned and shuttingDown are guarded by Worker::mutex_, so each       *)
(* action below is one critical section or one step outside of it;         *)
(* stopRequested is an atomic read at the stop boundaries only.            *)
(*                                                                         *)
(* A calculation is the number of boundaries at which it polls for a stop: *)
(* Monte Carlo batches, sweep points or batch entries.  What an engine     *)
(* does between two of them cannot be interrupted and is one step.         *)
(***************************************************************************)
EXTENDS Naturals, Sequences, SequencesExt, FiniteSets, Ordering

CONSTANTS
    Frames,     \* the client frames that may reach this seat
    Seeds,      \* the queues a seat may start with
    MaxRequests \* bound on the requests one seat is given

NoId == 0       \* a replay's frame: no client can name it

Kinds == {"open", "update", "price", "sweep", "batch", "close", "cancel", "other"}

Polled == {"price", "sweep", "batch"}       \* kinds that meet stop boundaries
NeedGraph == {"update"} \union Polled       \* kinds that call requireSessionOpen

\* A frame of the wire, reduced to its request id, its payload case and the
\* stop boundaries it meets.  The supervisor's own frames carry id 0: a replay's
\* OpenSession and UpdateMarkets, and the CloseSession of a session that moves.
ASSUME FramesAssumption ==
    /\ Frames \subseteq [id : Nat, kind : Kinds, polls : Nat]
    /\ \A f \in Frames : f.id = NoId => f.kind \in {"open", "update", "close"}
    /\ \A f, g \in Frames : f.id = g.id /\ f.id # NoId => f = g
\* A seat is made for an OpenSession: the client's own, or a replay's with the
\* writes that were still unacked behind it (Supervisor::rebuildOn).
ASSUME SeedsAssumption ==
    /\ Seeds \subseteq Seq(Frames)
    /\ \A q \in Seeds :
         /\ q # <<>> /\ Head(q).kind = "open"
         /\ \A i \in 2..Len(q) : q[i].id = NoId /\ q[i].kind = "update"
         /\ Head(q).id # NoId => Len(q) = 1

ASSUME MaxRequestsAssumption == MaxRequests \in Nat

Ids == {f.id : f \in Frames} \ {NoId}

StopCodes == {"CANCELLED", "partial"}       \* a run cut short by a stop
Codes == {"ok", "failed", "SESSION_NOT_FOUND"} \union StopCodes

Posts == [id : Ids \union {NoId}, kind : Kinds, code : Codes \union {"died"}]

NoFrame == [id |-> NoId, kind |-> "other", polls |-> 0]

VARIABLES
    queue,          \* Worker::queue_
    current,        \* Worker::current_
    stopRequested,  \* Worker::stopRequested_
    abandoned,      \* Worker::abandoned_
    shuttingDown,   \* Worker::shuttingDown_
    session,        \* Worker::session_ and Session::dirty_
    pc,             \* where the thread is in Worker::run
    frame,          \* the frame run() popped
    polled,         \* stop boundaries it has passed
    host,           \* the loop's hold on the seat
    alive,          \* Seat::alive, read when a posted frame lands
    posts,          \* what the thread posted and the loop has not taken
    accepted,       \* ids submitted
    withdrawn,      \* ids a stop took out of the queue
    lost,           \* ids queued when the seat was abandoned
    aimed,          \* ids a stop found running
    answers,        \* terminal frames posted, per id
    landed          \* terminal frames that reached the gateway

shared == <<queue, current, stopRequested, abandoned, shuttingDown>>
thread == <<session, pc, frame, polled>>
loop == <<host, alive>>
history == <<accepted, withdrawn, lost, aimed, landed>>
vars == <<shared, thread, loop, posts, answers, history>>

Init ==
    /\ queue \in Seeds /\ current = NoId
    /\ stopRequested = FALSE /\ abandoned = FALSE /\ shuttingDown = FALSE
    /\ session = "none" /\ pc = "idle" /\ frame = NoFrame /\ polled = 0
    /\ host = "held" /\ alive = TRUE /\ posts = <<>>
    /\ accepted = {Head(queue).id} /\ withdrawn = {} /\ lost = {} /\ aimed = {}
    /\ answers = [r \in Ids |-> 0]
    /\ landed = {}

QueuedIds == {queue[i].id : i \in DOMAIN queue} \ {NoId}
-----------------------------------------------------------------------------
(* The loop *)

\* ThreadProcessHost::send to a seat it holds, and Worker::submit.  A
\* CloseSession hands the seat to the reaper with its alive flag still up, so
\* that the Ack gets out.  The gateway refuses an id that is in flight; here an
\* id is used once.
Submit(f) ==
    /\ host = "held"
    /\ f.id \notin accepted \ {NoId} /\ Cardinality(accepted) < MaxRequests
    /\ f.kind # "open" /\ (f.id = NoId => f.kind = "close")
    /\ queue' = Append(queue, f)
    /\ accepted' = accepted \union {f.id}
    /\ host' = IF f.kind = "close" THEN "reaped" ELSE "held"
    /\ UNCHANGED <<current, stopRequested, abandoned, shuttingDown, thread, alive,
                   posts, answers, withdrawn, lost, aimed, landed>>

\* Variant for mutation testing: the stop answers for a frame it leaves queued.
StopQueuedKeepsFrame(r) ==
    /\ host = "held" /\ r \in QueuedIds
    /\ withdrawn' = withdrawn \union {r}
    /\ UNCHANGED <<shared, thread, loop, posts, answers, accepted, lost, aimed, landed>>

\* Worker::requestStop, the target still queued: taken out, unless it is an
\* OpenSession, which every later frame needs.  Id 0, and an id that is neither
\* queued nor running, find nothing and change nothing.
StopQueued(r) ==
    /\ host = "held"
    /\ r # NoId
    /\ \E i \in DOMAIN queue :
         /\ queue[i].id = r
         /\ \A j \in 1..(i - 1) : queue[j].id # r
         /\ queue[i].kind # "open"
         /\ queue' = RemoveAt(queue, i)
    /\ withdrawn' = withdrawn \union {r}
    /\ UNCHANGED <<current, stopRequested, abandoned, shuttingDown, thread, loop,
                   posts, answers, accepted, lost, aimed, landed>>

\* Variant for mutation testing: a stop aimed at the worker, not at a request.
StopWhateverRuns(r) ==
    /\ host = "held" /\ r # NoId /\ r \in accepted /\ r \notin QueuedIds
    /\ stopRequested' = TRUE
    /\ aimed' = aimed \union {r}
    /\ UNCHANGED <<queue, current, abandoned, shuttingDown, thread, loop, posts,
                   answers, accepted, withdrawn, lost, landed>>

\* Worker::requestStop, the target running.
StopRunning(r) ==
    /\ host = "held"
    /\ r # NoId
    /\ r \notin QueuedIds
    /\ current = r
    /\ stopRequested' = TRUE
    /\ aimed' = aimed \union {r}
    /\ UNCHANGED <<queue, current, abandoned, shuttingDown, thread, loop, posts,
                   answers, accepted, withdrawn, lost, landed>>

\* Variant for mutation testing: the queue survives the kill.
AbandonKeepsQueue ==
    /\ host = "held"
    /\ abandoned' = TRUE
    /\ host' = "disowning"
    /\ UNCHANGED <<queue, current, stopRequested, shuttingDown, thread, alive, posts,
                   answers, history>>

\* ThreadProcessHost::kill on this seat.  Worker::abandon drops the queue under
\* the lock and raises the stop after releasing it, so the thread can move in
\* between; the loop cannot.
AbandonQueue ==
    /\ host = "held"
    /\ abandoned' = TRUE
    /\ queue' = <<>>
    /\ lost' = lost \union QueuedIds
    /\ host' = "disowning"
    /\ UNCHANGED <<current, stopRequested, shuttingDown, thread, alive, posts,
                   answers, accepted, withdrawn, aimed, landed>>

AbandonRunning ==
    /\ host = "disowning"
    /\ stopRequested' = TRUE
    /\ alive' = FALSE
    /\ host' = "reaped"
    /\ UNCHANGED <<queue, current, abandoned, shuttingDown, thread, posts, answers,
                   history>>

\* A posted frame lands: dropped when the seat has been disowned.
LandFrame ==
    /\ host # "disowning"
    /\ posts # <<>> /\ Head(posts).code # "died"
    /\ posts' = Tail(posts)
    /\ landed' = IF alive THEN landed \union {Head(posts)} ELSE landed
    /\ UNCHANGED <<shared, thread, loop, answers, accepted, withdrawn, lost, aimed>>

\* Variant for mutation testing: the report retires the seat and leaves it alive.
LandDeathKeepsAlive ==
    /\ host # "disowning"
    /\ posts # <<>> /\ Head(posts).code = "died"
    /\ posts' = Tail(posts)
    /\ host' = IF alive /\ host = "held" THEN "reaped" ELSE host
    /\ UNCHANGED <<alive, shared, thread, answers, history>>

\* A posted death lands (onSeatDied): the seat is disowned, unless a kill has
\* disowned it already or a close took it from the host's table.
LandDeath ==
    /\ host # "disowning"
    /\ posts # <<>> /\ Head(posts).code = "died"
    /\ posts' = Tail(posts)
    /\ IF alive /\ host = "held"
       THEN alive' = FALSE /\ host' = "reaped"
       ELSE UNCHANGED <<alive, host>>
    /\ UNCHANGED <<shared, thread, answers, history>>

\* The reaper's ~Worker, up to the join.
Shutdown ==
    /\ host = "reaped" /\ ~shuttingDown
    /\ shuttingDown' = TRUE
    /\ UNCHANGED <<queue, current, stopRequested, abandoned, thread, loop, posts,
                   answers, history>>
-----------------------------------------------------------------------------
(* The worker's thread: Worker::run and Worker::serve *)

\* The pop, under the lock with the two writes that make it running.
Take ==
    /\ pc = "idle" /\ queue # <<>>
    /\ frame' = Head(queue)
    /\ queue' = Tail(queue)
    /\ current' = IF Head(queue).kind = "open" THEN NoId ELSE Head(queue).id
    /\ stopRequested' = abandoned
    /\ pc' = "serving" /\ polled' = 0
    /\ UNCHANGED <<abandoned, shuttingDown, session, loop, posts, answers, history>>

\* Emits the terminal frame of the request being served.
Reply(code, next) ==
    /\ posts' = Append(posts, [id |-> frame.id, kind |-> frame.kind, code |-> code])
    /\ answers' = [r \in Ids |-> IF r = frame.id THEN answers[r] + 1 ELSE answers[r]]
    /\ pc' = next

ServeOpen ==
    /\ pc = "serving" /\ frame.kind = "open"
    /\ \/ session = "none" /\ session' = "clean" /\ Reply("ok", "served")
       \/ session' = session /\ Reply("failed", "served")
    /\ UNCHANGED <<shared, frame, polled, loop, history>>

ServeClose ==
    /\ pc = "serving" /\ frame.kind = "close"
    /\ session' = "none"
    /\ Reply("ok", "served")
    /\ UNCHANGED <<shared, frame, polled, loop, history>>

ServeOther ==
    /\ pc = "serving" /\ frame.kind \in {"cancel", "other"}
    /\ Reply(IF frame.kind = "cancel" THEN "ok" ELSE "failed", "served")
    /\ UNCHANGED <<shared, session, frame, polled, loop, history>>

\* requireSessionOpen.
ServeWithoutGraph ==
    /\ pc = "serving" /\ frame.kind \in NeedGraph /\ session = "none"
    /\ Reply("SESSION_NOT_FOUND", "served")
    /\ UNCHANGED <<shared, session, frame, polled, loop, history>>

\* A graph an earlier request left dirty: Session::apply and Session::price
\* refuse it, and the session is dropped with the refusal; a batch has it on its
\* rows.  A sweep or a batch that is malformed never gets that far, and the dirty
\* graph stays.
ServeDirtyGraph ==
    /\ pc = "serving" /\ frame.kind \in NeedGraph /\ session = "dirty"
    /\ \/ Reply(IF frame.kind = "batch" THEN "ok" ELSE "failed", "dropping")
       \/ frame.kind \in {"sweep", "batch"} /\ Reply("failed", "served")
    /\ UNCHANGED <<shared, session, frame, polled, loop, history>>

\* Session::apply on a coherent graph: taken, refused before any write, or
\* broken half-way.  Only a plain QuantLib error drops the session; a FieldError
\* or another exception leaves the dirty graph in place.
ServeUpdate ==
    /\ pc = "serving" /\ frame.kind = "update" /\ session = "clean"
    /\ \/ session' = "clean" /\ \E code \in {"ok", "failed"} : Reply(code, "served")
       \/ session' = "dirty" /\ \E next \in {"dropping", "served"} : Reply("failed", next)
    /\ UNCHANGED <<shared, frame, polled, loop, history>>

\* A stop boundary: a batched calculation unwinds with Cancelled, a sweep and
\* a batch keep what they have and answer with it.
Calculating == pc = "serving" /\ frame.kind \in Polled /\ session = "clean"

\* Variant for mutation testing: the stop is reset when the work starts, after
\* the pop has already let a stop aim at it.
BoundaryResetsStop ==
    /\ Calculating
    /\ polled < frame.polls
    /\ polled' = polled + 1
    /\ IF stopRequested /\ polled > 0
       THEN /\ Reply(IF frame.kind = "price" THEN "CANCELLED" ELSE "partial", "served")
            /\ UNCHANGED stopRequested
       ELSE stopRequested' = FALSE /\ UNCHANGED <<pc, posts, answers>>
    /\ UNCHANGED <<queue, current, abandoned, shuttingDown, session, frame, loop, history>>

\* Variant for mutation testing: the loop runs once too often.
BoundaryOneTooMany ==
    /\ Calculating
    /\ polled <= frame.polls
    /\ polled' = polled + 1
    /\ IF stopRequested
       THEN Reply(IF frame.kind = "price" THEN "CANCELLED" ELSE "partial", "served")
       ELSE UNCHANGED <<pc, posts, answers>>
    /\ UNCHANGED <<shared, session, frame, loop, history>>

Boundary ==
    /\ Calculating
    /\ polled < frame.polls
    /\ polled' = polled + 1
    /\ IF stopRequested
       THEN Reply(IF frame.kind = "price" THEN "CANCELLED" ELSE "partial", "served")
       ELSE UNCHANGED <<pc, posts, answers>>
    /\ UNCHANGED <<shared, session, frame, loop, history>>

Complete ==
    /\ Calculating
    /\ polled = frame.polls
    /\ Reply("ok", "served")
    /\ UNCHANGED <<shared, session, frame, polled, loop, history>>

\* A calculation that throws with the graph intact.  A batch is refused before its
\* first row, or thrown out of one by what is not QuantLib's: it keeps the other
\* failures to itself, and nothing throws after the last row.
Fail ==
    /\ Calculating
    /\ frame.kind = "batch" => polled = 0 \/ polled < frame.polls
    /\ Reply("failed", "served")
    /\ UNCHANGED <<shared, session, frame, polled, loop, history>>

\* Variant for mutation testing: the death is reported before the answer.
BreakSweepSilently ==
    /\ Calculating /\ frame.kind = "sweep"
    /\ session' = "dirty"
    /\ pc' = "dropping"
    /\ UNCHANGED <<shared, frame, polled, loop, posts, answers, history>>

\* A sweep's write or restore whose commit raised.
BreakSweep ==
    /\ Calculating /\ frame.kind = "sweep"
    /\ session' = "dirty"
    /\ Reply("failed", "dropping")
    /\ UNCHANGED <<shared, frame, polled, loop, history>>

\* Worker::dropSession, after the terminal frame.  The id in the post names the
\* request behind the death; the code's report carries none.
DropSession ==
    /\ pc = "dropping"
    /\ session' = "none"
    /\ posts' = Append(posts, [id |-> frame.id, kind |-> frame.kind, code |-> "died"])
    /\ pc' = "served"
    /\ UNCHANGED <<shared, frame, polled, loop, answers, history>>

\* The lock after serve().
Served ==
    /\ pc = "served"
    /\ current' = NoId
    /\ pc' = "idle" /\ frame' = NoFrame /\ polled' = 0
    /\ UNCHANGED <<queue, stopRequested, abandoned, shuttingDown, session, loop,
                   posts, answers, history>>

\* Variant for mutation testing: the thread ends without draining its queue.
ExitUndrained ==
    /\ pc = "idle" /\ shuttingDown
    /\ pc' = "exited"
    /\ session' = "none"
    /\ UNCHANGED <<shared, frame, polled, loop, posts, answers, history>>

Exit ==
    /\ pc = "idle" /\ shuttingDown /\ queue = <<>>
    /\ pc' = "exited"
    /\ session' = "none"
    /\ UNCHANGED <<shared, frame, polled, loop, posts, answers, history>>
-----------------------------------------------------------------------------
ThreadStep ==
    \/ Take \/ ServeOpen \/ ServeClose \/ ServeOther \/ ServeWithoutGraph
    \/ ServeDirtyGraph \/ ServeUpdate \/ Boundary \/ Complete \/ Fail \/ BreakSweep
    \/ DropSession \/ Served \/ Exit

LoopStep == AbandonRunning \/ LandFrame \/ LandDeath

Next ==
    \/ \E f \in Frames : Submit(f)
    \/ \E r \in Ids : StopQueued(r) \/ StopRunning(r)
    \/ AbandonQueue
    \/ LoopStep
    \/ Shutdown
    \/ ThreadStep

Spec == Init /\ [][Next]_vars

\* The thread, the loop and the reaper are OS threads that keep running, and an
\* engine call returns; clients owe nothing.
FairSpec == Spec /\ WF_vars(ThreadStep) /\ WF_vars(LoopStep) /\ WF_vars(Shutdown)
-----------------------------------------------------------------------------
(* Properties *)

TypeOK ==
    /\ queue \in Seq(Frames)
    /\ current \in Ids \union {NoId}
    /\ stopRequested \in BOOLEAN /\ abandoned \in BOOLEAN /\ shuttingDown \in BOOLEAN
    /\ session \in {"none", "clean", "dirty"}
    /\ pc \in {"idle", "serving", "dropping", "served", "exited"}
    /\ frame \in Frames \union {NoFrame}
    /\ polled \in 0..frame.polls
    /\ host \in {"held", "disowning", "reaped"}
    /\ alive \in BOOLEAN
    /\ posts \in Seq(Posts)
    /\ accepted \subseteq Ids \union {NoId} /\ withdrawn \subseteq Ids
    /\ lost \subseteq Ids /\ aimed \subseteq Ids
    /\ answers \in [Ids -> Nat]
    /\ landed \subseteq Posts

\* Every request the seat took has one fate and only one, whatever the order of
\* submits, pops, stops and kills: it waits, it is being served, it was answered
\* once, a stop took it out before it started, or a kill dropped it.  The caller
\* that withdraws it owes the client the terminal frame, so a request in two of
\* these would be answered twice and one in none never.
Fates(r) ==
    {fate \in {"queued", "serving", "answered", "withdrawn", "lost"} :
        \/ fate = "queued" /\ r \in QueuedIds
        \/ fate = "serving" /\ pc = "serving" /\ frame.id = r
        \/ fate = "answered" /\ answers[r] > 0
        \/ fate = "withdrawn" /\ r \in withdrawn
        \/ fate = "lost" /\ r \in lost}

OneFate ==
    \A r \in Ids :
        /\ answers[r] <= 1
        /\ r \notin accepted => Fates(r) = {}
        /\ r \in accepted => \E fate \in Fates(r) : Fates(r) = {fate}

\* A calculation is cut short only by a stop that named it, or by the kill of
\* its seat: a stop aimed at its neighbour in the queue, or one that arrived too
\* late for the request before it, never ends it.
Posted == {posts[i] : i \in DOMAIN posts}

StopsOnlyItsTarget ==
    \A a \in Posted \union landed :
        a.code \in StopCodes => a.id \in aimed \/ abandoned

\* A stop that found its request running, or a kill, is still standing at every
\* boundary that request has left.
StopNotLost ==
    pc = "serving" /\ (frame.id \in aimed \/ (abandoned /\ host = "reaped"))
        => stopRequested

\* Nothing queued behind a kill is started (Worker::abandon).
NothingStartsAfterKill ==
    [][abandoned => frame' \in {frame, NoFrame}]_vars

\* The request that broke the graph is answered before its session's death
\* reaches the supervisor, which fails whatever is still unanswered.
DeathAfterAnswer ==
    \A i \in DOMAIN posts :
        posts[i].code = "died" /\ posts[i].id # NoId =>
            \/ ~alive
            \/ \E a \in landed : a.id = posts[i].id /\ a.code # "died"
            \/ \E j \in 1..(i - 1) : posts[j].id = posts[i].id /\ posts[j].code # "died"

\* A client that never closed its session is not told it is gone by a seat that
\* lost its graph: those answers are dropped, since the session is being
\* replayed.  Only an open that failed, or a close on its way, lets one through.
NoGhostAnswers ==
    \A a \in landed :
        a.code = "SESSION_NOT_FOUND" =>
            \/ \E b \in landed : b.kind = "open" /\ b.code = "failed"
            \/ \E b \in Posted \union landed : b.kind = "close"
            \/ \E i \in DOMAIN queue : queue[i].kind = "close"
            \/ frame.kind = "close"

\* A request on the seat is being served or queued; the supervisor's own frames,
\* which bear no id, are none of its clients' business.
Line(first, frames) == first \o [i \in DOMAIN frames |-> frames[i].id]
Unsettled == Without(Line(IF pc = "serving" THEN <<frame.id>> ELSE <<>>, queue), NoId)
Opening == {f.id : f \in {g \in Frames : g.kind = "open"}} \ {NoId}
Promise == INSTANCE Seat WITH
    Opens <- Opening,
    state <- IF pc = "exited" THEN "gone" ELSE IF host = "held" THEN "held" ELSE "leaving",
    waiting <- Unsettled

\* The seat keeps its promise, however submits, pops, stops, kills and deaths fall
\* together: requests are answered in order and once, a stop takes out only its own,
\* a kill spares only the one under way, none is forgotten in the queue, and the
\* thread of a seat that was let go ends, so that the reaper's join returns
\* (Worker::run, Worker::abandon, ThreadProcessHost::reap).
KeepsItsPromise == Promise!Spec
=============================================================================
