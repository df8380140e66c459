# Verification of ql-backend

TLA+ models of the QuantLib pricing service in `src/`, the TLC runs that check
them and the theorems TLAPS proves about them. The models are written from the
C++; where a document or a comment says something else, the disagreement is a run
of its own (see *Where the documents and the code part*).

    tlc -workers 2 -config SupervisorPool.cfg MCSupervisor.tla
    tlc -workers 2 -config GatewayWindow.cfg MCGateway.tla
    tlc -workers 2 -config Session.cfg MCSession.tla
    tlc -workers 2 -config Pricing.cfg MCPricing.tla
    for m in Worker Gateway Supervisor SupervisorRequest Pricing Session Ordering Fold
    do tlapm ${m}Proofs.tla; done

## The system

One process. A uWebSockets event loop runs the gateway, the supervisor and the
process host; every session has a seat, which is a thread with a QuantLib graph
of its own. Nothing is persisted: what survives a seat is the session's log.

| Part | State | Operations | What makes it correct |
| --- | --- | --- | --- |
| `Gateway` (gateway.cpp) | connections, session tokens, routes, requests owed, detached sessions with held and lost frames, deadlines, drain | open, resume, hello, cancel, close, dispatch; frames and deaths from seats; socket open and close; ticks | each request answered once and on the right socket; a dropped client gets what it missed; nothing leaks when a session ends; a drain ends |
| `Supervisor` (supervisor.cpp) | sessions with placement, log, unacked writes and cancels; workers with a count of seats | openSession, dispatch, cancel, onRequestTerminated, onStopGraceExpired, onSessionDied, onWorkerDied | counts match sessions; a long calculation is alone on its worker; a cancel ends; a kill loses no session and forgets no request; the log is the graph |
| `SessionLog` (supervisor.cpp) | an OpenSession, kept folded | record, quoteValue, replayFrames | replaying it rebuilds the graph's state |
| `ThreadProcessHost` (threadhost.cpp) | seats by process and session, each with an `alive` flag | spawn, send, requestStop, kill, onSeatDied, reap | a disowned seat says nothing more; no two seats for one session on a process |
| `Worker` (worker.cpp) | queue, current request, stop flags, session | submit, requestStop, abandon, shutdown; run, serve | a stop hits its target only; every request taken has one fate; the thread ends |
| `Session` (session.cpp) | quotes, curves, vols, indices, correlations, fixings; `dirty` | construction, apply, writeQuote, price | ids resolve or are refused; a failed commit is never priced off; no field is taken and ignored; sizes are bounded before they are used |
| `UpdateGuard` | QuantLib's deferred observers | commit, destructor | one recalculation per batch, none lost |
| `ConventionRegistry`, `Capabilities`, `FieldError`, `main` | none, or set once | mappings, limits, options | total, or refused with the field's path |

Interactions. The loop calls down (gateway, supervisor, host, `Worker::submit`,
`requestStop` and `abandon`, the last three under the worker's mutex). Threads
answer by posting callbacks to the loop, in order per thread, through the seat's
`alive` flag. The supervisor calls up through four sinks: a frame, a session
disrupted, a session dropped, a timer armed. Timers cannot be unarmed, so a
callback decides when it fires whether it is still wanted.

What is hard: the thread and the loop meet in the queue and in the stop flag; a
session may have frames on several seats at once while it moves; answers, deaths,
timers and kills arrive in any order; and one kill touches sessions that had
nothing to do with it. `PROJECT.json` lists each hazard at its line with the
properties for it.

## Modules

| Module | Models | Used by |
| --- | --- | --- |
| `Seat` | what a seat promises, and nothing of how | `Worker`, by a refinement mapping |
| `Worker` | one seat in full: `Worker`, its thread, and the host's hold on it | `MCWorker`, `WorkerProofs` |
| `Ordering` | ids in rising order, and the frames kept of a sequence | `Worker`, `Gateway`, `Supervisor` |
| `Supervisor` | the supervisor with the host's seats and the gateway's ledger of owed requests | `MCSupervisor` |
| `Gateway` | connections, the resume window, deadlines and the drain, over the supervisor and its seats in outline | `MCGateway` |
| `Conventions` | which conventions the registry takes | `Market` |
| `Market` | the market a session is built from, object by object | `Session` |
| `Session` | the graph under updates, prices and sweeps, and the log it is rebuilt from | `MCSession` |
| `Pricing` | what is priced and with which engine, simulations in batches, books | `MCPricing` |
| `MCWorker`, `MCSupervisor`, `MCGateway`, `MCSession`, `MCPricing` | instances for TLC | the runs |
| `WorkerProofs`, `GatewayProofs`, `SupervisorProofs`, `PricingProofs`, `SessionProofs` | theorems about the module they are named for | |
| `SupervisorRequestProofs` | what `Supervisor` owes its requests, on the places `SupervisorProofs` proves, and the log and the graph | |
| `OrderingProofs` | lemmas about `Ordering` and about taking one frame out | `WorkerProofs`, `GatewayProofs`, `SupervisorProofs` |
| `FoldProofs` | induction over a fold, for any operator that is folded | `PricingProofs`, `SessionProofs` |

The five systems look at one service from five sides and each keeps the others in
outline: a calculation is a count of stop boundaries in `Worker`, a write is the id
of its request in `Supervisor`, a seat is live or hollow in `Gateway`, a session never
moves in `Session`, and a request has no market in `Pricing`.

### Seat

The abstract seat: `waiting` requests are answered in order and once, unless a stop
takes one back (`TakeBack`) or a kill loses all but the one under way (`Kill`); a seat
that is let go takes no more, answers what it has left and is gone. `Worker` defines
`Promise`, an instance of `Seat` with `waiting` the id being served and those in the
queue, `state` read off the thread and the host's hold, and the histories under their
own names. `KeepsItsPromise` is `Promise!Spec`, its fairness included, and TLC checks it;
its safety part, initial states and steps, is the theorem `WorkerImplementsSeat`. No line of the
code is mapped to `Seat`: it is the statement, `Worker` the translation.

### Worker

`queue`, `current`, `stopRequested`, `abandoned`, `shuttingDown` and `session` are
the fields of the class; `pc`, `frame` and `polled` say where `run()` and `serve()`
are; `host`, `alive` and `posts` are the loop's side. Each action is one critical
section of the mutex or one step outside of it: `Take` is the pop with the two
writes made under the same lock, `AbandonQueue` and `AbandonRunning` are the two
halves of `abandon()`, between which only the thread can move. A calculation is a
number of stop boundaries (`polls`): Monte Carlo batches, sweep points, batch rows.
`Boundary` is one of them; an engine call between two is one step, since nothing
can interrupt it. On a graph left dirty a request drops the session with its refusal,
but for a malformed sweep or batch, which is refused before the graph is looked at.
`accepted`, `withdrawn`, `lost`, `aimed`, `answers` and `landed`
are histories.

A seat starts with a queue from `Seeds`: a client's OpenSession, or what
`rebuildOn` sends, a replayed OpenSession and unacked writes under id 0.

### Supervisor

The loop is one thread, so a handler is one action over the supervisor's, the
host's and the gateway's state; `recoverSessionsOn` is one action per session
(`Recover`), the seats running on in between. A seat is its queue, whether it is
busy, its stop flag, its graph and the value in it. The market is one quote, and a
write is named by the request that made it, so the log is the id it recorded last
and the graph's value the id it took last (`-i` where sweep `i` left it before its
end). A request's `fate` says what the graph makes of it, the same on every graph:
`ok`, `refused` before anything changed, or `breaks` it. `Request` is a script of
requests; TLC chooses when each is sent, cancelled, served, answered and lost.

`Rebuild`, `Relocate`, `Replayed` and `Terminated` follow `rebuildOn`, `dispatch`,
`replay` and `onRequestTerminated`. Where a seat's thread may fail to start
(`StartsMayFail`), `OpenThrows`, `RelocateThrows`, `DispatchThrows` and `Dropped` are
what is left behind. `Deliver`, `Forget` and `Fail` are the gateway's `deliver` with
`dropRouteIfDone`, `release`, and the disruption sink.

Left out: `onWorkerDied`, which the thread host never calls; progress frames; the
cancel's own Ack; a client that goes away (that is `Gateway`). Worker ids sort as
strings in the code, so which shared worker with room is first is any of them here.

### Gateway

A handler is one action here too. `slots`, `meta`, `route`, `outstanding` and
`away` are `Conn::openSessions`, the gateway's sessions, `sessionConn`, the ids owed
and `detached`; `line` is a socket, which may be dead before the service is told so;
`deadlines` are the resume deadlines, in the order they were armed. A frame is the
id of the request it ends. The time a session was detached at is a stamp later than
any armed: grace periods have one length, so the order is all that `closeAbsent`
looks at. `below` and `running` are `Supervisor` in outline: which sessions it has,
whether with a seat (`live`) or without (`hollow`, where a move's new seat did not
start), and which requests a seat will still answer. `sent`, `tokens`, `told` and
`unheard` are the client's side: ids used, sessions it can name, terminal frames that
reached it and terminal frames written to a dead socket.

`Open`, `Resume`, `Dispatch`, `Close`, the two cancels and the refusals are
`onMessage` by kind; `Deliver` has the three ways of `deliver`, to the socket, held, or
to nobody. `Disrupt` and `Drop` are the supervisor's two sinks, at any time; in
`Moves` instances a disruption may leave alone the requests on a seat the session
moved from. `Leave` is `onClose`: its sessions are detached in any order, and of all
that are absent the newest `MaxDetached` survive, but never less than one. `Stop`
ends every socket as `checkStop` does.

Left out: frames that do not parse, Hello and Capabilities, request id 0, an id
used again while it is owed, sheddable progress, and back pressure.

### Conventions, Market and Session

`Conventions` is the registry as predicates: a date in one of two spellings of a day,
a calendar as a tree of limited depth, day counters by family. `Market` is the
constructor: `Add` takes one object on the graph of those before it, or refuses the
session, and `Build` folds the market. Ids are one namespace for all kinds; an object
names objects before it, except that an index may name a curve still to come and then
waits for it (`waiting`). An object has the fields the checks look at, and `wrong`, the
names of the other fields it is refused for. A curve or a volatility is the quotes it
observes; a correlation is a matrix in tenths, so that the determinant of three labels
is exact.

`Session` has the loop's side and the thread's. `caches` is, per curve, the quotes it
was last calculated from, and is emptied by `Invalidate` when an `UpdateGuard` commits a
batch in which one of them moved; reading a stale curve is thereby a state TLC can
see. `Apply`, `ApplyPartly` and `ApplyBreaks` are the ways `apply()` ends. A sweep is
`BeginSweep`, then one action per point, which writes only the coordinates that moved;
`SweepFinish`, `SweepFails` and `SweepBreaks` include the restore. The loop parks what a
request would write when it is sent (`Send`), folds it into the log when it is
answered well (`LandAnswer`), and builds the graph again from the log after a kill or
a death (`Rebuild`). `loose` is the quotes that a kept sweep left where no replay can
put them. Moves and the other tenants are `Supervisor`'s. `ScriptsAssumption` is what
protobuf gives: repeated fields are sequences, every object has an id and a kind, and
counts are numbers; everything else a client may get wrong, in any combination.

### Pricing

A request is the choices that select an engine (style, exercise, payoff, method,
process, quanto, approximation, tree, grid, the numbers of a simulation) and three sets
of field names: `given`, the other optional fields it sends; `wrong`, refused when read;
`over`, beyond a size limit. Nothing ties the parameter blocks it sends to its method:
`checkEngineLimits` and `checkEngineRead` look at a block whatever the method is, and no
engine's reader looks for another's block, so a request may send fields of any of them. `Chosen` is `Session::price` down
to the engine, style by style with every early return; `Collected` is the loop over
the results asked for; `NextBatch` is one batch of a simulation, its seed and count
modulo `W`; `Done`, `RefuseNested` and `Finish` are `serveBatch`, and `Escape` an exception
that is not QuantLib's, which ends a book without an answer for its rows. What an engine computes is
left out, so it may fail on any request and publish any of the results it could have.
`CallsAssumption` is what the schema and the dispatch give: repeated fields are sequences,
`quanto` is a flag, a field sent is one the message has, numbers are below `W`; and
`SizesAssumption` that the limit on samples is below the width of the counter.

## Runs

| Run | Instance | Checks | States |
| --- | --- | --- | --- |
| `worker` | every payload case once, at most 3 requests on a seat, 1 or 2 stop boundaries, client-opened and rebuilt seats | `OneFate`, `StopsOnlyItsTarget`, `StopNotLost`, `DeathAfterAnswer`, `NoGhostAnswers`, `NothingStartsAfterKill`, `KeepsItsPromise` | 292 thousand |
| `supervisor_pool` | two sessions on one shared worker: a write and a sweep that break the graph, a price on a worker of its own; starts that may fail | `PoolMatchesSessions`, `NoneForgotten`, `OneTerminal`, `TargetsAreHere`, `OneDeadlinePerRound` | 175 thousand |
| `supervisor_life` | starts that may fail; one session from its open to a request after its close, with a write that breaks its graph, a kept sweep and a write sent behind it, a move and a refused write | `LogIsTheGraph` | 306 thousand |
| `supervisor_live` | two sessions: one that calculates in both placements and closes, and a refused open | `SeatsMatchSessions`, `CancelsResolve`, `EveryRequestAnswered` | 27 thousand |
| `gateway_window` | two sessions, two sockets that hold one each, one place among the absent, one frame held, two drops | `BooksAgree`, `SeatsFollowSessions`, `NoneForgotten`, `OwedIsServed`, `OneTerminal`, `DeadlinesEndTheirOwn` | 152 thousand |
| `gateway_live` | one session that is cancelled, closed and resumed, with moves and starts that may fail | `EveryRequestSettles`, `AbsencesEnd` | 47 thousand |
| `session` | a market of five in every order, one of six with each of 52 objects added, right or wrong; four clients of up to five requests; one kill | `NothingDangles`, `CachesAreFresh`, `ReplayRebuilds`, `PricesAreTheGrid`, `SweepsPutBack`, `UpdatesAreWhole` | 144 thousand |
| `pricing` | every style with every method, exercise and payoff; each field sent, of the method's own parameter block and of every other, and each refused, in turn; every simulation of a 3-bit machine; swaps; books up to one over the limit | `NothingIgnored`, `PricedAsDocumented`, `AskedIsAnswered`, `BatchesAddUp`, `BooksAreWhole` | 36 thousand |

Each system's `TypeOK` is checked in one of its runs. What the properties say is in
the comment above each; in short, `Worker`'s are about stops and kills hitting what
they were meant for, `Supervisor`'s and `Gateway`'s about two sets of books that have to
agree while answers, deaths, timers and clients come in any order, `Session`'s about a
graph that is never stale, never half-written and always what the log would rebuild,
and `Pricing`'s about hundreds of combinations that a test suite samples.

Each passing run explores its instance to the end. The bounds: `MaxRequests` is the
requests one seat is given, `MaxWorkers` and `MaxSeats` the processes and seats that
live at once; a number is used again when nothing refers to it, and five of each
cover a session on every seat it can be leaving plus its neighbour's. Three
requests on a seat are a target, a neighbour and a close; two sessions are a tenant
and the co-tenant a kill takes along. The shared workers hold two sessions, so that
the first fills, empties and is retired. The gateway's limits are all one, so that
each is met: the second session finds the socket full, evicts the first from the
absent or is evicted, and of two answers one is held and one is lost. `MaxDrops` of
two lets a session leave, come back and leave again, which is what makes a deadline
stale. In `session`, two days on either side of today give a date to a
fixing and one without; `MaxPoints` of six is met by a grid of three by two and passed
by one of more; two axes are enough to get an order wrong, and three labels are the
fewest for which a matrix can be impossible with every entry in range. `MaxJointDepth`
and `MaxAxisPoints` are met and passed by one. In `pricing`, `W` of 8 makes a seed, a
count and their sum wrap within the instance; `MaxSamples`, `MaxBatches` and `MaxEntries`
are each met and passed. Every cfg says `CHECK_DEADLOCK FALSE`: a
client owes the service nothing, and the system rests when it has asked everything.

`LogIsTheGraph` leaves out a kept sweep that ended early and the sessions in `crossed`:
one that sent a write while an older one was unacked on a seat it had left, and one with
a write that the seat it had left failed for a graph an older write had broken. Its instances send
ids in rising order (`InOrder`); with `InOrder` FALSE, TLC refutes it, as told below.
`ReplayRebuilds` names its exceptions in the same way: the quotes in `loose`, and a
fixing the log holds in two rows. `CachesAreFresh` is about a session that is not dirty,
as a dirty one prices nothing. `NothingIgnored` lists what is dropped after all in
`Dropped`, each item with the case it is dropped in; what a priced request sends is read
or is in that list, and never both, so the list is no wider than what is dropped.
`PricedAsDocumented` leaves out the two kinds of barrier in `Undocumented`. `SeatsMatchSessions` is checked where
threads start, since a move whose seat does not start leaves a session without one.
`OneTerminal` leaves out the requests a disruption failed while another seat still
had them (`orphaned`), in `Supervisor` and in `Gateway`. `SeatsFollowSessions` is checked,
and proved, where every thread starts (`StartsMayFail` FALSE), for the same reason as
`SeatsMatchSessions`.

### Fairness

`Worker` (`FairSpec`, from which `KeepsItsPromise` has `Seat`'s fairness): the thread, the loop's own steps and the reaper each keep running, and
engine calls return. They are an OS thread, an event loop that is never blocked,
and a detached thread; a client is never made to send anything. `Supervisor`: the
loop takes what is posted and fires what is due (`LoopFairness`). That is all
`CancelsResolve` needs, which is the point of the kill: the cancel works though no
engine call returns. `EveryRequestAnswered` assumes `SeatFairness` besides, engine
calls that return, and says so in its own statement. `Gateway`: what a seat
runs is answered, as engine calls return or are killed, and the timer fires. No
client is made to come back, no socket to close and nobody to stop the service.
`Session` and `Pricing` state safety only: that a request on a seat is answered is
`Seat`'s promise.

## Where the documents and the code part

Each is a run that TLC ends with a counterexample; `PROJECT.json` quotes the line.

- `two_terminals`: a request left behind by a move is failed with the new worker and
  answered by the old seat afterwards, two terminal frames for one id.
- `failed_open`: an open in flight on a shared worker that is killed for a
  neighbour's cancel is failed by the disruption, which knows nothing of opens; the
  replay builds the session under id 0, whose SessionOpened is dropped. The client
  has an error and no token, and the session keeps its seat and its place.
- `stale_death`: the report of a dropped graph names the process and the session,
  and takes whatever seat has that name when it lands.
- `replay_refused`: a write may drag a correlation where none can be, and is acked and
  logged. The replay checks what the write did not, and refuses the session.

Others showed while the models were written. They are the named exceptions of the
properties above, or plain reading, and have no run:

- Unacked writes are kept in a map by request id and replayed in that order. A client
  that does not number upwards has two writes of one quote reversed on the seat it
  moves to, where supervisor.hpp:375 has both graphs see them in one order
  (`LogIsTheGraph` with `InOrder` FALSE).
- A write sent behind one that breaks the graph is refused by that seat. If the session
  moves before it knows of either, the log and the unacked writes are rebuilt elsewhere: should
  the breaking one have been answered by then, the new graph takes the other. The client
  has an error, the log has nothing and the session is priced on the written value until
  a replay takes it back, where supervisor.hpp:376 has "both accept it or both refuse"
  (`LogIsTheGraph` without `FailedBehind`).
- A session whose move did not start a seat cannot be closed: the host refuses the
  frame, the gateway forgets the session, and the supervisor keeps it with the place
  counted for it on a worker, where gateway.cpp:829 has it closed for good
  (`SeatsFollowSessions` with `StartsMayFail` and `Moves`).
- A kept sweep that is stopped or fails leaves the quote where it stopped; the log has
  its planned last value, or none (worker.cpp:401, supervisor.cpp:366). A relative one is
  logged from the log's base, which need not be the live one. With writes on two
  seats, acks may arrive in another order than the writes were made.
- A fixing with a bad date leaves the graph dirty without dropping it (session.cpp:1433),
  where session.hpp:172 has a dirty session dropped; the next request pays for it.
- The log folds fixings by index id and spelling of the date, QuantLib by index name
  and day: two indices of one name, or one day in two spellings, are both in the log,
  and the replay takes them in another order than the client sent them.
- Derived seeds can coincide when they wrap: a seed of 0 becomes 1, and the next is 1
  (session.cpp:3131).
- A batched simulation looks at neither the results asked for nor the additional ones.
- Taken and dropped: a parameter block of another method than the one that is named (but
  for `mc.rng`, which is refused), though doc/HANDLERS.md:382 says "A field that does not
  apply cannot be set, rather than being set and dropped"; `analytic.approximation` where
  the exercise or the style has a formula of its own; the dividend curve under
  PROCESS_BLACK, `absolute_tolerance`, `time_steps_per_year` of the Asian and cliquet
  simulations, `progress_every_paths` outside vanilla, a label outside a basket,
  `earliest_date` and `payoff_at_expiry` where the exercise has none, the type of a
  `super_fund` or `super_share` payoff (which has to be a call or a put all the same), the
  history of an average with no fixing dates, additional results of a swap and of a
  batched run, the `implied_volatility` block when none is asked for or the instrument
  cannot invert, and the floating leg's fields on a fixed one.
- A result asked for twice, or among the additional ones already, is both produced and
  named unavailable.
- A barrier that is not European and simulated, and a Bermudan one by lattice or finite
  difference, go to their engines (session.cpp:2092-2143 looks at no exercise there);
  doc/HANDLERS.md:236 has no row for either.
- A stop that lands during the last trade of a book marks it abandoned though every
  trade was priced, and one after the last batch of a simulation discards a whole price.
- Curve samples are checked after the price is computed, and a plot that cannot be
  drawn is refused with its prices, which worker.cpp:421 says are still returned.

## Proofs

TLC shows a property of the instance in the cfg; the theorems say it of every set of
requests, sessions, sockets, calls and scripts, and every bound. Each is `Spec => []P`, or
`Spec => P` for an action property. Each rests on an invariant that holds at `Init`, is
kept by every action and implies `P`; a system's proofs have one lemma per action, over
lemmas that say what the helpers the actions share do to the invariant.

**Worker** (`WorkerProofs`)

- `WorkerTypeOK`.
- `WorkerStopsOnlyItsTarget`: the stop flag is raised only while its target is the
  current request or after an abandon. `StopInv` ties `stopRequested` to `current`, to
  `aimed` and to the frame being served; `current` outlives the answer until the lock
  after `serve()`, so `Served` and `Take` are the steps that need it.
- `WorkerOneFate`, `WorkerStopNotLost`: the five fates are pairwise exclusive and exhaust
  the accepted ids. `FateInv` adds that queued ids are distinct, that none of them has
  been served, and that nothing still queued has been aimed at, which is why the pop
  that resets the flag loses no stop.
- `WorkerNothingStartsAfterKill`: an abandoned seat's queue is empty and stays so, because
  only a seat that is `held` is submitted to.
- `WorkerImplementsSeat`: `Spec => Promise!Safety`. Every step of the thread, the loop and
  the host is a step of `Seat` or changes nothing `Seat` sees. `ExitInv` is what the last
  step needs, that a thread which ended was let go and left nothing.
- `WorkerDeathAfterAnswer`: the report of a dropped graph never overtakes the answer that
  dropped it. `DeathInv` says it of every prefix of the posts, landed or not.
- `WorkerNoGhostAnswers`: no request is told its session is unknown unless its open failed or
  its client closed it. `CloseInv` follows a close through the queue, the frame and
  the posts, `GhostInv` a thread without a session.

**Gateway** (`GatewayProofs`), each invariant inductive on those before it

- `GatewayTypeOK`: `TypeOK` is not inductive without `HeldFits`, that a frame is lost only
  when the absent client's buffer is full.
- `GatewayDeadlinesEndTheirOwn`: a deadline ends the absence it was armed for or nothing.
  `WindowInv`: deadlines are in the order of their stamps, and each absence has its own.
- `GatewayBooksAgree`: slots, routes, metas and absences tell one story. `BooksInv` says
  where each session is, and that nothing has happened to one that is not opened yet.
- `GatewaySeatsFollowSessions`: with `~StartsMayFail`, which is the theorem's hypothesis and
  not left to the reader; without it TLC has the counterexample told above.
- `GatewayOwedIsServed`, `GatewayNoneForgotten`, `GatewayOneTerminal`: what is owed is on a
  seat or its answer is known lost; every request sent is owed, answered, waiting for
  its client, or its session is gone; and the terminal frames written, held and lost
  are at most one together. `ServedInv`, `AccountInv` and `CountInv` need that detaching,
  holding and flushing permute frames without copying one.

**Supervisor** (`SupervisorProofs`, `SupervisorRequestProofs`)

- `SupervisorTypeOK`, `SupervisorPoolMatchesSessions`, `SupervisorSeatsMatchSessions`: of one
  invariant, `TypeInv`. The counts agree with the sessions only between recoveries, so
  `Sound` counts a session on `todo` as nowhere (`Home`) and says the rest at every step of
  a recovery; `Delivering` says that every post comes from a seat that can still post.
- `SupervisorOneDeadlinePerRound`: a timer cannot be unarmed, so `RoundsInv` says which of
  those to come is of the open round, and that the others have older generations.
- `SupervisorOneTerminal`, `SupervisorNoneForgotten`, `SupervisorTargetsAreHere`:
  `RequestsInv`. A request is in one place among queues, seats and posts (`PlacesInv`),
  however it was moved, killed or replayed; what is owed is in a place its answer will
  come from, or its session waits to be recovered (`Books`); a cancel waits for a request
  that is owed and on the session's own seat (`Aimed`).
- `SupervisorLogIsTheGraph`: with `InOrder`, that a client numbers a session's requests as it
  sends them, which is the theorem's hypothesis: without it TLC has the counterexample
  told above. The property is about a session at rest, and `LogInv` says what leads there
  from every state of a move, a kill or a replay. A queue has the supervisor's frames
  before the client's (`Formed`), so they alone settle the value the client's frames find;
  that value is the last unacked write that is not on this queue, or else the log (`Synced`),
  since a replay rebuilds exactly those. Unacked writes are in one line, those answered and then
  those on one seat, in the order of their ids (`InLine`), so the log takes them in the
  order the graph did. And an answer is what the graph makes of the write, unless
  the graph is gone (`Coded`): so the log and the graph take or leave a write together.

**Pricing** (`PricingProofs`)

- `PricingTypeOK`, `PricingPricedAsDocumented`, `PricingNothingIgnored`,
  `PricingAskedIsAnswered`: the engines are told apart by early returns, so first that a
  request has one engine at most, style by style; then `PriceInv`, that a price was made
  by it and is of all that was asked for. What is sent is read or dropped block by block
  and style by style: an engine goes with its method (`EngineIs`), so the other methods'
  blocks are dropped (`ReadBlock`), and the fields of a style are its engine's (`ReadStyle`).
- `PricingBatchesAddUp`: the batches of a simulation have the paths asked for, none
  empty, within the limit, with seeds that differ except where a wrap makes a 0 a 1.
  Arithmetic modulo any `W`, over the fold that adds the paths (`RunInv`).
- `PricingBooksAreWhole`: rows in order, each answered once, none priced off a dirty
  session (`BookInv`, `RowInv`).

**Session** (`SessionProofs`), of one invariant, `Inv`, and for the grid of `GridInv` with it

- `SessionTypeOK`, `SessionNothingDangles`: an accepted market hangs together whatever its
  order: every id a curve, index or correlation names is in the graph and of the right
  kind. The graph is a fold of `Add`, and it is built again from the log after every
  kill, so `LogInv` says of the log that it is a market with the quotes of the one sent,
  which is why a replay's graph has the quotes that requests were checked against.
- `SessionCachesAreFresh`: `CacheInv`: a clean session has no curve calculated from quotes
  that have moved. `Invalidate` empties what the batch dirtied, and a point of a sweep
  moves only the coordinates that changed; both have to reach every curve in between.
- `SessionPricesAreTheGrid`: the grid is a nested fold over the axes, and the sweep counts
  its points up in mixed radix and writes only the coordinates that changed. `GridIs` shows
  that the fold's i-th row is the point of that count, by induction over the axes with
  division by the product of the sizes to the right; `Walking` says of a sweep under way that
  it has priced the first points and that the quotes of its axes are at the last one, so
  what is not written is already right. A ladder cut short is a shorter ladder.
- `SessionSweepsPutBack`: a sweep that keeps nothing leaves every quote where it was,
  finished, stopped or failed. The restore writes back the axes' quotes only, so `SweepInv`
  says of a running sweep that whatever no axis writes has not moved; and that a death
  is posted only where the graph is gone, so no other answer passes for one.
- `SessionUpdatesAreWhole`: an update answered with an error changed nothing, or left the
  session dirty or dropped, and so not served from.

`OrderingProofs` has the lemmas on taking one frame out of a sequence, keeping those at
some places and listing a set in order. `FoldProofs` has the induction: the library's
theorems of induction take an operator, so it derives a least element of a set of
numbers from well-foundedness, and from it that a set with 0 and successors has every
place up to `n`; instantiated with the operator folded, that is induction over the fold.

The assumptions are the models' own, named in them: frames and requests have the fields
of their kind; only the supervisor's own frames carry id 0; a seed starts with an
OpenSession; a session has one open; sessions and ids are finite sets; a
client does not use an id twice, which `Submit` guards with `accepted` where the gateway
guards with what is in flight; and `SizesAssumption`, `CallsAssumption` and
`ScriptsAssumption` as told above.

With TLC alone stay the liveness properties (`CancelsResolve`, `EveryRequestAnswered`,
`EveryRequestSettles`, `AbsencesEnd`, and the fairness in `KeepsItsPromise`), which are out of
the prover's reach, and one invariant whose induction is not written:

- `ReplayRebuilds` needs of the graph and the log, while writes are parked, what `LogInv` of
  `SupervisorRequestProofs` says of one quote, for a market: with fixings matched by name
  and day against rows matched by id and spelling.

Planning the proof of `LogIsTheGraph` corrected the property: an unacked write that meets
a broken graph on one seat and a whole one on the other was missing from its
exceptions.

## Not modelled

Prices and tables are QuantLib's and real numbers, as is what its constructors refuse;
the models let them fail wherever they can. Periods are strings QuantLib parses, and
the registry's `index()` has no caller. The Capabilities message and the health page
keep no state; the origin and token checks of the upgrade come before any. `FieldError`
is the kind of an exception, and which catch takes it is in `Worker` and `Session`.
Command-line handling is sequential. QuantLib, uWebSockets and the protobuf runtime are
external: the models assume that the loop runs deferred callbacks in the order they
were deferred.

## Plan

Done: `Worker` with its refinement of `Seat`, `Supervisor`, `Gateway`, `Session` over `Market` and
`Conventions`, `Pricing`, and the theorems above about all five. Next:

1. `ReplayRebuilds`, from `LogInv` of `SessionProofs` and an invariant that folds the
   parked writes in.
2. Questions to settle: a drain that waits for ids only a resume would end; a window
   with `maxDetachedSessions` of 0 (gateway.cpp:846); a resume whose id is in flight on
   the session it takes back (gateway.cpp:714), for which requests have to be numbered
   apart from what they are.
