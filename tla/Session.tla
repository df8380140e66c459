-------------------------------- MODULE Session --------------------------------
(***************************************************************************)
(* A session's graph under updates, prices and sweeps, and the log it is   *)
(* rebuilt from (session/session.cpp, Worker::serveScenario in             *)
(* session/worker.cpp, SessionLog and Supervisor::dispatch in              *)
(* session/supervisor.cpp).                                                *)
(*                                                                         *)
(* Two actors interleave.  The loop parks what a request would write,      *)
(* queues it on the seat, and folds it into the log when its answer comes  *)
(* back.  The seat's thread serves one request after the other; a sweep    *)
(* can be stopped after each point.  A kill, or a graph that was dropped,  *)
(* takes the seat and what is on it, and the graph is built again from the *)
(* log.  The session stays on its seat otherwise: moves are Supervisor's.  *)
(***************************************************************************)
EXTENDS Market

CONSTANTS
    Scripts,    \* what a client may send: a market and the requests on it
    MaxPoints,  \* kMaxScenarioPoints
    MaxKills    \* bound on the kills

\* A repeated field comes off the wire as a sequence, and a count as a number.
Repeated(s) == s \in Seq(Range(s))
Sendable(request) ==
    \/ request.kind = "update" /\ Repeated(request.fixings)
    \/ request.kind = "price"
    \/ /\ request.kind = "sweep" /\ Repeated(request.axes)
       /\ \A a \in DOMAIN request.axes :
            Repeated(request.axes[a].values) /\ request.axes[a].steps \in Nat

ASSUME ScriptsAssumption ==
    /\ \A s \in Scripts :
         /\ Repeated(s.market)
         /\ \A k \in DOMAIN s.market : {"id", "kind"} \subseteq DOMAIN s.market[k]
         /\ \A i \in DOMAIN s.requests : Sendable(s.requests[i])
    /\ MaxPoints \in Nat /\ MaxKills \in Nat

VARIABLES
    script,     \* the client's market and requests
    phase,      \* opening, open, or over when the market was refused
    graph,      \* Worker::session_: the market's objects
    caches,     \* per curve, the quotes it was last calculated from, if it is calculated
    dirty,      \* Session::dirty_
    queue,      \* requests on the seat
    sweep,      \* the sweep being served
    posts,      \* answers posted and not taken by the loop
    log,        \* SessionLog::open_
    parked,     \* SessionState::pendingUpdates
    sent,       \* requests the client has sent
    kills,      \* kills so far
    loose       \* quotes a kept sweep left at a value that nobody can replay

seat == <<graph, caches, dirty, queue, sweep, posts>>
vars == <<script, phase, seat, log, parked, sent, kills, loose>>

Request(i) == script.requests[i]
Gone == [NoGraph EXCEPT !.refused = TRUE]
NoSweep == [running |-> FALSE]
Uncalculated(g) == [c \in DOMAIN g.curves |-> {}]
Quotes == DOMAIN graph.quotes

Init ==
    /\ script \in Scripts
    /\ phase = "opening"
    /\ graph = Gone /\ caches = <<>> /\ dirty = FALSE
    /\ queue = <<>> /\ sweep = NoSweep /\ posts = <<>>
    /\ log = script.market /\ parked = <<>> /\ sent = {} /\ kills = 0 /\ loose = {}

OpenSession ==
    /\ phase = "opening"
    /\ graph' = Build(script.market)
    /\ phase' = IF graph'.refused THEN "over" ELSE "open"
    /\ caches' = Uncalculated(graph')
    /\ UNCHANGED <<script, dirty, queue, sweep, posts, log, parked, sent, kills, loose>>
-----------------------------------------------------------------------------
(* What the graph does *)

\* Quotes written behind one UpdateGuard: the curves that observe one that
\* moved are to be calculated again, once the guard commits.
\* Variant for mutation testing: notifications are dropped, not deferred.
InvalidateNone(g, old, new) == old
Invalidate(g, old, new) ==
    [c \in DOMAIN old |->
        IF \E q \in g.curves[c].feeds : g.quotes[q] # new[q] THEN {} ELSE old[c]]

\* What a curve is calculated from: the quotes it observes, as they are.
Calculated(g, c) == [q \in g.curves[c].feeds |-> g.quotes[q]]
Read(g, old, curves) ==
    [c \in DOMAIN old |->
        IF c \in curves /\ old[c] = {} THEN {Calculated(g, c)} ELSE old[c]]

\* A price names objects of the market.  A correlation may have been dragged
\* where none can be, and is checked again (priceOption's basket).
Prices(g, request) ==
    /\ request.uses \subseteq Range(g.ids)
    /\ \A c \in request.uses \intersect DOMAIN g.correlations :
         IsCorrelation(Matrix(g.quotes, g.correlations[c]))

Writing(quotes, updates) ==
    [q \in DOMAIN quotes |->
        IF \E k \in DOMAIN updates : updates[k].quote = q
        THEN updates[Max({k \in DOMAIN updates : updates[k].quote = q})].value
        ELSE quotes[q]]
-----------------------------------------------------------------------------
(* The session log *)

Folded(rows, r) ==
    IF \E k \in DOMAIN rows : rows[k].date = r.date
    THEN [rows EXCEPT ![Min({k \in DOMAIN rows : rows[k].date = r.date})].value = r.value]
    ELSE Append(rows, r)

\* Variant for mutation testing: whatever id the client has taken.
FreshNameTaken(market, index) == "fixings:" \o index
\* A series the client did not name itself gets an id that is not taken.
FreshName(market, index) ==
    LET Name(n) == IF n = 1 THEN "fixings:" \o index ELSE "fixings:" \o index \o ":" \o ToString(n)
        ids == {market[k].id : k \in DOMAIN market}
    IN Name(Min({n \in 1..(Len(market) + 1) : Name(n) \notin ids}))

RecordSeries(market, series) ==
    LET of == {k \in DOMAIN market : market[k].kind = "fixings" /\ market[k].index = series.index}
    IN IF of = {}
       THEN Append(market, [id |-> FreshName(market, series.index), kind |-> "fixings",
                            index |-> series.index, rows |-> FoldLeft(Folded, <<>>, series.rows)])
       ELSE [market EXCEPT ![Min(of)].rows = FoldLeft(Folded, @, series.rows)]

\* A quote of the log takes the last value it was written.
Renewed(market, updates) ==
    [k \in DOMAIN market |->
        IF market[k].kind = "quote"
        THEN LET id == market[k].id
             IN [market[k] EXCEPT !.value = Writing([q \in {id} |-> market[k].value], updates)[id]]
        ELSE market[k]]

\* SessionLog::record: what is folded is the state and not its history.
Record(market, update) ==
    FoldLeft(RecordSeries, Renewed(market, update.quotes), update.fixings)

\* SessionLog::quoteValue
Logged(q) == {log[k].value : k \in {j \in DOMAIN log : log[j].id = q /\ log[j].kind = "quote"}}

\* What Supervisor::dispatch parks of an axis that keeps its final value.
LastPoint(axis) ==
    CASE axis.by = "explicit" -> IF axis.values = <<>> THEN {} ELSE {Last(axis.values)}
      [] axis.by = "linear" -> {axis.end}
      [] axis.by = "relative" -> IF axis.values = <<>> THEN {}
                                 ELSE {base * Last(axis.values) : base \in Logged(axis.quote)}
      [] OTHER -> {}
KeptWrites(request) ==
    FoldLeft(LAMBDA ws, axis :
                 IF axis.keep
                 THEN ws \o SetToSeq({[quote |-> axis.quote, value |-> v] : v \in LastPoint(axis)})
                 ELSE ws,
             <<>>, request.axes)
Parked(request) ==
    CASE request.kind = "update" -> {[quotes |-> request.quotes, fixings |-> request.fixings]}
      [] request.kind = "sweep" -> IF KeptWrites(request) = <<>> THEN {}
                                   ELSE {[quotes |-> KeptWrites(request), fixings |-> <<>>]}
      [] OTHER -> {}
-----------------------------------------------------------------------------
(* The loop *)

\* A relative axis is parked from what the log has, which is not what the graph
\* will have when a write before it is still to come back or never will.
Overtaken(i) ==
    IF Request(i).kind # "sweep" THEN {}
    ELSE {a.quote : a \in {b \in Range(Request(i).axes) :
                               b.keep /\ b.by = "relative" /\ (parked # <<>> \/ b.quote \in loose)}}

Send(i) ==
    /\ phase = "open" /\ i \in DOMAIN script.requests /\ i \notin sent
    /\ sent' = sent \union {i}
    /\ parked' = IF Parked(Request(i)) = {} THEN parked
                 ELSE Put(parked, i, CHOOSE u \in Parked(Request(i)) : TRUE)
    /\ queue' = Append(queue, [id |-> i, late |-> Overtaken(i)])
    /\ UNCHANGED <<script, phase, graph, caches, dirty, sweep, posts, log, kills, loose>>

\* A fresh seat from the log.  What was on the old one is failed to the client.
Rebuild ==
    /\ graph' = (IF Build(log).refused THEN Gone ELSE Build(log))
    /\ caches' = Uncalculated(graph')
    /\ dirty' = FALSE /\ queue' = <<>> /\ sweep' = NoSweep /\ posts' = <<>>
    /\ parked' = <<>> /\ loose' = {}
    /\ UNCHANGED <<script, phase, log, sent>>

Kill == phase = "open" /\ kills < MaxKills /\ kills' = kills + 1 /\ Rebuild
LandDeath == posts # <<>> /\ Head(posts).code = "died" /\ Rebuild /\ UNCHANGED kills

Without(f, x) == [y \in DOMAIN f \ {x} |-> f[y]]

\* onRequestTerminated: only a success is folded in.
LandAnswer ==
    /\ posts # <<>> /\ Head(posts).code # "died"
    /\ LET p == Head(posts) IN
        /\ log' = IF p.id \in DOMAIN parked /\ p.code \in {"ack", "swept"}
                  THEN Record(log, parked[p.id]) ELSE log
        /\ parked' = Without(parked, p.id)
    /\ posts' = Tail(posts)
    /\ UNCHANGED <<script, phase, graph, caches, dirty, queue, sweep, sent, kills, loose>>
-----------------------------------------------------------------------------
(* The seat's thread *)

loop == <<script, phase, log, parked, sent, kills>>
Serving(kind) == queue # <<>> /\ Request(Head(queue).id).kind = kind /\ sweep = NoSweep
Clean == ~graph.refused /\ ~dirty
Asked == Request(Head(queue).id)
Terminal(code) == [id |-> Head(queue).id, code |-> code, axes |-> <<>>, prices |-> <<>>]

\* The head of the queue is answered and the graph stays as it is.
Answer(code) ==
    /\ posts' = Append(posts, Terminal(code)) /\ queue' = Tail(queue)
    /\ UNCHANGED <<graph, dirty, sweep, loop, loose>>

\* Variant for mutation testing: the graph goes and the session stays dirty.
DropDirty ==
    /\ posts' = posts \o <<Terminal("error"), [Terminal("died") EXCEPT !.id = 0]>>
    /\ queue' = Tail(queue)
    /\ graph' = Gone /\ caches' = <<>> /\ sweep' = NoSweep
    /\ UNCHANGED <<dirty, loop, loose>>
\* A QuantLib error over a dirty graph: answered, then the graph is dropped and
\* its death reported.
Drop ==
    /\ posts' = posts \o <<Terminal("error"), [Terminal("died") EXCEPT !.id = 0]>>
    /\ queue' = Tail(queue)
    /\ graph' = Gone /\ caches' = <<>> /\ dirty' = FALSE /\ sweep' = NoSweep
    /\ UNCHANGED <<loop, loose>>

ServeWithoutGraph ==
    queue # <<>> /\ graph.refused /\ Answer("error") /\ UNCHANGED caches
-----------------------------------------------------------------------------
(* Updates and prices *)

\* Every name is checked before anything is written.
Names(u) ==
    /\ u.quotes # <<>> \/ u.fixings # <<>>
    /\ \A k \in DOMAIN u.quotes : u.quotes[k].quote \in Quotes
    /\ \A k \in DOMAIN u.fixings : u.fixings[k].index \in DOMAIN graph.indices

RefuseUpdate ==
    /\ Serving("update") /\ Clean /\ ~Names(Asked)
    /\ Answer("error") /\ UNCHANGED caches

\* The fixings an update holds, row by row, and those before one without a date.
Rows(u) ==
    FlattenSeq([k \in DOMAIN u.fixings |->
        [j \in DOMAIN u.fixings[k].rows |->
            [index |-> u.fixings[k].index, row |-> u.fixings[k].rows[j]]]])
Dated(rows) == \A k \in DOMAIN rows : IsDate(rows[k].row.date)
Landing(u) == CHOOSE rows \in {SubSeq(Rows(u), 1, k) : k \in 0..Len(Rows(u))} :
    /\ Dated(rows)
    /\ Len(rows) = Len(Rows(u)) \/ ~IsDate(Rows(u)[Len(rows) + 1].row.date)

Written(u) ==
    [graph EXCEPT
        !.quotes = Writing(@, u.quotes),
        !.fixings = FoldLeft(LAMBDA f, r : Fix(f, graph, r.index, r.row), @, Landing(u))]

Apply ==
    /\ Serving("update") /\ Clean /\ Names(Asked) /\ Dated(Rows(Asked))
    /\ graph' = Written(Asked)
    /\ LET stale == Invalidate(graph, caches, graph'.quotes)
       IN caches' = IF Asked.force THEN [c \in DOMAIN stale |-> {Calculated(graph', c)}] ELSE stale
    /\ loose' = loose \ {Asked.quotes[k].quote : k \in DOMAIN Asked.quotes}
    /\ posts' = Append(posts, Terminal("ack")) /\ queue' = Tail(queue)
    /\ UNCHANGED <<dirty, sweep, loop>>

\* A fixing without a date: what was written before it stays, the session is dirty,
\* and the error names a field and drops nothing.
\* Variant for mutation testing: the session stays clean.
ApplyPartlyClean ==
    /\ Serving("update") /\ Clean /\ Names(Asked) /\ ~Dated(Rows(Asked))
    /\ graph' = Written(Asked)
    /\ caches' = Invalidate(graph, caches, graph'.quotes)
    /\ posts' = Append(posts, Terminal("error")) /\ queue' = Tail(queue)
    /\ UNCHANGED <<dirty, sweep, loop, loose>>
ApplyPartly ==
    /\ Serving("update") /\ Clean /\ Names(Asked) /\ ~Dated(Rows(Asked))
    /\ graph' = Written(Asked)
    /\ caches' = Invalidate(graph, caches, graph'.quotes)
    /\ dirty' = TRUE
    /\ posts' = Append(posts, Terminal("error")) /\ queue' = Tail(queue)
    /\ UNCHANGED <<sweep, loop, loose>>

\* The index takes no fixing on that day, or the commit raised, or the bootstrap
\* that was asked for.
ApplyBreaks ==
    /\ Serving("update") /\ Clean /\ Names(Asked)
    /\ Dated(Rows(Asked)) \/ Landing(Asked) # <<>>
    /\ Drop

\* A session that is dirty fails what it is asked, and is dropped for it.
ServeDirty ==
    /\ Serving("update") \/ Serving("price")
    /\ dirty /\ Drop

\* Calculating may fail on any market, with some of the curves calculated.
ServePrice ==
    /\ Serving("price") /\ Clean
    /\ \E read \in SUBSET (Asked.uses \intersect DOMAIN caches) :
         /\ caches' = Read(graph, caches, read)
         /\ \/ Answer("error")
            \/ /\ Prices(graph, Asked) /\ read = Asked.uses \intersect DOMAIN caches
               /\ Answer("result")
-----------------------------------------------------------------------------
(* Sweeps *)

PointsOf(axis, original) ==
    CASE axis.by = "explicit" -> axis.values
      [] axis.by = "linear" ->
            [k \in 1..axis.steps |->
                axis.begin + ((axis.end - axis.begin) * (k - 1)) \div (axis.steps - 1)]
      [] axis.by = "relative" -> [k \in DOMAIN axis.values |-> original * axis.values[k]]
Sizes(axes) ==
    [a \in DOMAIN axes |-> IF axes[a].by = "linear" THEN axes[a].steps ELSE Len(axes[a].values)]
Product(sizes, from, to) == FoldLeft(LAMBDA x, y : x * y, 1, SubSeq(sizes, from, to))

\* Every axis is resolved before the first write.  The product is checked as it
\* grows, which is the same as checking every prefix of it.
Plans(axes) ==
    /\ axes # <<>>
    /\ \A a \in DOMAIN axes :
         /\ axes[a].quote \in Quotes
         /\ \A b \in DOMAIN axes : b < a => axes[b].quote # axes[a].quote
         /\ a > 1 => axes[a].plot = "UNSPECIFIED"
         /\ axes[a].by \in {"explicit", "linear", "relative"}
         /\ axes[a].by = "linear" => axes[a].steps >= 2
         /\ Sizes(axes)[a] >= 1
         /\ Product(Sizes(axes), 1, a) <= MaxPoints

RefuseSweep ==
    /\ Serving("sweep") /\ ~graph.refused /\ ~Plans(Asked.axes)
    /\ Answer("error") /\ UNCHANGED caches

SweepDirty ==
    Serving("sweep") /\ dirty /\ Plans(Asked.axes) /\ Drop

BeginSweep ==
    /\ Serving("sweep") /\ Clean /\ Plans(Asked.axes)
    /\ sweep' = [running |-> TRUE, before |-> graph.quotes, done |-> 0,
                 points |-> [a \in DOMAIN Asked.axes |->
                     PointsOf(Asked.axes[a], graph.quotes[Asked.axes[a].quote])],
                 at |-> [a \in DOMAIN Asked.axes |-> 1], prices |-> <<>>]
    /\ UNCHANGED <<graph, caches, dirty, queue, posts, loop, loose>>

Lengths == [a \in DOMAIN sweep.points |-> Len(sweep.points[a])]
Axes == DOMAIN sweep.points
Total == Product(Lengths, 1, Len(sweep.points))

\* Row-major, the last axis varying fastest.
\* Variant for mutation testing: the first axis varies fastest.
CoordinatesByColumn(i) ==
    [a \in Axes |-> ((i \div Product(Lengths, 1, a - 1)) % Lengths[a]) + 1]
Coordinates(i) ==
    [a \in Axes |-> ((i \div Product(Lengths, a + 1, Len(sweep.points))) % Lengths[a]) + 1]

\* Only the coordinates that moved are written, and at the first point all are.
Moved(at) == {a \in Axes : sweep.done = 0 \/ sweep.at[a] # at[a]}
AtPoint ==
    LET at == Coordinates(sweep.done)
    IN [q \in Quotes |->
           IF \E a \in Moved(at) : Asked.axes[a].quote = q
           THEN sweep.points[CHOOSE a \in Axes : Asked.axes[a].quote = q]
                            [at[CHOOSE a \in Axes : Asked.axes[a].quote = q]]
           ELSE graph.quotes[q]]
There == [graph EXCEPT !.quotes = AtPoint]
Priced == Append(sweep.prices, [a \in Axes |-> AtPoint[Asked.axes[a].quote]])

Kept == {Asked.axes[a].quote : a \in {b \in Axes : Asked.axes[b].keep}}
Swept == {Asked.axes[a].quote : a \in Axes}
\* restore(): the axes that keep nothing are put back, in writes of their own.
Restored == [q \in Quotes |-> IF q \in Swept \ Kept THEN sweep.before[q] ELSE AtPoint[q]]

\* A point that prices, and the sweep goes on.
SweepPoint ==
    /\ sweep.running /\ sweep.done + 1 < Total /\ Prices(There, Asked)
    /\ graph' = There
    /\ caches' = Read(There, Invalidate(graph, caches, AtPoint), Asked.uses)
    /\ sweep' = [sweep EXCEPT !.done = @ + 1, !.at = Coordinates(sweep.done), !.prices = Priced]
    /\ UNCHANGED <<dirty, queue, posts, loop, loose>>

EndSweep(read, answer) ==
    /\ graph' = [graph EXCEPT !.quotes = Restored]
    /\ caches' = Invalidate(There, Read(There, Invalidate(graph, caches, AtPoint), read), Restored)
    /\ sweep' = NoSweep
    /\ posts' = Append(posts, answer) /\ queue' = Tail(queue)
    /\ UNCHANGED <<dirty, loop>>

\* resultName: the kinds with one value to plot at a point.
Plotted == {"NPV", "DELTA", "GAMMA", "THETA", "VEGA", "RHO", "DIVIDEND_RHO", "THETA_PER_DAY",
    "DELTA_FORWARD", "ELASTICITY", "STRIKE_SENSITIVITY", "ITM_CASH_PROBABILITY", "QRHO",
    "QVEGA", "QLAMBDA", "FAIR_RATE"}

\* The axes of a sweep that was stopped are trimmed to what was priced: a ladder
\* to a shorter one, a grid to none.
Trimmed(points, priced) ==
    IF priced = Total THEN points
    ELSE IF Len(points) = 1 THEN <<SubSeq(points[1], 1, priced)>> ELSE <<>>

\* The last point, or one with a stop after it.  A plot that cannot be drawn is
\* refused here, and the prices with it.
SweepFinish ==
    /\ sweep.running /\ Prices(There, Asked)
    /\ LET drawn == Asked.axes[1].plot \in {"UNSPECIFIED"} \union Plotted
           whole == sweep.done + 1 = Total
       IN /\ EndSweep(Asked.uses,
                IF drawn
                THEN [Terminal("swept") EXCEPT !.axes = Trimmed(sweep.points, sweep.done + 1),
                                               !.prices = Priced]
                ELSE Terminal("error"))
          /\ loose' = IF drawn /\ whole THEN (loose \ Kept) \union (Kept \intersect Head(queue).late)
                      ELSE loose \union Kept

\* A point that does not price: everything is put back but what is kept.
\* Variant for mutation testing: nothing is put back.
SweepFailsThere ==
    /\ sweep.running
    /\ graph' = There
    /\ caches' = Invalidate(graph, caches, AtPoint)
    /\ sweep' = NoSweep
    /\ posts' = Append(posts, Terminal("error")) /\ queue' = Tail(queue)
    /\ loose' = loose \union Kept
    /\ UNCHANGED <<dirty, loop>>
SweepFails ==
    /\ sweep.running
    /\ \E read \in SUBSET (Asked.uses \intersect DOMAIN caches) :
         EndSweep(read, Terminal("error"))
    /\ loose' = loose \union Kept

\* A write whose commit raises.
SweepBreaks == sweep.running /\ Drop
-----------------------------------------------------------------------------
Loop == Kill \/ LandDeath \/ LandAnswer \/ \E i \in DOMAIN script.requests : Send(i)
Thread ==
    \/ ServeWithoutGraph \/ RefuseUpdate \/ Apply \/ ApplyPartly \/ ApplyBreaks \/ ServeDirty
    \/ ServePrice
    \/ RefuseSweep \/ SweepDirty \/ BeginSweep
    \/ SweepPoint \/ SweepFinish \/ SweepFails \/ SweepBreaks
Next == OpenSession \/ Loop \/ Thread
Spec == Init /\ [][Next]_vars
-----------------------------------------------------------------------------
(* Properties *)

Curves == DOMAIN graph.curves

\* Every variable holds what its field in the code can hold: one request is served
\* at a time, a dropped graph is neither dirty nor cached, and what is parked or
\* queued was sent (Worker::session_, Session::dirty_, SessionState).
TypeOK ==
    /\ phase \in {"opening", "open", "over"}
    /\ DOMAIN caches = Curves /\ \A c \in Curves : Cardinality(caches[c]) <= 1
    /\ dirty \in BOOLEAN /\ (dirty => ~graph.refused)
    /\ \A k \in DOMAIN queue : queue[k].id \in sent
    /\ sweep.running => queue # <<>> /\ Asked.kind = "sweep" /\ sweep.done < Total
    /\ DOMAIN parked \subseteq sent /\ sent \subseteq DOMAIN script.requests
    /\ kills \in 0..MaxKills
    /\ loose \subseteq {script.market[k].id : k \in DOMAIN script.market}

\* A market that was accepted hangs together, in whatever order it was sent: an
\* index with a forwarding curve forecasts off it, a curve observes quotes of the
\* market, a correlation resolves and is one when it is built, and an id names one
\* object (buildMarket and the constructor's check of the indices that wait).
NothingDangles ==
    phase = "open" /\ ~graph.refused =>
        /\ \A i \in DOMAIN graph.indices :
             LET index == graph.indices[i]
             IN index.forwards # None => index.forwards \in Curves /\ index.linked
        /\ \A c \in Curves : graph.curves[c].feeds \subseteq Quotes
        /\ \A v \in DOMAIN graph.vols : graph.vols[v].feeds \subseteq Quotes
        /\ \A c \in DOMAIN graph.correlations :
             LET m == graph.correlations[c]
             IN /\ \A i, j \in DOMAIN m : Resolves(graph, m[i][j])
                /\ sent = {} => IsCorrelation(Matrix(graph.quotes, m))
        /\ IsInjective(graph.ids)

\* Between requests, no curve is left calculated from a quote that has moved since:
\* the next price sees every write before it, a sweep's that were put back included
\* (UpdateGuard defers notifications and never drops them).
CachesAreFresh ==
    ~dirty => \A c \in Curves : caches[c] \subseteq {Calculated(graph, c)}

AtRest == phase = "open" /\ Clean /\ queue = <<>> /\ posts = <<>>

\* Quotes as the log has them.
LogQuotes == [q \in Quotes |-> CHOOSE v \in Logged(q) : TRUE]
\* The rows the log holds for one fixing.
Held(f) ==
    UNION {{<<k, j>> : j \in {r \in DOMAIN log[k].rows : log[k].rows[r].date.day = f[2]}} :
           k \in {o \in DOMAIN log : /\ log[o].kind = "fixings"
                                    /\ graph.indices[log[o].index].name = f[1]}}
Same(f, g, except) == \A x \in (DOMAIN f \union DOMAIN g) \ except :
    x \in DOMAIN f /\ x \in DOMAIN g /\ f[x] = g[x]

\* When nothing is under way, the log rebuilds the graph: the quotes agree but for
\* those a kept sweep left where nobody can replay them, the fixings but for those
\* the log holds twice.  It is refused only for a correlation that a write has made
\* impossible (SessionLog::record, Supervisor::onRequestTerminated).
ReplayRebuilds ==
    AtRest =>
        LET again == Build(log) IN
        IF again.refused
        THEN \E c \in DOMAIN graph.correlations : ~IsCorrelation(Matrix(LogQuotes, graph.correlations[c]))
        ELSE /\ Same(graph.quotes, again.quotes, loose)
             /\ Same(graph.fixings, again.fixings,
                     {f \in DOMAIN graph.fixings : Cardinality(Held(f)) > 1})
             /\ graph.indices = again.indices

\* "A worker dies or is killed for a cancel ... Nothing: the session is replayed under
\* it and keeps its id" (doc/DESIGN.md): a session that has a graph, with nothing under
\* way, has one after a kill.
KillsCostNothing ==
    [][AtRest /\ kills' # kills => ~graph'.refused]_vars

\* The prices of a sweep are those of its grid: with every axis given, one per
\* combination in nested order, and with none, a grid that was cut short
\* (serveScenario's strides, its writes of what moved, the trimming of its axes).
Grid(points) ==
    FoldLeft(LAMBDA rows, axis :
                 FlattenSeq([r \in DOMAIN rows |-> [k \in DOMAIN axis |-> Append(rows[r], axis[k])]]),
             <<<<>>>>, points)
PricesAreTheGrid ==
    \A k \in DOMAIN posts :
        posts[k].code = "swept" =>
            IF posts[k].axes # <<>> THEN posts[k].prices = Grid(posts[k].axes)
            ELSE Len(posts[k].prices) >= 1

\* A sweep that ends leaves every quote it did not keep as it found it, whether it
\* finished, was stopped or failed (serveScenario's restore).
SweepsPutBack ==
    [][sweep.running /\ ~sweep'.running /\ ~graph'.refused /\ kills' = kills =>
            \A q \in Quotes \ Kept : graph'.quotes[q] = sweep.before[q]]_vars

\* An update that is refused changes nothing, or what it changed is not served again:
\* the session is dirty, or its graph gone (Session::apply).
UpdatesAreWhole ==
    [][Serving("update") /\ Len(posts') > Len(posts) /\ posts'[Len(posts) + 1].code = "error" =>
            \/ dirty' \/ graph'.refused
            \/ graph' = graph]_vars
=============================================================================
