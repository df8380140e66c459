-------------------------- MODULE SupervisorProofs --------------------------
(***************************************************************************)
(* Theorems about the supervisor with its host and the gateway's ledger:   *)
(* the type invariant, and on which seats and workers a session is.        *)
(* TypeInv is inductive: TypeOK, with the pool's counts, the seats of each *)
(* session and what recovery has still to do (Sound), and the deliverable  *)
(* posts of every seat (Delivering). One lemma says what each helper of    *)
(* the supervisor does to them, and each action is then its helpers in     *)
(* turn.  RoundsInv is of the rounds of cancels.  PlacesInv comes last:    *)
(* that a request is in one place among queues, seats and posts.           *)
(***************************************************************************)
EXTENDS Supervisor, OrderingProofs

Table == [SeatIds -> Seat \union {NoSeat}]
Pools == [Workers -> Process]
-----------------------------------------------------------------------------
(* The pool's books *)

\* Where each session counts: nowhere while it waits to be recovered.
Home == [s \in Sessions |-> IF s \in todo THEN 0 ELSE sessions[s].worker]

Homes == [Sessions -> Workers \union {0}]

\* The pool's counts are those of the sessions at home there.
Tallied(p, home) ==
    \A w \in Workers :
        /\ p[w].sessions = Cardinality({s \in Sessions : home[s] = w})
        /\ p[w].sessions <= IF p[w].placement = "sacrificial" THEN 1 ELSE PerWorker

LEMMA ReleaseTally ==
    ASSUME NEW p \in Pools, NEW home \in Homes, NEW s \in Sessions, NEW w \in Workers,
           home[s] = w, Tallied(p, home)
    PROVE  /\ Release(p, w) \in Pools
           /\ Tallied(Release(p, w), [home EXCEPT ![s] = 0])
  <1> DEFINE at(h, v) == {r \in Sessions : h[r] = v}
             next == [home EXCEPT ![s] = 0]
  <1>1. IsFiniteSet(at(home, w)) /\ s \in at(home, w)
    BY RequestAssumption, FS_Subset
  <1>2. at(next, w) = at(home, w) \ {s}
    <2>1. w # 0
      BY DEF Workers
    <2> QED BY <2>1 DEF Homes
  <1>3. Cardinality(at(next, w)) = Cardinality(at(home, w)) - 1
    <2> HIDE DEF at, next
    <2> QED BY <1>1, <1>2, FS_RemoveElement
  <1>4. ASSUME NEW v \in Workers, v # w PROVE at(next, v) = at(home, v)
    BY <1>4 DEF Homes, Workers
  <1>5. p[w].sessions = Cardinality(at(home, w)) /\ p[w].sessions \in Nat
    BY DEF Tallied, Pools, Process
  <1>6. p[w].sessions # 0
    <2> HIDE DEF at
    <2> QED BY <1>1, <1>5, FS_EmptySet
  <1>7. /\ Release(p, w)[w].sessions = p[w].sessions - 1
        /\ Release(p, w)[w].placement = p[w].placement \/ p[w].sessions = 1
        /\ Release(p, w) \in Pools
    <2>1. CASE p[w].sessions = 1
      <3>1. Release(p, w) = [p EXCEPT ![w] = NoWorker]
        BY <2>1 DEF Release, Pools
      <3>2. NoWorker \in Process /\ NoWorker.sessions = 0
        BY DEF NoWorker, Process, Placements
      <3> HIDE DEF at, next
      <3> QED BY <2>1, <3>1, <3>2, <1>5 DEF Pools
    <2>2. CASE p[w].sessions # 1
      <3> DEFINE fewer == [p[w] EXCEPT !.sessions = p[w].sessions - 1]
      <3>1. Release(p, w) = [p EXCEPT ![w] = fewer]
        BY <2>2 DEF Release, Pools
      <3>2. p[w] \in Process
        BY DEF Pools
      <3>3. /\ fewer \in Process /\ fewer.sessions = p[w].sessions - 1
            /\ fewer.placement = p[w].placement
        BY <3>2, <1>5, <1>6 DEF Process
      <3> HIDE DEF at, next, fewer
      <3> QED BY <3>1, <3>3 DEF Pools
    <2> QED BY <2>1, <2>2
  <1>8. Release(p, w) \in Pools
    BY <1>7
  <1>9. ASSUME NEW v \in Workers
        PROVE  /\ Release(p, w)[v].sessions = Cardinality(at(next, v))
               /\ Release(p, w)[v].sessions <=
                    IF Release(p, w)[v].placement = "sacrificial" THEN 1 ELSE PerWorker
    <2>1. CASE v = w
      <3>1. Release(p, w)[w].placement = p[w].placement \/ p[w].sessions = 1
        BY <1>7
      <3>2. p[w].sessions <= IF p[w].placement = "sacrificial" THEN 1 ELSE PerWorker
        BY DEF Tallied
      <3>3. Release(p, w)[w].sessions <=
              IF Release(p, w)[w].placement = "sacrificial" THEN 1 ELSE PerWorker
        BY <3>1, <3>2, <1>5, <1>7, BoundsAssumption
      <3> HIDE DEF at, next
      <3> QED BY <2>1, <3>3, <1>3, <1>5, <1>7
    <2>2. CASE v # w
      <3>1. Release(p, w)[v] = p[v]
        BY <2>2 DEF Release, Pools
      <3>2. /\ p[v].sessions = Cardinality(at(home, v))
            /\ p[v].sessions <= IF p[v].placement = "sacrificial" THEN 1 ELSE PerWorker
        BY DEF Tallied
      <3>3. at(next, v) = at(home, v)
        BY <2>2, <1>4
      <3> HIDE DEF at, next
      <3> QED BY <3>1, <3>2, <3>3
    <2> QED BY <2>1, <2>2
  <1>10. Tallied(Release(p, w), next)
    BY <1>9 DEF Tallied
  <1> QED BY <1>8, <1>10

LEMMA AcquireTally ==
    ASSUME NEW p \in Pools, NEW home \in Homes, NEW s \in Sessions, home[s] = 0,
           NEW ss, NEW placement \in Placements, NEW w \in Openings(p, ss, placement),
           Tallied(p, home)
    PROVE  /\ w \in Workers
           /\ Acquire(p, w, placement) \in Pools
           /\ Tallied(Acquire(p, w, placement), [home EXCEPT ![s] = w])
  <1> DEFINE at(h, v) == {r \in Sessions : h[r] = v}
             next == [home EXCEPT ![s] = w]
             q == Acquire(p, w, placement)
  <1>1. w \in Workers /\ (HasRoom(p, w) \/ p[w] = NoWorker)
    BY DEF Openings, Unused
  <1>2. IsFiniteSet(at(home, w)) /\ s \notin at(home, w)
    BY <1>1, RequestAssumption, FS_Subset DEF Workers
  <1>3. at(next, w) = at(home, w) \union {s}
    BY <1>1 DEF Homes
  <1>4. Cardinality(at(next, w)) = Cardinality(at(home, w)) + 1
    <2> HIDE DEF at, next
    <2> QED BY <1>2, <1>3, FS_AddElement, ZenonT(40)
  <1>5. ASSUME NEW v \in Workers, v # w PROVE at(next, v) = at(home, v)
    BY <1>5 DEF Homes, Workers
  <1>6. p[w].sessions = Cardinality(at(home, w)) /\ p[w].sessions \in Nat
    BY <1>1 DEF Tallied, Pools, Process
  <1>7. /\ q[w].sessions = p[w].sessions + 1
        /\ q[w].sessions <= IF q[w].placement = "sacrificial" THEN 1 ELSE PerWorker
        /\ q \in Pools
    <2>1. CASE p[w] = NoWorker
      <3> DEFINE fresh == [placement |-> placement, sessions |-> 1]
      <3>1. q = [p EXCEPT ![w] = fresh]
        BY <2>1, <1>1 DEF Acquire, Pools
      <3>2. fresh \in Process /\ fresh.sessions = 1
        BY DEF Process
      <3>3. p[w].sessions = 0
        BY <2>1 DEF NoWorker
      <3> HIDE DEF at, next, q, fresh
      <3>4. q[w] = fresh /\ q \in Pools
        BY <3>1, <3>2, <1>1 DEF Pools
      <3> QED BY <3>2, <3>3, <3>4, BoundsAssumption
    <2>2. CASE p[w] # NoWorker
      <3> DEFINE more == [p[w] EXCEPT !.sessions = p[w].sessions + 1]
      <3>1. q = [p EXCEPT ![w] = more]
        BY <2>2, <1>1 DEF Acquire, Pools
      <3>2. p[w] \in Process
        BY <1>1 DEF Pools
      <3>3. /\ more \in Process /\ more.sessions = p[w].sessions + 1
            /\ more.placement = p[w].placement
        BY <3>2, <1>6 DEF Process
      <3>4. p[w].placement = "shared" /\ p[w].sessions \in 1..(PerWorker - 1)
        BY <2>2, <1>1 DEF HasRoom
      <3>5. p[w].sessions + 1 <= PerWorker
        BY <3>4, BoundsAssumption
      <3> HIDE DEF at, next, q, more
      <3>6. q[w] = more /\ q \in Pools
        BY <3>1, <3>3, <1>1 DEF Pools
      <3> QED BY <3>3, <3>4, <3>5, <3>6
    <2> QED BY <2>1, <2>2
  <1>8. q \in Pools
    BY <1>7
  <1>9. ASSUME NEW v \in Workers, v # w PROVE q[v] = p[v]
    BY <1>9 DEF Acquire, Pools
  <1> HIDE DEF at, next, q
  <1>10. ASSUME NEW v \in Workers
         PROVE  /\ q[v].sessions = Cardinality(at(next, v))
                /\ q[v].sessions <= IF q[v].placement = "sacrificial" THEN 1 ELSE PerWorker
    <2>1. CASE v = w
      BY <2>1, <1>4, <1>6, <1>7
    <2>2. CASE v # w
      <3>1. /\ p[v].sessions = Cardinality(at(home, v))
            /\ p[v].sessions <= IF p[v].placement = "sacrificial" THEN 1 ELSE PerWorker
        BY DEF Tallied, at
      <3> QED BY <2>2, <3>1, <1>5, <1>9
    <2> QED BY <2>1, <2>2
  <1>11. Tallied(q, next)
    BY <1>10 DEF Tallied, at
  <1> QED BY <1>1, <1>8, <1>11 DEF q, next

\* A killed process has nobody at home.
LEMMA KillTally ==
    ASSUME NEW p \in Pools, NEW home \in Homes, NEW w \in Workers, Tallied(p, home),
           NEW left \in Homes,
           \A s \in Sessions : left[s] = IF home[s] = w THEN 0 ELSE home[s]
    PROVE  /\ [p EXCEPT ![w] = NoWorker] \in Pools
           /\ Tallied([p EXCEPT ![w] = NoWorker], left)
  <1> DEFINE q == [p EXCEPT ![w] = NoWorker]
  <1>1. q \in Pools
    BY DEF Pools, Process, NoWorker, Placements
  <1>2. ASSUME NEW v \in Workers
        PROVE  /\ q[v].sessions = Cardinality({s \in Sessions : left[s] = v})
               /\ q[v].sessions <= IF q[v].placement = "sacrificial" THEN 1 ELSE PerWorker
    <2>1. CASE v = w
      <3>1. {s \in Sessions : left[s] = v} = {}
        BY <2>1 DEF Workers, Homes
      <3>2. q[v] = NoWorker
        BY <2>1 DEF Pools
      <3> QED BY <3>1, <3>2, FS_EmptySet, BoundsAssumption DEF NoWorker
    <2>2. CASE v # w
      <3>1. {s \in Sessions : left[s] = v} = {s \in Sessions : home[s] = v}
        BY <2>2 DEF Workers, Homes
      <3>2. q[v] = p[v]
        BY <2>2 DEF Pools
      <3> QED BY <3>1, <3>2 DEF Tallied
    <2> QED BY <2>1, <2>2
  <1> QED BY <1>1, <1>2 DEF Tallied
-----------------------------------------------------------------------------
(* The host's table *)

\* A seat's thread serves what is in its queue.
Whole(ss) ==
    /\ ss \in Table
    /\ \A n \in SeatIds : ss[n].busy => ss[n].queue # <<>>

\* A seat in the host's table is its session's only one, where the session is at
\* home; and no session is without one unless threads may fail to start.
Placing(ss, home) ==
    /\ \A n \in SeatIds : ss[n].held => home[ss[n].session] = ss[n].worker
    /\ \A m, n \in SeatIds :
         ss[m].held /\ ss[n].held /\ ss[m].session = ss[n].session => m = n
    /\ ~StartsMayFail => \A s \in Sessions : home[s] # 0 =>
         \E n \in SeatIds : ss[n].held /\ ss[n].session = s

\* Pool, table and sessions agree.
Sound(p, ss, home) ==
    /\ p \in Pools /\ home \in Homes /\ Tallied(p, home)
    /\ Whole(ss) /\ Placing(ss, home)

LEMMA NobodyThere == NoSeat \notin Seat /\ ~NoSeat.held /\ ~NoSeat.busy
  BY DEF NoSeat, Seat, Workers

LEMMA SeatOrNone ==
    ASSUME NEW ss \in Table, NEW n \in SeatIds
    PROVE  /\ ss[n] = NoSeat \/ ss[n] \in Seat
           /\ ss[n] # NoSeat => ss[n] \in Seat
           /\ ss[n].held => ss[n] \in Seat
           /\ ss[n].busy => ss[n] \in Seat
           /\ ss[n].queue \in Seq(Waiting)
  <1>1. ss[n] = NoSeat \/ ss[n] \in Seat
    BY DEF Table
  <1>2. NoSeat.queue \in Seq(Waiting)
    BY DEF NoSeat
  <1>3. ss[n] \in Seat => ss[n].queue \in Seq(Waiting)
    BY DEF Seat
  <1> QED BY <1>1, <1>2, <1>3, NobodyThere

\* A frame put on a seat; a close takes the seat out of the host's table.
LEMMA SendEffect ==
    ASSUME NEW ss, Whole(ss), NEW n \in SeatIds, ss[n].held, NEW f \in Waiting
    PROVE  /\ Whole(Send(ss, n, f))
           /\ Send(ss, n, f)[n] \in Seat
           /\ Send(ss, n, f)[n].session = ss[n].session
           /\ Send(ss, n, f)[n].worker = ss[n].worker
           /\ Send(ss, n, f)[n].held <=> f.kind # "close"
           /\ Send(ss, n, f)[n].queue = Append(ss[n].queue, f)
           /\ Send(ss, n, f)[n].busy = ss[n].busy
           /\ \A m \in SeatIds \ {n} : Send(ss, n, f)[m] = ss[m]
  <1> DEFINE t == Send(ss, n, f)
  <1>1. ss \in Table /\ ss[n] \in Seat
    BY SeatOrNone DEF Whole
  <1>2. t[n] = [[ss[n] EXCEPT !.queue = Append(ss[n].queue, f)] EXCEPT !.held = (f.kind # "close")]
    <2>1. DOMAIN ss = SeatIds
      BY <1>1 DEF Table
    <2>2. DOMAIN [ss EXCEPT ![n].queue = Append(@, f)] = SeatIds
      BY <2>1
    <2>3. t = [[ss EXCEPT ![n] = [ss[n] EXCEPT !.queue = Append(ss[n].queue, f)]]
                  EXCEPT ![n] = [[ss[n] EXCEPT !.queue = Append(ss[n].queue, f)]
                                    EXCEPT !.held = (f.kind # "close")]]
      BY <2>1, <2>2 DEF Send
    <2> QED BY <2>1, <2>3
  <1>3. /\ t \in [SeatIds -> {t[m] : m \in SeatIds}]
        /\ \A m \in SeatIds \ {n} : t[m] = ss[m]
    BY <1>1 DEF Send, Table
  <1>4. Append(ss[n].queue, f) \in Seq(Waiting) /\ Append(ss[n].queue, f) # <<>>
    BY <1>1, AppendProperties DEF Seat
  <1>5. /\ t[n] \in Seat /\ t[n].session = ss[n].session /\ t[n].worker = ss[n].worker
        /\ (t[n].held <=> f.kind # "close") /\ t[n].queue = Append(ss[n].queue, f)
        /\ t[n].busy = ss[n].busy
    <2> DEFINE q == Append(ss[n].queue, f)
               a == [ss[n] EXCEPT !.queue = q]
    <2> HIDE DEF q
    <2>1. q \in Seq(Waiting)
      BY <1>4 DEF q
    <2>2. /\ a \in Seat /\ a.queue = q /\ a.session = ss[n].session
          /\ a.worker = ss[n].worker /\ a.busy = ss[n].busy
      BY <1>1, <2>1 DEF Seat
    <2>3. t[n] = [a EXCEPT !.held = (f.kind # "close")]
      BY <1>2 DEF q
    <2>4. (f.kind # "close") \in BOOLEAN
      OBVIOUS
    <2> HIDE DEF a, t
    <2> QED BY <2>2, <2>3, <2>4 DEF Seat, q
  <1> HIDE DEF t
  <1>6. t \in Table
    <2>1. \A m \in SeatIds : t[m] \in Seat \union {NoSeat}
      BY <1>1, <1>3, <1>5 DEF Table
    <2> QED BY <1>3, <2>1 DEF Table
  <1>7. Whole(t)
    BY <1>3, <1>4, <1>5, <1>6 DEF Whole
  <1> QED BY <1>3, <1>5, <1>7 DEF t

LEMMA DisownEffect ==
    ASSUME NEW ss, Whole(ss), NEW gone
    PROVE  /\ Whole(Disown(ss, gone))
           /\ \A n \in SeatIds : Disown(ss, gone)[n] = IF n \in gone THEN NoSeat ELSE ss[n]
  BY NobodyThere DEF Whole, Disown, Table

LEMMA KillEffect ==
    ASSUME NEW ss, Whole(ss), NEW w
    PROVE  /\ Whole(Kill(ss, w))
           /\ \A n \in SeatIds : Kill(ss, w)[n] =
                IF ss[n].held /\ ss[n].worker = w THEN NoSeat ELSE ss[n]
  BY DisownEffect DEF Kill

LEMMA NewSeatEffect ==
    ASSUME NEW ss, Whole(ss), NEW n \in SeatIds, NEW s \in Sessions, NEW w \in Workers,
           NEW frames \in Seq(Waiting)
    PROVE  /\ Whole([ss EXCEPT ![n] = NewSeat(s, w, frames)])
           /\ NewSeat(s, w, frames) \in Seat
           /\ NewSeat(s, w, frames).session = s
           /\ NewSeat(s, w, frames).worker = w
           /\ NewSeat(s, w, frames).held
           /\ NewSeat(s, w, frames).queue = frames
           /\ ~NewSeat(s, w, frames).busy
  <1> DEFINE new == NewSeat(s, w, frames)
  <1>1. new = [session |-> s, worker |-> w, held |-> TRUE, queue |-> frames, busy |-> FALSE,
               stop |-> FALSE, graph |-> "none", value |-> 0]
    BY DEF NewSeat
  <1>2. new \in Seat
    BY <1>1 DEF Seat, Values
  <1>3. new.session = s /\ new.worker = w /\ new.held /\ new.queue = frames /\ ~new.busy
    BY <1>1
  <1> HIDE DEF new
  <1>4. Whole([ss EXCEPT ![n] = new])
    BY <1>2, <1>3 DEF Whole, Table
  <1> QED BY <1>2, <1>3, <1>4 DEF new

\* An emptied process has no seat in the table, so retiring it takes none.
LEMMA RetireTakesNothing ==
    ASSUME NEW p, NEW ss, NEW home, Sound(p, ss, home), NEW w \in Workers
    PROVE  Retire(ss, p, w) = ss
  <1>1. CASE p[w] = NoWorker
    <2>1. ASSUME NEW n \in SeatIds, ss[n].held, ss[n].worker = w PROVE FALSE
      <3>1. ss[n].session \in Sessions /\ home[ss[n].session] = w
        BY <2>1, SeatOrNone DEF Sound, Placing, Whole, Seat
      <3>2. ss[n].session \in {s \in Sessions : home[s] = w}
        BY <3>1
      <3>3. IsFiniteSet({s \in Sessions : home[s] = w})
        BY RequestAssumption, FS_Subset
      <3>4. Cardinality({s \in Sessions : home[s] = w}) = 0
        BY <1>1 DEF Sound, Tallied, NoWorker
      <3> QED BY <3>2, <3>3, <3>4, FS_EmptySet
    <2>2. ss = [n \in SeatIds |-> ss[n]]
      BY DEF Sound, Whole, Table
    <2>3. Kill(ss, w) = [n \in SeatIds |-> ss[n]]
      BY <2>1 DEF Kill, Disown
    <2> QED BY <1>1, <2>2, <2>3 DEF Retire
  <1>2. CASE p[w] # NoWorker
    BY <1>2 DEF Retire
  <1> QED BY <1>1, <1>2

\* A frame to a seat, other than a close, moves nobody.
LEMMA SoundSend ==
    ASSUME NEW p, NEW ss, NEW home, Sound(p, ss, home), NEW n \in SeatIds, ss[n].held,
           NEW f \in Waiting, f.kind # "close"
    PROVE  Sound(p, Send(ss, n, f), home)
  <1> DEFINE t == Send(ss, n, f)
  <1>1. /\ Whole(t) /\ t[n].session = ss[n].session /\ t[n].worker = ss[n].worker
        /\ t[n].held
        /\ \A m \in SeatIds \ {n} : t[m] = ss[m]
    BY SendEffect DEF Sound
  <1> HIDE DEF t
  <1>2. \A m \in SeatIds : /\ t[m].held <=> ss[m].held
                           /\ t[m].session = ss[m].session
                           /\ t[m].worker = ss[m].worker
    BY <1>1
  <1>3. Placing(t, home)
    BY <1>2 DEF Placing, Sound
  <1> QED BY <1>1, <1>3 DEF Sound, t

\* A session's seat out of the table, and its place given back.
LEMMA SoundOut ==
    ASSUME NEW p, NEW ss, NEW home, Sound(p, ss, home), NEW n \in SeatIds, ss[n].held,
           NEW t, Whole(t), ~t[n].held, \A m \in SeatIds \ {n} : t[m] = ss[m]
    PROVE  /\ ss[n].session \in Sessions /\ ss[n].worker \in Workers
           /\ home[ss[n].session] = ss[n].worker
           /\ Sound(Release(p, ss[n].worker), t, [home EXCEPT ![ss[n].session] = 0])
           /\ Retire(t, Release(p, ss[n].worker), ss[n].worker) = t
  <1> DEFINE s == ss[n].session
             w == ss[n].worker
             left == [home EXCEPT ![s] = 0]
  <1>1. s \in Sessions /\ w \in Workers /\ home[s] = w
    BY SeatOrNone DEF Sound, Whole, Placing, Seat
  <1>2. p \in Pools /\ home \in Homes /\ Tallied(p, home)
    BY DEF Sound
  <1>3. Release(p, w) \in Pools /\ Tallied(Release(p, w), left)
    <2> HIDE DEF s, w
    <2> QED BY <1>1, <1>2, ReleaseTally
  <1>4. left \in Homes
    BY <1>1, <1>2 DEF Homes
  <1>5. ASSUME NEW m \in SeatIds, t[m].held
        PROVE  m # n /\ ss[m].held /\ t[m] = ss[m] /\ ss[m].session # s
               /\ ss[m].session \in Sessions
    <2>1. m # n /\ ss[m].held /\ t[m] = ss[m]
      BY <1>5
    <2>2. ss[m].session # s
      BY <2>1 DEF Sound, Placing
    <2> QED BY <2>1, <2>2, SeatOrNone DEF Sound, Whole, Seat
  <1>6. \A m \in SeatIds : t[m].held => left[t[m].session] = t[m].worker
    BY <1>2, <1>5 DEF Sound, Placing, Homes
  <1>7. \A m, k \in SeatIds : t[m].held /\ t[k].held /\ t[m].session = t[k].session => m = k
    BY <1>5 DEF Sound, Placing
  <1>8. ASSUME ~StartsMayFail, NEW r \in Sessions, left[r] # 0
        PROVE  \E m \in SeatIds : t[m].held /\ t[m].session = r
    <2>1. r # s /\ home[r] # 0
      BY <1>2, <1>8 DEF Homes
    <2>2. PICK m \in SeatIds : ss[m].held /\ ss[m].session = r
      BY <2>1, <1>8 DEF Sound, Placing
    <2> QED BY <2>1, <2>2
  <1>9. Placing(t, left)
    BY <1>6, <1>7, <1>8 DEF Placing
  <1>10. Sound(Release(p, w), t, left)
    BY <1>3, <1>4, <1>9 DEF Sound
  <1>11. Retire(t, Release(p, w), w) = t
    BY <1>1, <1>10, RetireTakesNothing
  <1> QED BY <1>1, <1>10, <1>11

LEMMA SoundClose ==
    ASSUME NEW p, NEW ss, NEW home, Sound(p, ss, home), NEW n \in SeatIds, ss[n].held,
           NEW f \in Waiting, f.kind = "close"
    PROVE  /\ ss[n].session \in Sessions /\ ss[n].worker \in Workers
           /\ home[ss[n].session] = ss[n].worker
           /\ Sound(Release(p, ss[n].worker), Send(ss, n, f), [home EXCEPT ![ss[n].session] = 0])
           /\ Retire(Send(ss, n, f), Release(p, ss[n].worker), ss[n].worker) = Send(ss, n, f)
  <1>1. /\ Whole(Send(ss, n, f)) /\ ~Send(ss, n, f)[n].held
        /\ \A m \in SeatIds \ {n} : Send(ss, n, f)[m] = ss[m]
    BY SendEffect DEF Sound
  <1> QED BY <1>1, SoundOut

LEMMA SoundDisown ==
    ASSUME NEW p, NEW ss, NEW home, Sound(p, ss, home), NEW n \in SeatIds, ss[n].held
    PROVE  /\ ss[n].session \in Sessions /\ ss[n].worker \in Workers
           /\ home[ss[n].session] = ss[n].worker
           /\ Sound(Release(p, ss[n].worker), Disown(ss, {n}),
                    [home EXCEPT ![ss[n].session] = 0])
           /\ Retire(Disown(ss, {n}), Release(p, ss[n].worker), ss[n].worker)
                = Disown(ss, {n})
  <1>1. /\ Whole(Disown(ss, {n})) /\ ~Disown(ss, {n})[n].held
        /\ \A m \in SeatIds \ {n} : Disown(ss, {n})[m] = ss[m]
    BY DisownEffect, NobodyThere DEF Sound
  <1> QED BY <1>1, SoundOut

\* A session put on a process, with a seat of its own.
LEMMA SoundEnter ==
    ASSUME NEW p, NEW ss, NEW home, Sound(p, ss, home), NEW s \in Sessions, home[s] = 0,
           NEW placement \in Placements, NEW tt, NEW w \in Openings(p, tt, placement),
           NEW n \in FreeSeats(ss), NEW frames \in Seq(Waiting)
    PROVE  /\ w \in Workers /\ n \in SeatIds /\ ss[n] = NoSeat
           /\ Sound(Acquire(p, w, placement), [ss EXCEPT ![n] = NewSeat(s, w, frames)],
                    [home EXCEPT ![s] = w])
  <1> DEFINE new == NewSeat(s, w, frames)
             t == [ss EXCEPT ![n] = new]
             there == [home EXCEPT ![s] = w]
  <1>1. p \in Pools /\ home \in Homes /\ Tallied(p, home) /\ Whole(ss)
    BY DEF Sound
  <1>2. /\ w \in Workers /\ Acquire(p, w, placement) \in Pools
        /\ Tallied(Acquire(p, w, placement), there)
    BY <1>1, AcquireTally
  <1>3. n \in SeatIds /\ ss[n] = NoSeat /\ ~ss[n].held
    BY NobodyThere DEF FreeSeats
  <1>4. /\ Whole(t) /\ new.session = s /\ new.worker = w /\ new.held
    BY <1>1, <1>2, <1>3, NewSeatEffect
  <1>5. t[n] = new /\ \A m \in SeatIds \ {n} : t[m] = ss[m]
    BY <1>1, <1>3 DEF Whole, Table
  <1>6. there \in Homes
    BY <1>1, <1>2 DEF Homes
  <1>7. there[s] = w /\ w # 0 /\ \A r \in Sessions \ {s} : there[r] = home[r]
    BY <1>1, <1>2 DEF Homes, Workers
  <1> HIDE DEF new, t, there
  <1>8. ASSUME NEW m \in SeatIds, ss[m].held
        PROVE  /\ ss[m].session \in Sessions \ {s} /\ m # n
               /\ home[ss[m].session] = ss[m].worker
    <2>1. ss[m] \in Seat
      BY <1>1, <1>8, SeatOrNone DEF Whole
    <2>2. home[ss[m].session] = ss[m].worker
      BY <1>8 DEF Sound, Placing
    <2>3. ss[m].session \in Sessions /\ ss[m].worker # 0
      BY <2>1 DEF Seat, Workers
    <2> QED BY <2>2, <2>3, <1>3, <1>8
  <1>9. \A m \in SeatIds : t[m].held => there[t[m].session] = t[m].worker
    BY <1>4, <1>5, <1>7, <1>8
  <1>10. \A m, k \in SeatIds : t[m].held /\ t[k].held /\ t[m].session = t[k].session => m = k
    <2> SUFFICES ASSUME NEW m \in SeatIds, NEW k \in SeatIds, t[m].held, t[k].held,
                        t[m].session = t[k].session, m # k
                 PROVE  FALSE
      OBVIOUS
    <2>1. CASE m # n /\ k # n
      BY <2>1, <1>5 DEF Sound, Placing
    <2>2. CASE m = n
      BY <2>2, <1>4, <1>5, <1>8
    <2>3. CASE k = n
      BY <2>3, <1>4, <1>5, <1>8
    <2> QED BY <2>1, <2>2, <2>3
  <1>11. ASSUME ~StartsMayFail, NEW r \in Sessions, there[r] # 0
         PROVE  \E m \in SeatIds : t[m].held /\ t[m].session = r
    <2>1. CASE r = s
      BY <2>1, <1>3, <1>4, <1>5
    <2>2. CASE r # s
      <3>1. home[r] # 0
        BY <2>2, <1>7, <1>11
      <3>2. PICK m \in SeatIds : ss[m].held /\ ss[m].session = r
        BY <3>1, <1>11 DEF Sound, Placing
      <3> QED BY <3>2, <1>5, <1>8
    <2> QED BY <2>1, <2>2
  <1>12. Placing(t, there)
    BY <1>9, <1>10, <1>11 DEF Placing
  <1>13. Sound(Acquire(p, w, placement), t, there)
    BY <1>2, <1>4, <1>6, <1>12 DEF Sound, there
  <1> QED BY <1>2, <1>3, <1>13 DEF t, there, new

\* A session put on a process where its thread did not start.
LEMMA SoundEmpty ==
    ASSUME NEW p, NEW ss, NEW home, Sound(p, ss, home), NEW s \in Sessions, home[s] = 0,
           NEW placement \in Placements, NEW tt, NEW w \in Openings(p, tt, placement),
           StartsMayFail
    PROVE  /\ w \in Workers
           /\ Sound(Acquire(p, w, placement), ss, [home EXCEPT ![s] = w])
  <1>1. p \in Pools /\ home \in Homes /\ Tallied(p, home)
    BY DEF Sound
  <1>2. /\ w \in Workers /\ Acquire(p, w, placement) \in Pools
        /\ Tallied(Acquire(p, w, placement), [home EXCEPT ![s] = w])
    BY <1>1, AcquireTally
  <1>3. [home EXCEPT ![s] = w] \in Homes
    BY <1>1, <1>2 DEF Homes
  <1>4. ASSUME NEW m \in SeatIds, ss[m].held
        PROVE  [home EXCEPT ![s] = w][ss[m].session] = ss[m].worker
    <2>1. ss[m] \in Seat
      BY <1>4, SeatOrNone DEF Sound, Whole
    <2>2. home[ss[m].session] = ss[m].worker
      BY <1>4 DEF Sound, Placing
    <2>3. ss[m].session \in Sessions /\ ss[m].worker # 0
      BY <2>1 DEF Seat, Workers
    <2> QED BY <2>2, <2>3, <1>1 DEF Homes
  <1>5. Placing(ss, [home EXCEPT ![s] = w])
    BY <1>4 DEF Sound, Placing
  <1> QED BY <1>2, <1>3, <1>5 DEF Sound

\* A killed process takes its seats with it, and its sessions are nowhere.
LEMMA SoundKill ==
    ASSUME NEW p, NEW ss, NEW home, Sound(p, ss, home), NEW w \in Workers,
           NEW left \in Homes,
           \A s \in Sessions : left[s] = IF home[s] = w THEN 0 ELSE home[s]
    PROVE  Sound([p EXCEPT ![w] = NoWorker], Kill(ss, w), left)
  <1>1. p \in Pools /\ home \in Homes /\ Tallied(p, home)
    BY DEF Sound
  <1>2. /\ [p EXCEPT ![w] = NoWorker] \in Pools
        /\ Tallied([p EXCEPT ![w] = NoWorker], left)
    BY <1>1, KillTally
  <1>3. /\ Whole(Kill(ss, w))
        /\ \A n \in SeatIds : Kill(ss, w)[n] =
             IF ss[n].held /\ ss[n].worker = w THEN NoSeat ELSE ss[n]
    BY KillEffect DEF Sound
  <1>4. ASSUME NEW m \in SeatIds, Kill(ss, w)[m].held
        PROVE  /\ Kill(ss, w)[m] = ss[m] /\ ss[m].held /\ ss[m].worker # w
               /\ ss[m].session \in Sessions /\ home[ss[m].session] = ss[m].worker
    <2>1. Kill(ss, w)[m] = ss[m] /\ ss[m].held /\ ss[m].worker # w
      BY <1>3, <1>4, NobodyThere
    <2>2. ss[m] \in Seat
      BY <2>1, SeatOrNone DEF Sound, Whole
    <2> QED BY <2>1, <2>2 DEF Sound, Placing, Seat
  <1>5. \A m \in SeatIds : Kill(ss, w)[m].held =>
          left[Kill(ss, w)[m].session] = Kill(ss, w)[m].worker
    BY <1>4
  <1>6. \A m, n \in SeatIds :
          Kill(ss, w)[m].held /\ Kill(ss, w)[n].held
            /\ Kill(ss, w)[m].session = Kill(ss, w)[n].session => m = n
    BY <1>4 DEF Sound, Placing
  <1>7. ASSUME ~StartsMayFail, NEW s \in Sessions, left[s] # 0
        PROVE  \E n \in SeatIds : Kill(ss, w)[n].held /\ Kill(ss, w)[n].session = s
    <2>1. home[s] # 0 /\ home[s] # w
      BY <1>7
    <2>2. PICK n \in SeatIds : ss[n].held /\ ss[n].session = s
      BY <2>1, <1>7 DEF Sound, Placing
    <2>3. ss[n].worker # w
      BY <2>1, <2>2 DEF Sound, Placing
    <2> QED BY <2>2, <2>3, <1>3
  <1>8. Placing(Kill(ss, w), left)
    BY <1>5, <1>6, <1>7 DEF Placing
  <1> QED BY <1>2, <1>3, <1>8 DEF Sound
-----------------------------------------------------------------------------
(* What seats posted *)

\* Every post comes from a seat that is still there.
Delivering(ps, ss) ==
    /\ ps \in Seq(Post)
    /\ \A k \in DOMAIN ps : ss[ps[k].seat] # NoSeat

\* What is left of the posts when seats were disowned: those of the others, each once.
LEMMA DeliverableEffect ==
    ASSUME NEW ps \in Seq(Post), NEW ss
    PROVE  /\ Delivering(Deliverable(ps, ss), ss)
           /\ \E f : /\ f \in [DOMAIN Deliverable(ps, ss) -> DOMAIN ps]
                     /\ \A k \in DOMAIN Deliverable(ps, ss) :
                          /\ Deliverable(ps, ss)[k] = ps[f[k]]
                          /\ ss[ps[f[k]].seat] # NoSeat
                     /\ \A k, l \in DOMAIN Deliverable(ps, ss) : f[k] = f[l] => k = l
                     /\ \A j \in DOMAIN ps : ss[ps[j].seat] # NoSeat =>
                          \E k \in DOMAIN Deliverable(ps, ss) : f[k] = j
  <1> DEFINE live == {k \in DOMAIN ps : ss[ps[k].seat] # NoSeat}
             d == Deliverable(ps, ss)
             f == [k \in DOMAIN d |-> Ascending(live)[k]]
  <1>1. live \in SUBSET DOMAIN ps /\ d = Kept(ps, live)
    BY DEF Deliverable
  <1>2. \A j \in live : j \in DOMAIN ps /\ ss[ps[j].seat] # NoSeat
    OBVIOUS
  <1>3. \A j \in DOMAIN ps : ss[ps[j].seat] # NoSeat => j \in live
    OBVIOUS
  <1> HIDE DEF live, d
  <1>4. /\ d \in Seq(Post)
        /\ \A k \in DOMAIN d : Ascending(live)[k] \in live /\ d[k] = ps[Ascending(live)[k]]
        /\ \A k, l \in DOMAIN d : Ascending(live)[k] = Ascending(live)[l] => k = l
        /\ \A j \in live : \E k \in DOMAIN d : Ascending(live)[k] = j
    BY <1>1, KeptProperties
  <1>5. \A k \in DOMAIN d : ss[d[k].seat] # NoSeat
    BY <1>2, <1>4
  <1>6. f \in [DOMAIN d -> DOMAIN ps]
    BY <1>2, <1>4
  <1>7. \A k \in DOMAIN d : d[k] = ps[f[k]] /\ ss[ps[f[k]].seat] # NoSeat
    BY <1>2, <1>4
  <1>8. \A k, l \in DOMAIN d : f[k] = f[l] => k = l
    BY <1>4
  <1>9. \A j \in DOMAIN ps : ss[ps[j].seat] # NoSeat => \E k \in DOMAIN d : f[k] = j
    BY <1>3, <1>4
  <1> HIDE DEF f
  <1>10. \E g : /\ g \in [DOMAIN d -> DOMAIN ps]
                /\ \A k \in DOMAIN d : d[k] = ps[g[k]] /\ ss[ps[g[k]].seat] # NoSeat
                /\ \A k, l \in DOMAIN d : g[k] = g[l] => k = l
                /\ \A j \in DOMAIN ps : ss[ps[j].seat] # NoSeat => \E k \in DOMAIN d : g[k] = j
    BY <1>6, <1>7, <1>8, <1>9
  <1> QED BY <1>4, <1>5, <1>10 DEF d, Delivering

LEMMA DeliveringStays ==
    ASSUME NEW ps, NEW ss, Delivering(ps, ss), NEW tt,
           \A n \in SeatIds : ss[n] # NoSeat => tt[n] # NoSeat
    PROVE  Delivering(ps, tt)
  <1>1. \A k \in DOMAIN ps : ps[k].seat \in SeatIds
    <2>1. ps \in Seq(Post) /\ DOMAIN ps = 1..Len(ps)
      BY LenProperties DEF Delivering
    <2>2. \A k \in DOMAIN ps : ps[k] \in Post
      BY <2>1, ElementOfSeq
    <2> QED BY <2>2 DEF Post
  <1> QED BY <1>1 DEF Delivering

LEMMA DeliveringTail ==
    ASSUME NEW ps, NEW ss, Delivering(ps, ss), ps # <<>>
    PROVE  /\ Head(ps) \in Post /\ ss[Head(ps).seat] # NoSeat
           /\ Delivering(Tail(ps), ss)
           /\ Head(ps) = ps[1] /\ 1 \in DOMAIN ps
           /\ \A k \in DOMAIN Tail(ps) : k + 1 \in DOMAIN ps /\ Tail(ps)[k] = ps[k + 1]
           /\ \A k \in DOMAIN ps \ {1} : k - 1 \in DOMAIN Tail(ps) /\ Tail(ps)[k - 1] = ps[k]
  <1>1. ps \in Seq(Post) /\ Len(ps) \in Nat /\ DOMAIN ps = 1..Len(ps)
    BY LenProperties DEF Delivering
  <1>2. /\ Head(ps) \in Post /\ Tail(ps) \in Seq(Post) /\ Head(ps) = ps[1]
        /\ Len(Tail(ps)) = Len(ps) - 1
        /\ \A k \in 1..(Len(ps) - 1) : Tail(ps)[k] = ps[k + 1]
    BY <1>1, HeadTailProperties
  <1>3. Len(ps) # 0
    BY <1>1, EmptySeq
  <1>4. 1 \in DOMAIN ps
    BY <1>1, <1>3
  <1>5. DOMAIN Tail(ps) = 1..(Len(ps) - 1)
    BY <1>2, LenProperties
  <1>6. \A k \in 1..(Len(ps) - 1) : k + 1 \in DOMAIN ps
    BY <1>1
  <1>7. \A k \in DOMAIN Tail(ps) : ss[Tail(ps)[k].seat] # NoSeat
    BY <1>2, <1>5, <1>6 DEF Delivering
  <1>8. ASSUME NEW k \in DOMAIN ps \ {1}
        PROVE  k - 1 \in DOMAIN Tail(ps) /\ Tail(ps)[k - 1] = ps[k]
    <2>1. k - 1 \in 1..(Len(ps) - 1) /\ (k - 1) + 1 = k
      BY <1>1, <1>8
    <2> QED BY <2>1, <1>2, <1>5
  <1> QED BY <1>2, <1>4, <1>5, <1>6, <1>7, <1>8 DEF Delivering
-----------------------------------------------------------------------------
(* Types *)

TypeInv == TypeOK /\ Sound(pool, seats, Home) /\ Delivering(posts, seats)

LEMMA RequestType ==
    ASSUME NEW i \in Ids
    PROVE  /\ Request[i].session \in Sessions /\ Request[i].kind \in Kinds
           /\ Request[i].wants \in Placements /\ Request[i].fate \in Fates
           /\ Frame(i) \in Waiting /\ Frame(i).kind = Request[i].kind /\ Frame(i).id = i
           /\ Rewrite(i) \in Waiting
  <1>1. Request[i] \in [session : Sessions, kind : Kinds, wants : Placements, fate : Fates]
    BY RequestAssumption
  <1> QED BY <1>1 DEF Frame, Rewrite, Waiting, Values, Kinds

LEMMA OwnFrames ==
    /\ Hangup \in Waiting /\ Hangup.kind = "close" /\ Hangup.id = 0
    /\ \A v \in Ids \union {0} : Reopen(v) \in Waiting
  BY DEF Hangup, Reopen, Waiting, Values, Kinds

\* The frames a replay starts with: all of them the supervisor's own.
LEMMA RebuildType ==
    ASSUME NEW rec \in Record
    PROVE  /\ Rebuild(rec) \in Seq(Waiting)
           /\ \A k \in DOMAIN Rebuild(rec) : Rebuild(rec)[k].id = 0
  <1> DEFINE writes == [k \in 1..Cardinality(rec.pending) |-> Rewrite(Ascending(rec.pending)[k])]
             first == <<Reopen(rec.log)>>
  <1>1. rec.pending \in SUBSET Nat /\ IsFiniteSet(rec.pending) /\ rec.pending \subseteq Ids
    BY RequestAssumption, FS_Subset DEF Record
  <1>2. /\ Ascending(rec.pending) \in Seq(rec.pending)
        /\ Cardinality(rec.pending) \in Nat
        /\ DOMAIN Ascending(rec.pending) = 1..Cardinality(rec.pending)
    BY <1>1, AscendingProperties, FS_CardinalityType DEF Ascending
  <1>3. \A k \in 1..Cardinality(rec.pending) : Ascending(rec.pending)[k] \in Ids
    BY <1>1, <1>2, ElementOfSeq, LenProperties
  <1>4. /\ writes \in [1..Cardinality(rec.pending) -> Waiting]
        /\ \A k \in 1..Cardinality(rec.pending) : writes[k].id = 0
    BY <1>3, RequestType DEF Rewrite
  <1>5. writes \in Seq(Waiting)
    BY <1>2, <1>4
  <1>6. Reopen(rec.log) \in Waiting /\ Reopen(rec.log).id = 0
    <2>1. rec.log \in Ids \union {0}
      BY DEF Record
    <2> QED BY <2>1, OwnFrames DEF Reopen
  <1>7. first \in Seq(Waiting) /\ Len(first) = 1 /\ first[1] = Reopen(rec.log)
    BY <1>6
  <1>8. Rebuild(rec) = first \o writes
    BY DEF Rebuild
  <1>9. /\ DOMAIN writes = 1..Cardinality(rec.pending) /\ Len(writes) = Cardinality(rec.pending)
    BY <1>2, <1>4, <1>5, LenProperties
  <1> HIDE DEF first, writes
  <1>10. /\ first \o writes \in Seq(Waiting)
         /\ Len(first \o writes) = 1 + Len(writes)
         /\ \A k \in 1..(1 + Len(writes)) :
              (first \o writes)[k] = IF k <= 1 THEN first[k] ELSE writes[k - 1]
    <2>1. /\ first \o writes \in Seq(Waiting)
          /\ Len(first \o writes) = Len(first) + Len(writes)
          /\ \A k \in 1..(Len(first) + Len(writes)) :
               (first \o writes)[k] =
                 IF k <= Len(first) THEN first[k] ELSE writes[k - Len(first)]
      BY <1>5, <1>7, ConcatProperties
    <2> QED BY <2>1, <1>7
  <1>11. ASSUME NEW k \in DOMAIN (first \o writes) PROVE (first \o writes)[k].id = 0
    <2>1. k \in 1..(1 + Len(writes))
      BY <1>10, LenProperties
    <2>2. CASE k = 1
      BY <2>1, <2>2, <1>6, <1>7, <1>10
    <2>3. CASE k # 1
      <3>1. k - 1 \in 1..Cardinality(rec.pending) /\ ~(k <= 1)
        BY <2>1, <2>3, <1>2, <1>9
      <3> QED BY <2>1, <3>1, <1>4, <1>10
    <2> QED BY <2>2, <2>3
  <1> QED BY <1>8, <1>10, <1>11

LEMMA HomeType == TypeOK => Home \in Homes
  BY DEF TypeOK, Home, Homes, Record

LEMMA NoSessionType == NoSession \in Record
  BY DEF NoSession, Record, Placements

LEMMA TellType ==
    ASSUME told \in [Ids -> Nat], NEW ids, NEW s, Tell(ids, s)
    PROVE  told' \in [Ids -> Nat]
  BY DEF Tell

\* A session's seat, where the supervisor would send to.
LEMMA PlacedSeat ==
    ASSUME TypeInv, NEW s \in Sessions, NEW n \in Placed(s)
    PROVE  /\ n \in SeatIds /\ seats[n].held /\ seats[n] \in Seat
           /\ seats[n].session = s /\ seats[n].worker = sessions[s].worker
           /\ sessions[s].worker \in Workers /\ Exists(s)
  <1>1. n \in SeatIds /\ seats[n].held /\ seats[n].session = s
        /\ seats[n].worker = sessions[s].worker
    BY DEF Placed, SeatsAt
  <1>2. seats[n] \in Seat
    BY <1>1, SeatOrNone DEF TypeInv, TypeOK, Table
  <1> QED BY <1>1, <1>2 DEF Seat, Exists, Workers

LEMMA HomeNext ==
    ASSUME NEW h \in Homes,
           \A s \in Sessions : h[s] = IF s \in todo' THEN 0 ELSE sessions'[s].worker
    PROVE  Home' = h
  <1>1. Home' = [s \in Sessions |-> IF s \in todo' THEN 0 ELSE sessions'[s].worker]
    BY DEF Home
  <1>2. h = [s \in Sessions |-> h[s]]
    BY DEF Homes
  <1> QED BY <1>1, <1>2

LEMMA HomeStays ==
    ASSUME TypeInv, todo' = todo, \A s \in Sessions : sessions'[s].worker = sessions[s].worker
    PROVE  Home' = Home
  BY DEF Home
-----------------------------------------------------------------------------
(* What the handlers that move sessions do *)

LEMMA OpenEffect ==
    ASSUME TypeInv, NEW i \in Ids, OpenSession(i), NEW s, s = Request[i].session
    PROVE  /\ s \in Sessions /\ sessions[s].worker = 0
           /\ sessions' \in [Sessions -> Record]
           /\ \A r \in Sessions \ {s} : sessions'[r] = sessions[r]
           /\ sessions'[s].log = 0 /\ sessions'[s].pending = {} /\ sessions'[s].targets = {}
           /\ sessions'[s].armed = FALSE /\ sessions'[s].generation = 0
           /\ Sound(pool', seats', Home')
           /\ \E n \in SeatIds, w \in Workers :
                /\ sessions'[s].worker = w
                /\ seats[n] = NoSeat
                /\ seats' = [seats EXCEPT ![n] = NewSeat(s, w, <<Frame(i)>>)]
  <1>1. s \in Sessions /\ <<Frame(i)>> \in Seq(Waiting)
    BY RequestType
  <1>2. sessions[s].worker = 0 /\ todo = {} /\ todo' = todo
    BY DEF OpenSession, Exists
  <1>3. PICK w \in Openings(pool, seats, "shared"), n \in FreeSeats(seats) :
          /\ pool' = Acquire(pool, w, "shared")
          /\ sessions' = [sessions EXCEPT ![s] = [NoSession EXCEPT !.worker = w]]
          /\ seats' = [seats EXCEPT ![n] = NewSeat(s, w, <<Frame(i)>>)]
    BY DEF OpenSession
  <1>4. Home[s] = 0 /\ Home \in Homes
    BY <1>1, <1>2, HomeType DEF Home, TypeInv
  <1>5. /\ w \in Workers /\ n \in SeatIds /\ seats[n] = NoSeat
        /\ Sound(pool', seats', [Home EXCEPT ![s] = w])
    BY <1>1, <1>3, <1>4, SoundEnter DEF TypeInv, Placements
  <1> DEFINE rec == [NoSession EXCEPT !.worker = w]
  <1>6. /\ rec \in Record /\ rec.worker = w /\ rec.log = 0 /\ rec.pending = {}
        /\ rec.targets = {} /\ rec.armed = FALSE /\ rec.generation = 0
    BY <1>5 DEF NoSession, Record, Placements
  <1>7. sessions' = [sessions EXCEPT ![s] = rec]
    BY <1>3
  <1> HIDE DEF rec
  <1>8. /\ sessions' \in [Sessions -> Record] /\ sessions'[s] = rec
        /\ \A r \in Sessions \ {s} : sessions'[r] = sessions[r]
    BY <1>1, <1>6, <1>7 DEF TypeInv, TypeOK
  <1>9. Home' = [Home EXCEPT ![s] = w]
    <2>1. [Home EXCEPT ![s] = w] \in Homes
      BY <1>4, <1>5 DEF Homes
    <2>2. \A r \in Sessions : [Home EXCEPT ![s] = w][r] =
            IF r \in todo' THEN 0 ELSE sessions'[r].worker
      BY <1>2, <1>4, <1>6, <1>8 DEF Home
    <2> QED BY <2>1, <2>2, HomeNext
  <1> QED BY <1>1, <1>2, <1>3, <1>5, <1>6, <1>8, <1>9

\* The session leaves the table with a close on its seat, its place given back.
LEMMA CloseEffect ==
    ASSUME TypeInv, todo = {}, todo' = todo, NEW s \in Sessions, NEW n \in Placed(s),
           NEW f \in Waiting, f.kind = "close",
           seats' = Retire(Send(seats, n, f), Release(pool, sessions[s].worker),
                           sessions[s].worker),
           pool' = Release(pool, sessions[s].worker),
           sessions' = [sessions EXCEPT ![s] = NoSession]
    PROVE  /\ seats' = Send(seats, n, f)
           /\ sessions' \in [Sessions -> Record] /\ sessions'[s] = NoSession
           /\ \A r \in Sessions \ {s} : sessions'[r] = sessions[r]
           /\ Sound(pool', seats', Home')
  <1>1. /\ n \in SeatIds /\ seats[n].held /\ seats[n].session = s
        /\ seats[n].worker = sessions[s].worker
    BY PlacedSeat
  <1>2. /\ Sound(Release(pool, seats[n].worker), Send(seats, n, f),
                 [Home EXCEPT ![seats[n].session] = 0])
        /\ Retire(Send(seats, n, f), Release(pool, seats[n].worker), seats[n].worker)
             = Send(seats, n, f)
    BY <1>1, SoundClose DEF TypeInv
  <1>3. /\ sessions' \in [Sessions -> Record] /\ sessions'[s] = NoSession
        /\ \A r \in Sessions \ {s} : sessions'[r] = sessions[r]
    BY NoSessionType DEF TypeInv, TypeOK
  <1>4. Home \in Homes
    BY HomeType DEF TypeInv
  <1>5. Home' = [Home EXCEPT ![s] = 0]
    <2>1. [Home EXCEPT ![s] = 0] \in Homes
      BY <1>4 DEF Homes
    <2>2. \A r \in Sessions : [Home EXCEPT ![s] = 0][r] =
            IF r \in todo' THEN 0 ELSE sessions'[r].worker
      BY <1>3, <1>4 DEF Home, NoSession
    <2> QED BY <2>1, <2>2, HomeNext
  <1> QED BY <1>1, <1>2, <1>3, <1>5

\* The old seat, with a close behind what it still has to answer.
LEMMA LeftBehind ==
    ASSUME TypeInv, todo = {}, NEW s \in Sessions, NEW old \in Placed(s)
    PROVE  LET left == Send(seats, old, Hangup)
               freed == Release(pool, sessions[s].worker)
           IN /\ Retire(left, freed, sessions[s].worker) = left
              /\ Sound(freed, left, [Home EXCEPT ![s] = 0])
              /\ [Home EXCEPT ![s] = 0] \in Homes
              /\ [Home EXCEPT ![s] = 0][s] = 0
              /\ \A r \in Sessions \ {s} : [Home EXCEPT ![s] = 0][r] = sessions[r].worker
              /\ \A m \in SeatIds : seats[m] # NoSeat => left[m] # NoSeat
  <1>1. /\ old \in SeatIds /\ seats[old].held /\ seats[old].session = s
        /\ seats[old].worker = sessions[s].worker
    BY PlacedSeat
  <1>2. /\ Sound(Release(pool, seats[old].worker), Send(seats, old, Hangup),
                 [Home EXCEPT ![seats[old].session] = 0])
        /\ Retire(Send(seats, old, Hangup), Release(pool, seats[old].worker),
                  seats[old].worker)
             = Send(seats, old, Hangup)
    BY <1>1, SoundClose, OwnFrames DEF TypeInv
  <1>3. Home \in Homes
    BY HomeType DEF TypeInv
  <1>4. /\ [Home EXCEPT ![s] = 0] \in Homes
        /\ [Home EXCEPT ![s] = 0][s] = 0
        /\ \A r \in Sessions \ {s} : [Home EXCEPT ![s] = 0][r] = sessions[r].worker
    BY <1>3 DEF Homes, Home
  <1>5. /\ Send(seats, old, Hangup)[old] \in Seat
        /\ \A m \in SeatIds \ {old} : Send(seats, old, Hangup)[m] = seats[m]
    BY <1>1, SendEffect, OwnFrames DEF TypeInv, Sound
  <1>6. \A m \in SeatIds : seats[m] # NoSeat => Send(seats, old, Hangup)[m] # NoSeat
    BY <1>5, NobodyThere
  <1> QED BY <1>1, <1>2, <1>4, <1>6

LEMMA RelocateEffect ==
    ASSUME TypeInv, NEW i \in Ids, Relocate(i), NEW s, s = Request[i].session
    PROVE  /\ s \in Sessions /\ Request[i].kind \in {"price", "sweep"}
           /\ sessions[s].worker # 0 /\ sessions[s].targets = {}
           /\ sessions' \in [Sessions -> Record]
           /\ \A r \in Sessions \ {s} : sessions'[r] = sessions[r]
           /\ sessions'[s].worker # 0
           /\ sessions'[s].log = sessions[s].log
           /\ sessions'[s].pending = sessions[s].pending \union Parked(i)
           /\ sessions'[s].targets = {}
           /\ sessions'[s].armed = sessions[s].armed
           /\ sessions'[s].generation = sessions[s].generation
           /\ Sound(pool', seats', Home')
           /\ \E old \in Placed(s), n \in SeatIds, w \in Workers :
                /\ Send(seats, old, Hangup)[n] = NoSeat /\ n # old
                /\ seats' = [Send(seats, old, Hangup) EXCEPT ![n] =
                               NewSeat(s, w, Append(Rebuild(sessions[s]), Frame(i)))]
  <1> DEFINE rec == sessions[s]
             freed == Release(pool, rec.worker)
             frames == Append(Rebuild(rec), Frame(i))
             wants == Request[i].wants
  <1>1. /\ s \in Sessions /\ todo = {} /\ todo' = todo /\ wants \in Placements
        /\ Request[i].kind \in {"price", "sweep"} /\ rec.targets = {} /\ rec.worker # 0
    BY RequestType DEF Relocate, Receive, Moves, Exists
  <1>2. rec \in Record
    BY <1>1 DEF TypeInv, TypeOK
  <1>3. frames \in Seq(Waiting)
    <2>1. Rebuild(rec) \in Seq(Waiting) /\ Frame(i) \in Waiting
      BY <1>2, RebuildType, RequestType
    <2> QED BY <2>1, AppendProperties
  <1> DEFINE retired(o) == Retire(Send(seats, o, Hangup), freed, rec.worker)
  <1>4. PICK old \in Placed(s) :
          \E w \in Openings(freed, retired(old), wants), n \in FreeSeats(retired(old)) :
            /\ pool' = Acquire(freed, w, wants)
            /\ seats' = [retired(old) EXCEPT ![n] = NewSeat(s, w, frames)]
            /\ sessions' = [sessions EXCEPT ![s].worker = w, ![s].placement = wants,
                                            ![s].pending = @ \union Parked(i)]
    BY DEF Relocate
  <1> DEFINE left == Send(seats, old, Hangup)
             out == [Home EXCEPT ![s] = 0]
  <1>5. /\ retired(old) = left
        /\ Sound(freed, left, out) /\ out \in Homes /\ out[s] = 0
        /\ \A r \in Sessions \ {s} : out[r] = sessions[r].worker
    BY <1>1, LeftBehind
  <1> HIDE DEF frames, freed, wants, left, out, retired
  <1>6. PICK w \in Openings(freed, left, wants), n \in FreeSeats(left) :
          /\ pool' = Acquire(freed, w, wants)
          /\ seats' = [left EXCEPT ![n] = NewSeat(s, w, frames)]
          /\ sessions' = [sessions EXCEPT ![s].worker = w, ![s].placement = wants,
                                          ![s].pending = @ \union Parked(i)]
    BY <1>4, <1>5
  <1>7. /\ w \in Workers /\ n \in SeatIds /\ left[n] = NoSeat
        /\ Sound(pool', seats', [out EXCEPT ![s] = w])
    <2>1. s \in Sessions /\ wants \in Placements /\ frames \in Seq(Waiting)
      BY <1>1, <1>3 DEF wants
    <2>2. /\ Sound(freed, left, out) /\ out[s] = 0
          /\ w \in Openings(freed, left, wants) /\ n \in FreeSeats(left)
      BY <1>5, <1>6
    <2>3. /\ w \in Workers /\ n \in SeatIds /\ left[n] = NoSeat
          /\ Sound(Acquire(freed, w, wants), [left EXCEPT ![n] = NewSeat(s, w, frames)],
                   [out EXCEPT ![s] = w])
      BY <2>1, <2>2, SoundEnter
    <2> QED BY <2>3, <1>6
  <1>8. n # old
    <2>1. left[old] \in Seat
      BY <1>1, PlacedSeat, SendEffect, OwnFrames DEF TypeInv, Sound, left
    <2> QED BY <2>1, <1>7, NobodyThere
  <1>9. /\ sessions' \in [Sessions -> Record]
        /\ \A r \in Sessions \ {s} : sessions'[r] = sessions[r]
        /\ sessions'[s].worker = w /\ sessions'[s].log = rec.log
        /\ sessions'[s].pending = rec.pending \union Parked(i)
        /\ sessions'[s].targets = rec.targets /\ sessions'[s].armed = rec.armed
        /\ sessions'[s].generation = rec.generation
    <2> DEFINE a == [rec EXCEPT !.worker = w]
               b == [a EXCEPT !.placement = wants]
               c == [b EXCEPT !.pending = rec.pending \union Parked(i)]
    <2>1. /\ a \in Record /\ a.worker = w /\ a.log = rec.log /\ a.pending = rec.pending
          /\ a.targets = rec.targets /\ a.armed = rec.armed /\ a.generation = rec.generation
      BY <1>2, <1>7 DEF Record
    <2>2. /\ b \in Record /\ b.worker = w /\ b.log = rec.log /\ b.pending = rec.pending
          /\ b.targets = rec.targets /\ b.armed = rec.armed /\ b.generation = rec.generation
      <3> HIDE DEF a
      <3> QED BY <2>1, <1>1 DEF Record
    <2>3. /\ c \in Record /\ c.worker = w /\ c.log = rec.log
          /\ c.pending = rec.pending \union Parked(i)
          /\ c.targets = rec.targets /\ c.armed = rec.armed /\ c.generation = rec.generation
      <3> HIDE DEF b
      <3> QED BY <2>2, <1>2 DEF Record, Parked
    <2>4. sessions' = [sessions EXCEPT ![s] = c]
      <3>1. sessions \in [Sessions -> Record]
        BY DEF TypeInv, TypeOK
      <3>2. sessions' = [[[sessions EXCEPT ![s] = a] EXCEPT ![s] = b] EXCEPT ![s] = c]
        BY <1>1, <1>6, <2>1, <2>2, <3>1
      <3> HIDE DEF a, b, c
      <3> QED BY <3>1, <3>2, <2>1, <2>2, <2>3
    <2> HIDE DEF a, b, c
    <2> QED BY <2>3, <2>4, <1>1 DEF TypeInv, TypeOK
  <1>10. Home' = [out EXCEPT ![s] = w]
    <2>1. [out EXCEPT ![s] = w] \in Homes
      BY <1>5, <1>7 DEF Homes
    <2>2. \A r \in Sessions : [out EXCEPT ![s] = w][r] =
            IF r \in todo' THEN 0 ELSE sessions'[r].worker
      BY <1>1, <1>5, <1>9 DEF Homes
    <2> QED BY <2>1, <2>2, HomeNext
  <1>11. w # 0
    BY <1>7 DEF Workers
  <1> QED BY <1>1, <1>6, <1>7, <1>8, <1>9, <1>10, <1>11 DEF frames, left

LEMMA RelocateThrowsEffect ==
    ASSUME TypeInv, NEW i \in Ids, RelocateThrows(i), NEW s, s = Request[i].session
    PROVE  /\ s \in Sessions /\ Request[i].kind \in {"price", "sweep"}
           /\ sessions[s].worker # 0 /\ sessions[s].targets = {}
           /\ sessions' \in [Sessions -> Record]
           /\ \A r \in Sessions \ {s} : sessions'[r] = sessions[r]
           /\ sessions'[s].worker # 0
           /\ sessions'[s].log = sessions[s].log
           /\ sessions'[s].pending = sessions[s].pending
           /\ sessions'[s].targets = {}
           /\ sessions'[s].armed = sessions[s].armed
           /\ sessions'[s].generation = sessions[s].generation
           /\ Sound(pool', seats', Home')
           /\ \E old \in Placed(s) : seats' = Send(seats, old, Hangup)
  <1> DEFINE rec == sessions[s]
             freed == Release(pool, rec.worker)
             wants == Request[i].wants
  <1>1. /\ s \in Sessions /\ todo = {} /\ todo' = todo /\ wants \in Placements
        /\ Request[i].kind \in {"price", "sweep"} /\ rec.targets = {} /\ rec.worker # 0
        /\ StartsMayFail
    BY RequestType DEF RelocateThrows, Receive, Moves, Exists
  <1>2. rec \in Record
    BY <1>1 DEF TypeInv, TypeOK
  <1> DEFINE retired(o) == Retire(Send(seats, o, Hangup), freed, rec.worker)
  <1>3. PICK old \in Placed(s) :
          /\ seats' = retired(old)
          /\ \E w \in Openings(freed, retired(old), wants) :
               /\ pool' = Acquire(freed, w, wants)
               /\ sessions' = [sessions EXCEPT ![s].worker = w, ![s].placement = wants]
    BY DEF RelocateThrows
  <1> DEFINE left == Send(seats, old, Hangup)
             out == [Home EXCEPT ![s] = 0]
  <1>4. /\ retired(old) = left
        /\ Sound(freed, left, out) /\ out \in Homes /\ out[s] = 0
        /\ \A r \in Sessions \ {s} : out[r] = sessions[r].worker
    BY <1>1, LeftBehind
  <1> HIDE DEF freed, wants, left, out, retired
  <1>5. PICK w \in Openings(freed, left, wants) :
          /\ pool' = Acquire(freed, w, wants)
          /\ sessions' = [sessions EXCEPT ![s].worker = w, ![s].placement = wants]
    BY <1>3, <1>4
  <1>6. seats' = left
    BY <1>3, <1>4
  <1>7. /\ w \in Workers /\ w # 0
        /\ Sound(pool', seats', [out EXCEPT ![s] = w])
    <2>1. w \in Workers /\ Sound(Acquire(freed, w, wants), left, [out EXCEPT ![s] = w])
      BY <1>1, <1>4, SoundEmpty
    <2> QED BY <2>1, <1>5, <1>6 DEF Workers
  <1>8. /\ sessions' \in [Sessions -> Record]
        /\ \A r \in Sessions \ {s} : sessions'[r] = sessions[r]
        /\ sessions'[s].worker = w /\ sessions'[s].log = rec.log
        /\ sessions'[s].pending = rec.pending
        /\ sessions'[s].targets = rec.targets /\ sessions'[s].armed = rec.armed
        /\ sessions'[s].generation = rec.generation
    <2> DEFINE a == [rec EXCEPT !.worker = w]
               b == [a EXCEPT !.placement = wants]
    <2>1. /\ a \in Record /\ a.worker = w /\ a.log = rec.log /\ a.pending = rec.pending
          /\ a.targets = rec.targets /\ a.armed = rec.armed /\ a.generation = rec.generation
      BY <1>2, <1>7 DEF Record
    <2>2. /\ b \in Record /\ b.worker = w /\ b.log = rec.log /\ b.pending = rec.pending
          /\ b.targets = rec.targets /\ b.armed = rec.armed /\ b.generation = rec.generation
      <3> HIDE DEF a
      <3> QED BY <2>1, <1>1 DEF Record
    <2>3. sessions' = [sessions EXCEPT ![s] = b]
      <3>1. sessions \in [Sessions -> Record]
        BY DEF TypeInv, TypeOK
      <3>2. sessions' = [[sessions EXCEPT ![s] = a] EXCEPT ![s] = b]
        BY <1>1, <1>5, <2>1, <3>1
      <3> HIDE DEF a, b
      <3> QED BY <3>1, <3>2, <2>1, <2>2
    <2> HIDE DEF a, b
    <2> QED BY <2>2, <2>3, <1>1 DEF TypeInv, TypeOK
  <1>9. Home' = [out EXCEPT ![s] = w]
    <2>1. [out EXCEPT ![s] = w] \in Homes
      BY <1>4, <1>7 DEF Homes
    <2>2. \A r \in Sessions : [out EXCEPT ![s] = w][r] =
            IF r \in todo' THEN 0 ELSE sessions'[r].worker
      BY <1>1, <1>4, <1>8 DEF Homes
    <2> QED BY <2>1, <2>2, HomeNext
  <1> QED BY <1>1, <1>3, <1>6, <1>7, <1>8, <1>9 DEF left

\* What a kill or a death does to one session: it is back on a fresh seat, with
\* nothing pending and no round of cancels, or gone; and what it owed is failed.
Recovered(s, ss, home) ==
    /\ sessions' \in [Sessions -> Record]
    /\ \A r \in Sessions \ {s} : sessions'[r] = sessions[r]
    /\ sessions'[s].pending = {} /\ sessions'[s].targets = {}
    /\ sessions'[s].armed = FALSE
    /\ \/ sessions'[s].generation = sessions[s].generation + 1
       \/ sessions'[s] = NoSession
    /\ home \in Homes /\ sessions'[s].worker \in Workers \union {0}
    /\ Sound(pool', seats', [home EXCEPT ![s] = sessions'[s].worker])
    /\ \A n \in SeatIds :
         \/ seats'[n] = ss[n]
         \/ /\ ss[n] = NoSeat
            /\ \E w \in Workers, v \in Ids \union {0} :
                 seats'[n] = NewSeat(s, w, <<Reopen(v)>>)
    /\ outstanding' = outstanding \ OwedOn(s)
    /\ Fail(s)
    /\ told' \in [Ids -> Nat] /\ orphaned' \subseteq sent
    /\ route' \subseteq route /\ route \ {s} \subseteq route'
    /\ \A r \in Sessions \ {s} : meta'[r] = meta[r]
    /\ meta'[s] \in {meta[s], "none"} /\ (s \in route \ route' => meta'[s] = "none")
    /\ meta' \in [Sessions -> {"none", "opening", "open"}]

LEMMA ReplayEffect ==
    ASSUME TypeInv, NEW s \in Sessions, NEW p, NEW ss, NEW home, Sound(p, ss, home),
           home[s] = 0, Replay(s, p, ss), sent' = sent
    PROVE  Recovered(s, ss, home)
  <1> DEFINE rec == sessions[s]
  <1>1. rec \in Record /\ sessions \in [Sessions -> Record] /\ s \in Sessions
    BY DEF TypeInv, TypeOK
  <1>2. /\ home \in Homes /\ Whole(ss)
    BY DEF Sound
  <1>3. /\ Fail(s) /\ told' \in [Ids -> Nat] /\ orphaned' \subseteq sent
    <2>1. Fail(s)
      BY DEF Replay, Replayed, Dropped
    <2>2. told' \in [Ids -> Nat]
      BY <2>1, TellType DEF Fail, TypeInv, TypeOK
    <2>3. orphaned' \subseteq sent
      BY <2>1 DEF Fail, OwedOn, TypeInv, TypeOK
    <2> QED BY <2>1, <2>2, <2>3
  <1>4. /\ outstanding' = outstanding \ OwedOn(s)
        /\ route' \subseteq route /\ route \ {s} \subseteq route'
        /\ \A r \in Sessions \ {s} : meta'[r] = meta[r]
        /\ meta'[s] \in {meta[s], "none"}
        /\ meta' \in [Sessions -> {"none", "opening", "open"}]
    BY DEF Replay, Replayed, Dropped, Forget, TypeInv, TypeOK
  <1>5. CASE Replayed(s, p, ss)
    <2>1. PICK w \in Openings(p, ss, rec.placement), n \in FreeSeats(ss) :
            /\ pool' = Acquire(p, w, rec.placement)
            /\ seats' = [ss EXCEPT ![n] = NewSeat(s, w, <<Reopen(rec.log)>>)]
            /\ sessions' = [sessions EXCEPT ![s] =
                   [rec EXCEPT !.worker = w, !.pending = {}, !.targets = {}, !.armed = FALSE,
                               !.generation = rec.generation + 1]]
      BY <1>5 DEF Replayed
    <2>2. rec.log \in Ids \union {0} /\ rec.placement \in Placements /\ rec.generation \in Nat
      BY <1>1 DEF Record
    <2>3. <<Reopen(rec.log)>> \in Seq(Waiting)
      <3>1. Reopen(rec.log) \in Waiting
        BY <2>2, OwnFrames
      <3> QED BY <3>1
    <2> DEFINE frames == <<Reopen(rec.log)>>
               placement == rec.placement
               new == [rec EXCEPT !.worker = w, !.pending = {}, !.targets = {}, !.armed = FALSE,
                                  !.generation = rec.generation + 1]
    <2>4. placement \in Placements /\ frames \in Seq(Waiting)
      BY <2>2, <2>3
    <2>5. /\ pool' = Acquire(p, w, placement)
          /\ seats' = [ss EXCEPT ![n] = NewSeat(s, w, frames)]
          /\ sessions' = [sessions EXCEPT ![s] = new]
          /\ w \in Openings(p, ss, placement)
      BY <2>1
    <2>6. /\ w \in Workers /\ n \in SeatIds /\ ss[n] = NoSeat
          /\ Sound(Acquire(p, w, placement), [ss EXCEPT ![n] = NewSeat(s, w, frames)],
                   [home EXCEPT ![s] = w])
      <3> HIDE DEF frames, placement, new
      <3> QED BY <2>4, <2>5, SoundEnter
    <2>7. /\ new \in Record /\ new.worker = w /\ new.pending = {} /\ new.targets = {}
          /\ new.armed = FALSE /\ new.generation = rec.generation + 1
      <3> DEFINE a == [rec EXCEPT !.worker = w]
                 b == [a EXCEPT !.pending = {}]
                 c == [b EXCEPT !.targets = {}]
                 d == [c EXCEPT !.armed = FALSE]
                 e == [d EXCEPT !.generation = rec.generation + 1]
      <3>1. a \in Record /\ a.worker = w
        BY <1>1, <2>6 DEF Record
      <3>2. b \in Record /\ b.worker = w /\ b.pending = {}
        <4> HIDE DEF a
        <4> QED BY <3>1 DEF Record
      <3>3. c \in Record /\ c.worker = w /\ c.pending = {} /\ c.targets = {}
        <4> HIDE DEF b
        <4> QED BY <3>2 DEF Record
      <3>4. d \in Record /\ d.worker = w /\ d.pending = {} /\ d.targets = {} /\ d.armed = FALSE
        <4> HIDE DEF c
        <4> QED BY <3>3 DEF Record
      <3>5. /\ e \in Record /\ e.worker = w /\ e.pending = {} /\ e.targets = {}
            /\ e.armed = FALSE /\ e.generation = rec.generation + 1
        <4>1. rec.generation + 1 \in Nat
          BY <2>2
        <4> HIDE DEF d
        <4> QED BY <3>4, <4>1 DEF Record
      <3>6. new = e
        OBVIOUS
      <3> HIDE DEF new, e
      <3> QED BY <3>5, <3>6
    <2>8. /\ sessions' \in [Sessions -> Record] /\ sessions'[s] = new
          /\ \A r \in Sessions \ {s} : sessions'[r] = sessions[r]
      <3> HIDE DEF new
      <3> QED BY <1>1, <2>5, <2>7
    <2>9. \A m \in SeatIds :
            \/ seats'[m] = ss[m]
            \/ ss[m] = NoSeat /\ seats'[m] = NewSeat(s, w, <<Reopen(rec.log)>>)
      BY <1>2, <2>1, <2>6 DEF Whole, Table
    <2>10. Sound(pool', seats', [home EXCEPT ![s] = sessions'[s].worker])
      <3> HIDE DEF frames, placement, new
      <3> QED BY <2>5, <2>6, <2>7, <2>8
    <2>11. s \in route \ route' => meta'[s] = "none"
      BY <1>5 DEF Replayed, TypeInv, TypeOK
    <2> HIDE DEF new, frames, placement
    <2> QED BY <1>2, <1>3, <1>4, <2>2, <2>6, <2>7, <2>8, <2>9, <2>10, <2>11
           DEF Recovered
  <1>6. CASE Dropped(s, p, ss)
    <2>1. /\ pool' = p /\ seats' = ss /\ sessions' = [sessions EXCEPT ![s] = NoSession]
          /\ meta' = [meta EXCEPT ![s] = "none"]
      BY <1>6 DEF Dropped, Forget
    <2>2. /\ sessions' \in [Sessions -> Record] /\ sessions'[s] = NoSession
          /\ \A r \in Sessions \ {s} : sessions'[r] = sessions[r]
      BY <1>1, <2>1, NoSessionType
    <2>3. /\ NoSession.worker = 0 /\ NoSession.pending = {} /\ NoSession.targets = {}
          /\ NoSession.armed = FALSE
      BY DEF NoSession
    <2>4. [home EXCEPT ![s] = 0] = home
      BY <1>2 DEF Homes
    <2>5. Sound(pool', seats', [home EXCEPT ![s] = sessions'[s].worker])
      BY <2>1, <2>2, <2>3, <2>4
    <2>6. meta'[s] = "none"
      BY <2>1 DEF TypeInv, TypeOK
    <2> QED BY <1>2, <1>3, <1>4, <2>1, <2>2, <2>3, <2>5, <2>6 DEF Recovered
  <1> QED BY <1>5, <1>6 DEF Replay

LEMMA RecoverEffect ==
    ASSUME TypeInv, NEW s \in Sessions, Recover(s)
    PROVE  /\ s \in todo /\ todo' = todo \ {s} /\ posts' = posts
           /\ Recovered(s, seats, Home) /\ sent' = sent
           /\ Sound(pool', seats', Home')
           /\ Delivering(posts', seats')
  <1>1. /\ s \in todo /\ todo' = todo \ {s} /\ posts' = posts /\ sent' = sent
        /\ Replay(s, pool, seats) /\ Sound(pool, seats, Home) /\ Home[s] = 0
    BY DEF Recover, Home, TypeInv
  <1>5. Recovered(s, seats, Home)
    BY <1>1, ReplayEffect
  <1>2. /\ Home \in Homes /\ sessions'[s].worker \in Workers \union {0}
        /\ \A r \in Sessions \ {s} : sessions'[r] = sessions[r]
        /\ Sound(pool', seats', [Home EXCEPT ![s] = sessions'[s].worker])
        /\ \A n \in SeatIds : seats'[n] = seats[n] \/ seats[n] = NoSeat
    BY <1>5 DEF Recovered
  <1>3. Home' = [Home EXCEPT ![s] = sessions'[s].worker]
    <2>1. [Home EXCEPT ![s] = sessions'[s].worker] \in Homes
      BY <1>2 DEF Homes
    <2>2. \A r \in Sessions : [Home EXCEPT ![s] = sessions'[s].worker][r] =
            IF r \in todo' THEN 0 ELSE sessions'[r].worker
      BY <1>1, <1>2 DEF Home
    <2> QED BY <2>1, <2>2, HomeNext
  <1>4. Delivering(posts', seats')
    BY <1>1, <1>2, DeliveringStays DEF TypeInv
  <1> QED BY <1>1, <1>2, <1>3, <1>4, <1>5

LEMMA DeathEffect ==
    ASSUME TypeInv, LandDeath
    PROVE  \E s \in Sessions, n \in SeatIds :
             /\ posts # <<>> /\ todo = {} /\ todo' = {} /\ sent' = sent
             /\ seats[n].held /\ seats[n].session = s
             /\ seats[Head(posts).seat].session = s
             /\ sessions[s].worker \in Workers
             /\ Sound(Release(pool, sessions[s].worker), Disown(seats, {n}),
                      [Home EXCEPT ![s] = 0])
             /\ Home \in Homes
             /\ Recovered(s, Disown(seats, {n}), [Home EXCEPT ![s] = 0])
             /\ posts' = Deliverable(Tail(posts), Disown(seats, {n}))
             /\ Sound(pool', seats', Home')
             /\ Delivering(posts', seats')
  <1> DEFINE from == seats[Head(posts).seat]
             s == from.session
             w == sessions[s].worker
             freed == Release(pool, w)
  <1>1. posts # <<>> /\ todo = {} /\ todo' = {} /\ sent' = sent
    BY DEF LandDeath
  <1>2. PICK n \in SeatsAt(seats, from.worker, s) :
          LET left == Retire(Disown(seats, {n}), freed, w) IN
          /\ Exists(s)
          /\ posts' = Deliverable(Tail(posts), left)
          /\ Replay(s, freed, left)
    BY DEF LandDeath
  <1>3. n \in SeatIds /\ seats[n].held /\ seats[n].session = s /\ seats[n].worker = from.worker
    BY DEF SeatsAt
  <1>4. /\ s \in Sessions /\ seats[n].worker \in Workers /\ Home[s] = seats[n].worker
        /\ Sound(Release(pool, seats[n].worker), Disown(seats, {n}), [Home EXCEPT ![s] = 0])
        /\ Retire(Disown(seats, {n}), Release(pool, seats[n].worker), seats[n].worker)
             = Disown(seats, {n})
    BY <1>3, SoundDisown DEF TypeInv
  <1>5. w = seats[n].worker
    BY <1>1, <1>4 DEF Home
  <1> DEFINE left == Disown(seats, {n})
             home == [Home EXCEPT ![s] = 0]
  <1>6. /\ posts' = Deliverable(Tail(posts), left) /\ Replay(s, freed, left)
        /\ Sound(freed, left, home)
    BY <1>2, <1>4, <1>5
  <1>7. Home \in Homes
    BY HomeType DEF TypeInv
  <1>8. /\ home \in Homes /\ home[s] = 0 /\ \A r \in Sessions \ {s} : home[r] = sessions[r].worker
    BY <1>1, <1>4, <1>7 DEF Homes, Home
  <1> HIDE DEF s, from, w, freed, left, home
  <1>9. /\ sessions'[s].worker \in Workers \union {0}
        /\ \A r \in Sessions \ {s} : sessions'[r] = sessions[r]
        /\ Sound(pool', seats', [home EXCEPT ![s] = sessions'[s].worker])
        /\ \A m \in SeatIds : seats'[m] = left[m] \/ left[m] = NoSeat
    <2>1. Recovered(s, left, home)
      BY <1>1, <1>4, <1>6, <1>8, ReplayEffect
    <2> QED BY <2>1 DEF Recovered
  <1>10. Home' = [home EXCEPT ![s] = sessions'[s].worker]
    <2>1. [home EXCEPT ![s] = sessions'[s].worker] \in Homes
      BY <1>4, <1>8, <1>9 DEF Homes
    <2>2. \A r \in Sessions : [home EXCEPT ![s] = sessions'[s].worker][r] =
            IF r \in todo' THEN 0 ELSE sessions'[r].worker
      BY <1>1, <1>4, <1>8, <1>9 DEF Homes
    <2> QED BY <2>1, <2>2, HomeNext
  <1>15. Recovered(s, left, home)
    BY <1>1, <1>4, <1>6, <1>8, ReplayEffect
  <1>11. Delivering(posts', seats')
    <2>1. Tail(posts) \in Seq(Post)
      BY <1>1, DeliveringTail DEF TypeInv, Delivering
    <2>2. Delivering(posts', left)
      BY <2>1, <1>6, DeliverableEffect
    <2> QED BY <2>2, <1>9, DeliveringStays
  <1>12. Sound(pool', seats', Home')
    BY <1>9, <1>10
  <1> HIDE DEF LandDeath
  <1>13. seats[Head(posts).seat].session = s /\ sessions[s].worker = w
    BY DEF s, from, w
  <1>14. w \in Workers
    BY <1>4, <1>5
  <1> QED
    BY <1>1, <1>3, <1>4, <1>6, <1>7, <1>11, <1>12, <1>13, <1>14, <1>15
     DEF left, home, freed, w

LEMMA GraceEffect ==
    ASSUME TypeInv, GraceExpires
    PROVE  \E w \in Workers :
             /\ timers # <<>> /\ todo = {} /\ w = sessions[Head(timers).session].worker
             /\ Head(timers).session \in Sessions
             /\ sessions' = sessions
             /\ seats' = Kill(seats, w)
             /\ todo' = {s \in Sessions : sessions[s].worker = w}
             /\ posts' = Deliverable(posts, seats')
             /\ timers' = Tail(timers)
             /\ Sound(pool', seats', Home')
             /\ Delivering(posts', seats')
  <1> DEFINE t == Head(timers)
             w == sessions[t.session].worker
             left == [s \in Sessions |-> IF Home[s] = w THEN 0 ELSE Home[s]]
  <1>1. /\ todo = {} /\ timers # <<>> /\ Exists(t.session)
        /\ seats' = Kill(seats, w) /\ pool' = [pool EXCEPT ![w] = NoWorker]
        /\ todo' = {s \in Sessions : sessions[s].worker = w}
        /\ posts' = Deliverable(posts, seats') /\ timers' = Tail(timers)
        /\ sessions' = sessions
    BY DEF GraceExpires
  <1>2. t.session \in Sessions
    <2>1. t \in Deadline
      BY <1>1, HeadTailProperties DEF TypeInv, TypeOK
    <2> QED BY <2>1 DEF Deadline
  <1>3. w \in Workers
    BY <1>1, <1>2 DEF Exists, TypeInv, TypeOK, Record
  <1>4. Home \in Homes /\ \A s \in Sessions : Home[s] = sessions[s].worker
    BY <1>1, HomeType DEF Home, TypeInv
  <1>5. /\ left \in Homes /\ \A s \in Sessions : left[s] = IF Home[s] = w THEN 0 ELSE Home[s]
    BY <1>4 DEF Homes
  <1> HIDE DEF left, w
  <1>6. Sound(pool', seats', left)
    BY <1>1, <1>3, <1>5, SoundKill DEF TypeInv
  <1>7. Home' = left
    BY <1>1, <1>4, <1>5, HomeNext
  <1>8. Delivering(posts', seats')
    BY <1>1, DeliverableEffect DEF TypeInv, TypeOK
  <1> QED BY <1>1, <1>2, <1>3, <1>6, <1>7, <1>8 DEF w
-----------------------------------------------------------------------------
(* What a seat's thread does *)

LEMMA SoundQuiet ==
    ASSUME TypeInv, pool' = pool, Home' = Home, Whole(seats'),
           \A n \in SeatIds :
             /\ seats'[n].held <=> seats[n].held
             /\ seats[n].held => /\ seats'[n].session = seats[n].session
                                 /\ seats'[n].worker = seats[n].worker
    PROVE  Sound(pool', seats', Home')
  <1>1. Placing(seats', Home)
    BY DEF TypeInv, Sound, Placing
  <1> QED BY <1>1 DEF TypeInv, Sound

\* A seat that stays where it is and goes on.
LEMMA SeatGoesOn ==
    ASSUME TypeInv, NEW n \in SeatIds, NEW new \in Seat, seats' = [seats EXCEPT ![n] = new],
           seats[n] \in Seat, new.session = seats[n].session, new.worker = seats[n].worker,
           new.held = seats[n].held, new.busy => new.queue # <<>>,
           pool' = pool, Home' = Home
    PROVE  /\ seats'[n] = new /\ \A m \in SeatIds \ {n} : seats'[m] = seats[m]
           /\ Whole(seats') /\ Sound(pool', seats', Home')
           /\ \A m \in SeatIds : seats'[m] # NoSeat <=> seats[m] # NoSeat
  <1>1. Whole(seats) /\ seats \in Table
    BY DEF TypeInv, Sound, Whole
  <1>2. seats'[n] = new /\ \A m \in SeatIds \ {n} : seats'[m] = seats[m]
    BY <1>1 DEF Table
  <1>3. Whole(seats')
    BY <1>1, <1>2 DEF Whole, Table
  <1>4. Sound(pool', seats', Home')
    BY <1>2, <1>3, SoundQuiet
  <1> QED BY <1>2, <1>3, <1>4, NobodyThere

LEMMA HomeUnchanged == UNCHANGED <<sessions, todo>> => Home' = Home
  BY DEF Home

LEMMA TakeEffect ==
    ASSUME TypeInv, NEW n \in SeatIds, Take(n)
    PROVE  /\ seats[n] \in Seat /\ seats'[n] \in Seat
           /\ seats'[n].session = seats[n].session /\ seats'[n].worker = seats[n].worker
           /\ seats'[n].held = seats[n].held /\ seats'[n].queue = seats[n].queue
           /\ ~seats[n].busy /\ seats'[n].busy
           /\ seats'[n].graph = seats[n].graph /\ seats'[n].value = seats[n].value
           /\ \A m \in SeatIds \ {n} : seats'[m] = seats[m]
           /\ Sound(pool', seats', Home')
           /\ \A m \in SeatIds : seats'[m] # NoSeat <=> seats[m] # NoSeat
  <1>1. /\ seats[n].queue # <<>> /\ ~seats[n].busy /\ pool' = pool /\ Home' = Home
        /\ seats' = [seats EXCEPT ![n].busy = TRUE, ![n].stop = FALSE]
    BY HomeUnchanged DEF Take, supervisor
  <1>2. seats \in Table /\ seats[n] \in Seat
    <2>1. NoSeat.queue = <<>>
      BY DEF NoSeat
    <2> QED BY <2>1, <1>1, SeatOrNone DEF TypeInv, Sound, Whole
  <1> DEFINE a == [seats[n] EXCEPT !.busy = TRUE]
             b == [a EXCEPT !.stop = FALSE]
  <1>3. /\ a \in Seat /\ a.session = seats[n].session /\ a.worker = seats[n].worker
        /\ a.held = seats[n].held /\ a.queue = seats[n].queue /\ a.busy
        /\ a.graph = seats[n].graph /\ a.value = seats[n].value
    BY <1>2 DEF Seat
  <1>4. /\ b \in Seat /\ b.session = seats[n].session /\ b.worker = seats[n].worker
        /\ b.held = seats[n].held /\ b.queue = seats[n].queue /\ b.busy
        /\ b.graph = seats[n].graph /\ b.value = seats[n].value
    <2> HIDE DEF a
    <2> QED BY <1>3 DEF Seat
  <1>5. seats' = [seats EXCEPT ![n] = b]
    <2>1. seats' = [[seats EXCEPT ![n] = a] EXCEPT ![n] = b]
      BY <1>1, <1>2 DEF Table
    <2> HIDE DEF a, b
    <2> QED BY <2>1, <1>2, <1>3, <1>4 DEF Table
  <1> HIDE DEF a, b
  <1> QED BY <1>1, <1>2, <1>4, <1>5, SeatGoesOn, ZenonT(40)

Codes == {"opened", "ack", "result", "swept", "error"}

\* A frame is served: off the queue, and answered if it is the client's.
Served(n, code, graph, value, died) ==
    /\ seats[n] \in Seat /\ seats[n].busy /\ seats[n].queue # <<>>
    /\ seats'[n] \in Seat
    /\ seats'[n].session = seats[n].session /\ seats'[n].worker = seats[n].worker
    /\ seats'[n].held = seats[n].held /\ seats'[n].queue = Tail(seats[n].queue)
    /\ ~seats'[n].busy /\ seats'[n].graph = graph /\ seats'[n].value = value
    /\ \A m \in SeatIds \ {n} : seats'[m] = seats[m]
    /\ Sound(pool', seats', Home')
    /\ \A m \in SeatIds : seats'[m] # NoSeat <=> seats[m] # NoSeat
    /\ Delivering(posts', seats')
    /\ DOMAIN posts \subseteq DOMAIN posts' /\ \A k \in DOMAIN posts : posts'[k] = posts[k]
    /\ \A k \in DOMAIN posts' \ DOMAIN posts :
         \/ /\ k = Len(posts) + 1 /\ Head(seats[n].queue).id # 0
            /\ posts'[k] = [seat |-> n, id |-> Head(seats[n].queue).id, code |-> code]
         \/ died /\ posts'[k] = [seat |-> n, id |-> 0, code |-> "died"]
    /\ Head(seats[n].queue).id # 0 =>
         /\ Len(posts) + 1 \in DOMAIN posts' \ DOMAIN posts
         /\ posts'[Len(posts) + 1] =
              [seat |-> n, id |-> Head(seats[n].queue).id, code |-> code]

\* One or two posts behind the others.
LEMMA PostBehind ==
    ASSUME NEW ps \in Seq(Post), NEW x \in Post, NEW y \in Post
    PROVE  /\ ps \o <<>> = ps
           /\ ps \o <<x>> \in Seq(Post) /\ (ps \o <<x>>) \o <<y>> \in Seq(Post)
           /\ DOMAIN ps = 1..Len(ps) /\ Len(ps) \in Nat
           /\ DOMAIN (ps \o <<x>>) = 1..(Len(ps) + 1)
           /\ DOMAIN ((ps \o <<x>>) \o <<y>>) = 1..(Len(ps) + 2)
           /\ \A k \in 1..Len(ps) : (ps \o <<x>>)[k] = ps[k]
           /\ (ps \o <<x>>)[Len(ps) + 1] = x
           /\ \A k \in 1..Len(ps) : ((ps \o <<x>>) \o <<y>>)[k] = ps[k]
           /\ ((ps \o <<x>>) \o <<y>>)[Len(ps) + 1] = x
           /\ ((ps \o <<x>>) \o <<y>>)[Len(ps) + 2] = y
  <1>1. DOMAIN ps = 1..Len(ps) /\ Len(ps) \in Nat /\ ps \o <<>> = ps
    BY LenProperties, ConcatEmptySeq
  <1>2. ASSUME NEW q \in Seq(Post), NEW z \in Post
        PROVE  /\ q \o <<z>> \in Seq(Post) /\ Len(q \o <<z>>) = Len(q) + 1
               /\ DOMAIN (q \o <<z>>) = 1..(Len(q) + 1) /\ Len(q) \in Nat
               /\ \A k \in 1..Len(q) : (q \o <<z>>)[k] = q[k]
               /\ (q \o <<z>>)[Len(q) + 1] = z
    <2>1. <<z>> \in Seq(Post) /\ Len(<<z>>) = 1 /\ <<z>>[1] = z
      OBVIOUS
    <2>2. /\ q \o <<z>> \in Seq(Post)
          /\ Len(q \o <<z>>) = Len(q) + Len(<<z>>)
          /\ \A k \in 1..(Len(q) + Len(<<z>>)) :
               (q \o <<z>>)[k] = IF k <= Len(q) THEN q[k] ELSE <<z>>[k - Len(q)]
      BY <2>1, ConcatProperties
    <2>3. Len(q) \in Nat
      BY LenProperties
    <2>4. DOMAIN (q \o <<z>>) = 1..(Len(q) + 1)
      BY <2>1, <2>2, LenProperties
    <2>5. Len(q) + 1 \in 1..(Len(q) + 1) /\ ~(Len(q) + 1 <= Len(q)) /\ (Len(q) + 1) - Len(q) = 1
      BY <2>3
    <2>6. (q \o <<z>>)[Len(q) + 1] = z
      BY <2>1, <2>2, <2>5
    <2>7. \A k \in 1..Len(q) : k \in 1..(Len(q) + 1) /\ k <= Len(q)
      BY <2>3
    <2> QED BY <2>1, <2>2, <2>3, <2>4, <2>6, <2>7
  <1> DEFINE one == ps \o <<x>>
  <1>3. /\ one \in Seq(Post) /\ Len(one) = Len(ps) + 1 /\ DOMAIN one = 1..(Len(ps) + 1)
        /\ \A k \in 1..Len(ps) : one[k] = ps[k]
        /\ one[Len(ps) + 1] = x
    BY <1>2
  <1> HIDE DEF one
  <1>4. /\ one \o <<y>> \in Seq(Post)
        /\ DOMAIN (one \o <<y>>) = 1..(Len(one) + 1)
        /\ \A k \in 1..Len(one) : (one \o <<y>>)[k] = one[k]
        /\ (one \o <<y>>)[Len(one) + 1] = y
    BY <1>2, <1>3
  <1>5. \A k \in 1..Len(ps) : k \in 1..Len(one)
    BY <1>1, <1>3
  <1>6. Len(ps) + 1 \in 1..Len(one) /\ Len(one) + 1 = Len(ps) + 2
    BY <1>1, <1>3
  <1> QED BY <1>1, <1>3, <1>4, <1>5, <1>6 DEF one

LEMMA FinishEffect ==
    ASSUME TypeInv, NEW n \in SeatIds, seats[n].busy, NEW code \in Codes,
           NEW graph \in {"none", "clean", "dirty"}, NEW value \in Values, NEW died \in BOOLEAN,
           Finish(n, code, graph, value, died)
    PROVE  Served(n, code, graph, value, died)
  <1> DEFINE q == seats[n].queue
             id == Head(q).id
             answer == [seat |-> n, id |-> id, code |-> code]
             death == [seat |-> n, id |-> 0, code |-> "died"]
  <1>1. /\ seats[n] \in Seat /\ q # <<>> /\ seats \in Table /\ q \in Seq(Waiting)
        /\ posts \in Seq(Post) /\ Delivering(posts, seats)
    BY SeatOrNone DEF TypeInv, TypeOK, Sound, Whole
  <1>2. Head(q) \in Waiting /\ Tail(q) \in Seq(Waiting)
    BY <1>1, HeadTailProperties
  <1>3. id \in Ids \union {0}
    BY <1>2 DEF Waiting
  <1>4. answer \in Post /\ death \in Post
    BY <1>3 DEF Post, Codes
  <1>5. /\ seats' = [seats EXCEPT ![n].queue = Tail(@), ![n].busy = FALSE, ![n].stop = FALSE,
                                  ![n].graph = graph, ![n].value = value]
        /\ posts' = posts \o (IF id = 0 THEN <<>> ELSE <<answer>>)
                          \o (IF died THEN <<death>> ELSE <<>>)
        /\ pool' = pool /\ Home' = Home
    BY HomeUnchanged DEF Finish, supervisor
  <1> DEFINE a == [seats[n] EXCEPT !.queue = Tail(q)]
             b == [a EXCEPT !.busy = FALSE]
             c == [b EXCEPT !.stop = FALSE]
             d == [c EXCEPT !.graph = graph]
             e == [d EXCEPT !.value = value]
  <1>6. /\ a \in Seat /\ a.session = seats[n].session /\ a.worker = seats[n].worker
        /\ a.held = seats[n].held /\ a.queue = Tail(q)
    BY <1>1, <1>2 DEF Seat
  <1>7. /\ b \in Seat /\ b.session = seats[n].session /\ b.worker = seats[n].worker
        /\ b.held = seats[n].held /\ b.queue = Tail(q) /\ ~b.busy
    <2> HIDE DEF a
    <2> QED BY <1>6 DEF Seat
  <1>8. /\ c \in Seat /\ c.session = seats[n].session /\ c.worker = seats[n].worker
        /\ c.held = seats[n].held /\ c.queue = Tail(q) /\ ~c.busy
    <2> HIDE DEF b
    <2> QED BY <1>7 DEF Seat
  <1>9. /\ d \in Seat /\ d.session = seats[n].session /\ d.worker = seats[n].worker
        /\ d.held = seats[n].held /\ d.queue = Tail(q) /\ ~d.busy /\ d.graph = graph
    <2> HIDE DEF c
    <2> QED BY <1>8 DEF Seat
  <1>10. /\ e \in Seat /\ e.session = seats[n].session /\ e.worker = seats[n].worker
         /\ e.held = seats[n].held /\ e.queue = Tail(q) /\ ~e.busy /\ e.graph = graph
         /\ e.value = value
    <2> HIDE DEF d
    <2> QED BY <1>9 DEF Seat
  <1>11. seats' = [seats EXCEPT ![n] = e]
    <2>1. seats' = [[[[[seats EXCEPT ![n] = a] EXCEPT ![n] = b] EXCEPT ![n] = c]
                       EXCEPT ![n] = d] EXCEPT ![n] = e]
      BY <1>1, <1>5 DEF Table
    <2> HIDE DEF a, b, c, d, e
    <2> QED BY <2>1, <1>1, <1>6, <1>7, <1>8, <1>9, <1>10 DEF Table
  <1> HIDE DEF a, b, c, d, e, q
  <1>12. /\ seats'[n] = e /\ \A m \in SeatIds \ {n} : seats'[m] = seats[m]
         /\ Sound(pool', seats', Home')
         /\ \A m \in SeatIds : seats'[m] # NoSeat <=> seats[m] # NoSeat
    BY <1>1, <1>5, <1>10, <1>11, SeatGoesOn
  <1>13. /\ posts' \in Seq(Post)
         /\ DOMAIN posts \subseteq DOMAIN posts' /\ \A k \in DOMAIN posts : posts'[k] = posts[k]
         /\ \A k \in DOMAIN posts' \ DOMAIN posts :
              \/ k = Len(posts) + 1 /\ id # 0 /\ posts'[k] = answer
              \/ died /\ posts'[k] = death
         /\ id # 0 => /\ Len(posts) + 1 \in DOMAIN posts' \ DOMAIN posts
                      /\ posts'[Len(posts) + 1] = answer
    <2> DEFINE one(x) == posts \o <<x>>
               both == (posts \o <<answer>>) \o <<death>>
               len == Len(posts)
    <2> HIDE DEF answer, death, id
    <2>1. /\ len \in Nat /\ DOMAIN posts = 1..len
          /\ posts \o <<>> = posts
          /\ \A x \in Post : /\ one(x) \in Seq(Post) /\ DOMAIN one(x) = 1..(len + 1)
                             /\ one(x) \o <<>> = one(x)
                             /\ \A k \in 1..len : one(x)[k] = posts[k]
                             /\ one(x)[len + 1] = x
          /\ both \in Seq(Post) /\ DOMAIN both = 1..(len + 2)
          /\ \A k \in 1..len : both[k] = posts[k]
          /\ both[len + 1] = answer /\ both[len + 2] = death
      BY <1>1, <1>4, PostBehind
    <2>2. CASE id = 0 /\ ~died
      <3>1. posts' = posts
        BY <1>5, <2>1, <2>2
      <3> QED BY <3>1, <2>2, <1>1
    <2>3. CASE id = 0 /\ died
      <3>1. posts' = one(death)
        BY <1>5, <2>1, <2>3
      <3> HIDE DEF one, len, both
      <3>2. \A k \in (1..(len + 1)) \ (1..len) : k = len + 1
        BY <2>1
      <3>3. \A k \in 1..len : k \in 1..(len + 1)
        BY <2>1
      <3> QED BY <3>1, <3>2, <3>3, <2>1, <2>3, <1>4
    <2>4. CASE id # 0 /\ ~died
      <3>1. posts' = one(answer)
        BY <1>5, <2>1, <2>4, <1>4
      <3>2. len = Len(posts)
        OBVIOUS
      <3> HIDE DEF one, len, both
      <3>3. \A k \in (1..(len + 1)) \ (1..len) : k = len + 1
        BY <2>1
      <3>4. (\A k \in 1..len : k \in 1..(len + 1)) /\ len + 1 \in (1..(len + 1)) \ (1..len)
        BY <2>1
      <3> QED BY <3>1, <3>2, <3>3, <3>4, <2>1, <2>4, <1>4
    <2>5. CASE id # 0 /\ died
      <3>1. posts' = both
        BY <1>5, <2>5
      <3>2. len = Len(posts)
        OBVIOUS
      <3> HIDE DEF one, len, both
      <3>3. \A k \in (1..(len + 2)) \ (1..len) : k = len + 1 \/ k = len + 2
        BY <2>1
      <3>4. (\A k \in 1..len : k \in 1..(len + 2)) /\ len + 1 \in (1..(len + 2)) \ (1..len)
        BY <2>1
      <3> QED BY <3>1, <3>2, <3>3, <3>4, <2>1, <2>5, <1>4
    <2> QED BY <2>2, <2>3, <2>4, <2>5
  <1>14. Delivering(posts', seats')
    <2>1. \A k \in DOMAIN posts : seats'[posts[k].seat] # NoSeat
      <3>1. Delivering(posts, seats')
        BY <1>1, <1>12, DeliveringStays
      <3> QED BY <3>1 DEF Delivering
    <2>2. seats'[n] # NoSeat
      BY <1>10, <1>12, NobodyThere
    <2>3. answer.seat = n /\ death.seat = n
      OBVIOUS
    <2> HIDE DEF answer, death
    <2>4. \A k \in DOMAIN posts' : seats'[posts'[k].seat] # NoSeat
      BY <2>1, <2>2, <2>3, <1>13
    <2> QED BY <2>4, <1>13 DEF Delivering
  <1> QED BY <1>1, <1>10, <1>12, <1>13, <1>14 DEF Served, q

LEMMA ServeEffect ==
    ASSUME TypeInv, NEW n \in SeatIds, Serve(n)
    PROVE  \E code \in Codes, graph \in {"none", "clean", "dirty"}, value \in Values,
              died \in BOOLEAN :
             /\ Finish(n, code, graph, value, died)
             /\ Served(n, code, graph, value, died)
  <1> DEFINE f == Head(seats[n].queue)
  <1>1. seats[n].busy
    BY DEF Serve, ServeOpen, ServeClose, ServeWithoutGraph, ServeDirtyGraph, ServeUpdate,
           ServeSweep, ServePrice, Graphed, Serving
  <1>2. /\ seats[n] \in Seat /\ seats[n].queue # <<>> /\ seats[n].queue \in Seq(Waiting)
    BY <1>1, SeatOrNone DEF TypeInv, TypeOK, Sound, Whole
  <1>3. f \in Waiting
    BY <1>2, HeadTailProperties
  <1>4. f.of \in Values /\ seats[n].value \in Values /\ 0 \in Values /\ f.id \in Ids \union {0}
    BY <1>2, <1>3 DEF Seat, Waiting, Values
  <1>5. -f.of \in Values
    <2>1. \A i \in Ids : i \in Int /\ -(-i) = i
      BY RequestAssumption
    <2> HIDE DEF f
    <2> QED BY <2>1, <1>4 DEF Values
  <1>6. \E code \in Codes, graph \in {"none", "clean", "dirty"}, value \in Values,
           died \in BOOLEAN : Finish(n, code, graph, value, died)
    <2> DEFINE Ends == \E code \in Codes, graph \in {"none", "clean", "dirty"},
                          value \in Values, died \in BOOLEAN : Finish(n, code, graph, value, died)
    <2>1. ASSUME NEW code \in Codes, NEW graph \in {"none", "clean", "dirty"},
                 NEW value \in Values, NEW died \in BOOLEAN, Finish(n, code, graph, value, died)
          PROVE  Ends
      BY <2>1
    <2> HIDE DEF Ends
    <2>2. CASE ServeOpen(n)
      BY <2>2, <2>1, <1>4 DEF ServeOpen, Codes
    <2>3. CASE ServeClose(n)
      BY <2>3, <2>1, <1>4 DEF ServeClose, Codes
    <2>4. CASE ServeWithoutGraph(n)
      BY <2>4, <2>1, <1>4 DEF ServeWithoutGraph, Codes
    <2>5. CASE ServeDirtyGraph(n)
      BY <2>5, <2>1, <1>4 DEF ServeDirtyGraph, Codes
    <2>6. CASE ServeUpdate(n)
      <3> DEFINE left == IF Request[f.of].kind = "sweep" THEN -f.of ELSE seats[n].value
      <3>1. left \in Values
        BY <1>4, <1>5
      <3>2. \/ Finish(n, "ack", "clean", f.of, FALSE)
            \/ Finish(n, "error", "clean", left, FALSE)
            \/ Finish(n, "error", "none", 0, TRUE)
            \/ Finish(n, "error", "dirty", 0, FALSE)
        BY <2>6 DEF ServeUpdate
      <3> HIDE DEF f, left
      <3> QED BY <3>1, <3>2, <2>1, <1>4 DEF Codes
    <2>7. CASE ServeSweep(n)
      <3>1. \/ Finish(n, "swept", "clean", f.of, FALSE)
            \/ Finish(n, "swept", "clean", -f.of, FALSE)
            \/ Finish(n, "error", "clean", seats[n].value, FALSE)
            \/ Finish(n, "error", "clean", -f.of, FALSE)
            \/ Finish(n, "error", "none", 0, TRUE)
        BY <2>7 DEF ServeSweep
      <3> HIDE DEF f
      <3> QED BY <3>1, <2>1, <1>4, <1>5 DEF Codes
    <2>8. CASE ServePrice(n)
      BY <2>8, <2>1, <1>4 DEF ServePrice, Codes
    <2> QED BY <2>2, <2>3, <2>4, <2>5, <2>6, <2>7, <2>8 DEF Serve
  <1> QED BY <1>1, <1>6, FinishEffect

LEMMA ReapEffect ==
    ASSUME TypeInv, NEW n \in SeatIds, Reap(n)
    PROVE  /\ seats[n].queue = <<>> /\ ~seats[n].held /\ seats'[n] = NoSeat
           /\ \A k \in DOMAIN posts : posts[k].seat # n
           /\ \A m \in SeatIds \ {n} : seats'[m] = seats[m]
           /\ Sound(pool', seats', Home')
           /\ Delivering(posts', seats')
  <1>1. /\ ~seats[n].held /\ seats' = [seats EXCEPT ![n] = NoSeat] /\ pool' = pool
        /\ Home' = Home /\ posts' = posts /\ seats[n].queue = <<>>
        /\ \A k \in DOMAIN posts : posts[k].seat # n
    BY HomeUnchanged DEF Reap, supervisor
  <1>2. Whole(seats) /\ seats \in Table
    BY DEF TypeInv, Sound, Whole
  <1>3. seats'[n] = NoSeat /\ \A m \in SeatIds \ {n} : seats'[m] = seats[m]
    BY <1>1, <1>2 DEF Table
  <1>4. Whole(seats')
    BY <1>1, <1>2, <1>3, NobodyThere DEF Whole, Table
  <1>5. Sound(pool', seats', Home')
    BY <1>1, <1>3, <1>4, NobodyThere, SoundQuiet
  <1>6. Delivering(posts', seats')
    <2>1. \A k \in DOMAIN posts : posts[k].seat \in SeatIds
      <3>1. posts \in Seq(Post) /\ DOMAIN posts = 1..Len(posts)
        BY LenProperties DEF TypeInv, TypeOK
      <3>2. \A k \in DOMAIN posts : posts[k] \in Post
        BY <3>1, ElementOfSeq
      <3> QED BY <3>2 DEF Post
    <2> QED BY <2>1, <1>1, <1>3 DEF TypeInv, Delivering
  <1> QED BY <1>1, <1>3, <1>5, <1>6
-----------------------------------------------------------------------------
(* What requests and cancels do to a seat and to a session's record *)

\* One field of a session's record, the others as they were.
LEMMA PendingChanges ==
    ASSUME TypeInv, NEW s \in Sessions, NEW ids \in SUBSET Ids,
           sessions' = [sessions EXCEPT ![s].pending = ids]
    PROVE  /\ sessions' \in [Sessions -> Record]
           /\ \A r \in Sessions \ {s} : sessions'[r] = sessions[r]
           /\ sessions'[s].worker = sessions[s].worker /\ sessions'[s].log = sessions[s].log
           /\ sessions'[s].placement = sessions[s].placement
           /\ sessions'[s].pending = ids /\ sessions'[s].targets = sessions[s].targets
           /\ sessions'[s].armed = sessions[s].armed
           /\ sessions'[s].generation = sessions[s].generation
           /\ todo' = todo => Home' = Home
  <1> DEFINE a == [sessions[s] EXCEPT !.pending = ids]
  <1>1. sessions \in [Sessions -> Record] /\ sessions[s] \in Record
    BY DEF TypeInv, TypeOK
  <1>2. /\ a \in Record /\ a.worker = sessions[s].worker /\ a.log = sessions[s].log
        /\ a.placement = sessions[s].placement
        /\ a.pending = ids /\ a.targets = sessions[s].targets /\ a.armed = sessions[s].armed
        /\ a.generation = sessions[s].generation
    BY <1>1 DEF Record
  <1>3. sessions' = [sessions EXCEPT ![s] = a]
    OBVIOUS
  <1> HIDE DEF a
  <1>4. /\ sessions' \in [Sessions -> Record] /\ sessions'[s] = a
        /\ \A r \in Sessions \ {s} : sessions'[r] = sessions[r]
    BY <1>1, <1>2, <1>3
  <1>5. \A r \in Sessions : sessions'[r].worker = sessions[r].worker
    BY <1>2, <1>4
  <1>6. todo' = todo => Home' = Home
    BY <1>5, HomeStays
  <1> QED BY <1>2, <1>4, <1>6

LEMMA DispatchEffect ==
    ASSUME TypeInv, NEW i \in Ids, Dispatch(i), NEW s, s = Request[i].session
    PROVE  /\ s \in Sessions /\ sessions[s].worker # 0
           /\ sessions' \in [Sessions -> Record]
           /\ \A r \in Sessions \ {s} : sessions'[r] = sessions[r]
           /\ sessions'[s].worker = sessions[s].worker /\ sessions'[s].log = sessions[s].log
           /\ sessions'[s].pending = sessions[s].pending \union Parked(i)
           /\ sessions'[s].targets = sessions[s].targets
           /\ sessions'[s].armed = sessions[s].armed
           /\ sessions'[s].generation = sessions[s].generation
           /\ Sound(pool', seats', Home')
           /\ \E n \in Placed(s) : seats' = Send(seats, n, Frame(i))
  <1>1. /\ s \in Sessions /\ Frame(i) \in Waiting /\ Frame(i).kind # "close" /\ todo' = todo
        /\ sessions[s].worker # 0 /\ pool' = pool
    BY RequestType DEF Dispatch, Exists
  <1>2. sessions[s].pending \union Parked(i) \in SUBSET Ids
    BY <1>1 DEF TypeInv, TypeOK, Record, Parked
  <1>3. sessions' = [sessions EXCEPT ![s].pending = sessions[s].pending \union Parked(i)]
    BY DEF Dispatch
  <1>4. PICK n \in Placed(s) : seats' = Send(seats, n, Frame(i))
    BY DEF Dispatch
  <1>5. n \in SeatIds /\ seats[n].held
    BY <1>1, PlacedSeat
  <1>6. Sound(pool, seats', Home)
    BY <1>1, <1>4, <1>5, SoundSend DEF TypeInv
  <1> DEFINE ids == sessions[s].pending \union Parked(i)
  <1>7. ids \in SUBSET Ids /\ sessions' = [sessions EXCEPT ![s].pending = ids]
    BY <1>2, <1>3
  <1> HIDE DEF ids
  <1>8. /\ sessions' \in [Sessions -> Record]
        /\ \A r \in Sessions \ {s} : sessions'[r] = sessions[r]
        /\ sessions'[s].worker = sessions[s].worker /\ sessions'[s].log = sessions[s].log
        /\ sessions'[s].pending = ids /\ sessions'[s].targets = sessions[s].targets
        /\ sessions'[s].armed = sessions[s].armed
        /\ sessions'[s].generation = sessions[s].generation
        /\ Home' = Home
    BY <1>1, <1>7, PendingChanges
  <1> QED BY <1>1, <1>4, <1>6, <1>8 DEF ids

\* A queued request taken back: a request that runs is not one of them.
LEMMA WithdrawEffect ==
    ASSUME TypeInv, NEW i \in Ids, CancelQueued(i), NEW s, s = Request[i].session
    PROVE  /\ s \in Sessions /\ sessions[s].worker # 0
           /\ sessions' \in [Sessions -> Record]
           /\ \A r \in Sessions \ {s} : sessions'[r] = sessions[r]
           /\ sessions'[s].worker = sessions[s].worker /\ sessions'[s].log = sessions[s].log
           /\ sessions'[s].pending = sessions[s].pending \ {i}
           /\ sessions'[s].targets = sessions[s].targets
           /\ sessions'[s].armed = sessions[s].armed
           /\ sessions'[s].generation = sessions[s].generation
           /\ Sound(pool', seats', Home')
           /\ \A m \in SeatIds : seats'[m] # NoSeat <=> seats[m] # NoSeat
           /\ \E n \in Placed(s) : \E k \in DOMAIN seats[n].queue :
                /\ seats[n].queue[k] = Frame(i)
                /\ seats[n].busy => k # 1
                /\ seats'[n].queue = RemoveAt(seats[n].queue, k)
                /\ seats'[n].session = seats[n].session /\ seats'[n].worker = seats[n].worker
                /\ seats'[n].held /\ seats'[n].busy = seats[n].busy
                /\ \A m \in SeatIds \ {n} : seats'[m] = seats[m]
  <1>1. /\ s \in Sessions /\ todo' = todo /\ sessions[s].worker # 0 /\ pool' = pool
    BY RequestType DEF CancelQueued, Cancellable, Exists
  <1> DEFINE ids == sessions[s].pending \ {i}
  <1>2. ids \in SUBSET Ids /\ sessions' = [sessions EXCEPT ![s].pending = ids]
    BY <1>1 DEF CancelQueued, TypeInv, TypeOK, Record
  <1> HIDE DEF ids
  <1>3. /\ sessions' \in [Sessions -> Record]
        /\ \A r \in Sessions \ {s} : sessions'[r] = sessions[r]
        /\ sessions'[s].worker = sessions[s].worker /\ sessions'[s].log = sessions[s].log
        /\ sessions'[s].pending = ids /\ sessions'[s].targets = sessions[s].targets
        /\ sessions'[s].armed = sessions[s].armed
        /\ sessions'[s].generation = sessions[s].generation
        /\ Home' = Home
    BY <1>1, <1>2, PendingChanges
  <1>13. PICK n \in Placed(s) : \E k \in DOMAIN seats[n].queue :
          /\ ~Runs(n, i) /\ seats[n].queue[k] = Frame(i)
          /\ seats' = [seats EXCEPT ![n].queue = RemoveAt(@, k)]
    BY DEF CancelQueued
  <1>4. PICK k \in DOMAIN seats[n].queue :
          /\ ~Runs(n, i) /\ seats[n].queue[k] = Frame(i)
          /\ seats' = [seats EXCEPT ![n].queue = RemoveAt(@, k)]
    BY <1>13
  <1> DEFINE q == seats[n].queue
             a == [seats[n] EXCEPT !.queue = RemoveAt(q, k)]
  <1>5. /\ n \in SeatIds /\ seats[n].held /\ seats[n] \in Seat /\ q \in Seq(Waiting)
        /\ seats \in Table
    BY <1>1, PlacedSeat DEF TypeInv, TypeOK, Seat, Table
  <1>6. k \in 1..Len(q) /\ Len(q) \in Nat
    BY <1>4, <1>5, LenProperties
  <1>7. RemoveAt(q, k) \in Seq(Waiting) /\ Len(RemoveAt(q, k)) = Len(q) - 1
    BY <1>5, <1>6, RemoveAtProperties
  <1>8. seats[n].busy => k # 1
    <2> SUFFICES ASSUME seats[n].busy, k = 1 PROVE FALSE
      OBVIOUS
    <2>1. Head(q) = q[1]
      BY <1>5, <1>6, HeadTailProperties, EmptySeq
    <2>2. Head(q).id = i
      BY <2>1, <1>4 DEF Frame
    <2> QED BY <2>2, <1>4 DEF Runs
  <1>9. seats[n].busy => RemoveAt(q, k) # <<>>
    <2> SUFFICES ASSUME seats[n].busy, RemoveAt(q, k) = <<>> PROVE FALSE
      OBVIOUS
    <2>1. Len(q) - 1 = 0
      BY <1>7
    <2> QED BY <2>1, <1>6, <1>8
  <1>10. /\ a \in Seat /\ a.session = seats[n].session /\ a.worker = seats[n].worker
         /\ a.held = seats[n].held /\ a.busy = seats[n].busy /\ a.queue = RemoveAt(q, k)
    BY <1>5, <1>7 DEF Seat
  <1>11. seats' = [seats EXCEPT ![n] = a]
    BY <1>4
  <1> HIDE DEF a
  <1>12. /\ seats'[n] = a /\ \A m \in SeatIds \ {n} : seats'[m] = seats[m]
         /\ Sound(pool', seats', Home')
         /\ \A m \in SeatIds : seats'[m] # NoSeat <=> seats[m] # NoSeat
    BY <1>1, <1>3, <1>5, <1>9, <1>10, <1>11, SeatGoesOn
  <1> QED BY <1>1, <1>3, <1>4, <1>5, <1>8, <1>10, <1>12 DEF ids

\* A running request is stopped, and its session's round is armed.
LEMMA StopEffect ==
    ASSUME TypeInv, NEW i \in Ids, CancelRunning(i), NEW s, s = Request[i].session
    PROVE  /\ s \in Sessions /\ sessions[s].worker # 0
           /\ sessions' \in [Sessions -> Record]
           /\ \A r \in Sessions \ {s} : sessions'[r] = sessions[r]
           /\ sessions'[s].worker = sessions[s].worker /\ sessions'[s].log = sessions[s].log
           /\ sessions'[s].pending = sessions[s].pending
           /\ sessions'[s].targets = sessions[s].targets \union {i}
           /\ sessions'[s].armed
           /\ sessions'[s].generation = sessions[s].generation
           /\ Sound(pool', seats', Home')
           /\ \A m \in SeatIds : seats'[m] # NoSeat <=> seats[m] # NoSeat
           /\ \E n \in Placed(s) :
                /\ Runs(n, i)
                /\ seats'[n].queue = seats[n].queue
                /\ seats'[n].session = seats[n].session /\ seats'[n].worker = seats[n].worker
                /\ seats'[n].held /\ seats'[n].busy = seats[n].busy
                /\ \A m \in SeatIds \ {n} : seats'[m] = seats[m]
  <1>1. /\ s \in Sessions /\ todo' = todo /\ sessions[s].worker # 0 /\ pool' = pool
    BY RequestType DEF CancelRunning, Cancellable, Exists
  <1>2. sessions[s] \in Record /\ sessions \in [Sessions -> Record]
    BY <1>1 DEF TypeInv, TypeOK
  <1> DEFINE a == [sessions[s] EXCEPT !.targets = sessions[s].targets \union {i}]
             b == [a EXCEPT !.armed = TRUE]
  <1>3. /\ a \in Record /\ a.worker = sessions[s].worker /\ a.log = sessions[s].log
        /\ a.pending = sessions[s].pending /\ a.targets = sessions[s].targets \union {i}
        /\ a.generation = sessions[s].generation
    BY <1>2 DEF Record
  <1>4. /\ b \in Record /\ b.worker = sessions[s].worker /\ b.log = sessions[s].log
        /\ b.pending = sessions[s].pending /\ b.targets = sessions[s].targets \union {i}
        /\ b.generation = sessions[s].generation /\ b.armed
    <2> HIDE DEF a
    <2> QED BY <1>3 DEF Record
  <1>5. sessions' = [sessions EXCEPT ![s] = b]
    <2>1. sessions' = [[sessions EXCEPT ![s] = a] EXCEPT ![s] = b]
      BY <1>1, <1>2 DEF CancelRunning
    <2> HIDE DEF a, b
    <2> QED BY <2>1, <1>1, <1>2, <1>3, <1>4
  <1> HIDE DEF a, b
  <1>6. /\ sessions' \in [Sessions -> Record] /\ sessions'[s] = b
        /\ \A r \in Sessions \ {s} : sessions'[r] = sessions[r]
    BY <1>1, <1>2, <1>4, <1>5
  <1>7. Home' = Home
    <2>1. \A r \in Sessions : sessions'[r].worker = sessions[r].worker
      BY <1>4, <1>6
    <2> QED BY <2>1, <1>1, HomeStays
  <1>8. PICK n \in Placed(s) : Runs(n, i) /\ seats' = [seats EXCEPT ![n].stop = TRUE]
    BY DEF CancelRunning
  <1>9. n \in SeatIds /\ seats[n].held /\ seats[n] \in Seat
    BY <1>1, PlacedSeat
  <1> DEFINE c == [seats[n] EXCEPT !.stop = TRUE]
  <1>10. /\ c \in Seat /\ c.session = seats[n].session /\ c.worker = seats[n].worker
         /\ c.held = seats[n].held /\ c.busy = seats[n].busy /\ c.queue = seats[n].queue
    BY <1>9 DEF Seat
  <1>11. seats' = [seats EXCEPT ![n] = c]
    BY <1>8
  <1>12. c.busy => c.queue # <<>>
    BY <1>9, <1>10 DEF TypeInv, Sound, Whole
  <1> HIDE DEF c
  <1>13. /\ seats'[n] = c /\ \A m \in SeatIds \ {n} : seats'[m] = seats[m]
         /\ Sound(pool', seats', Home')
         /\ \A m \in SeatIds : seats'[m] # NoSeat <=> seats[m] # NoSeat
    BY <1>1, <1>7, <1>9, <1>10, <1>11, <1>12, SeatGoesOn
  <1> QED BY <1>1, <1>4, <1>6, <1>8, <1>9, <1>10, <1>13

LEMMA TerminatedEffect ==
    ASSUME NEW rec \in Record, NEW p \in Post
    PROVE  LET new == Terminated(rec, p) IN
           /\ new \in Record /\ new.worker = rec.worker /\ new.placement = rec.placement
           /\ new.pending = rec.pending \ {p.id} /\ new.targets = rec.targets \ {p.id}
           /\ rec.targets = {p.id} =>
                new.armed = FALSE /\ new.generation = rec.generation + 1
           /\ rec.targets # {p.id} =>
                new.armed = rec.armed /\ new.generation = rec.generation
  <1> DEFINE over == p.id \in rec.targets /\ rec.targets = {p.id}
             log == IF p.id \in rec.pending /\ p.code \in {"ack", "swept"} THEN p.id ELSE rec.log
             armed == IF over THEN FALSE ELSE rec.armed
             generation == IF over THEN rec.generation + 1 ELSE rec.generation
             a == [rec EXCEPT !.log = log]
             b == [a EXCEPT !.pending = rec.pending \ {p.id}]
             c == [b EXCEPT !.targets = rec.targets \ {p.id}]
             d == [c EXCEPT !.armed = armed]
             e == [d EXCEPT !.generation = generation]
  <1>1. /\ log \in Ids \union {0} /\ armed \in BOOLEAN /\ generation \in Nat
        /\ rec.targets = {p.id} => armed = FALSE /\ generation = rec.generation + 1
        /\ rec.targets # {p.id} => armed = rec.armed /\ generation = rec.generation
    <2>1. /\ rec.log \in Ids \union {0} /\ rec.armed \in BOOLEAN /\ rec.generation \in Nat
          /\ rec.pending \subseteq Ids
      BY DEF Record
    <2>2. log \in Ids \union {0}
      BY <2>1
    <2>3. CASE rec.targets = {p.id}
      <3>1. over
        BY <2>3
      <3> QED BY <2>1, <2>2, <2>3, <3>1
    <2>4. CASE rec.targets # {p.id}
      <3>1. ~over
        BY <2>4
      <3> QED BY <2>1, <2>2, <2>4, <3>1
    <2> QED BY <2>3, <2>4
  <1>2. Terminated(rec, p) = e
    BY DEF Terminated
  <1> HIDE DEF log, armed, generation
  <1>3. /\ a \in Record /\ a.worker = rec.worker /\ a.placement = rec.placement
    BY <1>1 DEF Record
  <1>4. /\ b \in Record /\ b.worker = rec.worker /\ b.placement = rec.placement
        /\ b.pending = rec.pending \ {p.id}
    <2>1. rec.pending \ {p.id} \in SUBSET Ids
      BY DEF Record
    <2> HIDE DEF a
    <2> QED BY <1>3, <2>1 DEF Record
  <1>5. /\ c \in Record /\ c.worker = rec.worker /\ c.placement = rec.placement
        /\ c.pending = rec.pending \ {p.id} /\ c.targets = rec.targets \ {p.id}
    <2>1. rec.targets \ {p.id} \in SUBSET Ids
      BY DEF Record
    <2> HIDE DEF b
    <2> QED BY <1>4, <2>1 DEF Record
  <1>6. /\ d \in Record /\ d.worker = rec.worker /\ d.placement = rec.placement
        /\ d.pending = rec.pending \ {p.id} /\ d.targets = rec.targets \ {p.id}
        /\ d.armed = armed
    <2> HIDE DEF c
    <2> QED BY <1>5, <1>1 DEF Record
  <1>7. /\ e \in Record /\ e.worker = rec.worker /\ e.placement = rec.placement
        /\ e.pending = rec.pending \ {p.id} /\ e.targets = rec.targets \ {p.id}
        /\ e.armed = armed /\ e.generation = generation
    <2> HIDE DEF d
    <2> QED BY <1>6, <1>1 DEF Record
  <1> HIDE DEF a, b, c, d, e
  <1> QED BY <1>1, <1>2, <1>7

LEMMA AnswerEffect ==
    ASSUME TypeInv, LandAnswer, NEW p, p = Head(posts), NEW s, s = seats[p.seat].session
    PROVE  /\ s \in Sessions /\ p \in Post /\ p.code # "died" /\ posts # <<>>
           /\ seats[p.seat] \in Seat
           /\ sessions' \in [Sessions -> Record]
           /\ \A r \in Sessions \ {s} : sessions'[r] = sessions[r]
           /\ ~Exists(s) => sessions'[s] = sessions[s]
           /\ Exists(s) => sessions'[s] = Terminated(sessions[s], p)
           /\ sessions'[s].worker = sessions[s].worker
           /\ Sound(pool', seats', Home') /\ Home' = Home
           /\ Delivering(posts', seats')
  <1>1. posts # <<>> /\ p.code # "died" /\ todo' = todo /\ seats' = seats /\ pool' = pool
        /\ posts' = Tail(posts)
    BY DEF LandAnswer
  <1>2. p \in Post /\ seats[p.seat] # NoSeat /\ Delivering(Tail(posts), seats)
    BY <1>1, DeliveringTail DEF TypeInv
  <1>3. p.seat \in SeatIds
    BY <1>2 DEF Post
  <1>4. seats[p.seat] \in Seat /\ s \in Sessions
    <2>1. seats[p.seat] \in Seat
      BY <1>2, <1>3, SeatOrNone DEF TypeInv, Sound, Whole
    <2> QED BY <2>1 DEF Seat
  <1>5. sessions[s] \in Record /\ sessions \in [Sessions -> Record]
    BY <1>4 DEF TypeInv, TypeOK
  <1> DEFINE new == Terminated(sessions[s], p)
  <1>6. new \in Record /\ new.worker = sessions[s].worker
    BY <1>2, <1>5, TerminatedEffect
  <1>7. sessions' = IF Exists(s) THEN [sessions EXCEPT ![s] = new] ELSE sessions
    BY DEF LandAnswer
  <1> HIDE DEF new
  <1>8. /\ sessions' \in [Sessions -> Record]
        /\ \A r \in Sessions \ {s} : sessions'[r] = sessions[r]
        /\ ~Exists(s) => sessions'[s] = sessions[s]
        /\ Exists(s) => sessions'[s] = new
        /\ sessions'[s].worker = sessions[s].worker
    <2>1. CASE Exists(s)
      <3>1. sessions' = [sessions EXCEPT ![s] = new]
        BY <1>7, <2>1
      <3> QED BY <3>1, <2>1, <1>4, <1>5, <1>6
    <2>2. CASE ~Exists(s)
      <3>1. sessions' = sessions
        BY <1>7, <2>2
      <3> QED BY <3>1, <2>2, <1>5
    <2> QED BY <2>1, <2>2
  <1>9. Home' = Home
    <2>1. \A r \in Sessions : sessions'[r].worker = sessions[r].worker
      BY <1>4, <1>8
    <2> QED BY <2>1, <1>1, HomeStays
  <1> QED BY <1>1, <1>2, <1>4, <1>8, <1>9 DEF TypeInv, new
-----------------------------------------------------------------------------
LEMMA TypeInit == Init => TypeInv
  <1> SUFFICES ASSUME Init PROVE TypeInv
    OBVIOUS
  <1>1. sessions \in [Sessions -> Record]
    BY NoSessionType DEF Init
  <1>2. NoWorker \in Process /\ NoWorker.sessions = 0
    BY DEF NoWorker, Process, Placements
  <1>3. pool \in Pools /\ seats \in Table
    BY <1>2 DEF Init, Pools, Table
  <1>4. timers \in Seq(Deadline) /\ posts \in Seq(Post)
    BY DEF Init
  <1>5. TypeOK
    BY <1>1, <1>3, <1>4 DEF Init, TypeOK, Pools, Table
  <1>6. Home \in Homes /\ \A s \in Sessions : Home[s] = 0
    BY <1>5, HomeType DEF Home, Init, NoSession
  <1>7. Tallied(pool, Home)
    <2>1. ASSUME NEW w \in Workers
          PROVE  /\ pool[w].sessions = Cardinality({s \in Sessions : Home[s] = w})
                 /\ pool[w].sessions <=
                      IF pool[w].placement = "sacrificial" THEN 1 ELSE PerWorker
      <3>1. {s \in Sessions : Home[s] = w} = {}
        BY <1>6 DEF Workers
      <3>2. pool[w].sessions = 0
        BY <1>2 DEF Init
      <3> QED BY <3>1, <3>2, FS_EmptySet, BoundsAssumption
    <2> QED BY <2>1 DEF Tallied
  <1>8. \A n \in SeatIds : seats[n] = NoSeat
    BY DEF Init
  <1>9. Whole(seats) /\ Placing(seats, Home)
    BY <1>3, <1>6, <1>8, NobodyThere DEF Whole, Placing
  <1>10. Delivering(posts, seats)
    BY <1>4 DEF Init, Delivering
  <1> QED BY <1>3, <1>5, <1>6, <1>7, <1>9, <1>10 DEF TypeInv, Sound

\* What is left to check of a step once pool, table, sessions and posts are known.
LEMMA TypeHolds ==
    ASSUME sessions' \in [Sessions -> Record], Sound(pool', seats', Home'),
           Delivering(posts', seats'),
           todo' \subseteq Sessions, timers' \in Seq(Deadline),
           meta' \in [Sessions -> {"none", "opening", "open"}], route' \subseteq Sessions,
           outstanding' \subseteq sent', sent' \subseteq Ids, told' \in [Ids -> Nat],
           orphaned' \subseteq sent', crossed' \subseteq Sessions
    PROVE  TypeInv'
  <1>1. pool' \in [Workers -> Process] /\ seats' \in [SeatIds -> Seat \union {NoSeat}]
    BY DEF Sound, Pools, Whole, Table
  <1>2. posts' \in Seq(Post)
    BY DEF Delivering
  <1>3. TypeOK'
    BY <1>1, <1>2 DEF TypeOK
  <1>4. (Sound(pool, seats, Home) /\ Delivering(posts, seats))'
    OBVIOUS
  <1> QED BY <1>3, <1>4 DEF TypeInv

LEMMA LedgerType ==
    ASSUME TypeInv
    PROVE  /\ todo \subseteq Sessions /\ timers \in Seq(Deadline)
           /\ meta \in [Sessions -> {"none", "opening", "open"}] /\ route \subseteq Sessions
           /\ outstanding \subseteq sent /\ sent \subseteq Ids /\ told \in [Ids -> Nat]
           /\ orphaned \subseteq sent /\ crossed \subseteq Sessions
           /\ sessions \in [Sessions -> Record]
           /\ Sound(pool, seats, Home) /\ Delivering(posts, seats)
  BY DEF TypeInv, TypeOK

LEMMA DeliverType ==
    ASSUME TypeInv, NEW i, NEW s, Deliver(i, s)
    PROVE  /\ told' \in [Ids -> Nat] /\ outstanding' = outstanding \ {i}
           /\ route' \subseteq route
  <1>1. told \in [Ids -> Nat] /\ Tell({i}, s)
    BY DEF Deliver, TypeInv, TypeOK
  <1>2. told' \in [Ids -> Nat]
    BY <1>1, TellType
  <1> QED BY <1>2 DEF Deliver

LEMMA ReceiveType ==
    ASSUME TypeInv, NEW i \in Ids, Receive(i)
    PROVE  /\ sent' = sent \union {i} /\ todo = {} /\ i \notin sent /\ i \notin outstanding
           /\ Request[i].kind # "open" /\ Request[i].session \in route
           /\ meta[Request[i].session] # "opening"
  BY DEF Receive, TypeInv, TypeOK

\* Handlers that answer within themselves leave the supervisor and the host alone.
LEMMA QuietEffect ==
    ASSUME TypeInv, UNCHANGED <<supervisor, host>>
    PROVE  /\ Home' = Home /\ Sound(pool', seats', Home') /\ Delivering(posts', seats')
           /\ sessions' \in [Sessions -> Record] /\ todo' \subseteq Sessions
           /\ timers' \in Seq(Deadline)
  BY HomeUnchanged, LedgerType DEF supervisor, host

LEMMA ThrowEffect ==
    ASSUME TypeInv, NEW i \in Ids, DispatchThrows(i), NEW s, s = Request[i].session
    PROVE  /\ s \in Sessions /\ sessions[s].worker # 0 /\ Placed(s) = {}
           /\ sessions' \in [Sessions -> Record]
           /\ \A r \in Sessions \ {s} : sessions'[r] = sessions[r]
           /\ sessions'[s].worker = sessions[s].worker /\ sessions'[s].log = sessions[s].log
           /\ sessions'[s].pending \subseteq sessions[s].pending \union Parked(i)
           /\ sessions'[s].targets = sessions[s].targets
           /\ sessions'[s].armed = sessions[s].armed
           /\ sessions'[s].generation = sessions[s].generation
           /\ Home' = Home /\ Sound(pool', seats', Home') /\ Delivering(posts', seats')
  <1>1. s \in Sessions /\ sessions[s] \in Record /\ sessions \in [Sessions -> Record]
    BY RequestType, LedgerType
  <1>2. /\ Exists(s) /\ Placed(s) = {} /\ pool' = pool /\ todo' = todo
        /\ seats' = seats /\ posts' = posts
        /\ sessions' = IF Moves(i) THEN sessions
                   ELSE [sessions EXCEPT ![s].pending = sessions[s].pending \union Parked(i)]
    BY DEF DispatchThrows, host
  <1>3. CASE Moves(i)
    <2>1. sessions' = sessions
      BY <1>2, <1>3
    <2> QED BY <2>1, <1>1, <1>2, HomeUnchanged, LedgerType DEF Exists
  <1>4. CASE ~Moves(i)
    <2> DEFINE ids == sessions[s].pending \union Parked(i)
    <2>1. ids \in SUBSET Ids
      BY <1>1 DEF Record, Parked
    <2>2. sessions' = [sessions EXCEPT ![s].pending = ids]
      BY <1>2, <1>4
    <2> HIDE DEF ids
    <2>3. /\ sessions' \in [Sessions -> Record]
          /\ \A r \in Sessions \ {s} : sessions'[r] = sessions[r]
          /\ sessions'[s].worker = sessions[s].worker /\ sessions'[s].log = sessions[s].log
          /\ sessions'[s].pending = ids /\ sessions'[s].targets = sessions[s].targets
          /\ sessions'[s].armed = sessions[s].armed
          /\ sessions'[s].generation = sessions[s].generation
          /\ Home' = Home
      BY <1>1, <1>2, <2>1, <2>2, PendingChanges
    <2> QED BY <2>3, <1>1, <1>2, LedgerType DEF Exists, ids
  <1> QED BY <1>3, <1>4

LEMMA SendStays ==
    ASSUME TypeInv, NEW s \in Sessions, NEW n \in Placed(s), NEW f \in Waiting
    PROVE  /\ \A m \in SeatIds : seats[m] # NoSeat => Send(seats, n, f)[m] # NoSeat
           /\ Delivering(posts, Send(seats, n, f)) /\ Send(seats, n, f) \in Table
  <1>1. n \in SeatIds /\ seats[n].held /\ Whole(seats)
    BY PlacedSeat DEF TypeInv, Sound
  <1>2. /\ Send(seats, n, f)[n] \in Seat
        /\ \A m \in SeatIds \ {n} : Send(seats, n, f)[m] = seats[m]
        /\ Send(seats, n, f) \in Table
    BY <1>1, SendEffect DEF Whole
  <1>3. \A m \in SeatIds : seats[m] # NoSeat => Send(seats, n, f)[m] # NoSeat
    BY <1>2, NobodyThere
  <1> QED BY <1>2, <1>3, DeliveringStays, LedgerType

LEMMA ClosingType ==
    ASSUME TypeInv, NEW i \in Ids, DispatchClose(i), NEW s, s = Request[i].session
    PROVE  /\ s \in Sessions /\ sessions[s].worker # 0
           /\ \E n \in Placed(s) : seats' = Send(seats, n, Frame(i))
           /\ sessions' \in [Sessions -> Record] /\ sessions'[s] = NoSession
           /\ \A r \in Sessions \ {s} : sessions'[r] = sessions[r]
           /\ Sound(pool', seats', Home') /\ Delivering(posts', seats')
  <1>1. /\ s \in Sessions /\ Frame(i) \in Waiting /\ Frame(i).kind = "close"
        /\ todo = {} /\ todo' = todo /\ Exists(s) /\ posts' = posts
        /\ pool' = Release(pool, sessions[s].worker)
        /\ sessions' = [sessions EXCEPT ![s] = NoSession]
    BY RequestType, ReceiveType DEF DispatchClose
  <1>2. PICK n \in Placed(s) :
          seats' = Retire(Send(seats, n, Frame(i)), Release(pool, sessions[s].worker),
                          sessions[s].worker)
    BY DEF DispatchClose
  <1>3. /\ seats' = Send(seats, n, Frame(i))
        /\ sessions' \in [Sessions -> Record] /\ sessions'[s] = NoSession
        /\ \A r \in Sessions \ {s} : sessions'[r] = sessions[r]
        /\ Sound(pool', seats', Home')
    BY <1>1, <1>2, CloseEffect
  <1>4. Delivering(posts', seats')
    BY <1>1, <1>3, SendStays
  <1> QED BY <1>1, <1>3, <1>4 DEF Exists

\* A refused open is closed on every side as it is answered.
LEMMA RefusalEffect ==
    ASSUME TypeInv, LandRefusedOpen, NEW p, p = Head(posts), NEW s, s = seats[p.seat].session
    PROVE  /\ s \in Sessions /\ p \in Post /\ p.code = "error" /\ posts # <<>> /\ todo = {}
           /\ seats[p.seat] \in Seat
           /\ \E n \in Placed(s) : seats' = Send(seats, n, Hangup)
           /\ sessions' \in [Sessions -> Record] /\ sessions'[s] = NoSession
           /\ \A r \in Sessions \ {s} : sessions'[r] = sessions[r]
           /\ Sound(pool', seats', Home') /\ Delivering(posts', seats')
  <1>1. /\ posts # <<>> /\ todo = {} /\ todo' = todo /\ posts' = Tail(posts)
        /\ p.code = "error"
        /\ pool' = Release(pool, sessions[s].worker)
        /\ sessions' = [sessions EXCEPT ![s] = NoSession]
    BY DEF LandRefusedOpen, OpenRefused
  <1>2. p \in Post /\ seats[p.seat] # NoSeat /\ Delivering(Tail(posts), seats)
    BY <1>1, DeliveringTail DEF TypeInv
  <1>3. seats[p.seat] \in Seat /\ s \in Sessions
    <2>1. p.seat \in SeatIds
      BY <1>2 DEF Post
    <2>2. seats[p.seat] \in Seat
      BY <1>2, <2>1, SeatOrNone DEF TypeInv, Sound, Whole
    <2> QED BY <2>2 DEF Seat
  <1>4. PICK n \in Placed(s) :
          seats' = Retire(Send(seats, n, Hangup), Release(pool, sessions[s].worker),
                          sessions[s].worker)
    BY DEF LandRefusedOpen
  <1>5. /\ seats' = Send(seats, n, Hangup)
        /\ sessions' \in [Sessions -> Record] /\ sessions'[s] = NoSession
        /\ \A r \in Sessions \ {s} : sessions'[r] = sessions[r]
        /\ Sound(pool', seats', Home')
    <2>1. Hangup \in Waiting /\ Hangup.kind = "close"
      BY OwnFrames
    <2> QED BY ONLY TypeInv, <1>1, <1>3, <1>4, <2>1, CloseEffect
  <1>6. \A m \in SeatIds : seats[m] # NoSeat => seats'[m] # NoSeat
    BY <1>3, <1>5, SendStays, OwnFrames
  <1>7. Delivering(posts', seats')
    BY <1>1, <1>2, <1>6, DeliveringStays
  <1> QED BY <1>1, <1>2, <1>3, <1>5, <1>7

LEMMA HeadDeadline ==
    ASSUME TypeInv, timers # <<>>
    PROVE  /\ Head(timers) \in Deadline /\ Tail(timers) \in Seq(Deadline)
           /\ Head(timers) = timers[1] /\ 1 \in DOMAIN timers
           /\ Len(timers) \in Nat \ {0} /\ Len(Tail(timers)) = Len(timers) - 1
           /\ DOMAIN timers = 1..Len(timers) /\ DOMAIN Tail(timers) = 1..(Len(timers) - 1)
           /\ \A k \in DOMAIN Tail(timers) : Tail(timers)[k] = timers[k + 1]
  <1>1. timers \in Seq(Deadline)
    BY LedgerType
  <1> HIDE DEF Deadline
  <1> QED BY <1>1
-----------------------------------------------------------------------------
LEMMA TypeRequest ==
    ASSUME TypeInv, NEW i \in Ids,
           \/ OpenSession(i) \/ OpenThrows(i) \/ DispatchUnknown(i) \/ DispatchClose(i)
           \/ Dispatch(i) \/ Relocate(i) \/ RelocateThrows(i) \/ DispatchThrows(i)
    PROVE  TypeInv'
  <1> DEFINE s == Request[i].session
  <1>0. s \in Sessions
    BY RequestType
  <1>1. CASE OpenSession(i)
    <2>1. /\ sessions' \in [Sessions -> Record] /\ Sound(pool', seats', Home')
          /\ \E n \in SeatIds, w \in Workers :
                /\ sessions'[s].worker = w
                /\ seats[n] = NoSeat
                /\ seats' = [seats EXCEPT ![n] = NewSeat(s, w, <<Frame(i)>>)]
      BY <1>0, <1>1, OpenEffect
    <2>2. \A m \in SeatIds : seats[m] # NoSeat => seats'[m] # NoSeat
      BY <2>1
    <2>3. Delivering(posts', seats')
      <3>1. posts' = posts
        BY <1>1 DEF OpenSession
      <3> QED BY <2>2, <3>1, DeliveringStays, LedgerType
    <2> QED BY <1>0, <1>1, <2>1, <2>3, TypeHolds, LedgerType DEF OpenSession
  <1>2. CASE OpenThrows(i)
    <2>1. told' \in [Ids -> Nat]
      BY <1>2, LedgerType DEF OpenThrows
    <2> QED BY <1>2, <2>1, TypeHolds, LedgerType, QuietEffect DEF OpenThrows
  <1>3. CASE DispatchUnknown(i)
    <2>1. told' \in [Ids -> Nat] /\ outstanding' = outstanding \ {i} /\ route' \subseteq route
      BY <1>3, DeliverType DEF DispatchUnknown, Answered
    <2> QED BY <1>3, <2>1, TypeHolds, LedgerType, QuietEffect, ReceiveType DEF DispatchUnknown
  <1>4. CASE DispatchClose(i)
    <2>1. /\ sessions' \in [Sessions -> Record] /\ Sound(pool', seats', Home')
          /\ Delivering(posts', seats')
      BY <1>0, <1>4, ClosingType
    <2> QED BY <1>4, <2>1, TypeHolds, LedgerType, ReceiveType DEF DispatchClose
  <1>5. CASE Dispatch(i)
    <2>1. /\ sessions' \in [Sessions -> Record] /\ Sound(pool', seats', Home')
          /\ \E n \in Placed(s) : seats' = Send(seats, n, Frame(i))
      BY <1>0, <1>5, DispatchEffect
    <2>2. Delivering(posts', seats')
      BY <1>0, <1>5, <2>1, SendStays, RequestType DEF Dispatch
    <2>3. crossed' \subseteq Sessions
      BY <1>0, <1>5, LedgerType DEF Dispatch, Crossing
    <2> QED BY <1>5, <2>1, <2>2, <2>3, TypeHolds, LedgerType, ReceiveType DEF Dispatch
  <1>6. CASE Relocate(i)
    <2>1. /\ sessions' \in [Sessions -> Record] /\ Sound(pool', seats', Home')
          /\ \E old \in Placed(s), n \in SeatIds, w \in Workers :
               /\ Send(seats, old, Hangup)[n] = NoSeat /\ n # old
               /\ seats' = [Send(seats, old, Hangup) EXCEPT ![n] =
                              NewSeat(s, w, Append(Rebuild(sessions[s]), Frame(i)))]
      BY <1>0, <1>6, RelocateEffect
    <2>2. PICK old \in Placed(s), n \in SeatIds, w \in Workers :
               /\ Send(seats, old, Hangup)[n] = NoSeat /\ n # old
               /\ seats' = [Send(seats, old, Hangup) EXCEPT ![n] =
                              NewSeat(s, w, Append(Rebuild(sessions[s]), Frame(i)))]
      BY <2>1
    <2>3. \A m \in SeatIds : seats[m] # NoSeat => Send(seats, old, Hangup)[m] # NoSeat
      BY <1>0, SendStays, OwnFrames
    <2>4. \A m \in SeatIds : seats[m] # NoSeat => seats'[m] # NoSeat
      <3>1. Send(seats, old, Hangup) \in Table
        BY <1>0, SendStays, OwnFrames
      <3> QED BY <2>2, <2>3, <3>1 DEF Table
    <2>5. Delivering(posts', seats')
      <3>1. posts' = posts
        BY <1>6 DEF Relocate
      <3> QED BY <2>4, <3>1, DeliveringStays, LedgerType
    <2>6. crossed' \subseteq Sessions
      BY <1>0, <1>6, LedgerType DEF Relocate
    <2>9. /\ Receive(i) /\ todo' = todo /\ timers' = timers /\ meta' = meta
          /\ orphaned' = orphaned /\ route' = route /\ told' = told /\ outstanding' = outstanding \union {i}
      BY <1>6 DEF Relocate
    <2> QED BY <2>1, <2>5, <2>6, <2>9, TypeHolds, LedgerType, ReceiveType
  <1>7. CASE RelocateThrows(i)
    <2>1. /\ sessions' \in [Sessions -> Record] /\ Sound(pool', seats', Home')
          /\ \E old \in Placed(s) : seats' = Send(seats, old, Hangup)
      BY <1>0, <1>7, RelocateThrowsEffect
    <2>2. Delivering(posts', seats')
      <3>1. posts' = posts
        BY <1>7 DEF RelocateThrows
      <3> QED BY <1>0, <2>1, <3>1, SendStays, OwnFrames
    <2>3. told' \in [Ids -> Nat] /\ outstanding' = outstanding \ {i} /\ route' \subseteq route
      BY <1>7, DeliverType DEF RelocateThrows, Answered
    <2>9. /\ Receive(i) /\ todo' = todo /\ timers' = timers /\ meta' = meta
          /\ orphaned' = orphaned /\ crossed' = crossed
      BY <1>7 DEF RelocateThrows
    <2> QED BY <2>1, <2>2, <2>3, <2>9, TypeHolds, LedgerType, ReceiveType
  <1>8. CASE DispatchThrows(i)
    <2>1. /\ sessions' \in [Sessions -> Record] /\ Sound(pool', seats', Home')
          /\ Delivering(posts', seats')
      BY <1>0, <1>8, ThrowEffect
    <2>2. told' \in [Ids -> Nat] /\ outstanding' = outstanding \ {i} /\ route' \subseteq route
      BY <1>8, DeliverType DEF DispatchThrows, Answered
    <2>3. meta' \in [Sessions -> {"none", "opening", "open"}]
      BY <1>0, <1>8, LedgerType DEF DispatchThrows
    <2> QED BY <1>8, <2>1, <2>2, <2>3, TypeHolds, LedgerType, ReceiveType DEF DispatchThrows
  <1> QED BY <1>1, <1>2, <1>3, <1>4, <1>5, <1>6, <1>7, <1>8

LEMMA TypeCancel ==
    ASSUME TypeInv, NEW i \in Ids, CancelQueued(i) \/ CancelRunning(i)
    PROVE  TypeInv'
  <1> DEFINE s == Request[i].session
  <1>0. s \in Sessions
    BY RequestType
  <1>1. CASE CancelQueued(i)
    <2>1. /\ sessions' \in [Sessions -> Record] /\ Sound(pool', seats', Home')
          /\ \A m \in SeatIds : seats'[m] # NoSeat <=> seats[m] # NoSeat
      BY <1>0, <1>1, WithdrawEffect
    <2>2. Delivering(posts', seats')
      <3>1. posts' = posts
        BY <1>1 DEF CancelQueued
      <3> QED BY <2>1, <3>1, DeliveringStays, LedgerType
    <2>3. told' \in [Ids -> Nat] /\ outstanding' = outstanding \ {i} /\ route' \subseteq route
      BY <1>1, DeliverType DEF CancelQueued, Answered
    <2> QED BY <1>1, <2>1, <2>2, <2>3, TypeHolds, LedgerType DEF CancelQueued
  <1>2. CASE CancelRunning(i)
    <2>1. /\ sessions' \in [Sessions -> Record] /\ Sound(pool', seats', Home')
          /\ \A m \in SeatIds : seats'[m] # NoSeat <=> seats[m] # NoSeat
      BY <1>0, <1>2, StopEffect
    <2>2. Delivering(posts', seats')
      <3>1. posts' = posts
        BY <1>2 DEF CancelRunning
      <3> QED BY <2>1, <3>1, DeliveringStays, LedgerType
    <2>3. timers' \in Seq(Deadline)
      <3>1. [session |-> s, generation |-> sessions[s].generation] \in Deadline
        BY <1>0, LedgerType DEF Deadline, Record
      <3> HIDE DEF Deadline
      <3> QED BY <1>2, <3>1, LedgerType DEF CancelRunning
    <2> QED BY <1>2, <2>1, <2>2, <2>3, TypeHolds, LedgerType DEF CancelRunning, ledger
  <1> QED BY <1>1, <1>2

LEMMA TypeLoop ==
    ASSUME TypeInv, TimerStale \/ GraceExpires \/ LandAnswer \/ LandRefusedOpen \/ LandStaleDeath
    PROVE  TypeInv'
  <1>1. CASE TimerStale
    <2>1. /\ UNCHANGED <<sessions, pool, todo, host, ledger, crossed>> /\ timers' = Tail(timers)
          /\ timers # <<>>
      BY <1>1 DEF TimerStale
    <2>2. Home' = Home /\ timers' \in Seq(Deadline)
      BY <2>1, HomeUnchanged, HeadDeadline
    <2> QED BY <2>1, <2>2, TypeHolds, LedgerType DEF ledger, host
  <1>2. CASE GraceExpires
    <2>1. PICK w \in Workers :
             /\ timers # <<>> /\ todo = {} /\ w = sessions[Head(timers).session].worker
             /\ Head(timers).session \in Sessions
             /\ sessions' = sessions
             /\ seats' = Kill(seats, w)
             /\ todo' = {s \in Sessions : sessions[s].worker = w}
             /\ posts' = Deliverable(posts, seats')
             /\ timers' = Tail(timers)
             /\ Sound(pool', seats', Home')
             /\ Delivering(posts', seats')
      BY <1>2, GraceEffect
    <2>2. UNCHANGED <<ledger, crossed>>
      BY <1>2 DEF GraceExpires
    <2>3. timers' \in Seq(Deadline) /\ todo' \subseteq Sessions
      BY <2>1, HeadDeadline
    <2> QED BY <2>1, <2>2, <2>3, TypeHolds, LedgerType DEF ledger
  <1>3. CASE LandAnswer
    <2> DEFINE p == Head(posts)
               s == seats[p.seat].session
    <2>1. /\ s \in Sessions /\ sessions' \in [Sessions -> Record]
          /\ Sound(pool', seats', Home') /\ Delivering(posts', seats')
      BY <1>3, AnswerEffect
    <2>2. /\ UNCHANGED <<pool, todo, timers, seats, sent, orphaned>>
          /\ crossed' = crossed \/ crossed' = crossed \union {s}
          /\ Deliver(p.id, s)
          /\ meta' = IF p.code = "opened" /\ meta[s] # "none"
                     THEN [meta EXCEPT ![s] = "open"] ELSE meta
      BY <1>3 DEF LandAnswer
    <2>3. told' \in [Ids -> Nat] /\ outstanding' \subseteq outstanding /\ route' \subseteq route
      BY <2>2, DeliverType
    <2>4. meta' \in [Sessions -> {"none", "opening", "open"}]
      BY <2>1, <2>2, LedgerType
    <2> QED BY <2>1, <2>2, <2>3, <2>4, TypeHolds, LedgerType
  <1>4. CASE LandRefusedOpen
    <2> DEFINE p == Head(posts)
               s == seats[p.seat].session
    <2>1. /\ s \in Sessions /\ sessions' \in [Sessions -> Record]
          /\ Sound(pool', seats', Home') /\ Delivering(posts', seats')
      BY <1>4, RefusalEffect
    <2>2. /\ UNCHANGED <<todo, timers, sent, orphaned, crossed>>
          /\ Tell({p.id}, s) /\ Forget(s)
      BY <1>4 DEF LandRefusedOpen
    <2>3. told' \in [Ids -> Nat]
      BY <2>2, TellType, LedgerType
    <2>4. /\ meta' \in [Sessions -> {"none", "opening", "open"}]
          /\ outstanding' \subseteq outstanding /\ route' \subseteq route
      BY <2>1, <2>2, LedgerType DEF Forget
    <2> QED BY <2>1, <2>2, <2>3, <2>4, TypeHolds, LedgerType
  <1>5. CASE LandStaleDeath
    <2>1. /\ posts # <<>> /\ posts' = Tail(posts)
          /\ UNCHANGED <<supervisor, seats, ledger, crossed>>
      BY <1>5 DEF LandStaleDeath
    <2>2. Home' = Home /\ Delivering(posts', seats')
      <3>1. Delivering(Tail(posts), seats)
        BY <2>1, LedgerType, DeliveringTail
      <3> QED BY <2>1, <3>1, HomeUnchanged DEF supervisor
    <2> QED BY <2>1, <2>2, TypeHolds, LedgerType DEF supervisor, ledger
  <1> QED BY <1>1, <1>2, <1>3, <1>4, <1>5

LEMMA RecoveredType ==
    ASSUME TypeInv, NEW s \in Sessions, NEW ss, NEW home, Recovered(s, ss, home),
           Sound(pool', seats', Home'), Delivering(posts', seats'), sent' = sent,
           todo' \subseteq Sessions, UNCHANGED <<timers, crossed>>
    PROVE  TypeInv'
  <1>1. /\ sessions' \in [Sessions -> Record] /\ outstanding' \subseteq outstanding
        /\ told' \in [Ids -> Nat] /\ orphaned' \subseteq sent /\ route' \subseteq route
        /\ meta' \in [Sessions -> {"none", "opening", "open"}]
    BY DEF Recovered
  <1> QED BY <1>1, TypeHolds, LedgerType

LEMMA TypeDeath ==
    ASSUME TypeInv, LandDeath \/ \E s \in Sessions : Recover(s)
    PROVE  TypeInv'
  <1>1. CASE LandDeath
    <2>1. PICK s \in Sessions, n \in SeatIds :
             /\ todo' = {} /\ sent' = sent
             /\ Recovered(s, Disown(seats, {n}), [Home EXCEPT ![s] = 0])
             /\ Sound(pool', seats', Home')
             /\ Delivering(posts', seats')
      BY <1>1, DeathEffect
    <2>2. UNCHANGED <<timers, crossed>>
      BY <1>1 DEF LandDeath
    <2> QED BY <2>1, <2>2, RecoveredType
  <1>2. ASSUME NEW s \in Sessions, Recover(s) PROVE TypeInv'
    <2>1. /\ todo' = todo \ {s} /\ Recovered(s, seats, Home) /\ sent' = sent
          /\ Sound(pool', seats', Home') /\ Delivering(posts', seats')
      BY <1>2, RecoverEffect
    <2>2. UNCHANGED <<timers, crossed>> /\ todo' \subseteq Sessions
      BY <1>2, <2>1, LedgerType DEF Recover
    <2> QED BY <2>1, <2>2, RecoveredType
  <1> QED BY <1>1, <1>2

LEMMA TypeSeat ==
    ASSUME TypeInv, NEW n \in SeatIds, SeatStep(n)
    PROVE  TypeInv'
  <1>1. CASE Take(n)
    <2>1. /\ Sound(pool', seats', Home')
          /\ \A m \in SeatIds : seats'[m] # NoSeat <=> seats[m] # NoSeat
      BY <1>1, TakeEffect
    <2>2. UNCHANGED <<supervisor, posts, ledger, crossed>>
      BY <1>1 DEF Take
    <2>3. Delivering(posts', seats')
      BY <2>1, <2>2, DeliveringStays, LedgerType
    <2> QED BY <2>1, <2>2, <2>3, TypeHolds, LedgerType DEF supervisor, ledger
  <1>2. CASE Serve(n)
    <2>1. PICK code \in Codes, graph \in {"none", "clean", "dirty"}, value \in Values,
               died \in BOOLEAN :
             /\ Finish(n, code, graph, value, died)
             /\ Served(n, code, graph, value, died)
      BY <1>2, ServeEffect
    <2>2. UNCHANGED <<supervisor, ledger, crossed>>
      BY <2>1 DEF Finish
    <2>3. Sound(pool', seats', Home') /\ Delivering(posts', seats')
      BY <2>1 DEF Served
    <2> QED BY <2>2, <2>3, TypeHolds, LedgerType DEF supervisor, ledger
  <1>3. CASE Reap(n)
    <2>1. Sound(pool', seats', Home') /\ Delivering(posts', seats')
      BY <1>3, ReapEffect
    <2>2. UNCHANGED <<supervisor, posts, ledger, crossed>>
      BY <1>3 DEF Reap
    <2> QED BY <2>1, <2>2, TypeHolds, LedgerType DEF supervisor, ledger
  <1> QED BY <1>1, <1>2, <1>3 DEF SeatStep

LEMMA TypeStep ==
    ASSUME TypeInv, [Next]_vars
    PROVE  TypeInv'
  <1>1. CASE Client
    <2>1. PICK i \in Ids :
             \/ \/ OpenSession(i) \/ OpenThrows(i) \/ DispatchUnknown(i) \/ DispatchClose(i)
                \/ Dispatch(i) \/ Relocate(i) \/ RelocateThrows(i) \/ DispatchThrows(i)
             \/ CancelQueued(i) \/ CancelRunning(i)
      BY <1>1 DEF Client
    <2>2. CASE \/ OpenSession(i) \/ OpenThrows(i) \/ DispatchUnknown(i) \/ DispatchClose(i)
               \/ Dispatch(i) \/ Relocate(i) \/ RelocateThrows(i) \/ DispatchThrows(i)
      BY <2>2, TypeRequest
    <2>3. CASE CancelQueued(i) \/ CancelRunning(i)
      BY <2>3, TypeCancel
    <2> QED BY <2>1, <2>2, <2>3
  <1>2. CASE Timer \/ Loop
    BY <1>2, TypeLoop, TypeDeath DEF Timer, Loop
  <1>3. CASE \E n \in SeatIds : SeatStep(n)
    BY <1>3, TypeSeat
  <1>4. CASE UNCHANGED vars
    <2>1. /\ UNCHANGED <<supervisor, host>> /\ UNCHANGED ledger /\ crossed' = crossed
      BY <1>4 DEF vars
    <2> QED BY <2>1, QuietEffect, TypeHolds, LedgerType DEF ledger
  <1> QED BY <1>1, <1>2, <1>3, <1>4 DEF Next

\* After every step the variables have their types, the pool's counts and the seats
\* agree with the sessions, and every seat's posts can be delivered in order.
THEOREM SupervisorTypes == Spec => []TypeInv
  <1> QED BY TypeInit, TypeStep, PTL DEF Spec

\* The supervisor's variables keep their types.
THEOREM SupervisorTypeOK == Spec => []TypeOK
  <1>1. TypeInv => TypeOK
    BY DEF TypeInv
  <1> QED BY <1>1, SupervisorTypes, PTL

\* Once the sessions of a killed worker are replayed, the pool counts on every
\* worker the sessions that are on it, and none holds more than it may.
THEOREM SupervisorPoolMatchesSessions == Spec => []PoolMatchesSessions
  <1>1. ASSUME TypeInv PROVE PoolMatchesSessions
    <2> SUFFICES ASSUME Settled, NEW w \in Workers
                 PROVE  /\ pool[w].sessions =
                             Cardinality({s \in Sessions : sessions[s].worker = w})
                        /\ pool[w].sessions <=
                             IF pool[w].placement = "sacrificial" THEN 1 ELSE PerWorker
      BY DEF PoolMatchesSessions
    <2>1. \A s \in Sessions : Home[s] = sessions[s].worker
      BY DEF Settled, Home
    <2>2. {s \in Sessions : sessions[s].worker = w} = {s \in Sessions : Home[s] = w}
      BY <2>1
    <2>3. Tallied(pool, Home)
      BY <1>1, LedgerType DEF Sound
    <2> QED BY <2>2, <2>3 DEF Tallied
  <1> QED BY <1>1, SupervisorTypes, PTL

\* A seat in the host's table is its session's only one, on the worker where the
\* supervisor has the session; and where threads start, every session has one.
THEOREM SupervisorSeatsMatchSessions == Spec => []SeatsMatchSessions
  <1>1. ASSUME TypeInv PROVE SeatsMatchSessions
    <2> SUFFICES ASSUME Settled
                 PROVE  /\ \A n \in SeatIds : seats[n].held =>
                             sessions[seats[n].session].worker = seats[n].worker
                        /\ \A s \in Sessions : Cardinality(Placed(s)) <= 1
                        /\ \A s \in Sessions : Exists(s) /\ ~StartsMayFail => Placed(s) # {}
      BY DEF SeatsMatchSessions
    <2>1. \A s \in Sessions : Home[s] = sessions[s].worker
      BY DEF Settled, Home
    <2>2. Placing(seats, Home) /\ seats \in Table
      BY <1>1, LedgerType DEF Sound, Whole
    <2>3. \A n \in SeatIds : seats[n].held => seats[n].session \in Sessions
      BY <2>2, SeatOrNone DEF Seat
    <2>4. \A n \in SeatIds : seats[n].held => sessions[seats[n].session].worker = seats[n].worker
      BY <2>1, <2>2, <2>3 DEF Placing
    <2>5. ASSUME NEW s \in Sessions PROVE Cardinality(Placed(s)) <= 1
      <3>1. CASE Placed(s) = {}
        BY <3>1, FS_EmptySet
      <3>2. CASE Placed(s) # {}
        <4>1. PICK n : n \in Placed(s)
          BY <3>2
        <4>2. \A m \in Placed(s) : m = n
          BY <2>2, <4>1 DEF Placed, SeatsAt, Placing
        <4>3. Placed(s) = {n}
          BY <4>1, <4>2
        <4> QED BY <4>3, FS_Singleton
      <3> QED BY <3>1, <3>2
    <2>6. ASSUME NEW s \in Sessions, Exists(s), ~StartsMayFail PROVE Placed(s) # {}
      <3>1. PICK n \in SeatIds : seats[n].held /\ seats[n].session = s
        BY <2>1, <2>2, <2>6 DEF Placing, Exists
      <3>2. n \in Placed(s)
        BY <2>4, <3>1 DEF Placed, SeatsAt
      <3> QED BY <3>2
    <2> QED BY <2>4, <2>5, <2>6
  <1> QED BY <1>1, SupervisorTypes, PTL
-----------------------------------------------------------------------------
(* Rounds of cancels: a timer cannot be unarmed, so RoundsInv says of every
   session which of the deadlines to come is of the round that is open, and that
   those of earlier rounds have older generations. *)

\* The deadlines to come of a session's round.
Due(ts, s, g) == {k \in DOMAIN ts : ts[k] = [session |-> s, generation |-> g]}

Opened(s) == \E i \in sent : Request[i].kind = "open" /\ Request[i].session = s

\* A session's deadlines are of rounds it has had: one of the round that is open,
\* none if no round is.
Round(s) ==
    LET rec == sessions[s] IN
    /\ \A k \in DOMAIN timers : timers[k].session = s => Opened(s)
    /\ s \in todo => Exists(s)
    /\ Exists(s) =>
         /\ Opened(s)
         /\ \A k \in DOMAIN timers : timers[k].session = s => timers[k].generation <= rec.generation
    /\ s \notin todo =>
         /\ rec.armed <=> rec.targets # {}
         /\ Exists(s) /\ rec.armed => \E k : Due(timers, s, rec.generation) = {k}
         /\ Exists(s) /\ ~rec.armed => Due(timers, s, rec.generation) = {}

RoundsInv == TypeInv /\ \A s \in Sessions : Round(s)

\* A session whose round is as it was.
LEMMA RoundStays ==
    ASSUME RoundsInv, NEW s \in Sessions,
           sessions'[s].worker = 0 <=> sessions[s].worker = 0,
           sessions'[s].targets = sessions[s].targets,
           sessions'[s].armed = sessions[s].armed,
           sessions'[s].generation = sessions[s].generation,
           timers' = timers, s \in todo' <=> s \in todo, sent \subseteq sent'
    PROVE  Round(s)'
  <1>1. Round(s)
    BY DEF RoundsInv
  <1>2. Opened(s) => Opened(s)'
    BY DEF Opened
  <1> QED BY <1>1, <1>2 DEF Round, Exists

LEMMA RoundGone ==
    ASSUME RoundsInv, NEW s \in Sessions, sessions'[s] = NoSession,
           timers' = timers, s \notin todo', sent \subseteq sent'
    PROVE  Round(s)'
  <1>1. Round(s)
    BY DEF RoundsInv
  <1>2. Opened(s) => Opened(s)'
    BY DEF Opened
  <1>3. /\ sessions'[s].worker = 0 /\ sessions'[s].targets = {}
        /\ sessions'[s].armed = FALSE
    BY DEF NoSession
  <1> QED BY <1>1, <1>2, <1>3 DEF Round, Exists

\* A round that is over: its deadline, if still to come, is of an older one.
LEMMA RoundCloses ==
    ASSUME RoundsInv, NEW s \in Sessions, sessions[s].worker # 0,
           sessions'[s].targets = {}, sessions'[s].armed = FALSE,
           sessions'[s].generation = sessions[s].generation + 1,
           timers' = timers, s \notin todo', sent \subseteq sent'
    PROVE  Round(s)'
  <1>1. Round(s) /\ sessions[s].generation \in Nat /\ timers \in Seq(Deadline)
    BY LedgerType DEF RoundsInv, Record
  <1>2. Opened(s)'
    BY <1>1 DEF Opened, Round, Exists
  <1>3. ASSUME NEW k \in DOMAIN timers, timers[k].session = s
        PROVE  timers[k].generation < sessions[s].generation + 1 /\ timers[k].generation \in Nat
    <2>1. timers[k] \in Deadline
      BY <1>1
    <2>2. timers[k].generation \in Nat /\ timers[k].generation <= sessions[s].generation
      BY <1>1, <1>3, <2>1 DEF Deadline, Round, Exists
    <2> QED BY <1>1, <2>2
  <1>4. Due(timers, s, sessions[s].generation + 1) = {}
    <2> SUFFICES ASSUME NEW k \in DOMAIN timers,
                        timers[k] = [session |-> s, generation |-> sessions[s].generation + 1]
                 PROVE  FALSE
      BY DEF Due
    <2> QED BY <1>1, <1>3
  <1>5. \A k \in DOMAIN timers : timers[k].session = s =>
          timers[k].generation <= sessions[s].generation + 1
    BY <1>1, <1>3
  <1> QED BY <1>2, <1>4, <1>5 DEF Round, Exists

\* A session that opens has had no round.
LEMMA RoundOpens ==
    ASSUME RoundsInv, NEW s \in Sessions, ~Opened(s), sessions'[s].targets = {},
           sessions'[s].armed = FALSE, Opened(s)', timers' = timers, s \notin todo'
    PROVE  Round(s)'
  <1>1. \A k \in DOMAIN timers : timers[k].session # s
    BY DEF RoundsInv, Round
  <1>2. \A g : Due(timers, s, g) = {}
    BY <1>1 DEF Due
  <1> QED BY <1>1, <1>2 DEF Round, Exists

LEMMA RoundsStay ==
    ASSUME RoundsInv, UNCHANGED <<sessions, timers, todo>>, sent \subseteq sent'
    PROVE  \A s \in Sessions : Round(s)'
  <1> SUFFICES ASSUME NEW s \in Sessions PROVE Round(s)'
    OBVIOUS
  <1> QED BY RoundStays
-----------------------------------------------------------------------------
LEMMA RoundsInit == Init => RoundsInv
  <1> SUFFICES ASSUME Init PROVE RoundsInv
    OBVIOUS
  <1>1. TypeInv
    BY TypeInit
  <1>2. ASSUME NEW s \in Sessions PROVE Round(s)
    <2>1. sessions[s] = NoSession /\ timers = <<>> /\ todo = {}
      BY DEF Init
    <2>2. sessions[s].worker = 0 /\ sessions[s].targets = {} /\ sessions[s].armed = FALSE
      BY <2>1 DEF NoSession
    <2> QED BY <2>1, <2>2 DEF Round, Exists
  <1> QED BY <1>1, <1>2 DEF RoundsInv

LEMMA RoundsRequest ==
    ASSUME RoundsInv, NEW i \in Ids,
           \/ OpenSession(i) \/ OpenThrows(i) \/ DispatchUnknown(i) \/ DispatchClose(i)
           \/ Dispatch(i) \/ Relocate(i) \/ RelocateThrows(i) \/ DispatchThrows(i)
    PROVE  \A s \in Sessions : Round(s)'
  <1> DEFINE s == Request[i].session
  <1>0. s \in Sessions /\ TypeInv
    BY RequestType DEF RoundsInv
  <1>1. CASE OpenSession(i)
    <2>1. /\ todo = {} /\ todo' = todo /\ timers' = timers /\ i \notin sent
          /\ sent' = sent \union {i} /\ Request[i].kind = "open"
      BY <1>1 DEF OpenSession
    <2>2. /\ \A r \in Sessions \ {s} : sessions'[r] = sessions[r]
          /\ sessions'[s].targets = {} /\ sessions'[s].armed = FALSE
      BY <1>0, <1>1, OpenEffect
    <2>3. ~Opened(s) /\ Opened(s)'
      <3>1. sent \subseteq Ids
        BY <1>0, LedgerType
      <3> QED BY <2>1, <3>1, RequestAssumption DEF Opened
    <2>4. Round(s)'
      BY <1>0, <2>1, <2>2, <2>3, RoundOpens
    <2>5. \A r \in Sessions \ {s} : Round(r)'
      BY <2>1, <2>2, RoundStays
    <2> QED BY <2>4, <2>5
  <1>2. CASE OpenThrows(i) \/ DispatchUnknown(i)
    <2>1. UNCHANGED <<sessions, timers, todo>> /\ sent \subseteq sent'
      BY <1>2 DEF OpenThrows, DispatchUnknown, Receive, supervisor
    <2> QED BY <2>1, RoundsStay
  <1>3. CASE DispatchClose(i)
    <2>1. todo = {} /\ todo' = todo /\ timers' = timers /\ sent \subseteq sent'
      BY <1>3 DEF DispatchClose, Receive
    <2>2. sessions'[s] = NoSession /\ \A r \in Sessions \ {s} : sessions'[r] = sessions[r]
      BY <1>0, <1>3, ClosingType
    <2>3. Round(s)'
      BY <1>0, <2>1, <2>2, RoundGone
    <2>4. \A r \in Sessions \ {s} : Round(r)'
      BY <2>1, <2>2, RoundStays
    <2> QED BY <2>3, <2>4
  <1>4. CASE Dispatch(i) \/ Relocate(i) \/ RelocateThrows(i) \/ DispatchThrows(i)
    <2>1. todo' = todo /\ timers' = timers /\ sent \subseteq sent'
      BY <1>4 DEF Dispatch, Relocate, RelocateThrows, DispatchThrows, Receive
    <2>2. /\ \A r \in Sessions \ {s} : sessions'[r] = sessions[r]
          /\ sessions'[s].worker = 0 <=> sessions[s].worker = 0
          /\ sessions'[s].targets = sessions[s].targets
          /\ sessions'[s].armed = sessions[s].armed
          /\ sessions'[s].generation = sessions[s].generation
      <3>1. CASE Dispatch(i)
        BY <1>0, <3>1, DispatchEffect
      <3>2. CASE Relocate(i)
        BY <1>0, <3>2, RelocateEffect
      <3>3. CASE RelocateThrows(i)
        BY <1>0, <3>3, RelocateThrowsEffect
      <3>4. CASE DispatchThrows(i)
        BY <1>0, <3>4, ThrowEffect
      <3> QED BY <1>4, <3>1, <3>2, <3>3, <3>4
    <2>3. Round(s)'
      BY <1>0, <2>1, <2>2, RoundStays
    <2>4. \A r \in Sessions \ {s} : Round(r)'
      BY <2>1, <2>2, RoundStays
    <2> QED BY <2>3, <2>4
  <1> QED BY <1>1, <1>2, <1>3, <1>4

\* A cancel opens its session's round with a deadline, or joins the open one.
LEMMA RoundsCancel ==
    ASSUME RoundsInv, NEW i \in Ids, CancelQueued(i) \/ CancelRunning(i)
    PROVE  \A s \in Sessions : Round(s)'
  <1> DEFINE s == Request[i].session
  <1>0. s \in Sessions /\ TypeInv
    BY RequestType DEF RoundsInv
  <1>1. CASE CancelQueued(i)
    <2>1. todo' = todo /\ timers' = timers /\ sent \subseteq sent'
      BY <1>1 DEF CancelQueued
    <2>2. /\ \A r \in Sessions \ {s} : sessions'[r] = sessions[r]
          /\ sessions'[s].worker = sessions[s].worker
          /\ sessions'[s].targets = sessions[s].targets
          /\ sessions'[s].armed = sessions[s].armed
          /\ sessions'[s].generation = sessions[s].generation
      BY <1>0, <1>1, WithdrawEffect
    <2> QED BY <1>0, <2>1, <2>2, RoundStays
  <1>2. CASE CancelRunning(i)
    <2> DEFINE g == sessions[s].generation
               mine == [session |-> s, generation |-> g]
    <2>1. /\ todo = {} /\ todo' = todo /\ sent' = sent
          /\ timers' = IF sessions[s].armed THEN timers ELSE Append(timers, mine)
      BY <1>2 DEF CancelRunning, Cancellable, ledger
    <2>2. /\ \A r \in Sessions \ {s} : sessions'[r] = sessions[r]
          /\ sessions[s].worker # 0
          /\ sessions'[s].worker = sessions[s].worker
          /\ sessions'[s].targets = sessions[s].targets \union {i}
          /\ sessions'[s].armed
          /\ sessions'[s].generation = g
      BY <1>0, <1>2, StopEffect
    <2>3. Round(s) /\ g \in Nat /\ sessions[s].armed \in BOOLEAN
      BY <1>0, LedgerType DEF RoundsInv, Record
    <2>4. Opened(s)' /\ Opened(s)
      BY <2>1, <2>2, <2>3 DEF Round, Exists, Opened
    <2>5. CASE sessions[s].armed
      <3>1. timers' = timers
        BY <2>1, <2>5
      <3>2. sessions'[s].targets # {}
        BY <2>2
      <3>3. Round(s)'
        BY <2>1, <2>2, <2>3, <2>4, <2>5, <3>1, <3>2 DEF Round, Exists
      <3>4. \A r \in Sessions \ {s} : Round(r)'
        BY <2>1, <2>2, <3>1, RoundStays
      <3> QED BY <3>3, <3>4
    <2>6. CASE ~sessions[s].armed
      <3>1. timers' = Append(timers, mine)
        BY <2>1, <2>6
      <3>2. /\ Len(timers) \in Nat /\ DOMAIN timers = 1..Len(timers)
            /\ DOMAIN timers' = 1..(Len(timers) + 1)
            /\ \A k \in DOMAIN timers : timers'[k] = timers[k]
            /\ timers'[Len(timers) + 1] = mine
        <4>1. timers \in Seq(Deadline) /\ mine \in Deadline
          BY <1>0, <2>3, LedgerType DEF Deadline
        <4> HIDE DEF Deadline, mine
        <4> QED BY <3>1, <4>1
      <3> DEFINE last == Len(timers) + 1
      <3>3. Due(timers', s, g) = {last}
        <4>1. Due(timers, s, g) = {}
          BY <2>1, <2>2, <2>3, <2>6 DEF Round, Exists
        <4>2. \A k \in DOMAIN timers : timers'[k] # mine
          BY <3>2, <4>1 DEF Due
        <4> QED BY <3>2, <4>2 DEF Due
      <3>4. \A k \in DOMAIN timers' : timers'[k].session = s => timers'[k].generation <= g
        <4>1. \A k \in DOMAIN timers : timers[k].session = s => timers[k].generation <= g
          BY <2>2, <2>3 DEF Round, Exists
        <4>2. mine.generation = g
          OBVIOUS
        <4>3. ASSUME NEW k \in DOMAIN timers', timers'[k].session = s
              PROVE  timers'[k].generation <= g
          <5>1. CASE k \in DOMAIN timers
            BY <3>2, <4>1, <4>3, <5>1
          <5>2. CASE k = Len(timers) + 1
            BY <2>3, <3>2, <4>2, <5>2
          <5> QED BY <3>2, <4>3, <5>1, <5>2
        <4> QED BY <4>3
      <3>5. Round(s)'
        BY <2>1, <2>2, <2>4, <3>3, <3>4 DEF Round, Exists
      <3>6. ASSUME NEW r \in Sessions \ {s} PROVE Round(r)'
        <4>1. \A h : Due(timers', r, h) = Due(timers, r, h)
          BY <3>2 DEF Due
        <4>2. \A k \in DOMAIN timers' : timers'[k].session = r =>
                k \in DOMAIN timers /\ timers'[k] = timers[k]
          BY <3>2
        <4>3. Round(r) /\ sessions'[r] = sessions[r] /\ (Opened(r) => Opened(r)')
          BY <2>1, <2>2 DEF RoundsInv, Opened
        <4> HIDE DEF s
        <4> QED BY <2>1, <4>1, <4>2, <4>3, ZenonT(40) DEF Round, Exists
      <3> QED BY <3>5, <3>6
    <2> QED BY <2>3, <2>5, <2>6
  <1> QED BY <1>1, <1>2

\* A deadline that fires is gone; that of an open round is not fired for nothing.
LEMMA RoundsTimer ==
    ASSUME RoundsInv, NEW s \in Sessions, timers # <<>>, timers' = Tail(timers),
           sessions' = sessions, sent' = sent, s \in todo' <=> s \in todo,
           s \in todo \/ ~Exists(s) \/ ~sessions[s].armed
             \/ Head(timers) # [session |-> s, generation |-> sessions[s].generation]
    PROVE  Round(s)'
  <1> DEFINE g == sessions[s].generation
  <1>1. /\ Head(timers) = timers[1] /\ 1 \in DOMAIN timers
        /\ Len(timers) \in Nat \ {0}
        /\ DOMAIN timers = 1..Len(timers) /\ DOMAIN timers' = 1..(Len(timers) - 1)
        /\ \A k \in DOMAIN timers' : timers'[k] = timers[k + 1]
    BY HeadDeadline DEF RoundsInv
  <1>2. Round(s) /\ (Opened(s) <=> Opened(s)')
    BY DEF RoundsInv, Opened
  <1>3. \A k \in DOMAIN timers' : k + 1 \in DOMAIN timers /\ timers'[k] = timers[k + 1]
    BY <1>1
  <1>4. Due(timers, s, g) = {} => Due(timers', s, g) = {}
    BY <1>3 DEF Due
  <1>5. ASSUME s \notin todo, Exists(s), sessions[s].armed
        PROVE  \E k : Due(timers', s, g) = {k}
    <2>1. PICK k : Due(timers, s, g) = {k}
      BY <1>2, <1>5 DEF Round
    <2>2. k \in DOMAIN timers /\ k # 1 /\ timers[k] = [session |-> s, generation |-> g]
      BY <1>1, <1>5, <2>1 DEF Due
    <2>3. k - 1 \in DOMAIN timers' /\ (k - 1) + 1 = k
      BY <1>1, <2>2
    <2>4. Due(timers', s, g) = {k - 1}
      <3>1. k - 1 \in Due(timers', s, g)
        BY <1>3, <2>2, <2>3 DEF Due
      <3>2. ASSUME NEW j \in Due(timers', s, g) PROVE j = k - 1
        <4>1. j \in DOMAIN timers' /\ j + 1 \in Due(timers, s, g)
          BY <1>3 DEF Due
        <4>2. j + 1 = k
          BY <2>1, <4>1
        <4> QED BY <1>1, <4>1, <4>2
      <3> QED BY <3>1, <3>2
    <2> QED BY <2>4
  <1>6. \A k \in DOMAIN timers' : timers'[k].session = s => Opened(s)
    BY <1>2, <1>3 DEF Round
  <1>7. Exists(s) => \A k \in DOMAIN timers' : timers'[k].session = s => timers'[k].generation <= g
    BY <1>2, <1>3 DEF Round
  <1> QED BY <1>2, <1>4, <1>5, <1>6, <1>7 DEF Round, Exists

LEMMA RoundsLoop ==
    ASSUME RoundsInv, TimerStale \/ GraceExpires \/ LandAnswer \/ LandRefusedOpen \/ LandStaleDeath
    PROVE  \A s \in Sessions : Round(s)'
  <1>0. TypeInv
    BY DEF RoundsInv
  <1>1. CASE TimerStale
    <2>1. /\ timers # <<>> /\ timers' = Tail(timers) /\ sessions' = sessions
          /\ sent' = sent /\ todo = {} /\ todo' = todo
          /\ \/ ~Exists(Head(timers).session)
             \/ Head(timers).generation # sessions[Head(timers).session].generation
             \/ sessions[Head(timers).session].targets = {}
      BY <1>1 DEF TimerStale, ledger
    <2>2. ASSUME NEW s \in Sessions
          PROVE  ~Exists(s) \/ ~sessions[s].armed
                   \/ Head(timers) # [session |-> s, generation |-> sessions[s].generation]
      <3>1. sessions[s].armed <=> sessions[s].targets # {}
        BY <2>1 DEF RoundsInv, Round
      <3> QED BY <2>1, <3>1
    <2> QED BY <2>1, <2>2, RoundsTimer
  <1>2. CASE GraceExpires
    <2>1. PICK w \in Workers :
             /\ timers # <<>> /\ todo = {} /\ w = sessions[Head(timers).session].worker
             /\ sessions' = sessions
             /\ todo' = {s \in Sessions : sessions[s].worker = w}
             /\ timers' = Tail(timers)
      BY <1>0, <1>2, GraceEffect
    <2>2. sent' = sent
      BY <1>2 DEF GraceExpires, ledger
    <2>3. ASSUME NEW s \in Sessions, sessions[s].worker # w
          PROVE  Round(s)'
      <3>1. Head(timers).session # s
        BY <2>1, <2>3
      <3>2. Head(timers) # [session |-> s, generation |-> sessions[s].generation]
        BY <3>1
      <3>3. s \notin todo /\ s \notin todo'
        BY <2>1, <2>3
      <3> QED BY <2>1, <2>2, <3>2, <3>3, RoundsTimer
    <2>4. ASSUME NEW s \in Sessions, sessions[s].worker = w
          PROVE  Round(s)'
      <3>1. s \in todo' /\ sessions[s].worker # 0
        BY <2>1, <2>4 DEF Workers
      <3>2. Round(s) /\ (Opened(s) <=> Opened(s)')
        BY <2>2 DEF RoundsInv, Opened
      <3>3. \A k \in DOMAIN timers' : k + 1 \in DOMAIN timers /\ timers'[k] = timers[k + 1]
        BY <1>0, <2>1, HeadDeadline
      <3> QED BY <2>1, <3>1, <3>2, <3>3 DEF Round, Exists
    <2> QED BY <2>3, <2>4
  <1>3. CASE LandAnswer
    <2> DEFINE p == Head(posts)
    <2>0. PICK s \in Sessions : s = seats[p.seat].session
      BY <1>0, <1>3, AnswerEffect
    <2>1. todo = {} /\ todo' = todo /\ timers' = timers /\ sent' = sent
      BY <1>3 DEF LandAnswer
    <2>2. /\ s \in Sessions /\ p \in Post
          /\ \A r \in Sessions \ {s} : sessions'[r] = sessions[r]
          /\ ~Exists(s) => sessions'[s] = sessions[s]
          /\ Exists(s) => sessions'[s] = Terminated(sessions[s], p)
      BY <1>0, <1>3, <2>0, AnswerEffect
    <2>3. \A r \in Sessions \ {s} : Round(r)'
      BY <2>1, <2>2, RoundStays
    <2>4. Round(s)'
      <3>1. CASE ~Exists(s)
        BY <2>1, <2>2, <3>1, RoundStays
      <3>2. CASE Exists(s)
        <4>1. sessions[s] \in Record
          BY <1>0, <2>2, LedgerType
        <4> DEFINE new == Terminated(sessions[s], p)
        <4>2. /\ new.worker = sessions[s].worker
              /\ new.targets = sessions[s].targets \ {p.id}
              /\ sessions[s].targets = {p.id} =>
                   new.armed = FALSE /\ new.generation = sessions[s].generation + 1
              /\ sessions[s].targets # {p.id} =>
                   new.armed = sessions[s].armed /\ new.generation = sessions[s].generation
          BY <2>2, <4>1, TerminatedEffect
        <4>3. sessions'[s] = new
          BY <2>2, <3>2
        <4> HIDE DEF new
        <4>4. CASE sessions[s].targets = {p.id}
          <5>1. /\ sessions'[s].targets = {} /\ sessions'[s].armed = FALSE
                /\ sessions'[s].generation = sessions[s].generation + 1
            BY <4>2, <4>3, <4>4
          <5>2. sessions[s].worker # 0 /\ s \notin todo'
            BY <2>1, <3>2 DEF Exists
          <5> QED BY <2>1, <2>2, <5>1, <5>2, RoundCloses
        <4>5. CASE sessions[s].targets # {p.id}
          <5>1. /\ sessions'[s].targets = {} <=> sessions[s].targets = {}
                /\ sessions'[s].armed = sessions[s].armed
                /\ sessions'[s].generation = sessions[s].generation
                /\ sessions'[s].worker = sessions[s].worker
            BY <4>2, <4>3, <4>5
          <5>2. Round(s) /\ (Opened(s) <=> Opened(s)')
            BY <2>1, <2>2 DEF RoundsInv, Opened
          <5> HIDE DEF p
          <5> QED BY <2>1, <5>1, <5>2 DEF Round, Exists
        <4> QED BY <4>4, <4>5
      <3> QED BY <3>1, <3>2
    <2> QED BY <2>3, <2>4
  <1>4. CASE LandRefusedOpen
    <2>0. PICK s \in Sessions : s = seats[Head(posts).seat].session
      BY <1>0, <1>4, RefusalEffect
    <2>1. todo = {} /\ todo' = todo /\ timers' = timers /\ sent' = sent
      BY <1>4 DEF LandRefusedOpen
    <2>2. /\ s \in Sessions /\ sessions'[s] = NoSession
          /\ \A r \in Sessions \ {s} : sessions'[r] = sessions[r]
      BY <1>0, <1>4, <2>0, RefusalEffect
    <2>3. Round(s)'
      BY <2>1, <2>2, RoundGone
    <2>4. \A r \in Sessions \ {s} : Round(r)'
      BY <2>1, <2>2, RoundStays
    <2> QED BY <2>3, <2>4
  <1>5. CASE LandStaleDeath
    <2>1. UNCHANGED <<sessions, timers, todo>> /\ sent' = sent
      BY <1>5 DEF LandStaleDeath, supervisor, ledger
    <2> QED BY <2>1, RoundsStay
  <1> QED BY <1>1, <1>2, <1>3, <1>4, <1>5

LEMMA RoundRecovers ==
    ASSUME RoundsInv, NEW s \in Sessions, NEW ss, NEW home, Recovered(s, ss, home),
           sessions[s].worker # 0, timers' = timers, sent' = sent,
           s \notin todo', \A r \in Sessions \ {s} : r \in todo' <=> r \in todo
    PROVE  \A r \in Sessions : Round(r)'
  <1>1. /\ \A r \in Sessions \ {s} : sessions'[r] = sessions[r]
        /\ sessions'[s].targets = {} /\ sessions'[s].armed = FALSE
        /\ \/ sessions'[s].generation = sessions[s].generation + 1
           \/ sessions'[s] = NoSession
    BY DEF Recovered
  <1>2. Round(s)'
    BY <1>1, RoundCloses, RoundGone
  <1>3. \A r \in Sessions \ {s} : Round(r)'
    BY <1>1, RoundStays
  <1> QED BY <1>2, <1>3

LEMMA RoundsDeath ==
    ASSUME RoundsInv, LandDeath \/ \E s \in Sessions : Recover(s)
    PROVE  \A s \in Sessions : Round(s)'
  <1>0. TypeInv
    BY DEF RoundsInv
  <1>1. CASE LandDeath
    <2>1. PICK s \in Sessions, n \in SeatIds :
             /\ todo = {} /\ todo' = {} /\ sent' = sent /\ sessions[s].worker \in Workers
             /\ Recovered(s, Disown(seats, {n}), [Home EXCEPT ![s] = 0])
      BY <1>0, <1>1, DeathEffect
    <2>2. timers' = timers /\ sessions[s].worker # 0
      <3>1. sessions[s].worker # 0
        BY <2>1 DEF Workers
      <3>2. timers' = timers
        BY <1>1 DEF LandDeath
      <3> QED BY <3>1, <3>2
    <2> QED BY <2>1, <2>2, RoundRecovers
  <1>2. ASSUME NEW s \in Sessions, Recover(s) PROVE \A r \in Sessions : Round(r)'
    <2>1. s \in todo /\ todo' = todo \ {s} /\ Recovered(s, seats, Home) /\ sent' = sent
      BY <1>0, <1>2, RecoverEffect
    <2>2. timers' = timers /\ sessions[s].worker # 0
      BY <1>2, <2>1 DEF Recover, RoundsInv, Round, Exists
    <2> QED BY <2>1, <2>2, RoundRecovers
  <1> QED BY <1>1, <1>2

LEMMA RoundsSeat ==
    ASSUME RoundsInv, NEW n \in SeatIds, SeatStep(n)
    PROVE  \A s \in Sessions : Round(s)'
  <1>1. UNCHANGED supervisor /\ UNCHANGED ledger
    <2>1. CASE Take(n)
      BY <2>1 DEF Take
    <2>2. CASE Serve(n)
      <3>1. PICK code \in Codes, graph \in {"none", "clean", "dirty"}, value \in Values,
                 died \in BOOLEAN : Finish(n, code, graph, value, died)
        BY <2>2, ServeEffect DEF RoundsInv
      <3> QED BY <3>1 DEF Finish
    <2>3. CASE Reap(n)
      BY <2>3 DEF Reap
    <2> QED BY <2>1, <2>2, <2>3 DEF SeatStep
  <1>2. UNCHANGED <<sessions, timers, todo>> /\ sent' = sent
    BY <1>1 DEF supervisor, ledger
  <1> QED BY <1>2, RoundsStay

LEMMA RoundsStep ==
    ASSUME RoundsInv, [Next]_vars
    PROVE  RoundsInv'
  <1>0. TypeInv'
    BY TypeStep DEF RoundsInv
  <1> SUFFICES \A s \in Sessions : Round(s)'
    BY <1>0 DEF RoundsInv
  <1>1. ASSUME NEW i \in Ids,
               \/ \/ OpenSession(i) \/ OpenThrows(i) \/ DispatchUnknown(i) \/ DispatchClose(i)
                  \/ Dispatch(i) \/ Relocate(i) \/ RelocateThrows(i) \/ DispatchThrows(i)
               \/ CancelQueued(i) \/ CancelRunning(i)
        PROVE  \A s \in Sessions : Round(s)'
    BY <1>1, RoundsRequest, RoundsCancel
  <1>2. CASE Timer \/ Loop
    BY <1>2, RoundsLoop, RoundsDeath DEF Timer, Loop
  <1>3. CASE \E n \in SeatIds : SeatStep(n)
    BY <1>3, RoundsSeat
  <1>4. CASE UNCHANGED vars
    <2>1. UNCHANGED <<sessions, timers, todo>> /\ sent' = sent
      BY <1>4 DEF vars, supervisor, ledger
    <2> QED BY <2>1, RoundsStay
  <1> QED BY <1>1, <1>2, <1>3, <1>4 DEF Next, Client

\* After every step a session has a deadline to come for the round of cancels that is
\* open, one and no more, and none of a later round.
THEOREM SupervisorRounds == Spec => []RoundsInv
  <1> QED BY RoundsInit, RoundsStep, PTL DEF Spec

\* A session with cancels outstanding has exactly one deadline to come for them,
\* and one without has none.
THEOREM SupervisorOneDeadlinePerRound == Spec => []OneDeadlinePerRound
  <1>1. ASSUME RoundsInv PROVE OneDeadlinePerRound
    <2> SUFFICES ASSUME Settled, NEW s \in Sessions, Exists(s)
                 PROVE  Cardinality({k \in DOMAIN timers :
                            timers[k] = [session |-> s, generation |-> sessions[s].generation]})
                        = IF sessions[s].targets # {} THEN 1 ELSE 0
      BY DEF OneDeadlinePerRound
    <2> DEFINE due == Due(timers, s, sessions[s].generation)
    <2>1. /\ sessions[s].armed <=> sessions[s].targets # {}
          /\ sessions[s].armed => \E k : due = {k}
          /\ ~sessions[s].armed => due = {}
      BY <1>1 DEF RoundsInv, Round, Settled
    <2>2. Cardinality(due) = IF sessions[s].targets # {} THEN 1 ELSE 0
      <3> HIDE DEF due
      <3> QED BY <2>1, FS_EmptySet, FS_Singleton
    <2> QED BY <2>2 DEF Due
  <1> QED BY <1>1, SupervisorRounds, PTL
-----------------------------------------------------------------------------
(* Ids in a queue *)

In(q, i) == \E k \in DOMAIN q : q[k].id = i
Single(q, i) == \A k, l \in DOMAIN q : q[k].id = i /\ q[l].id = i => k = l

\* The same requests, the supervisor's own frames apart.
SameIds(r, q) == \A i \in Ids : (In(r, i) <=> In(q, i)) /\ (Single(q, i) => Single(r, i))

LEMMA NoneIn ==
    /\ \A i : ~In(<<>>, i) /\ Single(<<>>, i)
    /\ \A q : SameIds(q, q)
  BY DEF In, Single, SameIds

LEMMA AppendIds ==
    ASSUME NEW X, NEW q \in Seq(X), NEW f \in X
    PROVE  /\ \A i : In(Append(q, f), i) <=> In(q, i) \/ f.id = i
           /\ \A i : Single(q, i) /\ (f.id = i => ~In(q, i)) => Single(Append(q, f), i)
  <1> DEFINE r == Append(q, f)
  <1>1. /\ Len(q) \in Nat /\ DOMAIN q = 1..Len(q) /\ DOMAIN r = 1..(Len(q) + 1)
        /\ \A k \in DOMAIN q : r[k] = q[k]
        /\ r[Len(q) + 1] = f
    OBVIOUS
  <1>2. \A k \in DOMAIN r : k \in DOMAIN q \/ k = Len(q) + 1
    BY <1>1
  <1> HIDE DEF r
  <1>3. ASSUME NEW i PROVE In(r, i) <=> In(q, i) \/ f.id = i
    BY <1>1, <1>2 DEF In
  <1>4. ASSUME NEW i, Single(q, i), f.id = i => ~In(q, i) PROVE Single(r, i)
    BY <1>1, <1>2, <1>4 DEF In, Single
  <1> QED BY <1>3, <1>4 DEF r

LEMMA TailIds ==
    ASSUME NEW X, NEW q \in Seq(X), q # <<>>
    PROVE  /\ \A i : In(Tail(q), i) => In(q, i)
           /\ \A i : In(q, i) /\ Head(q).id # i => In(Tail(q), i)
           /\ \A i : Single(q, i) => Single(Tail(q), i)
           /\ \A i : Single(q, i) /\ Head(q).id = i => ~In(Tail(q), i)
           /\ In(q, Head(q).id)
  <1> DEFINE r == Tail(q)
  <1>1. /\ Len(q) \in Nat \ {0} /\ DOMAIN q = 1..Len(q) /\ DOMAIN r = 1..(Len(q) - 1)
        /\ \A k \in DOMAIN r : r[k] = q[k + 1]
        /\ Head(q) = q[1]
    OBVIOUS
  <1>2. /\ \A k \in DOMAIN r : k + 1 \in DOMAIN q /\ k + 1 # 1 /\ k \in Int
        /\ \A k \in DOMAIN q : k # 1 => k - 1 \in DOMAIN r /\ r[k - 1] = q[k]
        /\ 1 \in DOMAIN q
    BY <1>1
  <1> HIDE DEF r
  <1>3. ASSUME NEW i, In(r, i) PROVE In(q, i)
    BY <1>1, <1>2, <1>3 DEF In
  <1>4. ASSUME NEW i, In(q, i), Head(q).id # i PROVE In(r, i)
    BY <1>1, <1>2, <1>4 DEF In
  <1>5. ASSUME NEW i, Single(q, i) PROVE Single(r, i)
    <2> SUFFICES ASSUME NEW k \in DOMAIN r, NEW l \in DOMAIN r, r[k].id = i, r[l].id = i
                 PROVE  k = l
      BY DEF Single
    <2>1. k + 1 = l + 1
      BY <1>1, <1>2, <1>5 DEF Single
    <2> QED BY <1>2, <2>1
  <1>6. ASSUME NEW i, Single(q, i), Head(q).id = i PROVE ~In(r, i)
    <2> SUFFICES ASSUME NEW k \in DOMAIN r, r[k].id = i PROVE FALSE
      BY DEF In
    <2> QED BY <1>1, <1>2, <1>6 DEF Single
  <1>7. In(q, Head(q).id)
    BY <1>1, <1>2 DEF In
  <1> QED BY <1>3, <1>4, <1>5, <1>6, <1>7 DEF r

LEMMA RemoveAtIds ==
    ASSUME NEW X, NEW q \in Seq(X), NEW at \in DOMAIN q
    PROVE  /\ \A i : In(RemoveAt(q, at), i) => In(q, i)
           /\ \A i : In(q, i) /\ q[at].id # i => In(RemoveAt(q, at), i)
           /\ \A i : Single(q, i) => Single(RemoveAt(q, at), i)
           /\ \A i : Single(q, i) /\ q[at].id = i => ~In(RemoveAt(q, at), i)
           /\ at # 1 => RemoveAt(q, at) # <<>> /\ Head(RemoveAt(q, at)) = Head(q)
  <1> DEFINE r == RemoveAt(q, at)
  <1>1. /\ Len(q) \in Nat /\ DOMAIN q = 1..Len(q)
        /\ r \in Seq(X) /\ Len(r) = Len(q) - 1
        /\ \A k \in 1..(Len(q) - 1) : r[k] = q[IF k < at THEN k ELSE k + 1]
    <2>1. Len(q) \in Nat /\ at \in 1..Len(q) /\ DOMAIN q = 1..Len(q)
      OBVIOUS
    <2>2. /\ r \in Seq(X) /\ Len(r) = Len(q) - 1
          /\ \A k \in 1..(Len(q) - 1) : r[k] = IF k < at THEN q[k] ELSE q[k + 1]
      BY <2>1, RemoveAtProperties
    <2> HIDE DEF r
    <2> QED BY <2>1, <2>2
  <1> DEFINE f == [k \in DOMAIN r |-> IF k < at THEN k ELSE k + 1]
  <1>2. at \in 1..Len(q) /\ DOMAIN r = 1..(Len(q) - 1)
    BY <1>1
  <1> HIDE DEF r
  <1>3. \A k \in DOMAIN r : f[k] \in DOMAIN q /\ f[k] # at /\ r[k] = q[f[k]]
    BY <1>1, <1>2
  <1>4. \A k, l \in DOMAIN r : f[k] = f[l] => k = l
    BY <1>1, <1>2
  <1>5. \A j \in DOMAIN q : j # at => \E k \in DOMAIN r : f[k] = j
    <2> SUFFICES ASSUME NEW j \in DOMAIN q, j # at PROVE \E k \in DOMAIN r : f[k] = j
      OBVIOUS
    <2>1. CASE j < at
      BY <1>1, <1>2, <2>1
    <2>2. CASE j > at
      <3>1. j - 1 \in DOMAIN r /\ f[j - 1] = j
        BY <1>1, <1>2, <2>2
      <3> QED BY <3>1
    <2> QED BY <1>1, <1>2, <2>1, <2>2
  <1>6. at # 1 => r # <<>> /\ Head(r) = Head(q)
    <2>1. ASSUME at # 1 PROVE r # <<>> /\ Head(r) = Head(q)
      <3>1. 1 \in DOMAIN r /\ r[1] = q[1] /\ q # <<>>
        BY <1>1, <1>2, <2>1
      <3> QED BY <1>1, <3>1
    <2> QED BY <2>1
  <1> HIDE DEF f
  <1>7. ASSUME NEW i, In(r, i) PROVE In(q, i)
    BY <1>3, <1>7 DEF In
  <1>8. ASSUME NEW i, In(q, i), q[at].id # i PROVE In(r, i)
    BY <1>3, <1>5, <1>8 DEF In
  <1>9. ASSUME NEW i, Single(q, i) PROVE Single(r, i)
    BY <1>3, <1>4, <1>9 DEF Single
  <1>10. ASSUME NEW i, Single(q, i), q[at].id = i PROVE ~In(r, i)
    BY <1>3, <1>10 DEF In, Single
  <1> QED BY <1>6, <1>7, <1>8, <1>9, <1>10 DEF r
-----------------------------------------------------------------------------
(* Where a request is *)

Queued(ss, n, i) == In(ss[n].queue, i)
PostedBy(ps, n, i) == \E k \in DOMAIN ps : ps[k].seat = n /\ ps[k].id = i

LEMMA HoldsIs == \A n, i : Holds(n, i) <=> Queued(seats, n, i) \/ PostedBy(posts, n, i)
  BY DEF Holds, Queued, In, PostedBy

\* A request is in one place: once in one queue, or once among the posts.
Distinct(ss, ps) ==
    \A i \in Ids :
        /\ \A n \in SeatIds : Single(ss[n].queue, i)
        /\ Single(ps, i)
        /\ \A m, n \in SeatIds : Queued(ss, m, i) /\ Queued(ss, n, i) => m = n
        /\ \A m, n \in SeatIds : Queued(ss, m, i) => ~PostedBy(ps, n, i)

\* It is on a seat of its own session; only deaths are posted without an id.
Belonging(ss, ps) ==
    /\ \A i \in Ids, n \in SeatIds :
         Queued(ss, n, i) \/ PostedBy(ps, n, i) => Request[i].session = ss[n].session
    /\ \A k \in DOMAIN ps : ps[k].code = "died" <=> ps[k].id = 0

PlacesInv ==
    /\ TypeInv
    /\ Distinct(seats, posts) /\ Belonging(seats, posts)
    /\ \A i \in Ids \ sent : \A n \in SeatIds : ~Holds(n, i)

\* How a step moves requests: none, one in, one out, one from a queue to the
\* posts, those of some seats away.
Unmoved == \A j \in Ids, n \in SeatIds :
    /\ Queued(seats', n, j) <=> Queued(seats, n, j)
    /\ PostedBy(posts', n, j) <=> PostedBy(posts, n, j)
Arrives(i, at) == \A j \in Ids, n \in SeatIds :
    /\ Queued(seats', n, j) <=> Queued(seats, n, j) \/ (n = at /\ j = i)
    /\ PostedBy(posts', n, j) <=> PostedBy(posts, n, j)
Leaves(i) == \A j \in Ids, n \in SeatIds :
    /\ Queued(seats', n, j) <=> Queued(seats, n, j) /\ j # i
    /\ PostedBy(posts', n, j) <=> PostedBy(posts, n, j) /\ j # i
Answers(i, at) == \A j \in Ids, n \in SeatIds :
    /\ Queued(seats', n, j) <=> Queued(seats, n, j) /\ j # i
    /\ PostedBy(posts', n, j) <=> PostedBy(posts, n, j) \/ (n = at /\ j = i)
Empties(gone) == \A j \in Ids, n \in SeatIds :
    /\ Queued(seats', n, j) <=> Queued(seats, n, j) /\ n \notin gone
    /\ PostedBy(posts', n, j) <=> PostedBy(posts, n, j) /\ n \notin gone

\* A seat that has a request is there.
LEMMA HoldersAreThere ==
    ASSUME TypeInv, NEW n \in SeatIds, NEW i, Queued(seats, n, i) \/ PostedBy(posts, n, i)
    PROVE  seats[n] # NoSeat
  <1>1. Queued(seats, n, i) => seats[n] # NoSeat
    <2>1. NoSeat.queue = <<>>
      BY DEF NoSeat
    <2> QED BY <2>1, NoneIn DEF Queued
  <1>2. PostedBy(posts, n, i) => seats[n] # NoSeat
    BY LedgerType DEF PostedBy, Delivering
  <1> QED BY <1>1, <1>2

\* A new request on a seat's queue, whatever the supervisor put there before it.
LEMMA PlacesArrive ==
    ASSUME PlacesInv, TypeInv', NEW i \in Ids \ sent, NEW at \in SeatIds,
           NEW q \in Seq(Waiting), SameIds(q, seats[at].queue),
           seats'[at].queue = Append(q, Frame(i)), seats'[at].session = Request[i].session,
           \A n \in SeatIds \ {at} : SameIds(seats'[n].queue, seats[n].queue),
           \A n \in SeatIds : seats[n] # NoSeat => seats'[n].session = seats[n].session,
           posts' = posts, sent' = sent \union {i}
    PROVE  PlacesInv' /\ Arrives(i, at)
  <1>1. Frame(i) \in Waiting /\ Frame(i).id = i
    BY RequestType
  <1>2. /\ \A j \in Ids : In(seats'[at].queue, j) <=> In(q, j) \/ j = i
        /\ \A j \in Ids : Single(q, j) /\ (j = i => ~In(q, j)) => Single(seats'[at].queue, j)
    <2> HIDE DEF Waiting
    <2> QED BY <1>1, AppendIds
  <1>3. \A j \in Ids : In(q, j) <=> Queued(seats, at, j)
    BY DEF SameIds, Queued
  <1>4. \A n \in SeatIds : ~Queued(seats, n, i) /\ ~PostedBy(posts, n, i)
    BY HoldsIs DEF PlacesInv
  <1>5. Arrives(i, at)
    BY <1>2, <1>3 DEF Arrives, Queued, SameIds
  <1>6. Distinct(seats', posts')
    <2>1. \A j \in Ids, n \in SeatIds : Single(seats[n].queue, j) /\ Single(posts, j)
      BY DEF PlacesInv, Distinct
    <2>2. \A j \in Ids, n \in SeatIds : Single(seats'[n].queue, j)
      BY <1>2, <1>3, <1>4, <2>1, ZenonT(40) DEF SameIds, Queued
    <2>3. \A j \in Ids, m, n \in SeatIds :
            /\ Queued(seats', m, j) /\ Queued(seats', n, j) => m = n
            /\ Queued(seats', m, j) => ~PostedBy(posts', n, j)
      BY <1>4, <1>5 DEF Arrives, PlacesInv, Distinct
    <2> QED BY <2>1, <2>2, <2>3 DEF Distinct
  <1>7. Belonging(seats', posts')
    <2> SUFFICES ASSUME NEW j \in Ids, NEW n \in SeatIds,
                        Queued(seats', n, j) \/ PostedBy(posts', n, j)
                 PROVE  Request[j].session = seats'[n].session
      BY DEF Belonging, PlacesInv
    <2>1. CASE Queued(seats, n, j) \/ PostedBy(posts, n, j)
      BY <2>1, HoldersAreThere DEF PlacesInv, Belonging
    <2>2. CASE n = at /\ j = i
      BY <2>2
    <2> QED BY <1>5, <2>1, <2>2 DEF Arrives
  <1>8. \A j \in Ids \ sent' : \A n \in SeatIds : ~Queued(seats', n, j) /\ ~PostedBy(posts', n, j)
    BY <1>5, HoldsIs DEF Arrives, PlacesInv
  <1>9. (\A j \in Ids \ sent : \A n \in SeatIds : ~Holds(n, j))'
    BY <1>8 DEF Holds, Queued, In, PostedBy
  <1> QED BY <1>5, <1>6, <1>7, <1>9 DEF PlacesInv

\* Nothing of the client's moves.
LEMMA PlacesStay ==
    ASSUME PlacesInv, TypeInv',
           \A n \in SeatIds : SameIds(seats'[n].queue, seats[n].queue),
           \A n \in SeatIds : seats[n] # NoSeat =>
             seats'[n].session = seats[n].session
               \/ \A j \in Ids : ~Queued(seats, n, j) /\ ~PostedBy(posts, n, j),
           posts' = posts, sent \subseteq sent'
    PROVE  PlacesInv' /\ Unmoved
  <1>1. Unmoved
    BY DEF Unmoved, Queued, SameIds
  <1>2. Distinct(seats', posts')
    <2>1. \A j \in Ids : Single(posts, j) /\ \A n \in SeatIds : Single(seats[n].queue, j)
      BY DEF PlacesInv, Distinct
    <2>2. \A j \in Ids, n \in SeatIds : Single(seats'[n].queue, j)
      BY <2>1 DEF SameIds
    <2>3. \A j \in Ids, m, n \in SeatIds :
            /\ Queued(seats', m, j) /\ Queued(seats', n, j) => m = n
            /\ Queued(seats', m, j) => ~PostedBy(posts', n, j)
      BY <1>1 DEF Unmoved, PlacesInv, Distinct
    <2> QED BY <2>1, <2>2, <2>3 DEF Distinct
  <1>3. Belonging(seats', posts')
    <2> SUFFICES ASSUME NEW j \in Ids, NEW n \in SeatIds,
                        Queued(seats', n, j) \/ PostedBy(posts', n, j)
                 PROVE  Request[j].session = seats'[n].session
      BY DEF Belonging, PlacesInv
    <2>1. Queued(seats, n, j) \/ PostedBy(posts, n, j)
      BY <1>1 DEF Unmoved
    <2>2. seats[n] # NoSeat
      BY <2>1, HoldersAreThere DEF PlacesInv
    <2>3. seats'[n].session = seats[n].session
      BY <2>1, <2>2
    <2> QED BY <2>1, <2>3 DEF PlacesInv, Belonging
  <1>4. \A j \in Ids \ sent' : \A n \in SeatIds : ~Queued(seats', n, j) /\ ~PostedBy(posts', n, j)
    BY <1>1, HoldsIs DEF Unmoved, PlacesInv
  <1>5. (\A j \in Ids \ sent : \A n \in SeatIds : ~Holds(n, j))'
    BY <1>4 DEF Holds, Queued, In, PostedBy
  <1> QED BY <1>1, <1>2, <1>3, <1>5 DEF PlacesInv

\* Fewer requests than before, each where it was; deaths may come and go.
LEMMA PlacesShrink ==
    ASSUME PlacesInv, TypeInv', sent' = sent,
           \A j \in Ids, n \in SeatIds :
             /\ Single(seats[n].queue, j) => Single(seats'[n].queue, j)
             /\ Queued(seats', n, j) => Queued(seats, n, j)
             /\ PostedBy(posts', n, j) => PostedBy(posts, n, j)
             /\ Queued(seats', n, j) \/ PostedBy(posts', n, j) =>
                  seats'[n].session = seats[n].session,
           \A j \in Ids : Single(posts, j) => Single(posts', j),
           \A k \in DOMAIN posts' : posts'[k].code = "died" <=> posts'[k].id = 0
    PROVE  PlacesInv'
  <1>1. Distinct(seats', posts')
    <2>1. \A j \in Ids, n \in SeatIds : Single(seats'[n].queue, j)
      BY DEF PlacesInv, Distinct
    <2>2. \A j \in Ids : Single(posts', j)
      BY DEF PlacesInv, Distinct
    <2>3. \A j \in Ids, m, n \in SeatIds :
            /\ Queued(seats', m, j) /\ Queued(seats', n, j) => m = n
            /\ Queued(seats', m, j) => ~PostedBy(posts', n, j)
      BY DEF PlacesInv, Distinct
    <2> QED BY <2>1, <2>2, <2>3 DEF Distinct
  <1>2. Belonging(seats', posts')
    BY DEF Belonging, PlacesInv
  <1>3. \A j \in Ids \ sent' : \A n \in SeatIds : ~Queued(seats', n, j) /\ ~PostedBy(posts', n, j)
    BY HoldsIs DEF PlacesInv
  <1>4. (\A j \in Ids \ sent : \A n \in SeatIds : ~Holds(n, j))'
    BY <1>3 DEF Holds, Queued, In, PostedBy
  <1> QED BY <1>1, <1>2, <1>4 DEF PlacesInv
-----------------------------------------------------------------------------
(* What each handler does to the places *)

LEMMA OwnFrameIds ==
    ASSUME NEW q \in Seq(Waiting), NEW f \in Waiting, f.id = 0
    PROVE  SameIds(Append(q, f), q)
  <1>1. 0 \notin Ids
    BY RequestAssumption
  <1> HIDE DEF Waiting
  <1>2. /\ \A i : In(Append(q, f), i) <=> In(q, i) \/ f.id = i
        /\ \A i : Single(q, i) /\ (f.id = i => ~In(q, i)) => Single(Append(q, f), i)
    BY AppendIds
  <1> QED BY <1>1, <1>2 DEF SameIds

LEMMA FreeSeatIds ==
    ASSUME TypeInv, NEW n \in SeatIds, seats[n] = NoSeat
    PROVE  /\ seats[n].queue = <<>>
           /\ \A j : ~Queued(seats, n, j) /\ ~PostedBy(posts, n, j)
  <1>1. seats[n].queue = <<>>
    <2>1. NoSeat.queue = <<>>
      BY DEF NoSeat
    <2> QED BY <2>1
  <1>2. \A j : ~Queued(seats, n, j) /\ ~PostedBy(posts, n, j)
    BY HoldersAreThere
  <1> QED BY <1>1, <1>2

LEMMA OpenPlaces ==
    ASSUME PlacesInv, TypeInv', NEW i \in Ids, OpenSession(i)
    PROVE  PlacesInv' /\ \E at \in SeatIds : Arrives(i, at)
  <1> DEFINE s == Request[i].session
  <1>1. i \notin sent /\ posts' = posts /\ sent' = sent \union {i}
    BY DEF OpenSession
  <1>2. s \in Sessions /\ Frame(i) \in Waiting
    BY RequestType
  <1>3. PICK at \in SeatIds, w \in Workers :
          /\ sessions'[s].worker = w
          /\ seats[at] = NoSeat
          /\ seats' = [seats EXCEPT ![at] = NewSeat(s, w, <<Frame(i)>>)]
    <2>1. TypeInv
      BY DEF PlacesInv
    <2> QED BY <2>1, OpenEffect
  <1>4. seats \in Table
    BY LedgerType DEF PlacesInv, Sound, Whole
  <1>5. /\ seats'[at] = NewSeat(s, w, <<Frame(i)>>)
        /\ \A n \in SeatIds \ {at} : seats'[n] = seats[n]
    BY <1>3, <1>4 DEF Table
  <1>6. seats'[at].queue = Append(<<>>, Frame(i)) /\ seats'[at].session = s
    <2>1. seats'[at].queue = <<Frame(i)>> /\ seats'[at].session = s
      BY <1>5 DEF NewSeat
    <2> QED BY <2>1
  <1>7. SameIds(<<>>, seats[at].queue) /\ <<>> \in Seq(Waiting)
    <2>1. seats[at].queue = <<>>
      BY <1>3, FreeSeatIds DEF PlacesInv
    <2> QED BY <2>1, NoneIn
  <1>8. \A n \in SeatIds \ {at} : SameIds(seats'[n].queue, seats[n].queue)
    BY <1>5, NoneIn
  <1>9. \A n \in SeatIds : seats[n] # NoSeat => seats'[n].session = seats[n].session
    BY <1>3, <1>5
  <1> HIDE DEF s
  <1>10. PlacesInv' /\ Arrives(i, at)
    BY <1>1, <1>6, <1>7, <1>8, <1>9, PlacesArrive DEF s
  <1> QED BY <1>10

\* A frame sent to the session's seat: the client's, or the supervisor's own.
LEMMA SendPlaces ==
    ASSUME PlacesInv, TypeInv', NEW i \in Ids \ sent, sent' = sent \union {i}, posts' = posts,
           NEW at \in Placed(Request[i].session), seats' = Send(seats, at, Frame(i))
    PROVE  PlacesInv' /\ Arrives(i, at)
  <1>0. Request[i].session \in Sessions /\ Frame(i) \in Waiting
    BY RequestType
  <1>1. /\ at \in SeatIds /\ seats[at].held /\ seats[at].session = Request[i].session
        /\ Whole(seats) /\ seats[at].queue \in Seq(Waiting)
    BY <1>0, PlacedSeat, LedgerType, SeatOrNone DEF PlacesInv, Sound, Whole
  <1>2. /\ seats'[at].queue = Append(seats[at].queue, Frame(i))
        /\ seats'[at].session = seats[at].session
        /\ \A n \in SeatIds \ {at} : seats'[n] = seats[n]
    BY <1>0, <1>1, SendEffect
  <1>3. \A n \in SeatIds \ {at} : SameIds(seats'[n].queue, seats[n].queue)
    BY <1>2, NoneIn
  <1>4. SameIds(seats[at].queue, seats[at].queue)
    BY NoneIn
  <1>5. \A n \in SeatIds : seats[n] # NoSeat => seats'[n].session = seats[n].session
    BY <1>2
  <1> QED BY <1>1, <1>2, <1>3, <1>4, <1>5, PlacesArrive

LEMMA HangupSame ==
    ASSUME TypeInv, NEW s \in Sessions, NEW n \in Placed(s)
    PROVE  LET left == Send(seats, n, Hangup) IN
           /\ \A m \in SeatIds : SameIds(left[m].queue, seats[m].queue)
           /\ \A m \in SeatIds : left[m].session = seats[m].session
           /\ \A m \in SeatIds : left[m].busy = seats[m].busy
           /\ \A m \in SeatIds \ {n} : left[m] = seats[m]
           /\ left \in Table
  <1> DEFINE left == Send(seats, n, Hangup)
  <1>1. /\ n \in SeatIds /\ seats[n].held /\ Whole(seats) /\ seats[n].queue \in Seq(Waiting)
        /\ Hangup \in Waiting /\ Hangup.id = 0
    BY PlacedSeat, LedgerType, SeatOrNone, OwnFrames DEF Sound, Whole
  <1>2. /\ left[n].queue = Append(seats[n].queue, Hangup) /\ left[n].session = seats[n].session
        /\ left[n].busy = seats[n].busy
        /\ \A m \in SeatIds \ {n} : left[m] = seats[m]
        /\ left \in Table
    BY <1>1, SendEffect DEF Whole
  <1> HIDE DEF left
  <1>3. SameIds(left[n].queue, seats[n].queue)
    BY <1>1, <1>2, OwnFrameIds
  <1>4. \A m \in SeatIds : SameIds(left[m].queue, seats[m].queue)
    BY <1>2, <1>3, NoneIn
  <1> QED BY <1>2, <1>4 DEF left

LEMMA RelocatePlaces ==
    ASSUME PlacesInv, TypeInv', NEW i \in Ids, Relocate(i)
    PROVE  PlacesInv' /\ \E at \in SeatIds : Arrives(i, at)
  <1> DEFINE s == Request[i].session
  <1>1. i \notin sent /\ posts' = posts /\ sent' = sent \union {i}
    BY ReceiveType DEF Relocate, PlacesInv
  <1>2. s \in Sessions
    BY RequestType
  <1>3. PICK old \in Placed(s), at \in SeatIds, w \in Workers :
          /\ Send(seats, old, Hangup)[at] = NoSeat /\ at # old
          /\ seats' = [Send(seats, old, Hangup) EXCEPT ![at] =
                         NewSeat(s, w, Append(Rebuild(sessions[s]), Frame(i)))]
    BY <1>2, RelocateEffect DEF PlacesInv
  <1> DEFINE left == Send(seats, old, Hangup)
             q == Rebuild(sessions[s])
  <1>4. /\ \A m \in SeatIds : SameIds(left[m].queue, seats[m].queue)
        /\ \A m \in SeatIds : left[m].session = seats[m].session
        /\ \A m \in SeatIds \ {old} : left[m] = seats[m]
        /\ left \in Table
    BY <1>2, HangupSame DEF PlacesInv
  <1>5. q \in Seq(Waiting) /\ \A k \in DOMAIN q : q[k].id = 0
    BY <1>2, RebuildType, LedgerType DEF PlacesInv
  <1>6. seats' = [left EXCEPT ![at] = NewSeat(s, w, Append(q, Frame(i)))] /\ left[at] = NoSeat
        /\ seats[at] = NoSeat
    BY <1>3, <1>4
  <1> HIDE DEF left, q
  <1>7. /\ seats'[at].queue = Append(q, Frame(i)) /\ seats'[at].session = s
        /\ \A n \in SeatIds \ {at} : seats'[n] = left[n]
    BY <1>4, <1>6 DEF Table, NewSeat
  <1>8. SameIds(q, seats[at].queue)
    <2>1. 0 \notin Ids
      BY RequestAssumption
    <2>2. \A j \in Ids : ~In(q, j) /\ Single(q, j)
      BY <1>5, <2>1 DEF In, Single
    <2>3. \A j \in Ids : ~In(seats[at].queue, j)
      BY <1>6, FreeSeatIds DEF PlacesInv, Queued
    <2> QED BY <2>2, <2>3 DEF SameIds
  <1>9. /\ \A n \in SeatIds \ {at} : SameIds(seats'[n].queue, seats[n].queue)
        /\ \A n \in SeatIds : seats[n] # NoSeat => seats'[n].session = seats[n].session
    BY <1>4, <1>6, <1>7
  <1>10. PlacesInv' /\ Arrives(i, at)
    BY <1>1, <1>5, <1>7, <1>8, <1>9, PlacesArrive
  <1> QED BY <1>10

LEMMA RelocateThrowsPlaces ==
    ASSUME PlacesInv, TypeInv', NEW i \in Ids, RelocateThrows(i)
    PROVE  PlacesInv' /\ Unmoved
  <1> DEFINE s == Request[i].session
  <1>1. posts' = posts /\ sent \subseteq sent'
    BY ReceiveType DEF RelocateThrows, PlacesInv
  <1>2. s \in Sessions
    BY RequestType
  <1>3. PICK old \in Placed(s) : seats' = Send(seats, old, Hangup)
    BY <1>2, RelocateThrowsEffect DEF PlacesInv
  <1>4. /\ \A m \in SeatIds : SameIds(seats'[m].queue, seats[m].queue)
        /\ \A m \in SeatIds : seats'[m].session = seats[m].session
    BY <1>2, <1>3, HangupSame DEF PlacesInv
  <1> QED BY <1>1, <1>4, PlacesStay

LEMMA QuietPlaces ==
    ASSUME PlacesInv, TypeInv', UNCHANGED host, sent \subseteq sent'
    PROVE  PlacesInv' /\ Unmoved
  <1>1. seats' = seats /\ posts' = posts
    BY DEF host
  <1> QED BY <1>1, PlacesStay, NoneIn

LEMMA WithdrawPlaces ==
    ASSUME PlacesInv, TypeInv', NEW i \in Ids, CancelQueued(i)
    PROVE  PlacesInv' /\ Leaves(i)
  <1> DEFINE s == Request[i].session
  <1>1. posts' = posts /\ sent' = sent
    BY DEF CancelQueued
  <1>2. s \in Sessions
    BY RequestType
  <1>3. PICK at \in Placed(s) : \E k \in DOMAIN seats[at].queue :
                /\ seats[at].queue[k] = Frame(i)
                /\ seats'[at].queue = RemoveAt(seats[at].queue, k)
                /\ seats'[at].session = seats[at].session
                /\ \A m \in SeatIds \ {at} : seats'[m] = seats[m]
    BY <1>2, WithdrawEffect DEF PlacesInv
  <1>4. PICK k \in DOMAIN seats[at].queue :
                /\ seats[at].queue[k] = Frame(i)
                /\ seats'[at].queue = RemoveAt(seats[at].queue, k)
                /\ seats'[at].session = seats[at].session
                /\ \A m \in SeatIds \ {at} : seats'[m] = seats[m]
    BY <1>3
  <1>5. at \in SeatIds /\ seats[at].queue \in Seq(Waiting) /\ Frame(i).id = i
    BY <1>2, PlacedSeat, LedgerType, SeatOrNone, RequestType DEF PlacesInv, Sound, Whole
  <1> DEFINE q == seats[at].queue
             r == seats'[at].queue
  <1>6. /\ \A j : In(r, j) => In(q, j)
        /\ \A j : In(q, j) /\ q[k].id # j => In(r, j)
        /\ \A j : Single(q, j) => Single(r, j)
        /\ \A j : Single(q, j) /\ q[k].id = j => ~In(r, j)
    <2> HIDE DEF Waiting
    <2> QED BY <1>4, <1>5, RemoveAtIds
  <1>7. Queued(seats, at, i)
    BY <1>4, <1>5 DEF Queued, In
  <1>8. PlacesInv'
    <2>1. \A j \in Ids, n \in SeatIds :
             /\ Single(seats[n].queue, j) => Single(seats'[n].queue, j)
             /\ Queued(seats', n, j) => Queued(seats, n, j)
             /\ seats'[n].session = seats[n].session
      BY <1>4, <1>6 DEF Queued
    <2> QED BY <1>1, <2>1, PlacesShrink DEF PlacesInv, Belonging
  <1>9. Leaves(i)
    <2>1. /\ \A n \in SeatIds : ~PostedBy(posts, n, i)
          /\ \A n \in SeatIds \ {at} : ~Queued(seats, n, i)
          /\ Single(q, i)
      BY <1>5, <1>7 DEF PlacesInv, Distinct
    <2>2. \A j \in Ids, n \in SeatIds : Queued(seats', n, j) <=> Queued(seats, n, j) /\ j # i
      BY <1>4, <1>5, <1>6, <2>1 DEF Queued
    <2> QED BY <1>1, <2>1, <2>2 DEF Leaves
  <1> QED BY <1>8, <1>9

LEMMA StopPlaces ==
    ASSUME PlacesInv, TypeInv', NEW i \in Ids, CancelRunning(i)
    PROVE  PlacesInv' /\ Unmoved
  <1> DEFINE s == Request[i].session
  <1>1. posts' = posts /\ sent' = sent
    BY DEF CancelRunning, ledger
  <1>2. s \in Sessions
    BY RequestType
  <1>3. PICK at \in Placed(s) :
                /\ seats'[at].queue = seats[at].queue
                /\ seats'[at].session = seats[at].session
                /\ \A m \in SeatIds \ {at} : seats'[m] = seats[m]
    BY <1>2, StopEffect DEF PlacesInv
  <1>4. \A m \in SeatIds : /\ SameIds(seats'[m].queue, seats[m].queue)
                           /\ seats'[m].session = seats[m].session
    BY <1>3, NoneIn
  <1> QED BY <1>1, <1>4, PlacesStay

\* The first post taken, and the posts of the seats that are gone dropped.
LEMMA TailPosts ==
    ASSUME PlacesInv, posts # <<>>
    PROVE  /\ Tail(posts) \in Seq(Post)
           /\ \A j \in Ids : Single(Tail(posts), j)
           /\ \A j \in Ids : \A n : PostedBy(Tail(posts), n, j) <=>
                PostedBy(posts, n, j) /\ j # Head(posts).id
           /\ PostedBy(posts, Head(posts).seat, Head(posts).id)
           /\ \A k \in DOMAIN Tail(posts) : \E l \in DOMAIN posts : Tail(posts)[k] = posts[l]
  <1> DEFINE r == Tail(posts)
             h == Head(posts)
  <1>1. /\ \A k \in DOMAIN r : k + 1 \in DOMAIN posts /\ r[k] = posts[k + 1]
        /\ \A k \in DOMAIN posts \ {1} : k - 1 \in DOMAIN r /\ r[k - 1] = posts[k]
        /\ h = posts[1] /\ 1 \in DOMAIN posts
        /\ r \in Seq(Post) /\ posts \in Seq(Post)
    BY DeliveringTail, LedgerType DEF PlacesInv, Delivering
  <1>2. /\ \A j : Single(posts, j) => Single(r, j)
        /\ \A j : Single(posts, j) /\ h.id = j => ~In(r, j)
    <2> HIDE DEF Post
    <2> QED BY <1>1, TailIds
  <1>3. \A j \in Ids : Single(posts, j)
    BY DEF PlacesInv, Distinct
  <1> HIDE DEF r, h
  <1>4. ASSUME NEW j \in Ids, NEW n, PostedBy(r, n, j) PROVE PostedBy(posts, n, j) /\ j # h.id
    <2>1. PostedBy(posts, n, j)
      BY <1>1, <1>4 DEF PostedBy
    <2>2. In(r, j)
      BY <1>4 DEF PostedBy, In
    <2> QED BY <1>2, <1>3, <2>1, <2>2
  <1>5. ASSUME NEW j \in Ids, NEW n, PostedBy(posts, n, j), j # h.id PROVE PostedBy(r, n, j)
    <2>1. PICK k \in DOMAIN posts : posts[k].seat = n /\ posts[k].id = j
      BY <1>5 DEF PostedBy
    <2>2. k # 1
      BY <1>1, <1>5, <2>1
    <2> QED BY <1>1, <2>1, <2>2 DEF PostedBy
  <1>6. PostedBy(posts, h.seat, h.id)
    BY <1>1 DEF PostedBy
  <1>7. \A k \in DOMAIN r : \E l \in DOMAIN posts : r[k] = posts[l]
    BY <1>1
  <1> QED BY <1>1, <1>2, <1>3, <1>4, <1>5, <1>6, <1>7 DEF r, h

LEMMA DropPosts ==
    ASSUME NEW ps \in Seq(Post), NEW ss
    PROVE  /\ \A n, j : PostedBy(Deliverable(ps, ss), n, j) <=>
                PostedBy(ps, n, j) /\ ss[n] # NoSeat
           /\ \A j : Single(ps, j) => Single(Deliverable(ps, ss), j)
           /\ \A k \in DOMAIN Deliverable(ps, ss) :
                \E l \in DOMAIN ps : Deliverable(ps, ss)[k] = ps[l]
  <1> DEFINE r == Deliverable(ps, ss)
  <1>1. PICK f : /\ f \in [DOMAIN r -> DOMAIN ps]
                 /\ \A k \in DOMAIN r : r[k] = ps[f[k]] /\ ss[ps[f[k]].seat] # NoSeat
                 /\ \A k, l \in DOMAIN r : f[k] = f[l] => k = l
                 /\ \A j \in DOMAIN ps : ss[ps[j].seat] # NoSeat => \E k \in DOMAIN r : f[k] = j
    BY DeliverableEffect
  <1> HIDE DEF r
  <1>2. ASSUME NEW n, NEW j, PostedBy(r, n, j) PROVE PostedBy(ps, n, j) /\ ss[n] # NoSeat
    BY <1>1, <1>2 DEF PostedBy
  <1>3. ASSUME NEW n, NEW j, PostedBy(ps, n, j), ss[n] # NoSeat PROVE PostedBy(r, n, j)
    <2>1. PICK l \in DOMAIN ps : ps[l].seat = n /\ ps[l].id = j
      BY <1>3 DEF PostedBy
    <2>2. PICK k \in DOMAIN r : f[k] = l
      BY <1>1, <1>3, <2>1
    <2> QED BY <1>1, <2>1, <2>2 DEF PostedBy
  <1>4. ASSUME NEW j, Single(ps, j) PROVE Single(r, j)
    BY <1>1, <1>4 DEF Single
  <1>5. \A k \in DOMAIN r : \E l \in DOMAIN ps : r[k] = ps[l]
    BY <1>1
  <1> QED BY <1>2, <1>3, <1>4, <1>5 DEF r

LEMMA ReopenIds ==
    \A v : SameIds(<<Reopen(v)>>, <<>>)
  <1> SUFFICES ASSUME NEW v PROVE SameIds(<<Reopen(v)>>, <<>>)
    OBVIOUS
  <1>1. 0 \notin Ids
    BY RequestAssumption
  <1>2. Reopen(v).id = 0
    BY DEF Reopen
  <1> DEFINE q == <<Reopen(v)>>
  <1>3. DOMAIN q = {1} /\ q[1].id = 0
    BY <1>2
  <1> HIDE DEF q
  <1>4. \A j \in Ids : ~In(q, j) /\ Single(q, j)
    BY <1>1, <1>3 DEF In, Single
  <1> QED BY <1>4, NoneIn DEF q, SameIds

\* A seat that is as it was, or a fresh one where there was none.
Replaces(ss, tt) ==
    \A n \in SeatIds :
        \/ tt[n] = ss[n]
        \/ /\ ss[n] = NoSeat
           /\ \E s \in Sessions, w \in Workers, v \in Ids \union {0} :
                tt[n] = NewSeat(s, w, <<Reopen(v)>>)

LEMMA ReplacesIds ==
    ASSUME NEW ss, NEW tt, Replaces(ss, tt), NEW n \in SeatIds
    PROVE  /\ SameIds(tt[n].queue, ss[n].queue)
           /\ ss[n] # NoSeat => tt[n] = ss[n]
  <1>1. CASE tt[n] = ss[n]
    BY <1>1, NoneIn
  <1>2. CASE tt[n] # ss[n]
    <2>1. PICK s \in Sessions, w \in Workers, v \in Ids \union {0} :
            tt[n] = NewSeat(s, w, <<Reopen(v)>>)
      BY <1>2 DEF Replaces
    <2>2. ss[n] = NoSeat
      BY <1>2 DEF Replaces
    <2>3. tt[n].queue = <<Reopen(v)>>
      BY <2>1 DEF NewSeat
    <2>4. NoSeat.queue = <<>>
      BY DEF NoSeat
    <2> QED BY <2>2, <2>3, <2>4, ReopenIds
  <1> QED BY <1>1, <1>2

LEMMA RecoveredReplaces ==
    ASSUME NEW s \in Sessions, NEW ss, NEW home, Recovered(s, ss, home)
    PROVE  Replaces(ss, seats')
  BY DEF Recovered, Replaces

\* Seats that go with all they have.
LEMMA EmptyPlaces ==
    ASSUME PlacesInv, TypeInv', NEW left, NEW gone,
           \A n \in SeatIds : left[n] = IF n \in gone THEN NoSeat ELSE seats[n],
           Replaces(left, seats'), NEW ps \in Seq(Post), posts' = Deliverable(ps, left),
           \/ ps = posts
           \/ posts # <<>> /\ ps = Tail(posts) /\ Head(posts).id = 0,
           sent' = sent
    PROVE  PlacesInv' /\ Empties(gone)
  <1>1. 0 \notin Ids
    BY RequestAssumption
  <1>2. /\ \A j \in Ids : Single(ps, j)
        /\ \A j \in Ids : \A n : PostedBy(ps, n, j) <=> PostedBy(posts, n, j)
        /\ \A k \in DOMAIN ps : \E l \in DOMAIN posts : ps[k] = posts[l]
    <2>1. CASE ps = posts
      BY <2>1 DEF PlacesInv, Distinct
    <2>2. CASE posts # <<>> /\ ps = Tail(posts) /\ Head(posts).id = 0
      BY <1>1, <2>2, TailPosts
    <2> QED BY <2>1, <2>2
  <1>3. /\ \A j \in Ids : \A n : PostedBy(posts', n, j) <=> PostedBy(posts, n, j) /\ left[n] # NoSeat
        /\ \A j \in Ids : Single(posts', j)
        /\ \A k \in DOMAIN posts' : \E l \in DOMAIN posts : posts'[k] = posts[l]
    <2>1. /\ \A n, j : PostedBy(posts', n, j) <=> PostedBy(ps, n, j) /\ left[n] # NoSeat
          /\ \A j : Single(ps, j) => Single(posts', j)
          /\ \A k \in DOMAIN posts' : \E l \in DOMAIN ps : posts'[k] = ps[l]
      BY DropPosts
    <2> QED BY <1>2, <2>1
  <1>4. ASSUME NEW n \in SeatIds, NEW j \in Ids
        PROVE  /\ Queued(seats', n, j) <=> Queued(seats, n, j) /\ n \notin gone
               /\ Queued(seats', n, j) => seats'[n] = seats[n]
               /\ Single(seats[n].queue, j) => Single(seats'[n].queue, j)
    <2>1. SameIds(seats'[n].queue, left[n].queue) /\ (left[n] # NoSeat => seats'[n] = left[n])
      BY ReplacesIds
    <2>2. NoSeat.queue = <<>>
      BY DEF NoSeat
    <2>3. CASE n \in gone
      <3>1. left[n].queue = <<>>
        BY <2>2, <2>3
      <3>2. ~In(seats'[n].queue, j) /\ Single(seats'[n].queue, j)
        BY <2>1, <3>1, NoneIn DEF SameIds
      <3> QED BY <2>3, <3>2 DEF Queued
    <2>4. CASE n \notin gone
      <3>1. left[n] = seats[n]
        BY <2>4
      <3>2. Queued(seats', n, j) <=> Queued(seats, n, j)
        BY <2>1, <3>1 DEF SameIds, Queued
      <3>3. Queued(seats, n, j) => seats[n] # NoSeat
        BY HoldersAreThere DEF PlacesInv
      <3>4. Single(seats[n].queue, j) => Single(seats'[n].queue, j)
        BY <2>1, <3>1 DEF SameIds
      <3> QED BY <2>1, <2>4, <3>1, <3>2, <3>3, <3>4
    <2> QED BY <2>3, <2>4
  <1>5. ASSUME NEW n \in SeatIds, NEW j \in Ids
        PROVE  /\ PostedBy(posts', n, j) <=> PostedBy(posts, n, j) /\ n \notin gone
               /\ PostedBy(posts', n, j) => seats'[n] = seats[n]
    <2>1. PostedBy(posts, n, j) => seats[n] # NoSeat
      BY HoldersAreThere DEF PlacesInv
    <2>2. left[n] # NoSeat => seats'[n] = left[n]
      BY ReplacesIds
    <2> QED BY <1>3, <2>1, <2>2
  <1>6. Empties(gone)
    BY <1>4, <1>5 DEF Empties
  <1>7. \A k \in DOMAIN posts' : posts'[k].code = "died" <=> posts'[k].id = 0
    BY <1>3 DEF PlacesInv, Belonging
  <1>8. PlacesInv'
    BY <1>3, <1>4, <1>5, <1>7, PlacesShrink
  <1> QED BY <1>6, <1>8

\* The answer that lands was in the posts, and is nowhere now.
LEMMA LandPlaces ==
    ASSUME PlacesInv, TypeInv', LandAnswer \/ LandRefusedOpen
    PROVE  /\ PlacesInv' /\ posts # <<>> /\ Head(posts).id \in Ids /\ Head(posts).seat \in SeatIds
           /\ PostedBy(posts, Head(posts).seat, Head(posts).id)
           /\ Request[Head(posts).id].session = seats[Head(posts).seat].session
           /\ Leaves(Head(posts).id)
  <1> DEFINE i == Head(posts).id
  <1>1. posts # <<>> /\ posts' = Tail(posts) /\ sent' = sent /\ Head(posts).code # "died"
    BY DEF LandAnswer, LandRefusedOpen
  <1>2. Head(posts) \in Post /\ i # 0
    <2>1. Head(posts) \in Post /\ Head(posts) = posts[1] /\ 1 \in DOMAIN posts
      BY <1>1, DeliveringTail, LedgerType DEF PlacesInv
    <2> QED BY <1>1, <2>1 DEF PlacesInv, Belonging
  <1>3. i \in Ids /\ Head(posts).seat \in SeatIds
    BY <1>2 DEF Post
  <1>4. /\ \A n \in SeatIds : SameIds(seats'[n].queue, seats[n].queue)
        /\ \A n \in SeatIds : seats'[n].session = seats[n].session
    <2>1. CASE LandAnswer
      <3>1. seats' = seats
        BY <2>1 DEF LandAnswer
      <3> QED BY <3>1, NoneIn
    <2>2. CASE LandRefusedOpen
      <3>1. PICK s \in Sessions : s = seats[Head(posts).seat].session
        BY <2>2, RefusalEffect DEF PlacesInv
      <3>2. PICK n \in Placed(s) : seats' = Send(seats, n, Hangup)
        BY <2>2, <3>1, RefusalEffect DEF PlacesInv
      <3> QED BY <3>2, HangupSame DEF PlacesInv
    <2> QED BY <2>1, <2>2
  <1>5. \A j \in Ids, n \in SeatIds : Queued(seats', n, j) <=> Queued(seats, n, j)
    BY <1>4 DEF SameIds, Queued
  <1>6. /\ \A j \in Ids : Single(posts', j)
        /\ \A j \in Ids : \A n : PostedBy(posts', n, j) <=> PostedBy(posts, n, j) /\ j # i
        /\ PostedBy(posts, Head(posts).seat, i)
        /\ \A k \in DOMAIN posts' : \E l \in DOMAIN posts : posts'[k] = posts[l]
    BY <1>1, TailPosts
  <1> HIDE DEF i
  <1>7. Leaves(i)
    <2>1. \A n \in SeatIds : ~Queued(seats, n, i)
      BY <1>3, <1>6 DEF PlacesInv, Distinct
    <2> QED BY <1>5, <1>6, <2>1 DEF Leaves
  <1>8. PlacesInv'
    <2>1. \A k \in DOMAIN posts' : posts'[k].code = "died" <=> posts'[k].id = 0
      BY <1>6 DEF PlacesInv, Belonging
    <2>2. \A j \in Ids, n \in SeatIds : Single(seats[n].queue, j) => Single(seats'[n].queue, j)
      BY <1>4 DEF SameIds
    <2> QED BY <1>1, <1>4, <1>5, <1>6, <2>1, <2>2, PlacesShrink
  <1>9. Request[i].session = seats[Head(posts).seat].session
    BY <1>3, <1>6 DEF PlacesInv, Belonging
  <1> QED BY <1>1, <1>3, <1>6, <1>7, <1>8, <1>9 DEF i

LEMMA StaleDeathPlaces ==
    ASSUME PlacesInv, TypeInv', LandStaleDeath
    PROVE  PlacesInv' /\ Unmoved
  <1>1. /\ posts # <<>> /\ posts' = Tail(posts) /\ Head(posts).code = "died"
        /\ seats' = seats /\ sent' = sent
    BY DEF LandStaleDeath, ledger
  <1>2. Head(posts).id = 0
    <2>1. Head(posts) = posts[1] /\ 1 \in DOMAIN posts
      BY <1>1, DeliveringTail, LedgerType DEF PlacesInv
    <2> QED BY <1>1, <2>1 DEF PlacesInv, Belonging
  <1>3. 0 \notin Ids
    BY RequestAssumption
  <1>4. /\ \A j \in Ids : Single(posts', j)
        /\ \A j \in Ids : \A n : PostedBy(posts', n, j) <=> PostedBy(posts, n, j)
        /\ \A k \in DOMAIN posts' : \E l \in DOMAIN posts : posts'[k] = posts[l]
    BY <1>1, <1>2, <1>3, TailPosts
  <1>5. Unmoved
    BY <1>1, <1>4 DEF Unmoved
  <1>6. \A k \in DOMAIN posts' : posts'[k].code = "died" <=> posts'[k].id = 0
    BY <1>4 DEF PlacesInv, Belonging
  <1>7. PlacesInv'
    BY <1>1, <1>4, <1>6, PlacesShrink
  <1> QED BY <1>5, <1>7

LEMMA DeathPlaces ==
    ASSUME PlacesInv, TypeInv', LandDeath
    PROVE  PlacesInv' /\ \E s \in Sessions, n \in SeatIds :
             /\ todo = {} /\ todo' = {} /\ sent' = sent
             /\ seats[n].held /\ seats[n].session = s
             /\ Recovered(s, Disown(seats, {n}), [Home EXCEPT ![s] = 0])
             /\ \A m \in SeatIds \ {n} : seats[m] # NoSeat => seats'[m] = seats[m]
             /\ Empties({n})
  <1>1. PICK s \in Sessions, n \in SeatIds :
             /\ posts # <<>> /\ todo = {} /\ todo' = {} /\ sent' = sent
             /\ seats[n].held /\ seats[n].session = s
             /\ Recovered(s, Disown(seats, {n}), [Home EXCEPT ![s] = 0])
             /\ posts' = Deliverable(Tail(posts), Disown(seats, {n}))
    BY DeathEffect DEF PlacesInv
  <1> DEFINE left == Disown(seats, {n})
             ps == Tail(posts)
  <1>2. \A m \in SeatIds : left[m] = IF m \in {n} THEN NoSeat ELSE seats[m]
    BY DisownEffect, LedgerType DEF PlacesInv, Sound
  <1>3. Replaces(left, seats')
    BY <1>1, RecoveredReplaces
  <1>4. Head(posts).id = 0 /\ ps \in Seq(Post)
    <2>1. Head(posts) = posts[1] /\ 1 \in DOMAIN posts /\ Delivering(Tail(posts), seats)
      BY <1>1, DeliveringTail, LedgerType DEF PlacesInv
    <2>2. Head(posts).code = "died"
      BY DEF LandDeath
    <2> QED BY <2>1, <2>2 DEF PlacesInv, Belonging, Delivering
  <1>5. posts' = Deliverable(ps, left)
    BY <1>1
  <1> HIDE DEF left, ps
  <1>6. PlacesInv' /\ Empties({n})
    BY <1>1, <1>2, <1>3, <1>4, <1>5, EmptyPlaces DEF ps
  <1>7. \A m \in SeatIds \ {n} : seats[m] # NoSeat => seats'[m] = seats[m]
    BY <1>2, <1>3, ReplacesIds
  <1> QED BY <1>1, <1>6, <1>7

\* The seats a killed worker has in the table.
Killed(w) == {n \in SeatIds : seats[n].held /\ seats[n].worker = w}

LEMMA GracePlaces ==
    ASSUME PlacesInv, TypeInv', GraceExpires
    PROVE  PlacesInv' /\ \E w \in Workers :
             /\ todo = {} /\ todo' = {s \in Sessions : sessions[s].worker = w}
             /\ sessions' = sessions /\ UNCHANGED ledger
             /\ \A n \in SeatIds \ Killed(w) : seats'[n] = seats[n]
             /\ Empties(Killed(w))
  <1>1. PICK w \in Workers :
             /\ todo = {} /\ sessions' = sessions
             /\ seats' = Kill(seats, w)
             /\ todo' = {s \in Sessions : sessions[s].worker = w}
             /\ posts' = Deliverable(posts, seats')
    BY GraceEffect DEF PlacesInv
  <1>2. UNCHANGED ledger /\ sent' = sent
    BY DEF GraceExpires, ledger
  <1>3. \A n \in SeatIds : Kill(seats, w)[n] = IF n \in Killed(w) THEN NoSeat ELSE seats[n]
    BY KillEffect, LedgerType DEF PlacesInv, Sound, Killed
  <1> DEFINE left == Kill(seats, w)
             gone == Killed(w)
  <1>4. /\ \A n \in SeatIds : left[n] = IF n \in gone THEN NoSeat ELSE seats[n]
        /\ seats' = left /\ posts' = Deliverable(posts, left)
    BY <1>1, <1>3
  <1> HIDE DEF left, gone
  <1>5. Replaces(left, seats')
    BY <1>4 DEF Replaces
  <1>6. posts \in Seq(Post)
    BY LedgerType DEF PlacesInv, Delivering
  <1>7. PlacesInv' /\ Empties(gone)
    BY <1>2, <1>4, <1>5, <1>6, EmptyPlaces
  <1> QED BY <1>1, <1>2, <1>4, <1>7 DEF gone

LEMMA RecoverPlaces ==
    ASSUME PlacesInv, TypeInv', NEW s \in Sessions, Recover(s)
    PROVE  /\ PlacesInv' /\ Unmoved
           /\ \A n \in SeatIds : seats[n] # NoSeat => seats'[n] = seats[n]
  <1>1. Recovered(s, seats, Home) /\ posts' = posts /\ sent' = sent
    BY RecoverEffect DEF PlacesInv
  <1>2. /\ \A n \in SeatIds : SameIds(seats'[n].queue, seats[n].queue)
        /\ \A n \in SeatIds : seats[n] # NoSeat => seats'[n] = seats[n]
    BY <1>1, RecoveredReplaces, ReplacesIds
  <1> QED BY <1>1, <1>2, PlacesStay

LEMMA TakePlaces ==
    ASSUME PlacesInv, TypeInv', NEW n \in SeatIds, Take(n) \/ Reap(n)
    PROVE  PlacesInv' /\ Unmoved
  <1>1. posts' = posts /\ sent' = sent
    BY DEF Take, Reap, ledger
  <1>2. CASE Take(n)
    <2>1. \A m \in SeatIds : seats'[m].queue = seats[m].queue /\ seats'[m].session = seats[m].session
      BY <1>2, TakeEffect DEF PlacesInv
    <2> QED BY <1>1, <2>1, PlacesStay, NoneIn
  <1>3. CASE Reap(n)
    <2>1. /\ seats[n].queue = <<>> /\ seats'[n] = NoSeat
          /\ \A k \in DOMAIN posts : posts[k].seat # n
          /\ \A m \in SeatIds \ {n} : seats'[m] = seats[m]
      BY <1>3, ReapEffect DEF PlacesInv
    <2>2. NoSeat.queue = <<>>
      BY DEF NoSeat
    <2>3. \A m \in SeatIds : SameIds(seats'[m].queue, seats[m].queue)
      BY <2>1, <2>2, NoneIn
    <2>4. \A j \in Ids : ~Queued(seats, n, j) /\ ~PostedBy(posts, n, j)
      BY <2>1, NoneIn DEF Queued, PostedBy
    <2> QED BY <1>1, <2>1, <2>3, <2>4, PlacesStay
  <1> QED BY <1>2, <1>3

LEMMA ServePlaces ==
    ASSUME PlacesInv, TypeInv', NEW at \in SeatIds, Serve(at)
    PROVE  /\ PlacesInv'
           /\ \/ Head(seats[at].queue).id = 0 /\ Unmoved
              \/ Head(seats[at].queue).id \in Ids /\ Answers(Head(seats[at].queue).id, at)
  <1> DEFINE i == Head(seats[at].queue).id
  <1>1. PICK code \in Codes, graph \in {"none", "clean", "dirty"}, value \in Values,
             died \in BOOLEAN :
               Finish(at, code, graph, value, died) /\ Served(at, code, graph, value, died)
    BY ServeEffect DEF PlacesInv
  <1>2. /\ seats[at].queue # <<>> /\ seats'[at].queue = Tail(seats[at].queue)
        /\ seats'[at].session = seats[at].session
        /\ \A m \in SeatIds \ {at} : seats'[m] = seats[m]
        /\ DOMAIN posts \subseteq DOMAIN posts' /\ \A k \in DOMAIN posts : posts'[k] = posts[k]
        /\ \A k \in DOMAIN posts' \ DOMAIN posts :
             \/ /\ k = Len(posts) + 1 /\ i # 0
                /\ posts'[k] = [seat |-> at, id |-> i, code |-> code]
             \/ died /\ posts'[k] = [seat |-> at, id |-> 0, code |-> "died"]
        /\ i # 0 => /\ Len(posts) + 1 \in DOMAIN posts' \ DOMAIN posts
                    /\ posts'[Len(posts) + 1] = [seat |-> at, id |-> i, code |-> code]
    BY <1>1 DEF Served
  <1>3. sent' = sent
    BY <1>1 DEF Finish, ledger
  <1>4. seats[at].queue \in Seq(Waiting)
    BY LedgerType, SeatOrNone DEF PlacesInv, Sound, Whole
  <1>5. i \in Ids \union {0}
    <2>1. Head(seats[at].queue) \in Waiting
      <3> HIDE DEF Waiting
      <3> QED BY <1>2, <1>4
    <2> QED BY <2>1 DEF Waiting
  <1> HIDE DEF i
  <1>6. /\ \A j : In(seats'[at].queue, j) => In(seats[at].queue, j)
        /\ \A j : In(seats[at].queue, j) /\ i # j => In(seats'[at].queue, j)
        /\ \A j : Single(seats[at].queue, j) => Single(seats'[at].queue, j)
        /\ \A j : Single(seats[at].queue, j) /\ i = j => ~In(seats'[at].queue, j)
        /\ In(seats[at].queue, i)
    <2> HIDE DEF Waiting
    <2> QED BY <1>2, <1>4, TailIds DEF i
  <1>7. \A j \in Ids, n \in SeatIds :
          /\ Single(seats'[n].queue, j)
          /\ Queued(seats', n, j) <=> Queued(seats, n, j) /\ j # i
          /\ i \in Ids => Queued(seats, at, i)
    <2>1. \A j \in Ids : Single(seats[at].queue, j)
      BY DEF PlacesInv, Distinct
    <2>2. i \in Ids => \A n \in SeatIds \ {at} : ~Queued(seats, n, i)
      BY <1>6 DEF PlacesInv, Distinct, Queued
    <2>3. \A j \in Ids, n \in SeatIds : Single(seats'[n].queue, j)
      BY <1>2, <1>6, <2>1 DEF PlacesInv, Distinct
    <2>4. \A j \in Ids, n \in SeatIds : Queued(seats', n, j) <=> Queued(seats, n, j) /\ j # i
      BY <1>2, <1>6, <2>1, <2>2 DEF Queued
    <2> QED BY <1>6, <2>3, <2>4 DEF Queued
  <1>8. 0 \notin Ids
    BY RequestAssumption
  <1>9. \A k \in DOMAIN posts' : posts'[k].code = "died" <=> posts'[k].id = 0
    <2> SUFFICES ASSUME NEW k \in DOMAIN posts'
                 PROVE  posts'[k].code = "died" <=> posts'[k].id = 0
      OBVIOUS
    <2>1. CASE k \in DOMAIN posts
      BY <1>2, <2>1 DEF PlacesInv, Belonging
    <2>2. CASE k \notin DOMAIN posts
      BY <1>2, <2>2 DEF Codes
    <2> QED BY <2>1, <2>2
  <1>10. ASSUME NEW j \in Ids, NEW k \in DOMAIN posts', posts'[k].id = j
         PROVE  \/ k \in DOMAIN posts /\ posts[k].id = j /\ posts[k].seat = posts'[k].seat
                \/ k = Len(posts) + 1 /\ j = i /\ posts'[k].seat = at
    <2>1. CASE k \in DOMAIN posts
      BY <1>2, <1>10, <2>1
    <2>2. CASE k \notin DOMAIN posts
      BY <1>2, <1>8, <1>10, <2>2
    <2> QED BY <2>1, <2>2
  <1>11. CASE i = 0
    <2>1. \A j \in Ids, k \in DOMAIN posts' : posts'[k].id = j =>
            k \in DOMAIN posts /\ posts[k].id = j /\ posts[k].seat = posts'[k].seat
      BY <1>8, <1>10, <1>11
    <2>2. \A j \in Ids : Single(posts', j)
      BY <2>1 DEF PlacesInv, Distinct, Single
    <2>3. \A j \in Ids, n \in SeatIds : PostedBy(posts', n, j) <=> PostedBy(posts, n, j)
      BY <1>2, <2>1 DEF PostedBy
    <2>4. Unmoved
      BY <1>7, <1>8, <1>11, <2>3 DEF Unmoved
    <2>5. PlacesInv'
      BY <1>2, <1>3, <1>7, <1>9, <2>2, <2>3, PlacesShrink
    <2> QED BY <1>11, <2>4, <2>5 DEF i
  <1>12. CASE i \in Ids
    <2>1. \A n \in SeatIds : ~PostedBy(posts, n, i)
      BY <1>7, <1>12 DEF PlacesInv, Distinct
    <2>2. \A k \in DOMAIN posts : posts[k].id # i
      <3>1. \A k \in DOMAIN posts : posts[k].seat \in SeatIds
        <4>1. posts \in Seq(Post)
          BY LedgerType DEF PlacesInv, Delivering
        <4>2. \A k \in DOMAIN posts : posts[k] \in Post
          <5> HIDE DEF Post
          <5> QED BY <4>1
        <4> QED BY <4>2 DEF Post
      <3> QED BY <2>1, <3>1 DEF PostedBy
    <2>3. \A j \in Ids : Single(posts', j)
      <3> SUFFICES ASSUME NEW j \in Ids, NEW k \in DOMAIN posts', NEW l \in DOMAIN posts',
                          posts'[k].id = j, posts'[l].id = j
                   PROVE  k = l
        BY DEF Single
      <3>1. CASE j = i
        BY <1>10, <2>2, <3>1
      <3>2. CASE j # i
        BY <1>10, <3>2 DEF PlacesInv, Distinct, Single
      <3> QED BY <3>1, <3>2
    <2>4. \A j \in Ids, n \in SeatIds :
            PostedBy(posts', n, j) <=> PostedBy(posts, n, j) \/ (n = at /\ j = i)
      <3> SUFFICES ASSUME NEW j \in Ids, NEW n \in SeatIds
                   PROVE  PostedBy(posts', n, j) <=> PostedBy(posts, n, j) \/ (n = at /\ j = i)
        OBVIOUS
      <3>1. PostedBy(posts', n, j) => PostedBy(posts, n, j) \/ (n = at /\ j = i)
        BY <1>10 DEF PostedBy
      <3>2. PostedBy(posts, n, j) => PostedBy(posts', n, j)
        BY <1>2 DEF PostedBy
      <3>3. n = at /\ j = i => PostedBy(posts', n, j)
        <4>1. /\ Len(posts) + 1 \in DOMAIN posts'
              /\ posts'[Len(posts) + 1] = [seat |-> at, id |-> i, code |-> code]
          BY <1>2, <1>8, <1>12
        <4> QED BY <4>1 DEF PostedBy
      <3> QED BY <3>1, <3>2, <3>3
    <2>5. Answers(i, at)
      BY <1>7, <2>4 DEF Answers
    <2>6. PlacesInv'
      <3>1. Distinct(seats', posts')
        BY <1>7, <2>1, <2>3, <2>4 DEF Distinct, PlacesInv
      <3>2. Belonging(seats', posts')
        <4> SUFFICES ASSUME NEW j \in Ids, NEW n \in SeatIds,
                            Queued(seats', n, j) \/ PostedBy(posts', n, j)
                     PROVE  Request[j].session = seats'[n].session
          BY <1>9 DEF Belonging
        <4>1. seats'[n].session = seats[n].session
          BY <1>2
        <4>2. Queued(seats, n, j) \/ PostedBy(posts, n, j)
          BY <1>7, <1>12, <2>4
        <4> QED BY <4>1, <4>2 DEF PlacesInv, Belonging
      <3>3. \A j \in Ids \ sent' : \A n \in SeatIds : ~Queued(seats', n, j) /\ ~PostedBy(posts', n, j)
        BY <1>3, <1>7, <1>12, <2>4, HoldsIs DEF PlacesInv
      <3>4. (\A j \in Ids \ sent : \A n \in SeatIds : ~Holds(n, j))'
        BY <3>3 DEF Holds, Queued, In, PostedBy
      <3> QED BY <3>1, <3>2, <3>4 DEF PlacesInv
    <2> QED BY <1>12, <2>5, <2>6 DEF i
  <1> QED BY <1>5, <1>11, <1>12
=============================================================================
