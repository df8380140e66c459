----------------------- MODULE SupervisorRequestProofs -----------------------
(***************************************************************************)
(* Theorems about the requests a client is owed an answer for. RequestsInv *)
(* has three parts: PlacesInv of SupervisorProofs, that a request is in    *)
(* one place; Books, that what is owed is in a place its answer comes      *)
(* from; Aimed, that a cancel waiting for its grace is for a request still *)
(* owed.  LogInv goes on from there to the log and the graph: the queue of *)
(* a session's seat leads its graph to the log, or to the last unacked     *)
(* write that it does not hold itself.                                     *)
(***************************************************************************)
EXTENDS SupervisorProofs

(* The ledger *)

\* Somewhere a request's answer will come from.
Held(i) == \E n \in SeatIds : Queued(seats, n, i) \/ PostedBy(posts, n, i)

\* What the client was told of a request, by where the request is.
Counted(i) ==
    /\ i \notin sent => told[i] = 0
    /\ i \in outstanding => told[i] = 0 /\ i \notin orphaned
    /\ Held(i) => i \in outstanding \/ (i \in orphaned /\ told[i] <= 1)
    /\ told[i] <= IF i \in orphaned THEN 2 ELSE 1

\* A request owed is held, and there is a connection to answer it on.
Accounted(i) ==
    i \in sent =>
        IF i \in outstanding
        THEN /\ Request[i].session \in route
             /\ Request[i].session \notin todo => Held(i)
        ELSE told[i] > 0

\* An open still to be answered is all that is owed on its session.
Opening(s) ==
    /\ s \in route => Opened(s)
    /\ meta[s] = "opening" =>
         \A i \in outstanding : Request[i].session = s => Request[i].kind = "open"

Books == /\ \A i \in Ids : Counted(i) /\ Accounted(i)
         /\ \A s \in Sessions : Opening(s)

\* A seat of a session that runs a request or has posted its answer.
Working(s, i) ==
    \E n \in SeatIds : /\ seats[n].held /\ seats[n].session = s
                       /\ Runs(n, i) \/ PostedBy(posts, n, i)

\* What a session's cancels wait for is owed, and its own seat is at it.
Aimed == \A s \in Sessions : \A i \in sessions[s].targets :
    /\ i \in outstanding /\ Request[i].session = s
    /\ s \notin todo => Working(s, i)

RequestsInv == PlacesInv /\ Books /\ Aimed

LEMMA LedgerTypes ==
    ASSUME RequestsInv
    PROVE  /\ TypeInv /\ Books /\ Aimed /\ PlacesInv
           /\ told \in [Ids -> Nat] /\ outstanding \subseteq sent /\ sent \subseteq Ids
           /\ orphaned \subseteq sent /\ outstanding \subseteq Ids /\ route \subseteq Sessions
           /\ \A i \in Ids : Held(i) => i \in sent
           /\ \A i \in Ids : Request[i].session \in Sessions
  <1>1. TypeInv
    BY DEF RequestsInv, PlacesInv
  <1>2. \A i \in Ids : Held(i) => i \in sent
    BY HoldsIs DEF RequestsInv, PlacesInv, Held
  <1> QED BY <1>1, <1>2, LedgerType, RequestType DEF RequestsInv

LEMMA HeldMoves ==
    /\ Unmoved => \A j \in Ids : Held(j)' <=> Held(j)
    /\ \A i, at : at \in SeatIds /\ Arrives(i, at) => \A j \in Ids : Held(j)' <=> Held(j) \/ j = i
    /\ \A i : Leaves(i) => \A j \in Ids : Held(j)' <=> Held(j) /\ j # i
    /\ \A i, at : at \in SeatIds /\ Held(i) /\ Answers(i, at) =>
         \A j \in Ids : Held(j)' <=> Held(j)
    /\ \A gone : Empties(gone) => \A j \in Ids :
         Held(j)' <=> \E n \in SeatIds \ gone : Queued(seats, n, j) \/ PostedBy(posts, n, j)
  <1>1. \A j : Held(j)' <=> \E n \in SeatIds : Queued(seats', n, j) \/ PostedBy(posts', n, j)
    BY DEF Held, Queued, In, PostedBy
  <1>2. Unmoved => \A j \in Ids : Held(j)' <=> Held(j)
    BY <1>1 DEF Unmoved, Held
  <1>3. ASSUME NEW i, NEW at \in SeatIds, Arrives(i, at), NEW j \in Ids
        PROVE  Held(j)' <=> Held(j) \/ j = i
    BY <1>1, <1>3 DEF Arrives, Held
  <1>4. ASSUME NEW i, Leaves(i), NEW j \in Ids
        PROVE  Held(j)' <=> Held(j) /\ j # i
    BY <1>1, <1>4 DEF Leaves, Held
  <1>5. ASSUME NEW i, NEW at \in SeatIds, Held(i), Answers(i, at), NEW j \in Ids
        PROVE  Held(j)' <=> Held(j)
    BY <1>1, <1>5 DEF Answers, Held
  <1>6. ASSUME NEW gone, Empties(gone), NEW j \in Ids
        PROVE  Held(j)' <=> \E n \in SeatIds \ gone : Queued(seats, n, j) \/ PostedBy(posts, n, j)
    BY <1>1, <1>6 DEF Empties
  <1> QED BY <1>2, <1>3, <1>4, <1>5, <1>6

LEMMA BooksStay ==
    ASSUME RequestsInv, UNCHANGED <<outstanding, sent, told, orphaned, route, meta, todo>>,
           \A j \in Ids : Held(j)' <=> Held(j)
    PROVE  Books'
  <1>1. \A j \in Ids : Counted(j)'
    BY LedgerTypes DEF Books, Counted
  <1>2. \A j \in Ids : Accounted(j)'
    BY LedgerTypes DEF Books, Accounted
  <1>3. \A s \in Sessions : Opening(s)'
    BY LedgerTypes DEF Books, Opening, Opened
  <1> QED BY <1>1, <1>2, <1>3 DEF Books

\* A request comes in and is on a seat.
LEMMA BooksOwed ==
    ASSUME RequestsInv, NEW i \in Ids \ sent, sent' = sent \union {i},
           outstanding' = outstanding \union {i}, told' = told, orphaned' = orphaned,
           route \subseteq route', Request[i].session \in route', todo' = todo,
           \A j \in Ids : Held(j)' <=> Held(j) \/ j = i,
           \A s \in Sessions : s \in route' =>
             s \in route \/ (s = Request[i].session /\ Request[i].kind = "open"),
           \A s \in Sessions : meta'[s] = "opening" =>
             \/ meta[s] = "opening" /\ s # Request[i].session
             \/ Request[i].kind = "open" /\ \A j \in outstanding : Request[j].session # s
    PROVE  Books'
  <1>1. ASSUME NEW j \in Ids PROVE Counted(j)'
    BY LedgerTypes DEF Books, Counted
  <1>2. ASSUME NEW j \in Ids PROVE Accounted(j)'
    BY LedgerTypes DEF Books, Accounted
  <1>3. ASSUME NEW s \in Sessions PROVE Opening(s)'
    <2>1. s \in route' => Opened(s)'
      BY LedgerTypes DEF Books, Opening, Opened
    <2>2. ASSUME meta'[s] = "opening", NEW j \in outstanding', Request[j].session = s
          PROVE  Request[j].kind = "open"
      BY <2>2, LedgerTypes DEF Books, Opening
    <2> QED BY <2>1, <2>2 DEF Opening
  <1> QED BY <1>1, <1>2, <1>3 DEF Books

\* A request is answered within the handler that gets it.
LEMMA BooksRefused ==
    ASSUME RequestsInv, NEW i \in Ids \ sent, sent' = sent \union {i},
           outstanding' = outstanding, orphaned' = orphaned, todo' = todo,
           told' = [told EXCEPT ![i] = told[i] + 1],
           route' \subseteq route,
           \A j \in outstanding : Request[j].session \in route => Request[j].session \in route',
           \A j \in Ids : Held(j)' <=> Held(j),
           \A s \in Sessions : meta'[s] = "opening" => meta[s] = "opening"
    PROVE  Books'
  <1>0. told'[i] = 1 /\ \A j \in Ids \ {i} : told'[j] = told[j]
    BY LedgerTypes DEF Books, Counted
  <1>1. ASSUME NEW j \in Ids PROVE Counted(j)'
    BY <1>0, LedgerTypes DEF Books, Counted
  <1>2. ASSUME NEW j \in Ids PROVE Accounted(j)'
    BY <1>0, LedgerTypes DEF Books, Accounted
  <1>3. ASSUME NEW s \in Sessions PROVE Opening(s)'
    BY LedgerTypes DEF Books, Opening, Opened
  <1> QED BY <1>1, <1>2, <1>3 DEF Books

\* A terminal frame: the request is nowhere any more.
LEMMA BooksAnswered ==
    ASSUME RequestsInv, NEW i \in Ids, Held(i), NEW s, s = Request[i].session,
           Deliver(i, s), sent' = sent, orphaned' = orphaned, todo' = todo,
           \A j \in Ids : Held(j)' <=> Held(j) /\ j # i,
           \A r \in Sessions : meta'[r] = "opening" => meta[r] = "opening"
    PROVE  Books'
  <1>1. /\ told' = [j \in Ids |-> IF j \in {i} /\ s \in route THEN told[j] + 1 ELSE told[j]]
        /\ outstanding' = outstanding \ {i}
        /\ route' = IF meta'[s] = "none" /\ OwedOn(s) \ {i} = {} THEN route \ {s} ELSE route
    BY DEF Deliver, Tell
  <1>2. /\ \A j \in Ids \ {i} : told'[j] = told[j]
        /\ told'[i] = IF s \in route THEN told[i] + 1 ELSE told[i]
        /\ told[i] \in Nat
    BY <1>1, LedgerTypes
  <1>3. ASSUME NEW j \in Ids PROVE Counted(j)'
    <2>1. CASE j = i
      BY <1>1, <1>2, <2>1, LedgerTypes DEF Books, Counted
    <2>2. CASE j # i
      BY <1>1, <1>2, <2>2, LedgerTypes DEF Books, Counted
    <2> QED BY <2>1, <2>2
  <1>4. \A j \in outstanding' : Request[j].session \in route => Request[j].session \in route'
    BY <1>1 DEF OwedOn
  <1>5. ASSUME NEW j \in Ids PROVE Accounted(j)'
    <2>1. CASE j = i
      BY <1>1, <1>2, <2>1, LedgerTypes DEF Books, Accounted
    <2>2. CASE j # i
      BY <1>1, <1>2, <1>4, <2>2, LedgerTypes DEF Books, Accounted
    <2> QED BY <2>1, <2>2
  <1>6. ASSUME NEW r \in Sessions PROVE Opening(r)'
    BY <1>1, LedgerTypes DEF Books, Opening, Opened
  <1> QED BY <1>3, <1>5, <1>6 DEF Books

\* An open is refused: it was all its session owed.
LEMMA BooksForget ==
    ASSUME RequestsInv, NEW i \in Ids, Held(i), NEW s, s = Request[i].session,
           Request[i].kind = "open", meta[s] = "opening",
           Tell({i}, s), Forget(s), sent' = sent, orphaned' = orphaned, todo' = todo,
           \A j \in Ids : Held(j)' <=> Held(j) /\ j # i
    PROVE  Books'
  <1>1. /\ told' = [j \in Ids |-> IF j \in {i} /\ s \in route THEN told[j] + 1 ELSE told[j]]
        /\ outstanding' = outstanding \ OwedOn(s)
        /\ route' = route \ {s}
        /\ meta' = [meta EXCEPT ![s] = "none"]
    BY DEF Forget, Tell
  <1>2. /\ \A j \in Ids \ {i} : told'[j] = told[j]
        /\ told'[i] = IF s \in route THEN told[i] + 1 ELSE told[i]
        /\ told[i] \in Nat
    BY <1>1, LedgerTypes
  <1>3. \A j \in outstanding : Request[j].session = s => j = i
    BY LedgerTypes, RequestAssumption DEF Books, Opening
  <1>4. \A j \in Ids : j \in outstanding' <=> j \in outstanding /\ Request[j].session # s
    BY <1>1 DEF OwedOn
  <1>5. ASSUME NEW j \in Ids PROVE Counted(j)'
    <2>1. CASE j = i
      BY <1>2, <1>4, <2>1, LedgerTypes DEF Books, Counted
    <2>2. CASE j # i
      BY <1>2, <1>3, <1>4, <2>2, LedgerTypes DEF Books, Counted
    <2> QED BY <2>1, <2>2
  <1>6. ASSUME NEW j \in Ids PROVE Accounted(j)'
    <2>1. CASE j = i
      BY <1>2, <1>4, <2>1, LedgerTypes DEF Books, Accounted
    <2>2. CASE j # i
      BY <1>1, <1>2, <1>3, <1>4, <2>2, LedgerTypes DEF Books, Accounted
    <2> QED BY <2>1, <2>2
  <1>7. ASSUME NEW r \in Sessions PROVE Opening(r)'
    <2>1. meta'[r] = "opening" => meta[r] = "opening"
      BY <1>1, LedgerTypes, LedgerType
    <2> QED BY <1>1, <2>1, LedgerTypes DEF Books, Opening, Opened
  <1> QED BY <1>5, <1>6, <1>7 DEF Books

\* A worker is killed: what its seats had waits for their sessions' replay.
LEMMA BooksKilled ==
    ASSUME RequestsInv, UNCHANGED ledger, todo \subseteq todo',
           \A j \in Ids : Held(j)' => Held(j),
           \A j \in Ids : Held(j) /\ Request[j].session \notin todo' => Held(j)'
    PROVE  Books'
  <1>0. UNCHANGED <<outstanding, sent, told, orphaned, route, meta>>
    BY DEF ledger
  <1>1. \A j \in Ids : Counted(j)'
    BY <1>0, LedgerTypes DEF Books, Counted
  <1>2. \A j \in Ids : Accounted(j)'
    BY <1>0, LedgerTypes DEF Books, Accounted
  <1>3. \A s \in Sessions : Opening(s)'
    BY <1>0, LedgerTypes DEF Books, Opening, Opened
  <1> QED BY <1>1, <1>2, <1>3 DEF Books

\* A session is replayed or dropped, and what it owed is failed.
LEMMA BooksFailed ==
    ASSUME RequestsInv, TypeInv', NEW s \in Sessions, NEW ss, NEW home, Recovered(s, ss, home),
           sent' = sent, s \notin todo', \A r \in Sessions \ {s} : r \in todo' <=> r \in todo,
           \A j \in Ids : Held(j)' => Held(j),
           \A j \in Ids : Held(j) /\ Request[j].session # s => Held(j)'
    PROVE  Books'
  <1>1. /\ outstanding' = outstanding \ OwedOn(s) /\ Fail(s)
        /\ route' \subseteq route /\ route \ {s} \subseteq route'
        /\ \A r \in Sessions \ {s} : meta'[r] = meta[r]
        /\ meta'[s] \in {meta[s], "none"}
    BY DEF Recovered
  <1>2. OwedOn(s) \union sessions[s].targets = OwedOn(s)
    BY LedgerTypes DEF Aimed, OwedOn
  <1>3. \A j \in Ids : told'[j] = IF j \in OwedOn(s) /\ s \in route THEN told[j] + 1 ELSE told[j]
    BY <1>1, <1>2 DEF Fail, Tell
  <1>4. \A j \in Ids : Held(j)' <=> \E n \in SeatIds :
          /\ seats'[n] # NoSeat
          /\ \/ \E k \in DOMAIN seats'[n].queue : seats'[n].queue[k].id = j
             \/ \E k \in DOMAIN posts' : posts'[k].seat = n /\ posts'[k].id = j
    <2> SUFFICES ASSUME NEW j \in Ids, NEW n \in SeatIds,
                        \/ \E k \in DOMAIN seats'[n].queue : seats'[n].queue[k].id = j
                        \/ \E k \in DOMAIN posts' : posts'[k].seat = n /\ posts'[k].id = j
                 PROVE  seats'[n] # NoSeat
      BY DEF Held, Queued, In, PostedBy
    <2>1. CASE \E k \in DOMAIN seats'[n].queue : seats'[n].queue[k].id = j
      <3>1. seats'[n].queue # <<>>
        BY <2>1
      <3>2. NoSeat.queue = <<>>
        BY DEF NoSeat
      <3> QED BY <3>1, <3>2
    <2>2. CASE \E k \in DOMAIN posts' : posts'[k].seat = n /\ posts'[k].id = j
      BY <2>2 DEF TypeInv, Delivering
    <2> QED BY <2>1, <2>2
  <1>5. \A j \in Ids : j \in orphaned' <=> j \in orphaned \/ (j \in OwedOn(s) /\ Held(j)')
    <2>1. orphaned' = orphaned \union
             {j \in OwedOn(s) : \E n \in SeatIds :
                 /\ seats'[n] # NoSeat
                 /\ \/ \E k \in DOMAIN seats'[n].queue : seats'[n].queue[k].id = j
                    \/ \E k \in DOMAIN posts' : posts'[k].seat = n /\ posts'[k].id = j}
      BY <1>1 DEF Fail
    <2> QED BY <1>4, <2>1
  <1>6. \A j \in Ids : j \in OwedOn(s) <=> j \in outstanding /\ Request[j].session = s
    BY DEF OwedOn
  <1>7. \A j \in Ids : told[j] \in Nat
    BY LedgerTypes
  <1>8. ASSUME NEW j \in Ids PROVE Counted(j)'
    <2>1. CASE j \in OwedOn(s)
      BY <1>1, <1>3, <1>5, <1>6, <1>7, <2>1, LedgerTypes DEF Books, Counted
    <2>2. CASE j \notin OwedOn(s)
      BY <1>1, <1>3, <1>5, <1>6, <1>7, <2>2, LedgerTypes DEF Books, Counted
    <2> QED BY <2>1, <2>2
  <1>9. ASSUME NEW j \in Ids PROVE Accounted(j)'
    <2>1. CASE j \in OwedOn(s)
      BY <1>1, <1>3, <1>6, <1>7, <2>1, LedgerTypes DEF Books, Counted, Accounted
    <2>2. CASE j \notin OwedOn(s)
      BY <1>1, <1>3, <1>6, <1>7, <2>2, LedgerTypes DEF Books, Accounted
    <2> QED BY <2>1, <2>2
  <1>10. ASSUME NEW r \in Sessions PROVE Opening(r)'
    <2>1. meta'[r] = "opening" => meta[r] = "opening"
      BY <1>1
    <2> QED BY <1>1, <2>1, LedgerTypes DEF Books, Opening, Opened
  <1> QED BY <1>8, <1>9, <1>10 DEF Books
-----------------------------------------------------------------------------
(* What a cancel waits for *)

\* A seat in the table stays there, and goes on with what it runs or answers it.
Carries(n) ==
    seats[n].held =>
        /\ seats'[n].held /\ seats'[n].session = seats[n].session
        /\ \A i \in Ids : Runs(n, i) =>
             \/ Head(seats'[n].queue).id = i /\ seats'[n].busy
             \/ PostedBy(posts', n, i)

LEMMA WorkingStays ==
    ASSUME NEW s \in Sessions, NEW i \in Ids, Working(s, i),
           \A n \in SeatIds : seats[n].session = s => Carries(n),
           \A n \in SeatIds : seats[n].held /\ seats[n].session = s /\ PostedBy(posts, n, i) =>
             PostedBy(posts', n, i)
    PROVE  Working(s, i)'
  <1>1. PICK n \in SeatIds : /\ seats[n].held /\ seats[n].session = s
                             /\ Runs(n, i) \/ PostedBy(posts, n, i)
    BY DEF Working
  <1>2. /\ seats'[n].held /\ seats'[n].session = s
        /\ \/ Head(seats'[n].queue).id = i /\ seats'[n].busy
           \/ PostedBy(posts', n, i)
    BY <1>1 DEF Carries
  <1> QED BY <1>2 DEF Working, Runs, PostedBy

LEMMA CarriesSame ==
    ASSUME NEW n \in SeatIds, seats'[n] = seats[n]
    PROVE  Carries(n)
  BY DEF Carries, Runs

\* A frame behind what a seat has leaves what it runs.
LEMMA CarriesSend ==
    ASSUME TypeInv, NEW s \in Sessions, NEW at \in Placed(s), NEW f \in Waiting,
           seats' = Send(seats, at, f), NEW n \in SeatIds, f.kind # "close" \/ n # at
    PROVE  Carries(n)
  <1>1. /\ at \in SeatIds /\ seats[at].held /\ Whole(seats)
    BY PlacedSeat, LedgerType DEF Sound
  <1>2. /\ seats'[at].session = seats[at].session
        /\ seats'[at].held <=> f.kind # "close"
        /\ seats'[at].queue = Append(seats[at].queue, f)
        /\ seats'[at].busy = seats[at].busy
        /\ \A m \in SeatIds \ {at} : seats'[m] = seats[m]
    BY <1>1, SendEffect
  <1>3. CASE n = at
    <2>1. seats[n].busy => seats[n].queue # <<>> /\ seats[n].queue \in Seq(Waiting)
      BY <1>1, SeatOrNone DEF Whole
    <2>2. seats[n].busy => Head(seats'[n].queue) = Head(seats[n].queue)
      <3> HIDE DEF Waiting
      <3> QED BY <1>2, <1>3, <2>1
    <2> QED BY <1>2, <1>3, <2>2 DEF Carries, Runs
  <1>4. CASE n # at
    BY <1>2, <1>4, CarriesSame
  <1> QED BY <1>3, <1>4

\* A step that leaves the targets of every session but one as they are, and the
\* places and the ledger of the others.
LEMMA AimedStays ==
    ASSUME RequestsInv, NEW s,
           \A r \in Sessions \ {s} : sessions'[r].targets \subseteq sessions[r].targets,
           \A r \in Sessions \ {s} : r \in todo => r \in todo',
           \A i \in outstanding : Request[i].session # s => i \in outstanding',
           \A n \in SeatIds : seats[n].session # s /\ seats[n].session \notin todo' => Carries(n),
           \A i \in Ids, n \in SeatIds :
             PostedBy(posts, n, i) /\ seats[n].held /\ seats[n].session # s
                 /\ seats[n].session \notin todo' =>
               PostedBy(posts', n, i),
           s \in Sessions => \A i \in sessions'[s].targets :
             /\ i \in outstanding' /\ Request[i].session = s
             /\ s \notin todo' => Working(s, i)'
    PROVE  Aimed'
  <1> SUFFICES ASSUME NEW r \in Sessions, NEW i \in sessions'[r].targets
               PROVE  /\ i \in outstanding' /\ Request[i].session = r
                      /\ r \notin todo' => Working(r, i)'
    BY DEF Aimed
  <1>1. CASE r = s
    BY <1>1
  <1>2. CASE r # s
    <2>1. i \in outstanding /\ Request[i].session = r /\ (r \notin todo => Working(r, i)) /\ i \in Ids
      BY <1>2, LedgerTypes DEF Aimed
    <2>2. i \in outstanding'
      BY <1>2, <2>1
    <2>3. ASSUME r \notin todo' PROVE Working(r, i)'
      <3>1. Working(r, i)
        BY <1>2, <2>1, <2>3
      <3>2. \A n \in SeatIds : seats[n].session = r => Carries(n)
        BY <1>2, <2>3
      <3>3. \A n \in SeatIds : seats[n].held /\ seats[n].session = r /\ PostedBy(posts, n, i) =>
              PostedBy(posts', n, i)
        BY <1>2, <2>1, <2>3
      <3> QED BY <2>1, <3>1, <3>2, <3>3, WorkingStays
    <2> QED BY <2>1, <2>2, <2>3
  <1> QED BY <1>1, <1>2

LEMMA AimedKept ==
    ASSUME RequestsInv,
           \A r \in Sessions : sessions'[r].targets \subseteq sessions[r].targets,
           todo \subseteq todo',
           \A r \in Sessions : \A i \in sessions'[r].targets :
             i \in outstanding /\ Request[i].session = r => i \in outstanding',
           \A n \in SeatIds : seats[n].session \notin todo' => Carries(n),
           \A r \in Sessions : \A i \in sessions'[r].targets : \A n \in SeatIds :
             PostedBy(posts, n, i) /\ seats[n].held /\ seats[n].session \notin todo' =>
               PostedBy(posts', n, i)
    PROVE  Aimed'
  <1> SUFFICES ASSUME NEW r \in Sessions, NEW i \in sessions'[r].targets
               PROVE  /\ i \in outstanding' /\ Request[i].session = r
                      /\ r \notin todo' => Working(r, i)'
    BY DEF Aimed
  <1>1. i \in outstanding /\ Request[i].session = r /\ (r \notin todo => Working(r, i)) /\ i \in Ids
    BY LedgerTypes DEF Aimed
  <1>2. ASSUME r \notin todo' PROVE Working(r, i)'
    <2>1. Working(r, i)
      BY <1>1, <1>2
    <2>2. \A n \in SeatIds : seats[n].session = r => Carries(n)
      BY <1>2
    <2>3. \A n \in SeatIds : seats[n].held /\ seats[n].session = r /\ PostedBy(posts, n, i) =>
            PostedBy(posts', n, i)
      BY <1>2
    <2> QED BY <1>1, <2>1, <2>2, <2>3, WorkingStays
  <1> QED BY <1>1, <1>2

\* Where nobody is killed and no post is taken.
LEMMA AimedQuiet ==
    ASSUME RequestsInv,
           \A r \in Sessions : sessions'[r].targets \subseteq sessions[r].targets,
           todo' = todo, outstanding \subseteq outstanding',
           \A n \in SeatIds : Carries(n),
           \A i \in Ids, n \in SeatIds : PostedBy(posts, n, i) => PostedBy(posts', n, i)
    PROVE  Aimed'
  <1>1. \A r \in Sessions : \A i \in sessions'[r].targets : i \in Ids
    BY LedgerTypes DEF Aimed
  <1> QED BY <1>1, AimedKept

\* A request refused in its own handler, on a session with a connection.
LEMMA AnsweredEffect ==
    ASSUME RequestsInv, NEW i \in Ids, i \notin outstanding, NEW s, s \in route, Deliver(i, s)
    PROVE  /\ told' = [told EXCEPT ![i] = told[i] + 1] /\ outstanding' = outstanding
           /\ route' \subseteq route
           /\ \A j \in outstanding : Request[j].session \in route => Request[j].session \in route'
  <1>1. /\ told' = [j \in Ids |-> IF j \in {i} /\ s \in route THEN told[j] + 1 ELSE told[j]]
        /\ outstanding' = outstanding \ {i}
        /\ route' = IF meta'[s] = "none" /\ OwedOn(s) \ {i} = {} THEN route \ {s} ELSE route
    BY DEF Deliver, Tell
  <1>2. told' = [told EXCEPT ![i] = told[i] + 1]
    BY <1>1, LedgerTypes
  <1>3. \A j \in outstanding : Request[j].session \in route => Request[j].session \in route'
    BY <1>1 DEF OwedOn
  <1> QED BY <1>1, <1>2, <1>3

-----------------------------------------------------------------------------
LEMMA RequestsOpen ==
    ASSUME RequestsInv, TypeInv', NEW i \in Ids, OpenSession(i)
    PROVE  RequestsInv'
  <1>1. PICK s \in Sessions : s = Request[i].session
    BY RequestType
  <1>2. /\ i \notin sent /\ sent' = sent \union {i} /\ todo' = todo /\ posts' = posts
        /\ outstanding' = outstanding \union {i} /\ told' = told /\ orphaned' = orphaned
        /\ route' = route \union {s} /\ meta' = [meta EXCEPT ![s] = "opening"]
        /\ Request[i].kind = "open"
    BY <1>1 DEF OpenSession
  <1>3. PlacesInv' /\ \E at \in SeatIds : Arrives(i, at)
    BY OpenPlaces, LedgerTypes
  <1>4. \A j \in Ids : Held(j)' <=> Held(j) \/ j = i
    BY <1>3, HeldMoves
  <1>5. \A j \in outstanding : Request[j].session # s
    <2>1. ~Opened(s)
      BY <1>1, <1>2, LedgerTypes, RequestAssumption DEF Opened
    <2>2. s \notin route
      BY <2>1, LedgerTypes DEF Books, Opening
    <2> QED BY <2>2, LedgerTypes DEF Books, Accounted
  <1>6. \A r \in Sessions : meta'[r] = "opening" =>
          \/ meta[r] = "opening" /\ r # s
          \/ \A j \in outstanding : Request[j].session # r
    BY <1>2, <1>5, LedgerTypes, LedgerType
  <1>7. Books'
    BY <1>1, <1>2, <1>4, <1>6, BooksOwed
  <1>8. /\ \A r \in Sessions : sessions'[r].targets \subseteq sessions[r].targets
        /\ \A n \in SeatIds : seats[n] # NoSeat => seats'[n] = seats[n]
    <2>1. /\ \A r \in Sessions \ {s} : sessions'[r] = sessions[r]
          /\ sessions'[s].targets = {}
      BY <1>1, OpenEffect, LedgerTypes
    <2>2. PICK at \in SeatIds, w \in Workers :
             /\ sessions'[s].worker = w
             /\ seats[at] = NoSeat
             /\ seats' = [seats EXCEPT ![at] = NewSeat(s, w, <<Frame(i)>>)]
      <3>1. TypeInv
        BY LedgerTypes
      <3>2. \E at \in SeatIds, w \in Workers :
             /\ sessions'[Request[i].session].worker = w
             /\ seats[at] = NoSeat
             /\ seats' = [seats EXCEPT ![at] = NewSeat(Request[i].session, w, <<Frame(i)>>)]
        BY <3>1, OpenEffect
      <3> QED BY <1>1, <3>2
    <2> QED BY <2>1, <2>2
  <1>9. \A n \in SeatIds : Carries(n)
    <2> SUFFICES ASSUME NEW n \in SeatIds PROVE Carries(n)
      OBVIOUS
    <2>1. CASE seats[n] # NoSeat
      BY <1>8, <2>1, CarriesSame
    <2>2. CASE seats[n] = NoSeat
      BY <2>2, NobodyThere DEF Carries
    <2> QED BY <2>1, <2>2
  <1>10. Aimed'
    BY <1>2, <1>8, <1>9, AimedQuiet
  <1> QED BY <1>3, <1>7, <1>10 DEF RequestsInv

LEMMA RequestsOpenThrows ==
    ASSUME RequestsInv, TypeInv', NEW i \in Ids, OpenThrows(i)
    PROVE  RequestsInv'
  <1>1. /\ i \notin sent /\ sent' = sent \union {i}
        /\ told' = [told EXCEPT ![i] = told[i] + 1]
        /\ UNCHANGED <<supervisor, host, meta, route, outstanding, orphaned>>
    BY DEF OpenThrows
  <1>2. seats' = seats /\ posts' = posts /\ sessions' = sessions /\ todo' = todo
    BY <1>1 DEF host, supervisor
  <1>3. PlacesInv' /\ Unmoved
    BY <1>1, QuietPlaces, LedgerTypes
  <1>4. \A j \in Ids : Held(j)' <=> Held(j)
    BY <1>3, HeldMoves
  <1>5. Books'
    BY <1>1, <1>2, <1>4, BooksRefused
  <1>6. Aimed'
    BY <1>1, <1>2, AimedQuiet, CarriesSame
  <1> QED BY <1>3, <1>5, <1>6 DEF RequestsInv

LEMMA RequestsUnknown ==
    ASSUME RequestsInv, TypeInv', NEW i \in Ids, DispatchUnknown(i) \/ DispatchThrows(i)
    PROVE  RequestsInv'
  <1>1. PICK s \in Sessions : s = Request[i].session
    BY RequestType
  <1>2. /\ Receive(i) /\ Deliver(i, s) /\ UNCHANGED host
        /\ todo' = todo /\ orphaned' = orphaned
        /\ meta' = meta \/ meta' = [meta EXCEPT ![s] = "none"]
    BY <1>1 DEF DispatchUnknown, DispatchThrows, Answered, supervisor
  <1>3. sent' = sent \union {i} /\ i \notin sent /\ i \notin outstanding /\ s \in route
    BY <1>1, <1>2, ReceiveType, LedgerTypes
  <1>4. /\ told' = [told EXCEPT ![i] = told[i] + 1] /\ outstanding' = outstanding
        /\ route' \subseteq route
        /\ \A j \in outstanding : Request[j].session \in route => Request[j].session \in route'
    BY <1>2, <1>3, AnsweredEffect
  <1>5. \A r \in Sessions : meta'[r] = "opening" => meta[r] = "opening"
    BY <1>2, LedgerTypes, LedgerType
  <1>6. PlacesInv' /\ Unmoved
    BY <1>2, <1>3, QuietPlaces, LedgerTypes
  <1>7. \A j \in Ids : Held(j)' <=> Held(j)
    BY <1>6, HeldMoves
  <1>8. Books'
    BY <1>2, <1>3, <1>4, <1>5, <1>7, BooksRefused
  <1>9. \A r \in Sessions : sessions'[r].targets = sessions[r].targets
    <2>1. CASE DispatchUnknown(i)
      BY <2>1 DEF DispatchUnknown, supervisor
    <2>2. CASE DispatchThrows(i)
      <3>1. TypeInv
        BY LedgerTypes
      <3>2. /\ \A r \in Sessions \ {s} : sessions'[r] = sessions[r]
            /\ sessions'[s].targets = sessions[s].targets
        BY <1>1, <2>2, <3>1, ThrowEffect
      <3> QED BY <3>2
    <2> QED BY <2>1, <2>2
  <1>10. seats' = seats /\ posts' = posts
    BY <1>2 DEF host
  <1>11. Aimed'
    BY <1>2, <1>4, <1>9, <1>10, AimedQuiet, CarriesSame
  <1> QED BY <1>6, <1>8, <1>11 DEF RequestsInv

\* A request put on its session's seat.
LEMMA RequestsSend ==
    ASSUME RequestsInv, TypeInv', NEW i \in Ids, Dispatch(i)
    PROVE  RequestsInv'
  <1>0. TypeInv
    BY LedgerTypes
  <1>1. PICK s \in Sessions : s = Request[i].session
    BY RequestType
  <1>2. /\ Receive(i) /\ Request[i].kind # "close"
        /\ outstanding' = outstanding \union {i}
        /\ UNCHANGED <<todo, posts, meta, route, told, orphaned>>
    BY DEF Dispatch
  <1>3. /\ sent' = sent \union {i} /\ i \notin sent /\ s \in route /\ meta[s] # "opening"
    BY <1>0, <1>1, <1>2, ReceiveType
  <1>4. /\ \A r \in Sessions \ {s} : sessions'[r] = sessions[r]
        /\ sessions'[s].targets = sessions[s].targets
        /\ \E n \in Placed(s) : seats' = Send(seats, n, Frame(i))
    BY <1>0, <1>1, DispatchEffect
  <1>5. PICK at \in Placed(s) : seats' = Send(seats, at, Frame(i))
    BY <1>4
  <1>6. PlacesInv' /\ Arrives(i, at) /\ at \in SeatIds
    BY <1>0, <1>1, <1>2, <1>3, <1>5, SendPlaces, PlacedSeat, LedgerTypes
  <1>7. \A j \in Ids : Held(j)' <=> Held(j) \/ j = i
    BY <1>6, HeldMoves
  <1>8. Books'
    BY <1>1, <1>2, <1>3, <1>7, BooksOwed
  <1>9. \A n \in SeatIds : Carries(n)
    BY <1>0, <1>2, <1>5, CarriesSend, RequestType
  <1>10. Aimed'
    BY <1>2, <1>4, <1>9, AimedQuiet
  <1> QED BY <1>6, <1>8, <1>10 DEF RequestsInv

LEMMA RequestsClose ==
    ASSUME RequestsInv, TypeInv', NEW i \in Ids, DispatchClose(i)
    PROVE  RequestsInv'
  <1>0. TypeInv
    BY LedgerTypes
  <1>1. PICK s \in Sessions : s = Request[i].session
    BY RequestType
  <1>2. /\ Receive(i) /\ Request[i].kind = "close"
        /\ outstanding' = outstanding \union {i} /\ meta' = [meta EXCEPT ![s] = "none"]
        /\ UNCHANGED <<todo, posts, route, told, orphaned>>
    BY <1>1 DEF DispatchClose
  <1>3. /\ sent' = sent \union {i} /\ i \notin sent /\ s \in route /\ meta[s] # "opening"
    BY <1>0, <1>1, <1>2, ReceiveType
  <1>4. /\ \A r \in Sessions \ {s} : sessions'[r] = sessions[r]
        /\ sessions'[s] = NoSession
        /\ \E n \in Placed(s) : seats' = Send(seats, n, Frame(i))
    BY <1>0, <1>1, ClosingType
  <1>5. PICK at \in Placed(s) : seats' = Send(seats, at, Frame(i))
    BY <1>4
  <1>6. PlacesInv' /\ Arrives(i, at) /\ at \in SeatIds /\ seats[at].session = s
    BY <1>0, <1>1, <1>2, <1>3, <1>5, SendPlaces, PlacedSeat, LedgerTypes
  <1>7. \A j \in Ids : Held(j)' <=> Held(j) \/ j = i
    BY <1>6, HeldMoves
  <1>8. \A r \in Sessions : meta'[r] = "opening" => meta[r] = "opening" /\ r # s
    BY <1>0, <1>2, LedgerType
  <1>9. Books'
    BY <1>1, <1>2, <1>3, <1>7, <1>8, BooksOwed
  <1>10. \A n \in SeatIds : seats[n].session # s => Carries(n)
    BY <1>0, <1>5, <1>6, CarriesSend, RequestType
  <1>11. sessions'[s].targets = {}
    BY <1>4 DEF NoSession
  <1>12. Aimed'
    BY <1>2, <1>4, <1>10, <1>11, AimedStays
  <1> QED BY <1>6, <1>9, <1>12 DEF RequestsInv

\* Where a seat is not in the table there is nothing it could lose.
LEMMA CarriesNothing ==
    ASSUME NEW n \in SeatIds, ~seats[n].held
    PROVE  Carries(n)
  BY DEF Carries

LEMMA RequestsRelocate ==
    ASSUME RequestsInv, TypeInv', NEW i \in Ids, Relocate(i)
    PROVE  RequestsInv'
  <1>0. TypeInv
    BY LedgerTypes
  <1>1. PICK s \in Sessions : s = Request[i].session
    BY RequestType
  <1>2. /\ Receive(i)
        /\ outstanding' = outstanding \union {i}
        /\ UNCHANGED <<todo, posts, meta, route, told, orphaned>>
    BY DEF Relocate
  <1>3. /\ sent' = sent \union {i} /\ i \notin sent /\ s \in route /\ meta[s] # "opening"
    BY <1>0, <1>1, <1>2, ReceiveType
  <1>4. /\ \A r \in Sessions \ {s} : sessions'[r] = sessions[r]
        /\ sessions'[s].targets = {}
    BY <1>0, <1>1, RelocateEffect
  <1>5. \E old \in Placed(s), n \in SeatIds, w \in Workers :
          /\ Send(seats, old, Hangup)[n] = NoSeat /\ n # old
          /\ seats' = [Send(seats, old, Hangup) EXCEPT ![n] =
                         NewSeat(s, w, Append(Rebuild(sessions[s]), Frame(i)))]
    <2>1. \E old \in Placed(Request[i].session), n \in SeatIds, w \in Workers :
            /\ Send(seats, old, Hangup)[n] = NoSeat /\ n # old
            /\ seats' = [Send(seats, old, Hangup) EXCEPT ![n] =
                 NewSeat(Request[i].session, w,
                         Append(Rebuild(sessions[Request[i].session]), Frame(i)))]
      BY <1>0, RelocateEffect
    <2> QED BY <1>1, <2>1
  <1>6. PICK old \in Placed(s), at \in SeatIds : \E new :
          /\ Send(seats, old, Hangup)[at] = NoSeat /\ at # old
          /\ seats' = [Send(seats, old, Hangup) EXCEPT ![at] = new]
    BY <1>5
  <1>7. PlacesInv' /\ \E n \in SeatIds : Arrives(i, n)
    BY RelocatePlaces, LedgerTypes
  <1>8. \A j \in Ids : Held(j)' <=> Held(j) \/ j = i
    BY <1>7, HeldMoves
  <1>9. Books'
    BY <1>1, <1>2, <1>3, <1>8, BooksOwed
  <1>10. \A n \in SeatIds : seats[n].session # s => Carries(n)
    <2> SUFFICES ASSUME NEW n \in SeatIds, seats[n].session # s PROVE Carries(n)
      OBVIOUS
    <2> DEFINE left == Send(seats, old, Hangup)
    <2>1. /\ \A m \in SeatIds \ {old} : left[m] = seats[m]
          /\ left \in Table
      BY <1>0, HangupSame
    <2>2. seats[old].session = s
      BY <1>0, PlacedSeat
    <2>3. PICK new : left[at] = NoSeat /\ seats' = [left EXCEPT ![at] = new]
      BY <1>6
    <2> HIDE DEF left
    <2>4. CASE n = at
      <3>1. seats[n] = NoSeat
        BY <2>1, <2>2, <2>3, <2>4
      <3> QED BY <3>1, NobodyThere, CarriesNothing
    <2>5. CASE n # at
      <3>1. seats'[n] = seats[n]
        BY <2>1, <2>2, <2>3, <2>5 DEF Table
      <3> QED BY <3>1, CarriesSame
    <2> QED BY <2>4, <2>5
  <1>11. Aimed'
    <2>1. \A r \in Sessions \ {s} : sessions'[r].targets \subseteq sessions[r].targets
      BY <1>4
    <2>2. \A r \in Sessions \ {s} : r \in todo => r \in todo'
      BY <1>2
    <2>3. \A j \in outstanding : j \in outstanding'
      BY <1>2
    <2>4. posts' = posts
      BY <1>2
    <2> QED BY <1>4, <1>10, <2>1, <2>2, <2>3, <2>4, AimedStays
  <1> QED BY <1>7, <1>9, <1>11 DEF RequestsInv

LEMMA RequestsRelocateThrows ==
    ASSUME RequestsInv, TypeInv', NEW i \in Ids, RelocateThrows(i)
    PROVE  RequestsInv'
  <1>0. TypeInv
    BY LedgerTypes
  <1>1. PICK s \in Sessions : s = Request[i].session
    BY RequestType
  <1>2. /\ Receive(i) /\ Deliver(i, s)
        /\ UNCHANGED <<todo, posts, meta, orphaned>>
    BY <1>1 DEF RelocateThrows, Answered
  <1>3. sent' = sent \union {i} /\ i \notin sent /\ i \notin outstanding /\ s \in route
    BY <1>0, <1>1, <1>2, ReceiveType
  <1>4. /\ told' = [told EXCEPT ![i] = told[i] + 1] /\ outstanding' = outstanding
        /\ route' \subseteq route
        /\ \A j \in outstanding : Request[j].session \in route => Request[j].session \in route'
    BY <1>2, <1>3, AnsweredEffect
  <1>5. /\ \A r \in Sessions \ {s} : sessions'[r] = sessions[r]
        /\ sessions'[s].targets = {}
        /\ \E old \in Placed(s) : seats' = Send(seats, old, Hangup)
    BY <1>0, <1>1, RelocateThrowsEffect
  <1>6. PICK old \in Placed(s) : seats' = Send(seats, old, Hangup)
    BY <1>5
  <1>7. PlacesInv' /\ Unmoved
    BY RelocateThrowsPlaces, LedgerTypes
  <1>8. \A j \in Ids : Held(j)' <=> Held(j)
    BY <1>7, HeldMoves
  <1>9. Books'
    BY <1>2, <1>3, <1>4, <1>8, BooksRefused
  <1>10. \A n \in SeatIds : seats[n].session # s => Carries(n)
    <2>1. \A m \in SeatIds \ {old} : seats'[m] = seats[m]
      BY <1>0, <1>6, HangupSame
    <2>2. seats[old].session = s
      BY <1>0, PlacedSeat
    <2> QED BY <2>1, <2>2, CarriesSame
  <1>11. Aimed'
    <2>1. \A r \in Sessions \ {s} : sessions'[r].targets \subseteq sessions[r].targets
      BY <1>5
    <2>2. \A r \in Sessions \ {s} : r \in todo => r \in todo'
      BY <1>2
    <2>3. posts' = posts
      BY <1>2
    <2> QED BY <1>4, <1>5, <1>10, <2>1, <2>2, <2>3, AimedStays
  <1> QED BY <1>7, <1>9, <1>11 DEF RequestsInv

\* A request withdrawn from its queue is answered, and no cancel waits for it.
LEMMA RequestsWithdraw ==
    ASSUME RequestsInv, TypeInv', NEW i \in Ids, CancelQueued(i)
    PROVE  RequestsInv'
  <1>0. TypeInv
    BY LedgerTypes
  <1>1. PICK s \in Sessions : s = Request[i].session
    BY RequestType
  <1>2. /\ todo = {} /\ i \notin sessions[s].targets /\ Deliver(i, s)
        /\ UNCHANGED <<todo, posts, meta, sent, orphaned>>
    BY <1>1 DEF CancelQueued, Cancellable, Answered
  <1>3. /\ \A r \in Sessions \ {s} : sessions'[r] = sessions[r]
        /\ sessions'[s].targets = sessions[s].targets
    BY <1>0, <1>1, WithdrawEffect
  <1>4. PICK at \in Placed(s) : \E k \in DOMAIN seats[at].queue :
          /\ seats[at].queue[k] = Frame(i)
          /\ seats[at].busy => k # 1
          /\ seats'[at].queue = RemoveAt(seats[at].queue, k)
          /\ seats'[at].session = seats[at].session
          /\ seats'[at].held /\ seats'[at].busy = seats[at].busy
          /\ \A m \in SeatIds \ {at} : seats'[m] = seats[m]
    BY <1>0, <1>1, WithdrawEffect
  <1>5. PICK k \in DOMAIN seats[at].queue :
          /\ seats[at].queue[k] = Frame(i)
          /\ seats[at].busy => k # 1
          /\ seats'[at].queue = RemoveAt(seats[at].queue, k)
          /\ seats'[at].session = seats[at].session
          /\ seats'[at].held /\ seats'[at].busy = seats[at].busy
          /\ \A m \in SeatIds \ {at} : seats'[m] = seats[m]
    BY <1>4
  <1>6. at \in SeatIds /\ seats[at].queue \in Seq(Waiting) /\ Frame(i).id = i
    BY <1>0, PlacedSeat, LedgerType, SeatOrNone, RequestType DEF Sound, Whole
  <1>7. Held(i)
    BY <1>5, <1>6 DEF Held, Queued, In
  <1>8. PlacesInv' /\ Leaves(i)
    BY WithdrawPlaces, LedgerTypes
  <1>9. \A j \in Ids : Held(j)' <=> Held(j) /\ j # i
    BY <1>8, HeldMoves
  <1>10. Books'
    BY <1>1, <1>2, <1>7, <1>9, BooksAnswered
  <1>11. \A n \in SeatIds : Carries(n)
    <2> SUFFICES ASSUME NEW n \in SeatIds PROVE Carries(n)
      OBVIOUS
    <2>1. CASE n = at
      <3>1. seats[at].busy => Head(seats'[at].queue) = Head(seats[at].queue)
        <4> HIDE DEF Waiting
        <4> QED BY <1>5, <1>6, RemoveAtIds
      <3> QED BY <1>5, <2>1, <3>1 DEF Carries, Runs
    <2>2. CASE n # at
      BY <1>5, <2>2, CarriesSame
    <2> QED BY <2>1, <2>2
  <1>12. \A r \in Sessions : sessions'[r].targets = sessions[r].targets
    BY <1>3
  <1>13. \A r \in Sessions : \A j \in sessions'[r].targets :
           j \in outstanding /\ Request[j].session = r => j \in outstanding'
    <2>1. outstanding' = outstanding \ {i}
      BY <1>2 DEF Deliver
    <2> QED BY <1>1, <1>2, <1>12, <2>1
  <1>14. Aimed'
    BY <1>2, <1>11, <1>12, <1>13, AimedKept
  <1> QED BY <1>8, <1>10, <1>14 DEF RequestsInv

\* A cancel of what runs: its session waits for it from here.
LEMMA RequestsStop ==
    ASSUME RequestsInv, TypeInv', NEW i \in Ids, CancelRunning(i)
    PROVE  RequestsInv'
  <1>0. TypeInv
    BY LedgerTypes
  <1>1. PICK s \in Sessions : s = Request[i].session
    BY RequestType
  <1>2. /\ todo = {} /\ todo' = {} /\ posts' = posts /\ UNCHANGED ledger /\ i \in outstanding
    BY DEF CancelRunning, Cancellable
  <1>3. UNCHANGED <<outstanding, sent, told, orphaned, route, meta, todo>>
    BY <1>2 DEF ledger
  <1>4. /\ \A r \in Sessions \ {s} : sessions'[r] = sessions[r]
        /\ sessions'[s].targets = sessions[s].targets \union {i}
    BY <1>0, <1>1, StopEffect
  <1>5. PICK at \in Placed(s) :
          /\ Runs(at, i)
          /\ seats'[at].queue = seats[at].queue
          /\ seats'[at].session = seats[at].session
          /\ seats'[at].held /\ seats'[at].busy = seats[at].busy
          /\ \A m \in SeatIds \ {at} : seats'[m] = seats[m]
    BY <1>0, <1>1, StopEffect
  <1>6. at \in SeatIds /\ seats[at].held /\ seats[at].session = s
    BY <1>0, PlacedSeat
  <1>7. PlacesInv' /\ Unmoved
    BY StopPlaces, LedgerTypes
  <1>8. \A j \in Ids : Held(j)' <=> Held(j)
    BY <1>7, HeldMoves
  <1>9. Books'
    BY <1>3, <1>8, BooksStay
  <1>10. \A n \in SeatIds : Carries(n)
    BY <1>5 DEF Carries, Runs
  <1>11. \A j \in sessions'[s].targets :
           /\ j \in outstanding' /\ Request[j].session = s
           /\ s \notin todo' => Working(s, j)'
    <2> SUFFICES ASSUME NEW j \in sessions'[s].targets
                 PROVE  j \in outstanding' /\ Request[j].session = s /\ Working(s, j)'
      OBVIOUS
    <2>1. j \in Ids /\ j \in outstanding /\ Request[j].session = s /\ Working(s, j)
      <3>1. CASE j = i
        BY <1>1, <1>2, <1>5, <1>6, <3>1 DEF Working
      <3>2. CASE j # i
        <4>1. j \in sessions[s].targets
          BY <1>4, <3>2
        <4> QED BY <1>2, <4>1, LedgerTypes DEF Aimed
      <3> QED BY <3>1, <3>2
    <2>2. Working(s, j)'
      BY <1>2, <1>10, <2>1, WorkingStays
    <2> QED BY <1>3, <2>1, <2>2
  <1>12. Aimed'
    <2>1. \A r \in Sessions \ {s} : sessions'[r].targets \subseteq sessions[r].targets
      BY <1>4
    <2>2. \A r \in Sessions \ {s} : r \in todo => r \in todo'
      BY <1>2
    <2> QED BY <1>2, <1>3, <1>10, <1>11, <2>1, <2>2, AimedStays
  <1> QED BY <1>7, <1>9, <1>12 DEF RequestsInv

LEMMA RequestsTimer ==
    ASSUME RequestsInv, TypeInv', Timer
    PROVE  RequestsInv'
  <1>0. TypeInv
    BY LedgerTypes
  <1>1. CASE TimerStale
    <2>1. UNCHANGED host /\ UNCHANGED ledger /\ todo' = todo /\ sessions' = sessions
      BY <1>1 DEF TimerStale
    <2>2. /\ UNCHANGED <<outstanding, sent, told, orphaned, route, meta, todo>>
          /\ seats' = seats /\ posts' = posts
      BY <2>1 DEF host, ledger
    <2>3. PlacesInv' /\ Unmoved
      BY <2>1, <2>2, QuietPlaces, LedgerTypes
    <2>4. \A j \in Ids : Held(j)' <=> Held(j)
      BY <2>3, HeldMoves
    <2>5. Books'
      BY <2>2, <2>4, BooksStay
    <2>6. Aimed'
      BY <2>1, <2>2, AimedQuiet, CarriesSame
    <2> QED BY <2>3, <2>5, <2>6 DEF RequestsInv
  <1>2. CASE GraceExpires
    <2>1. PlacesInv' /\ \E w \in Workers :
             /\ todo = {} /\ todo' = {s \in Sessions : sessions[s].worker = w}
             /\ sessions' = sessions /\ UNCHANGED ledger
             /\ \A n \in SeatIds \ Killed(w) : seats'[n] = seats[n]
             /\ Empties(Killed(w))
      BY <1>2, GracePlaces, LedgerTypes
    <2>2. PICK w \in Workers :
             /\ todo = {} /\ todo' = {s \in Sessions : sessions[s].worker = w}
             /\ sessions' = sessions /\ UNCHANGED ledger
             /\ \A n \in SeatIds \ Killed(w) : seats'[n] = seats[n]
             /\ Empties(Killed(w))
      BY <2>1
    <2>3. \A n \in SeatIds : n \in Killed(w) => seats[n].session \in todo'
      <3> SUFFICES ASSUME NEW n \in Killed(w) PROVE seats[n].session \in todo'
        OBVIOUS
      <3>1. n \in SeatIds /\ seats[n].held /\ seats[n].worker = w
        BY DEF Killed
      <3>2. Placing(seats, Home) /\ seats \in Table
        BY <1>0, LedgerType DEF Sound, Whole
      <3>3. seats[n].session \in Sessions
        BY <3>1, <3>2, SeatOrNone DEF Seat
      <3>4. Home[seats[n].session] = w
        BY <3>1, <3>2 DEF Placing
      <3> QED BY <2>2, <3>3, <3>4 DEF Home
    <2>4. \A j \in Ids : Held(j)' <=> \E n \in SeatIds \ Killed(w) :
                                        Queued(seats, n, j) \/ PostedBy(posts, n, j)
      BY <2>2, HeldMoves
    <2>5. \A j \in Ids : Held(j)' => Held(j)
      BY <2>4 DEF Held
    <2>6. \A j \in Ids, n \in SeatIds :
            Queued(seats, n, j) \/ PostedBy(posts, n, j) => Request[j].session = seats[n].session
      BY LedgerTypes DEF PlacesInv, Belonging
    <2>7. \A j \in Ids : Held(j) /\ Request[j].session \notin todo' => Held(j)'
      BY <2>3, <2>4, <2>6 DEF Held
    <2>8. Books'
      BY <2>2, <2>5, <2>7, BooksKilled
    <2>9. Aimed'
      <3>1. \A n \in SeatIds : seats[n].session \notin todo' => Carries(n)
        BY <2>2, <2>3, CarriesSame
      <3>2. \A j \in Ids, n \in SeatIds :
              PostedBy(posts, n, j) /\ seats[n].session \notin todo' => PostedBy(posts', n, j)
        BY <2>2, <2>3 DEF Empties
      <3>3. outstanding' = outstanding
        BY <2>2 DEF ledger
      <3>4. \A r \in Sessions : \A j \in sessions'[r].targets : j \in Ids
        BY <2>2, LedgerTypes DEF Aimed
      <3> QED BY <2>2, <3>1, <3>2, <3>3, <3>4, AimedKept
    <2> QED BY <2>1, <2>8, <2>9 DEF RequestsInv
  <1> QED BY <1>1, <1>2 DEF Timer

\* A session a cancel waits on is there.
LEMMA TargetedExists ==
    ASSUME RequestsInv, todo = {}, NEW s \in Sessions, sessions[s].targets # {}
    PROVE  Exists(s)
  <1>1. PICK i \in sessions[s].targets : Working(s, i)
    BY LedgerTypes DEF Aimed
  <1>2. PICK n \in SeatIds : seats[n].held /\ seats[n].session = s
    BY <1>1 DEF Working
  <1>3. Placing(seats, Home) /\ seats \in Table
    BY LedgerTypes, LedgerType DEF Sound, Whole
  <1>4. Home[s] = seats[n].worker /\ seats[n].worker # 0
    BY <1>2, <1>3, SeatOrNone DEF Placing, Seat, Workers
  <1> QED BY <1>4 DEF Home, Exists

LEMMA RequestsAnswer ==
    ASSUME RequestsInv, TypeInv', LandAnswer
    PROVE  RequestsInv'
  <1>0. TypeInv
    BY LedgerTypes
  <1>1. PICK p : p = Head(posts)
    OBVIOUS
  <1>2. PICK s : s = seats[p.seat].session
    OBVIOUS
  <1>3. /\ PlacesInv' /\ p.id \in Ids /\ p.seat \in SeatIds
        /\ PostedBy(posts, p.seat, p.id)
        /\ Request[p.id].session = s
        /\ Leaves(p.id)
    BY <1>1, <1>2, LandPlaces, LedgerTypes
  <1>4. /\ todo = {} /\ Deliver(p.id, s) /\ seats' = seats
        /\ UNCHANGED <<todo, sent, orphaned>>
        /\ meta' = meta \/ meta' = [meta EXCEPT ![s] = "open"]
    BY <1>1, <1>2 DEF LandAnswer
  <1>5. /\ s \in Sessions
        /\ \A r \in Sessions \ {s} : sessions'[r] = sessions[r]
        /\ ~Exists(s) => sessions'[s] = sessions[s]
        /\ Exists(s) => sessions'[s].targets = sessions[s].targets \ {p.id}
    <2>1. /\ s \in Sessions /\ p \in Post
          /\ \A r \in Sessions \ {s} : sessions'[r] = sessions[r]
          /\ ~Exists(s) => sessions'[s] = sessions[s]
          /\ Exists(s) => sessions'[s] = Terminated(sessions[s], p)
      BY <1>0, <1>1, <1>2, AnswerEffect
    <2>2. sessions[s] \in Record
      BY <1>0, <2>1, LedgerType
    <2>3. Terminated(sessions[s], p).targets = sessions[s].targets \ {p.id}
      BY <2>1, <2>2, TerminatedEffect
    <2> QED BY <2>1, <2>3
  <1>6. Held(p.id)
    BY <1>3 DEF Held
  <1>7. \A j \in Ids : Held(j)' <=> Held(j) /\ j # p.id
    BY <1>3, HeldMoves
  <1>8. \A r \in Sessions : meta'[r] = "opening" => meta[r] = "opening"
    BY <1>0, <1>4, <1>5, LedgerType
  <1>9. Books'
    BY <1>3, <1>4, <1>6, <1>7, <1>8, BooksAnswered
  <1>10. \A r \in Sessions : /\ sessions'[r].targets \subseteq sessions[r].targets
                             /\ p.id \notin sessions'[r].targets
    <2> SUFFICES ASSUME NEW r \in Sessions
                 PROVE  /\ sessions'[r].targets \subseteq sessions[r].targets
                        /\ p.id \notin sessions'[r].targets
      OBVIOUS
    <2>1. p.id \in sessions[r].targets => r = s
      BY <1>3, LedgerTypes DEF Aimed
    <2>2. sessions[s].targets # {} => Exists(s)
      BY <1>4, <1>5, TargetedExists
    <2> QED BY <1>5, <2>1, <2>2
  <1>11. Aimed'
    <2>1. outstanding' = outstanding \ {p.id}
      BY <1>4 DEF Deliver
    <2>2. \A r \in Sessions : \A j \in sessions'[r].targets : j \in Ids /\ j # p.id
      BY <1>10, LedgerTypes DEF Aimed
    <2>3. \A r \in Sessions : \A j \in sessions'[r].targets : \A n \in SeatIds :
            PostedBy(posts, n, j) => PostedBy(posts', n, j)
      BY <1>3, <2>2 DEF Leaves
    <2>4. \A n \in SeatIds : Carries(n)
      BY <1>4, CarriesSame
    <2> QED BY <1>4, <1>10, <2>1, <2>2, <2>3, <2>4, AimedKept
  <1> QED BY <1>3, <1>9, <1>11 DEF RequestsInv

LEMMA RequestsRefusedOpen ==
    ASSUME RequestsInv, TypeInv', LandRefusedOpen
    PROVE  RequestsInv'
  <1>0. TypeInv
    BY LedgerTypes
  <1>1. PICK p : p = Head(posts)
    OBVIOUS
  <1>2. PICK s : s = seats[p.seat].session
    OBVIOUS
  <1>3. /\ PlacesInv' /\ p.id \in Ids /\ p.seat \in SeatIds
        /\ PostedBy(posts, p.seat, p.id)
        /\ Request[p.id].session = s
        /\ Leaves(p.id)
    BY <1>1, <1>2, LandPlaces, LedgerTypes
  <1>4. /\ todo = {} /\ Tell({p.id}, s) /\ Forget(s) /\ OpenRefused(p)
        /\ UNCHANGED <<todo, sent, orphaned>>
    BY <1>1, <1>2 DEF LandRefusedOpen
  <1>5. Request[p.id].kind = "open" /\ meta[s] = "opening"
    BY <1>3, <1>4 DEF OpenRefused
  <1>6. /\ s \in Sessions
        /\ \A r \in Sessions \ {s} : sessions'[r] = sessions[r]
        /\ sessions'[s] = NoSession
        /\ \E n \in Placed(s) : seats' = Send(seats, n, Hangup)
    BY <1>0, <1>1, <1>2, RefusalEffect
  <1>7. PICK old \in Placed(s) : seats' = Send(seats, old, Hangup)
    BY <1>6
  <1>8. Held(p.id)
    BY <1>3 DEF Held
  <1>9. \A j \in Ids : Held(j)' <=> Held(j) /\ j # p.id
    BY <1>3, HeldMoves
  <1>10. Books'
    BY <1>3, <1>4, <1>5, <1>8, <1>9, BooksForget
  <1>11. \A n \in SeatIds : seats[n].session # s => Carries(n)
    <2>1. \A m \in SeatIds \ {old} : seats'[m] = seats[m]
      BY <1>0, <1>6, <1>7, HangupSame
    <2>2. seats[old].session = s
      BY <1>0, <1>6, PlacedSeat
    <2> QED BY <2>1, <2>2, CarriesSame
  <1>12. Aimed'
    <2>1. \A r \in Sessions \ {s} : sessions'[r].targets \subseteq sessions[r].targets
      BY <1>6
    <2>2. sessions'[s].targets = {}
      BY <1>6 DEF NoSession
    <2>3. \A j \in outstanding : Request[j].session # s => j \in outstanding'
      BY <1>4 DEF Forget, OwedOn
    <2>4. \A j \in Ids, n \in SeatIds :
            PostedBy(posts, n, j) /\ seats[n].session # s => PostedBy(posts', n, j)
      <3>1. \A n \in SeatIds : PostedBy(posts, n, p.id) => seats[n].session = s
        BY <1>3, LedgerTypes DEF PlacesInv, Belonging
      <3> QED BY <1>3, <3>1 DEF Leaves
    <2>5. \A r \in Sessions \ {s} : r \in todo => r \in todo'
      BY <1>4
    <2> QED BY <1>11, <2>1, <2>2, <2>3, <2>4, <2>5, AimedStays
  <1> QED BY <1>3, <1>10, <1>12 DEF RequestsInv

\* A death posted by a seat the host no longer knows is passed over.
LEMMA RequestsStaleDeath ==
    ASSUME RequestsInv, TypeInv', LandStaleDeath
    PROVE  RequestsInv'
  <1>1. /\ seats' = seats /\ UNCHANGED ledger /\ todo' = todo /\ sessions' = sessions
    BY DEF LandStaleDeath, supervisor
  <1>2. UNCHANGED <<outstanding, sent, told, orphaned, route, meta, todo>>
    BY <1>1 DEF ledger
  <1>3. PlacesInv' /\ Unmoved
    BY StaleDeathPlaces, LedgerTypes
  <1>4. \A j \in Ids : Held(j)' <=> Held(j)
    BY <1>3, HeldMoves
  <1>5. Books'
    BY <1>2, <1>4, BooksStay
  <1>6. \A j \in Ids, n \in SeatIds : PostedBy(posts, n, j) => PostedBy(posts', n, j)
    BY <1>3 DEF Unmoved
  <1>7. Aimed'
    BY <1>1, <1>2, <1>6, AimedQuiet, CarriesSame
  <1> QED BY <1>3, <1>5, <1>7 DEF RequestsInv

\* What a session owed is failed with it, and no cancel waits on it any more.
LEMMA AimedRecovers ==
    ASSUME RequestsInv, NEW s \in Sessions, NEW ss, NEW home, Recovered(s, ss, home),
           \A r \in Sessions \ {s} : r \in todo => r \in todo',
           \A n \in SeatIds : seats[n].held /\ seats[n].session # s => seats'[n] = seats[n],
           \A j \in Ids, n \in SeatIds :
             PostedBy(posts, n, j) /\ seats[n].session # s => PostedBy(posts', n, j)
    PROVE  Aimed'
  <1>1. /\ \A r \in Sessions \ {s} : sessions'[r].targets \subseteq sessions[r].targets
        /\ sessions'[s].targets = {}
        /\ outstanding' = outstanding \ OwedOn(s)
    BY DEF Recovered
  <1>2. \A j \in outstanding : Request[j].session # s => j \in outstanding'
    BY <1>1 DEF OwedOn
  <1>3. \A n \in SeatIds : seats[n].session # s => Carries(n)
    BY CarriesSame, CarriesNothing
  <1> QED BY <1>1, <1>2, <1>3, AimedStays

LEMMA RequestsDeath ==
    ASSUME RequestsInv, TypeInv', LandDeath
    PROVE  RequestsInv'
  <1>1. PlacesInv' /\ \E s \in Sessions, n \in SeatIds :
             /\ todo = {} /\ todo' = {} /\ sent' = sent
             /\ seats[n].held /\ seats[n].session = s
             /\ Recovered(s, Disown(seats, {n}), [Home EXCEPT ![s] = 0])
             /\ \A m \in SeatIds \ {n} : seats[m] # NoSeat => seats'[m] = seats[m]
             /\ Empties({n})
    BY DeathPlaces, LedgerTypes
  <1>2. PICK s \in Sessions, n \in SeatIds :
             /\ todo = {} /\ todo' = {} /\ sent' = sent
             /\ seats[n].held /\ seats[n].session = s
             /\ Recovered(s, Disown(seats, {n}), [Home EXCEPT ![s] = 0])
             /\ \A m \in SeatIds \ {n} : seats[m] # NoSeat => seats'[m] = seats[m]
             /\ Empties({n})
    BY <1>1
  <1>3. \A j \in Ids : Held(j)' <=> \E m \in SeatIds \ {n} :
                                      Queued(seats, m, j) \/ PostedBy(posts, m, j)
    BY <1>2, HeldMoves
  <1>4. \A j \in Ids : Held(j)' => Held(j)
    BY <1>3 DEF Held
  <1>5. \A j \in Ids : Held(j) /\ Request[j].session # s => Held(j)'
    <2>1. \A j \in Ids : Queued(seats, n, j) \/ PostedBy(posts, n, j) => Request[j].session = s
      BY <1>2, LedgerTypes DEF PlacesInv, Belonging
    <2> QED BY <1>3, <2>1 DEF Held
  <1>6. Books'
    BY <1>2, <1>4, <1>5, BooksFailed
  <1>7. Aimed'
    <2>1. \A m \in SeatIds : seats[m].held /\ seats[m].session # s => seats'[m] = seats[m]
      BY <1>2, NobodyThere
    <2>2. \A j \in Ids, m \in SeatIds :
            PostedBy(posts, m, j) /\ seats[m].session # s => PostedBy(posts', m, j)
      BY <1>2 DEF Empties
    <2> QED BY <1>2, <2>1, <2>2, AimedRecovers
  <1> QED BY <1>1, <1>6, <1>7 DEF RequestsInv

LEMMA RequestsRecover ==
    ASSUME RequestsInv, TypeInv', NEW s \in Sessions, Recover(s)
    PROVE  RequestsInv'
  <1>0. TypeInv
    BY LedgerTypes
  <1>1. todo' = todo \ {s} /\ Recovered(s, seats, Home) /\ sent' = sent /\ posts' = posts
    BY <1>0, RecoverEffect
  <1>2. /\ PlacesInv' /\ Unmoved
        /\ \A n \in SeatIds : seats[n] # NoSeat => seats'[n] = seats[n]
    BY RecoverPlaces, LedgerTypes
  <1>3. \A j \in Ids : Held(j)' <=> Held(j)
    BY <1>2, HeldMoves
  <1>4. Books'
    BY <1>1, <1>3, BooksFailed
  <1>5. Aimed'
    <2>1. \A n \in SeatIds : seats[n].held /\ seats[n].session # s => seats'[n] = seats[n]
      BY <1>2, NobodyThere
    <2> QED BY <1>1, <2>1, AimedRecovers
  <1> QED BY <1>2, <1>4, <1>5 DEF RequestsInv

\* A seat's thread answers what it runs and nothing else.
LEMMA RequestsSeat ==
    ASSUME RequestsInv, TypeInv', NEW at \in SeatIds, SeatStep(at)
    PROVE  RequestsInv'
  <1>0. TypeInv
    BY LedgerTypes
  <1>1. CASE Take(at) \/ Reap(at)
    <2>1. UNCHANGED supervisor /\ UNCHANGED ledger /\ posts' = posts
      BY <1>1 DEF Take, Reap
    <2>2. UNCHANGED <<outstanding, sent, told, orphaned, route, meta, todo>> /\ sessions' = sessions
      BY <2>1 DEF ledger, supervisor
    <2>3. PlacesInv' /\ Unmoved
      BY <1>1, TakePlaces, LedgerTypes
    <2>4. \A j \in Ids : Held(j)' <=> Held(j)
      BY <2>3, HeldMoves
    <2>5. Books'
      BY <2>2, <2>4, BooksStay
    <2>6. \A n \in SeatIds : Carries(n)
      <3> SUFFICES ASSUME NEW n \in SeatIds PROVE Carries(n)
        OBVIOUS
      <3>1. CASE Take(at)
        <4>1. /\ seats'[at].session = seats[at].session /\ seats'[at].held = seats[at].held
              /\ ~seats[at].busy
              /\ \A m \in SeatIds \ {at} : seats'[m] = seats[m]
          BY <1>0, <3>1, TakeEffect
        <4>2. n = at => Carries(n)
          BY <4>1 DEF Carries, Runs
        <4> QED BY <4>1, <4>2, CarriesSame
      <3>2. CASE Reap(at)
        <4>1. /\ ~seats[at].held
              /\ \A m \in SeatIds \ {at} : seats'[m] = seats[m]
          BY <1>0, <3>2, ReapEffect
        <4> QED BY <4>1, CarriesSame, CarriesNothing
      <3> QED BY <1>1, <3>1, <3>2
    <2>7. Aimed'
      BY <2>1, <2>2, <2>6, AimedQuiet
    <2> QED BY <2>3, <2>5, <2>7 DEF RequestsInv
  <1>2. CASE Serve(at)
    <2>1. PICK code \in Codes, graph \in {"none", "clean", "dirty"}, value \in Values,
               died \in BOOLEAN :
                 Finish(at, code, graph, value, died) /\ Served(at, code, graph, value, died)
      BY <1>0, <1>2, ServeEffect
    <2>2. UNCHANGED supervisor /\ UNCHANGED ledger
      BY <2>1 DEF Finish
    <2>3. UNCHANGED <<outstanding, sent, told, orphaned, route, meta, todo>> /\ sessions' = sessions
      BY <2>2 DEF ledger, supervisor
    <2>4. PICK i : i = Head(seats[at].queue).id
      OBVIOUS
    <2>5. /\ PlacesInv'
          /\ \/ i = 0 /\ Unmoved
             \/ i \in Ids /\ Answers(i, at)
      <3>1. PlacesInv
        BY LedgerTypes
      <3>2. /\ PlacesInv'
            /\ \/ Head(seats[at].queue).id = 0 /\ Unmoved
               \/ Head(seats[at].queue).id \in Ids /\ Answers(Head(seats[at].queue).id, at)
        BY <1>2, <3>1, ServePlaces
      <3> QED BY <2>4, <3>2
    <2>6. seats[at].queue # <<>> /\ seats[at].queue \in Seq(Waiting)
      BY <1>0, <2>1, LedgerType, SeatOrNone DEF Served, Sound, Whole
    <2>7. Queued(seats, at, i)
      <3> HIDE DEF Waiting
      <3> QED BY <2>4, <2>6, TailIds DEF Queued
    <2>8. \A j \in Ids : Held(j)' <=> Held(j)
      BY <2>5, <2>7, HeldMoves DEF Held
    <2>9. Books'
      BY <2>3, <2>8, BooksStay
    <2>10. 0 \notin Ids
      BY RequestAssumption
    <2>11. /\ \A j \in Ids, n \in SeatIds : PostedBy(posts, n, j) => PostedBy(posts', n, j)
           /\ i \in Ids => PostedBy(posts', at, i)
      BY <2>5, <2>10 DEF Unmoved, Answers
    <2>12. \A n \in SeatIds : Carries(n)
      <3> SUFFICES ASSUME NEW n \in SeatIds PROVE Carries(n)
        OBVIOUS
      <3>1. /\ seats'[at].session = seats[at].session /\ seats'[at].held = seats[at].held
            /\ \A m \in SeatIds \ {at} : seats'[m] = seats[m]
        BY <2>1 DEF Served
      <3>2. CASE n = at
        BY <2>4, <2>11, <3>1, <3>2 DEF Carries, Runs
      <3>3. CASE n # at
        BY <3>1, <3>3, CarriesSame
      <3> QED BY <3>2, <3>3
    <2>13. Aimed'
      BY <2>3, <2>11, <2>12, AimedQuiet
    <2> QED BY <2>5, <2>9, <2>13 DEF RequestsInv
  <1> QED BY <1>1, <1>2 DEF SeatStep
-----------------------------------------------------------------------------
LEMMA RequestsInit == Init => RequestsInv
  <1> SUFFICES ASSUME Init PROVE RequestsInv
    OBVIOUS
  <1>1. TypeInv
    BY TypeInit
  <1>2. /\ \A n \in SeatIds : seats[n].queue = <<>>
        /\ posts = <<>>
    BY DEF Init, NoSeat
  <1>3. \A i : /\ \A n \in SeatIds : ~Queued(seats, n, i) /\ ~PostedBy(posts, n, i)
               /\ \A n \in SeatIds : Single(seats[n].queue, i)
               /\ Single(posts, i)
    BY <1>2, NoneIn DEF Queued, PostedBy
  <1>4. PlacesInv
    <2>1. Distinct(seats, posts)
      BY <1>3 DEF Distinct
    <2>2. Belonging(seats, posts)
      BY <1>2, <1>3 DEF Belonging
    <2> QED BY <1>1, <1>3, <2>1, <2>2, HoldsIs DEF PlacesInv
  <1>5. /\ outstanding = {} /\ sent = {} /\ route = {} /\ \A i \in Ids : told[i] = 0
        /\ \A s \in Sessions : sessions[s].targets = {}
    BY DEF Init, NoSession
  <1>6. Books
    BY <1>3, <1>5 DEF Books, Counted, Accounted, Opening, Held
  <1>7. Aimed
    BY <1>5 DEF Aimed
  <1> QED BY <1>4, <1>6, <1>7 DEF RequestsInv

LEMMA RequestsStep ==
    ASSUME RequestsInv, [Next]_vars
    PROVE  RequestsInv'
  <1>0. TypeInv'
    BY TypeStep, LedgerTypes
  <1>1. ASSUME NEW i \in Ids,
               \/ OpenSession(i) \/ OpenThrows(i) \/ DispatchUnknown(i) \/ DispatchClose(i)
               \/ Dispatch(i) \/ Relocate(i) \/ RelocateThrows(i) \/ DispatchThrows(i)
               \/ CancelQueued(i) \/ CancelRunning(i)
        PROVE  RequestsInv'
    BY <1>0, <1>1, RequestsOpen, RequestsOpenThrows, RequestsUnknown, RequestsClose, RequestsSend,
       RequestsRelocate, RequestsRelocateThrows, RequestsWithdraw, RequestsStop
  <1>2. CASE Timer
    BY <1>0, <1>2, RequestsTimer
  <1>3. CASE Loop
    BY <1>0, <1>3, RequestsAnswer, RequestsRefusedOpen, RequestsStaleDeath, RequestsDeath,
       RequestsRecover DEF Loop
  <1>4. CASE \E n \in SeatIds : SeatStep(n)
    BY <1>0, <1>4, RequestsSeat
  <1>5. CASE UNCHANGED vars
    <2>1. UNCHANGED host /\ UNCHANGED ledger /\ UNCHANGED supervisor
      BY <1>5 DEF vars
    <2>2. /\ UNCHANGED <<outstanding, sent, told, orphaned, route, meta, todo>>
          /\ seats' = seats /\ posts' = posts /\ sessions' = sessions
      BY <2>1 DEF host, ledger, supervisor
    <2>3. PlacesInv' /\ Unmoved
      BY <1>0, <2>1, <2>2, QuietPlaces, LedgerTypes
    <2>4. \A j \in Ids : Held(j)' <=> Held(j)
      BY <2>3, HeldMoves
    <2>5. Books'
      BY <2>2, <2>4, BooksStay
    <2>6. Aimed'
      BY <2>2, AimedQuiet, CarriesSame
    <2> QED BY <2>3, <2>5, <2>6 DEF RequestsInv
  <1> QED BY <1>1, <1>2, <1>3, <1>4, <1>5 DEF Next, Client

\* Places, books and the targets of cancels agree after every step.
THEOREM SupervisorRequests == Spec => []RequestsInv
  <1> QED BY RequestsInit, RequestsStep, PTL DEF Spec

\* The client is sent one terminal frame for a request, and a second one only
\* where a request was failed while a seat its session had left still had it.
THEOREM SupervisorOneTerminal == Spec => []OneTerminal
  <1>1. RequestsInv => OneTerminal
    BY DEF RequestsInv, Books, Counted, OneTerminal
  <1> QED BY <1>1, SupervisorRequests, PTL

\* No request is lost: across kills, replays, moves and drops, what the client
\* asked is answered, or on a seat or among the posts its answer comes from.
THEOREM SupervisorNoneForgotten == Spec => []NoneForgotten
  <1>1. ASSUME RequestsInv PROVE NoneForgotten
    <2> SUFFICES ASSUME Settled, NEW i \in sent
                 PROVE  IF i \in outstanding THEN \E n \in SeatIds : Holds(n, i) ELSE told[i] > 0
      BY DEF NoneForgotten
    <2>1. i \in Ids /\ Accounted(i)
      BY <1>1, LedgerTypes DEF Books
    <2>2. i \in outstanding => Held(i)
      BY <2>1 DEF Accounted, Settled
    <2> QED BY <2>1, <2>2, HoldsIs DEF Accounted, Held
  <1> QED BY <1>1, SupervisorRequests, PTL

\* Every cancel that waits for its grace is for a request that is owed, and that
\* the seat the kill would take runs or has just answered.
THEOREM SupervisorTargetsAreHere == Spec => []TargetsAreHere
  <1>1. ASSUME RequestsInv PROVE TargetsAreHere
    <2> SUFFICES ASSUME Settled, NEW s \in Sessions, NEW i \in sessions[s].targets
                 PROVE  /\ i \in outstanding
                        /\ \E n \in Placed(s) : Runs(n, i) \/ \E k \in DOMAIN posts :
                              posts[k].seat = n /\ posts[k].id = i
      BY DEF TargetsAreHere
    <2>1. i \in outstanding /\ Working(s, i)
      BY <1>1, LedgerTypes DEF Aimed, Settled
    <2>2. PICK n \in SeatIds : /\ seats[n].held /\ seats[n].session = s
                               /\ Runs(n, i) \/ PostedBy(posts, n, i)
      BY <2>1 DEF Working
    <2>3. Placing(seats, Home)
      BY <1>1, LedgerTypes, LedgerType DEF Sound
    <2>4. n \in Placed(s)
      BY <2>2, <2>3 DEF Placing, Home, Settled, Placed, SeatsAt
    <2> QED BY <2>1, <2>2, <2>4 DEF PostedBy
  <1> QED BY <1>1, SupervisorRequests, PTL
-----------------------------------------------------------------------------
(* The log and the graph *)

\* A write that is taken by a graph that hangs together.
Takes(f) == f.kind \in Writes /\ Request[f.of].fate = "ok"

\* What a queue holds: an open only as its first frame, the supervisor's writes
\* before anything of the client's, and the client's frames as they were sent.
Shaped(q) ==
    /\ \A k \in DOMAIN q : q[k].kind = "open" => k = 1
    /\ \A k, l \in DOMAIN q : k < l /\ q[l].id = 0 /\ q[l].kind \in Writes => q[k].id = 0
    /\ \A k \in DOMAIN q : q[k].id = 0 /\ q[k].kind \in Writes => q[k].of \in Ids
    /\ \A k \in DOMAIN q : q[k].id # 0 => q[k] = Frame(q[k].id)

\* A seat whose graph is there, or still to be opened.
Opens(q) == \E k \in DOMAIN q : q[k].kind = "open"
Alive(ss, n) == ss[n].graph = "clean" \/ Opens(ss[n].queue)
Formed(n) == Shaped(seats[n].queue) /\ (Opens(seats[n].queue) => seats[n].graph # "clean")

\* The value a graph of value x has once it has served the supervisor's own frames.
Own(q) == {k \in DOMAIN q : q[k].id = 0 /\ Takes(q[k])}
Comes(q, x, v) ==
    IF Own(q) # {} THEN \E k \in Own(q) : v = q[k].of /\ \A l \in Own(q) : l <= k
    ELSE IF Opens(q)
    THEN \E k \in DOMAIN q : q[k].kind = "open" /\ v = IF q[k].id = 0 THEN q[k].of ELSE 0
    ELSE v = x

\* The writes a session's log will take that are not to be served by this queue.
\* The graph comes to the last of them, or else to the log.
Elsewhere(rec, q) == {j \in rec.pending : Request[j].fate = "ok" /\ ~In(q, j)}
Agrees(rec, q, v) ==
    \/ v \in {-i : i \in Ids}
    \/ IF Elsewhere(rec, q) = {} THEN v = rec.log
       ELSE v \in Elsewhere(rec, q) /\ \A j \in Elsewhere(rec, q) : j <= v
Synced(n) ==
    Alive(seats, n) => \E v \in Values :
        /\ Comes(seats[n].queue, seats[n].value, v)
        /\ Agrees(sessions[seats[n].session], seats[n].queue, v)

\* Unacked writes are in one line, in the order of their ids: those answered,
\* then those on one seat's queue.
Ahead(q, i, j) == \E k, l \in DOMAIN q : k < l /\ q[k].id = i /\ q[l].id = j
InLine(ids, ss, ps) ==
    \A i, j \in ids :
        /\ Ahead(ps, i, j) => i < j
        /\ \A m \in SeatIds :
             /\ Queued(ss, m, j) /\ In(ps, i) => i < j
             /\ Ahead(ss[m].queue, i, j) => i < j
             /\ \A n \in SeatIds : Queued(ss, m, i) /\ Queued(ss, n, j) => m = n

\* What a session has pending are its writes, each numbered after those it sent
\* before.
Writing(s) ==
    \A j \in sessions[s].pending :
        /\ Request[j].session = s /\ Request[j].kind \in Writes
        /\ \A i \in Ids : i < j /\ Request[i].session = s => i \in sent

\* A write is answered by what its graph makes of it, unless the graph is gone.
Coded ==
    \A k \in DOMAIN posts : \A i \in Ids :
        posts[k].id = i /\ Request[i].kind \in Writes =>
            IF Request[i].fate = "ok"
            THEN \/ posts[k].code \in {"ack", "swept"}
                 \/ posts[k].code = "error" /\ ~Alive(seats, posts[k].seat)
            ELSE posts[k].code = "error"

\* On a session's own seat its unacked writes are owed, and what the seat has of
\* them is among them.
Tended(n) ==
    LET s == seats[n].session IN
    /\ sessions[s].pending \subseteq outstanding
    /\ \A i \in Ids : Queued(seats, n, i) /\ Request[i].kind \in Writes => i \in sessions[s].pending
    /\ s \notin crossed => InLine(sessions[s].pending, seats, posts) /\ Synced(n)

LogInv ==
    /\ RequestsInv /\ Coded
    /\ \A s \in Sessions : Writing(s)
    /\ \A n \in SeatIds : Formed(n)
    /\ \A n \in SeatIds : seats[n].held => Tended(n)
-----------------------------------------------------------------------------
(* Queues and posts that lose some of what they have *)

\* What is left of a sequence, in its order.
Thins(r, q, f) ==
    /\ f \in [DOMAIN r -> DOMAIN q]
    /\ \A k \in DOMAIN r : r[k] = q[f[k]]
    /\ \A k, l \in DOMAIN r : k < l => f[k] < f[l]
Thin(r, q) == \E f : Thins(r, q, f)

\* Nothing is gone that a graph's value comes from.
Spares(q, f, d) ==
    \A k \in DOMAIN q :
        (q[k].id = 0 /\ Takes(q[k])) \/ q[k].kind = "open" => \E l \in d : f[l] = k

LEMMA ThinEffect ==
    ASSUME NEW X, NEW q \in Seq(X), NEW r \in Seq(X), Thin(r, q)
    PROVE  /\ \A i : In(r, i) => In(q, i)
           /\ \A i, j : Ahead(r, i, j) => Ahead(q, i, j)
           /\ Shaped(q) => Shaped(r)
           /\ Opens(r) => Opens(q)
           /\ \A k \in DOMAIN r : \E l \in DOMAIN q : r[k] = q[l]
  <1>1. PICK f : Thins(r, q, f)
    BY DEF Thin
  <1>2. /\ \A k \in DOMAIN r : f[k] \in DOMAIN q /\ r[k] = q[f[k]]
        /\ \A k, l \in DOMAIN r : k < l => f[k] < f[l]
    BY <1>1 DEF Thins
  <1>3. /\ \A k \in DOMAIN q : k \in Nat /\ k >= 1
        /\ \A k \in DOMAIN r : k \in Nat /\ k >= 1 /\ 1 \in DOMAIN r
    OBVIOUS
  <1>4. \A k \in DOMAIN r : f[k] = 1 => k = 1
    <2> SUFFICES ASSUME NEW k \in DOMAIN r, f[k] = 1, k # 1 PROVE FALSE
      OBVIOUS
    <2>1. 1 \in DOMAIN r /\ 1 < k
      BY <1>3
    <2>2. f[1] \in DOMAIN q /\ f[1] < 1
      BY <1>2, <2>1
    <2> QED BY <1>3, <2>2
  <1>5. \A i : In(r, i) => In(q, i)
    BY <1>2 DEF In
  <1>6. \A i, j : Ahead(r, i, j) => Ahead(q, i, j)
    BY <1>2 DEF Ahead
  <1>7. ASSUME Shaped(q) PROVE Shaped(r)
    <2>1. \A k \in DOMAIN r : r[k].kind = "open" => k = 1
      BY <1>2, <1>4, <1>7 DEF Shaped
    <2>2. \A k, l \in DOMAIN r : k < l /\ r[l].id = 0 /\ r[l].kind \in Writes => r[k].id = 0
      BY <1>2, <1>7 DEF Shaped
    <2>3. \A k \in DOMAIN r : r[k].id = 0 /\ r[k].kind \in Writes => r[k].of \in Ids
      BY <1>2, <1>7 DEF Shaped
    <2>4. \A k \in DOMAIN r : r[k].id # 0 => r[k] = Frame(r[k].id)
      <3> SUFFICES ASSUME NEW k \in DOMAIN r, r[k].id # 0 PROVE r[k] = Frame(r[k].id)
        OBVIOUS
      <3> PICK g : g = r[k]
        OBVIOUS
      <3>1. g = q[f[k]] /\ f[k] \in DOMAIN q /\ g.id # 0
        BY <1>2
      <3>2. g = Frame(g.id)
        BY <1>7, <3>1 DEF Shaped
      <3> QED BY <3>2
    <2> QED BY <2>1, <2>2, <2>3, <2>4 DEF Shaped
  <1>8. Opens(r) => Opens(q)
    BY <1>2 DEF Opens
  <1>9. \A k \in DOMAIN r : \E l \in DOMAIN q : r[k] = q[l]
    BY <1>2
  <1> QED BY <1>5, <1>6, <1>7, <1>8, <1>9

LEMMA SparedComes ==
    ASSUME NEW X, NEW q \in Seq(X), NEW r \in Seq(X), NEW f, Thins(r, q, f),
           Spares(q, f, DOMAIN r)
    PROVE  /\ Opens(r) <=> Opens(q)
           /\ \A x, v : Comes(r, x, v) <=> Comes(q, x, v)
  <1>1. /\ \A k \in DOMAIN r : f[k] \in DOMAIN q /\ r[k] = q[f[k]]
        /\ \A k, l \in DOMAIN r : k < l => f[k] < f[l]
    BY DEF Thins
  <1>2. /\ \A k \in DOMAIN q : k \in Nat
        /\ \A k \in DOMAIN r : k \in Nat
    OBVIOUS
  <1>3. \A k \in DOMAIN r : f[k] \in Nat
    BY <1>1, <1>2
  <1>4. \A k, l \in DOMAIN r : k <= l <=> f[k] <= f[l]
    BY <1>1, <1>2, <1>3
  <1>5. /\ \A k \in DOMAIN r : k \in Own(r) <=> f[k] \in Own(q)
        /\ \A k \in Own(q) : \E l \in Own(r) : f[l] = k
        /\ \A k \in Own(r) : k \in DOMAIN r
    <2>1. \A k \in DOMAIN r : k \in Own(r) <=> f[k] \in Own(q)
      BY <1>1 DEF Own
    <2>2. \A k \in Own(q) : \E l \in DOMAIN r : f[l] = k
      BY DEF Own, Spares
    <2> QED BY <2>1, <2>2 DEF Own
  <1>6. Own(r) # {} <=> Own(q) # {}
    BY <1>5
  <1>7. Opens(r) <=> Opens(q)
    BY <1>1 DEF Opens, Spares
  <1>8. ASSUME NEW v
        PROVE  (\E k \in Own(r) : v = r[k].of /\ \A l \in Own(r) : l <= k) <=>
               (\E k \in Own(q) : v = q[k].of /\ \A l \in Own(q) : l <= k)
    <2>1. ASSUME NEW k \in Own(r), v = r[k].of, \A l \in Own(r) : l <= k
          PROVE  \E m \in Own(q) : v = q[m].of /\ \A l \in Own(q) : l <= m
      <3>1. k \in DOMAIN r /\ f[k] \in Own(q) /\ v = q[f[k]].of
        BY <1>1, <1>5, <2>1
      <3>2. \A l \in Own(q) : l <= f[k]
        BY <1>4, <1>5, <2>1, <3>1
      <3> QED BY <3>1, <3>2
    <2>2. ASSUME NEW k \in Own(q), v = q[k].of, \A l \in Own(q) : l <= k
          PROVE  \E m \in Own(r) : v = r[m].of /\ \A l \in Own(r) : l <= m
      <3>1. PICK m \in Own(r) : f[m] = k
        BY <1>5
      <3>2. m \in DOMAIN r /\ v = r[m].of
        BY <1>1, <1>5, <2>2, <3>1
      <3>3. \A l \in Own(r) : l <= m
        BY <1>4, <1>5, <2>2, <3>1, <3>2
      <3> QED BY <3>2, <3>3
    <2> QED BY <2>1, <2>2
  <1>9. ASSUME NEW v
        PROVE  (\E k \in DOMAIN r : r[k].kind = "open" /\ v = IF r[k].id = 0 THEN r[k].of ELSE 0)
               <=> (\E k \in DOMAIN q : q[k].kind = "open" /\ v = IF q[k].id = 0 THEN q[k].of ELSE 0)
    <2>1. \A k \in DOMAIN r : f[k] \in DOMAIN q /\ r[k] = q[f[k]]
      BY <1>1
    <2>2. \A k \in DOMAIN q : q[k].kind = "open" => \E l \in DOMAIN r : f[l] = k
      BY DEF Spares
    <2>3. ASSUME NEW k \in DOMAIN r, r[k].kind = "open", v = IF r[k].id = 0 THEN r[k].of ELSE 0
          PROVE  \E m \in DOMAIN q : q[m].kind = "open" /\ v = IF q[m].id = 0 THEN q[m].of ELSE 0
      BY <2>1, <2>3
    <2>4. ASSUME NEW k \in DOMAIN q, q[k].kind = "open", v = IF q[k].id = 0 THEN q[k].of ELSE 0
          PROVE  \E m \in DOMAIN r : r[m].kind = "open" /\ v = IF r[m].id = 0 THEN r[m].of ELSE 0
      <3>1. PICK l \in DOMAIN r : f[l] = k
        BY <2>2, <2>4
      <3>2. r[l] = q[k]
        BY <2>1, <3>1
      <3> QED BY <2>4, <3>2
    <2> QED BY <2>3, <2>4
  <1>10. \A x, v : Comes(r, x, v) <=> Comes(q, x, v)
    BY <1>6, <1>7, <1>8, <1>9 DEF Comes
  <1> QED BY <1>7, <1>10

LEMMA ThinSame ==
    ASSUME NEW q PROVE Thin(q, q)
  <1> DEFINE f == [k \in DOMAIN q |-> k]
  <1>1. Thins(q, q, f)
    BY DEF Thins
  <1> QED BY <1>1 DEF Thin

LEMMA ThinTail ==
    ASSUME NEW X, NEW q \in Seq(X), q # <<>>
    PROVE  /\ Tail(q) \in Seq(X) /\ Thin(Tail(q), q) /\ Head(q) = q[1] /\ 1 \in DOMAIN q
           /\ \A k \in DOMAIN Tail(q) : k + 1 \in DOMAIN q /\ Tail(q)[k] = q[k + 1] /\ k >= 1
           /\ \A k \in DOMAIN q : k # 1 => k > 1 /\ k - 1 \in DOMAIN Tail(q) /\ Tail(q)[k - 1] = q[k]
  <1> DEFINE r == Tail(q)
  <1>1. /\ Len(q) \in Nat \ {0} /\ DOMAIN q = 1..Len(q) /\ DOMAIN r = 1..(Len(q) - 1)
        /\ \A k \in DOMAIN r : r[k] = q[k + 1]
        /\ Head(q) = q[1] /\ r \in Seq(X)
    OBVIOUS
  <1> HIDE DEF r
  <1>2. /\ \A k \in DOMAIN r : k + 1 \in DOMAIN q /\ k >= 1
        /\ \A k \in DOMAIN q : k # 1 => k > 1 /\ k - 1 \in DOMAIN r /\ r[k - 1] = q[k]
        /\ 1 \in DOMAIN q
    BY <1>1
  <1> DEFINE f == [k \in DOMAIN r |-> k + 1]
  <1>3. Thins(r, q, f)
    BY <1>1, <1>2 DEF Thins
  <1> HIDE DEF f
  <1> QED BY <1>1, <1>2, <1>3 DEF Thin, r

LEMMA ThinRemoveAt ==
    ASSUME NEW X, NEW q \in Seq(X), NEW at \in DOMAIN q
    PROVE  /\ RemoveAt(q, at) \in Seq(X)
           /\ \E f : /\ Thins(RemoveAt(q, at), q, f)
                     /\ \A k \in DOMAIN q : k # at => \E l \in DOMAIN RemoveAt(q, at) : f[l] = k
  <1> DEFINE r == RemoveAt(q, at)
  <1>1. /\ Len(q) \in Nat /\ DOMAIN q = 1..Len(q) /\ at \in 1..Len(q)
        /\ r \in Seq(X) /\ Len(r) = Len(q) - 1
        /\ \A k \in 1..(Len(q) - 1) : r[k] = q[IF k < at THEN k ELSE k + 1]
    <2>1. Len(q) \in Nat /\ at \in 1..Len(q) /\ DOMAIN q = 1..Len(q)
      OBVIOUS
    <2>2. /\ r \in Seq(X) /\ Len(r) = Len(q) - 1
          /\ \A k \in 1..(Len(q) - 1) : r[k] = IF k < at THEN q[k] ELSE q[k + 1]
      BY <2>1, RemoveAtProperties
    <2> HIDE DEF r
    <2> QED BY <2>1, <2>2
  <1> HIDE DEF r
  <1>2. DOMAIN r = 1..(Len(q) - 1)
    BY <1>1
  <1> DEFINE f == [k \in DOMAIN r |-> IF k < at THEN k ELSE k + 1]
  <1>3. \A k \in DOMAIN r : f[k] \in DOMAIN q /\ r[k] = q[f[k]]
    BY <1>1, <1>2
  <1>4. \A k, l \in DOMAIN r : k < l => f[k] < f[l]
    BY <1>1, <1>2
  <1>5. \A j \in DOMAIN q : j # at => \E k \in DOMAIN r : f[k] = j
    <2> SUFFICES ASSUME NEW j \in DOMAIN q, j # at PROVE \E k \in DOMAIN r : f[k] = j
      OBVIOUS
    <2>1. CASE j < at
      BY <1>1, <1>2, <2>1
    <2>2. CASE j > at
      <3>1. j - 1 \in DOMAIN r /\ f[j - 1] = j
        BY <1>1, <1>2, <2>2
      <3> QED BY <3>1
    <2> QED BY <1>1, <1>2, <2>1, <2>2
  <1>6. f \in [DOMAIN r -> DOMAIN q]
    BY <1>3
  <1> HIDE DEF f
  <1>7. Thins(r, q, f)
    BY <1>3, <1>4, <1>6 DEF Thins
  <1> QED BY <1>1, <1>5, <1>7 DEF r

LEMMA ThinDeliverable ==
    ASSUME NEW ps \in Seq(Post), NEW ss
    PROVE  Deliverable(ps, ss) \in Seq(Post) /\ Thin(Deliverable(ps, ss), ps)
  <1> DEFINE live == {k \in DOMAIN ps : ss[ps[k].seat] # NoSeat}
             d == Deliverable(ps, ss)
             f == [k \in DOMAIN d |-> Ascending(live)[k]]
  <1>1. live \in SUBSET DOMAIN ps /\ d = Kept(ps, live)
    BY DEF Deliverable
  <1>2. live \in SUBSET Nat /\ IsFiniteSet(live)
    <2>1. DOMAIN ps = 1..Len(ps) /\ Len(ps) \in Nat
      OBVIOUS
    <2>2. IsFiniteSet(DOMAIN ps)
      BY <2>1, FS_Interval
    <2> HIDE DEF live
    <2> QED BY <1>1, <2>1, <2>2, FS_Subset
  <1> HIDE DEF live, d
  <1>3. /\ d \in Seq(Post)
        /\ \A k \in DOMAIN d : Ascending(live)[k] \in live /\ d[k] = ps[Ascending(live)[k]]
    BY <1>1, KeptProperties
  <1>4. DOMAIN d = 1..Cardinality(live)
    BY <1>1 DEF Kept
  <1>5. \A k, l \in DOMAIN d : k < l => f[k] < f[l]
    BY <1>2, <1>4, AscendingClimbs
  <1>6. f \in [DOMAIN d -> DOMAIN ps] /\ \A k \in DOMAIN d : d[k] = ps[f[k]]
    BY <1>1, <1>3
  <1> HIDE DEF f
  <1>7. Thins(d, ps, f)
    BY <1>5, <1>6 DEF Thins
  <1> QED BY <1>3, <1>7 DEF Thin, d

LEMMA ThinTwice ==
    ASSUME NEW p, NEW q, NEW r, Thin(r, q), Thin(q, p)
    PROVE  Thin(r, p)
  <1>1. PICK f : Thins(r, q, f)
    BY DEF Thin
  <1>2. PICK g : Thins(q, p, g)
    BY DEF Thin
  <1> DEFINE h == [k \in DOMAIN r |-> g[f[k]]]
  <1>3. Thins(r, p, h)
    BY <1>1, <1>2 DEF Thins
  <1> QED BY <1>3 DEF Thin

\* A client's frame, or a close of the supervisor's, behind what a queue has.
Follows(f) ==
    /\ f.kind # "open" /\ ~(f.id = 0 /\ f.kind \in Writes)
    /\ f.id # 0 => f = Frame(f.id)

LEMMA FollowedQueue ==
    ASSUME NEW X, NEW q \in Seq(X), NEW f \in X, Follows(f)
    PROVE  /\ \A i, j : Ahead(Append(q, f), i, j) => Ahead(q, i, j) \/ (In(q, i) /\ f.id = j)
           /\ Shaped(q) => Shaped(Append(q, f))
           /\ Opens(Append(q, f)) <=> Opens(q)
           /\ \A x, v : Comes(Append(q, f), x, v) <=> Comes(q, x, v)
  <1> DEFINE r == Append(q, f)
             n == Len(q) + 1
  <1>1. /\ Len(q) \in Nat /\ DOMAIN q = 1..Len(q) /\ DOMAIN r = 1..(Len(q) + 1)
        /\ \A k \in DOMAIN q : r[k] = q[k]
        /\ r[Len(q) + 1] = f /\ r \in Seq(X)
    OBVIOUS
  <1>2. /\ \A k \in DOMAIN r : k \in DOMAIN q \/ k = n
        /\ \A k \in DOMAIN q : k \in DOMAIN r /\ k < n /\ ~(n < k)
        /\ n \in DOMAIN r /\ ~(n < n) /\ r[n] = f
    BY <1>1
  <1> HIDE DEF r, n
  <1>3. \A i, j : Ahead(r, i, j) => Ahead(q, i, j) \/ (In(q, i) /\ f.id = j)
    BY <1>1, <1>2 DEF Ahead, In
  <1>4. ASSUME Shaped(q) PROVE Shaped(r)
    <2>1. \A k \in DOMAIN r : r[k].kind = "open" => k = 1
      BY <1>1, <1>2, <1>4 DEF Shaped, Follows
    <2>2. \A k, l \in DOMAIN r : k < l /\ r[l].id = 0 /\ r[l].kind \in Writes => r[k].id = 0
      BY <1>1, <1>2, <1>4 DEF Shaped, Follows
    <2>3. \A k \in DOMAIN r : r[k].id = 0 /\ r[k].kind \in Writes => r[k].of \in Ids
      BY <1>1, <1>2, <1>4 DEF Shaped, Follows
    <2>4. \A k \in DOMAIN r : r[k].id # 0 => r[k] = Frame(r[k].id)
      <3> SUFFICES ASSUME NEW k \in DOMAIN r, r[k].id # 0 PROVE r[k] = Frame(r[k].id)
        OBVIOUS
      <3> PICK g : g = r[k]
        OBVIOUS
      <3>1. CASE k = n
        <4>1. g = f /\ f.id # 0
          BY <1>2, <3>1
        <4>2. f = Frame(f.id)
          BY <4>1 DEF Follows
        <4> QED BY <4>1, <4>2
      <3>2. CASE k \in DOMAIN q
        <4>1. g = q[k] /\ g.id # 0
          BY <1>1, <3>2
        <4>2. g = Frame(g.id)
          BY <1>4, <3>2, <4>1 DEF Shaped
        <4> QED BY <4>2
      <3> QED BY <1>2, <3>1, <3>2
    <2> QED BY <2>1, <2>2, <2>3, <2>4 DEF Shaped
  <1> DEFINE same == [k \in DOMAIN q |-> k]
  <1>5. Thins(q, r, same)
    BY <1>1, <1>2 DEF Thins
  <1>6. Spares(r, same, DOMAIN q)
    BY <1>1, <1>2 DEF Spares, Takes, Follows
  <1> HIDE DEF same
  <1>7. /\ Opens(q) <=> Opens(r)
        /\ \A x, v : Comes(q, x, v) <=> Comes(r, x, v)
    BY <1>1, <1>5, <1>6, SparedComes
  <1> QED BY <1>3, <1>4, <1>7 DEF r

\* What the value of a graph comes to, and what a queue without its first frame
\* makes of it.
First(q, x) ==
    IF q[1].id = 0 /\ Takes(q[1]) THEN q[1].of
    ELSE IF q[1].kind = "open" THEN (IF q[1].id = 0 THEN q[1].of ELSE 0) ELSE x

LEMMA TailComes ==
    ASSUME NEW X, NEW q \in Seq(X), q # <<>>, Shaped(q), NEW x, NEW v, Comes(q, x, v)
    PROVE  /\ ~Opens(Tail(q))
           /\ Opens(q) <=> q[1].kind = "open"
           /\ Own(Tail(q)) # {} => \A y : Comes(Tail(q), y, v)
           /\ Own(Tail(q)) = {} => v = First(q, x) /\ \A y : Comes(Tail(q), y, y)
  <1> DEFINE r == Tail(q)
  <1>1. /\ 1 \in DOMAIN q
        /\ \A k \in DOMAIN r : k + 1 \in DOMAIN q /\ r[k] = q[k + 1] /\ k >= 1 /\ k \in Int
        /\ \A k \in DOMAIN q : k \in Int /\ (k # 1 => k > 1 /\ k - 1 \in DOMAIN r /\ r[k - 1] = q[k])
    <2>1. /\ 1 \in DOMAIN q
          /\ \A k \in DOMAIN r : k + 1 \in DOMAIN q /\ r[k] = q[k + 1] /\ k >= 1
          /\ \A k \in DOMAIN q : k # 1 => k > 1 /\ k - 1 \in DOMAIN r /\ r[k - 1] = q[k]
      BY ThinTail
    <2>2. /\ \A k \in DOMAIN r : k \in Int
          /\ \A k \in DOMAIN q : k \in Int
      OBVIOUS
    <2> HIDE DEF r
    <2> QED BY <2>1, <2>2
  <1> HIDE DEF r
  <1>2. ~Opens(r)
    <2> SUFFICES ASSUME NEW k \in DOMAIN r, r[k].kind = "open" PROVE FALSE
      BY DEF Opens
    <2>1. k + 1 \in DOMAIN q /\ q[k + 1].kind = "open" /\ k + 1 # 1
      BY <1>1
    <2> QED BY <2>1 DEF Shaped
  <1>3. Opens(q) <=> q[1].kind = "open"
    BY <1>1 DEF Opens, Shaped
  <1>4. /\ \A k \in Own(r) : k \in DOMAIN r /\ k + 1 \in Own(q) /\ r[k] = q[k + 1]
        /\ \A k \in Own(q) : k \in DOMAIN q /\ (k # 1 => k - 1 \in Own(r) /\ r[k - 1] = q[k])
        /\ 1 \in Own(q) <=> q[1].id = 0 /\ Takes(q[1])
    BY <1>1 DEF Own
  <1>5. ASSUME Own(r) # {} PROVE \A y : Comes(r, y, v)
    <2>1. Own(q) # {}
      BY <1>4, <1>5
    <2>2. PICK k \in Own(q) : v = q[k].of /\ \A l \in Own(q) : l <= k
      BY <2>1 DEF Comes
    <2>3. k # 1
      <3>1. PICK l \in Own(r) : TRUE
        BY <1>5
      <3>2. l \in DOMAIN r /\ l + 1 \in Own(q)
        BY <1>4
      <3>3. l + 1 <= k /\ l >= 1
        BY <1>1, <2>2, <3>2
      <3>4. l \in Int /\ k \in Int
        BY <1>1, <1>4, <3>2
      <3> QED BY <3>3, <3>4
    <2>4. k - 1 \in Own(r) /\ v = r[k - 1].of
      BY <1>4, <2>2, <2>3
    <2>5. \A l \in Own(r) : l <= k - 1
      BY <1>1, <1>4, <2>2
    <2> QED BY <1>5, <2>4, <2>5 DEF Comes
  <1>6. ASSUME Own(r) = {} PROVE v = First(q, x) /\ \A y : Comes(r, y, y)
    <2>1. \A y : Comes(r, y, y)
      BY <1>2, <1>6 DEF Comes
    <2>2. \A k \in Own(q) : k = 1
      BY <1>4, <1>6
    <2>3. CASE 1 \in Own(q)
      <3>1. v = q[1].of
        BY <2>2, <2>3 DEF Comes
      <3> QED BY <1>4, <2>1, <2>3, <3>1 DEF First
    <2>4. CASE 1 \notin Own(q) /\ q[1].kind = "open"
      <3>1. Own(q) = {} /\ Opens(q)
        BY <1>3, <2>2, <2>4
      <3>2. PICK k \in DOMAIN q : q[k].kind = "open" /\ v = IF q[k].id = 0 THEN q[k].of ELSE 0
        BY <3>1 DEF Comes
      <3>3. k = 1
        BY <3>2 DEF Shaped
      <3> QED BY <1>4, <2>1, <2>4, <3>2, <3>3 DEF First
    <2>5. CASE 1 \notin Own(q) /\ q[1].kind # "open"
      <3>1. Own(q) = {} /\ ~Opens(q)
        BY <1>3, <2>2, <2>5
      <3> QED BY <1>4, <2>1, <2>5, <3>1 DEF Comes, First
    <2> QED BY <2>3, <2>4, <2>5
  <1> QED BY <1>2, <1>3, <1>5, <1>6 DEF r

\* A client's write comes before none of the supervisor's.
LEMMA ClientFirst ==
    ASSUME NEW X, NEW q \in Seq(X), q # <<>>, Shaped(q), q[1].id # 0
    PROVE  Own(Tail(q)) = {}
  <1> DEFINE r == Tail(q)
  <1>1. /\ 1 \in DOMAIN q
        /\ \A k \in DOMAIN r : k + 1 \in DOMAIN q /\ r[k] = q[k + 1] /\ k >= 1
    BY ThinTail
  <1>2. \A k \in DOMAIN r : k \in Int
    OBVIOUS
  <1> HIDE DEF r
  <1> SUFFICES ASSUME NEW k \in Own(r) PROVE FALSE
    BY DEF r
  <1>3. k \in DOMAIN r /\ q[k + 1].id = 0 /\ q[k + 1].kind \in Writes
    BY <1>1 DEF Own, Takes
  <1>4. 1 < k + 1 /\ k + 1 \in DOMAIN q
    BY <1>1, <1>2, <1>3
  <1> QED BY <1>1, <1>3, <1>4 DEF Shaped
-----------------------------------------------------------------------------
(* What most steps leave as it is *)

\* These requests stand in no new place and no new order.
Quiet(r, q, ids) ==
    \A i, j \in ids : (In(r, i) => In(q, i)) /\ (Ahead(r, i, j) => Ahead(q, i, j))
Calm(ids) ==
    /\ Quiet(posts', posts, ids)
    /\ \A m \in SeatIds : Quiet(seats'[m].queue, seats[m].queue, ids)

LEMMA CalmLine ==
    ASSUME NEW ids, NEW few, few \subseteq ids, Calm(ids), InLine(few, seats, posts)
    PROVE  InLine(few, seats', posts')
  <1>1. \A i, j \in few : Ahead(posts', i, j) => Ahead(posts, i, j)
    BY DEF Calm, Quiet
  <1>2. \A i \in few : In(posts', i) => In(posts, i)
    BY DEF Calm, Quiet
  <1>3. \A m \in SeatIds : \A i \in few : Queued(seats', m, i) => Queued(seats, m, i)
    BY DEF Calm, Quiet, Queued
  <1>4. \A m \in SeatIds : \A i, j \in few :
          Ahead(seats'[m].queue, i, j) => Ahead(seats[m].queue, i, j)
    BY DEF Calm, Quiet
  <1>5. ASSUME NEW i \in few, NEW j \in few
        PROVE  /\ Ahead(posts', i, j) => i < j
               /\ \A m \in SeatIds :
                    /\ Queued(seats', m, j) /\ In(posts', i) => i < j
                    /\ Ahead(seats'[m].queue, i, j) => i < j
                    /\ \A n \in SeatIds : Queued(seats', m, i) /\ Queued(seats', n, j) => m = n
    <2>1. /\ Ahead(posts, i, j) => i < j
          /\ \A m \in SeatIds :
               /\ Queued(seats, m, j) /\ In(posts, i) => i < j
               /\ Ahead(seats[m].queue, i, j) => i < j
               /\ \A n \in SeatIds : Queued(seats, m, i) /\ Queued(seats, n, j) => m = n
      BY DEF InLine
    <2>2. Ahead(posts', i, j) => i < j
      BY <1>1, <2>1
    <2>3. ASSUME NEW m \in SeatIds, Queued(seats', m, j), In(posts', i) PROVE i < j
      BY <1>2, <1>3, <2>1, <2>3
    <2>4. ASSUME NEW m \in SeatIds, Ahead(seats'[m].queue, i, j) PROVE i < j
      BY <1>4, <2>1, <2>4
    <2>5. ASSUME NEW m \in SeatIds, NEW n \in SeatIds, Queued(seats', m, i), Queued(seats', n, j)
          PROVE  m = n
      BY <1>3, <2>1, <2>5
    <2> QED BY <2>2, <2>3, <2>4, <2>5
  <1> QED BY <1>5 DEF InLine

LEMMA QuietQueues ==
    ASSUME NEW X, NEW q \in Seq(X)
    PROVE  /\ \A ids : Quiet(q, q, ids)
           /\ \A r \in Seq(X) : Thin(r, q) => \A ids : Quiet(r, q, ids)
           /\ \A r, ids : (\A i \in ids : ~In(r, i)) => Quiet(r, q, ids)
           /\ \A f \in X : \A ids : Follows(f) /\ f.id \notin ids => Quiet(Append(q, f), q, ids)
  <1>1. \A ids : Quiet(q, q, ids)
    BY DEF Quiet
  <1>2. ASSUME NEW r \in Seq(X), Thin(r, q), NEW ids PROVE Quiet(r, q, ids)
    <2>1. /\ \A i : In(r, i) => In(q, i)
          /\ \A i, j : Ahead(r, i, j) => Ahead(q, i, j)
      BY <1>2, ThinEffect
    <2> QED BY <2>1 DEF Quiet
  <1>3. ASSUME NEW r, NEW ids, \A i \in ids : ~In(r, i) PROVE Quiet(r, q, ids)
    <2>1. \A i, j : Ahead(r, i, j) => In(r, i)
      BY DEF Ahead, In
    <2> QED BY <1>3, <2>1 DEF Quiet
  <1>4. ASSUME NEW f \in X, NEW ids, Follows(f), f.id \notin ids PROVE Quiet(Append(q, f), q, ids)
    <2>1. \A i : In(Append(q, f), i) <=> In(q, i) \/ f.id = i
      BY AppendIds
    <2>2. \A i, j : Ahead(Append(q, f), i, j) => Ahead(q, i, j) \/ (In(q, i) /\ f.id = j)
      BY <1>4, FollowedQueue
    <2> QED BY <1>4, <2>1, <2>2 DEF Quiet
  <1> QED BY <1>1, <1>2, <1>3, <1>4

LEMMA EmptyQueue ==
    /\ \A i : ~In(<<>>, i)
    /\ Shaped(<<>>) /\ ~Opens(<<>>) /\ Own(<<>>) = {}
    /\ NoSeat.queue = <<>> /\ NoSeat.graph = "none" /\ ~NoSeat.held
  BY DEF In, Shaped, Opens, Own, NoSeat

LEMMA SeatQueues ==
    ASSUME TypeInv
    PROVE  /\ \A n \in SeatIds : seats[n].queue \in Seq(Waiting)
           /\ posts \in Seq(Post) /\ \A k \in DOMAIN posts : posts[k] \in Post
           /\ \A k \in DOMAIN posts : posts[k].seat \in SeatIds /\ seats[posts[k].seat] # NoSeat
           /\ sessions \in [Sessions -> Record]
  <1>1. /\ seats \in Table /\ sessions \in [Sessions -> Record]
        /\ posts \in Seq(Post) /\ \A k \in DOMAIN posts : seats[posts[k].seat] # NoSeat
    BY LedgerType DEF Sound, Whole, Delivering
  <1>2. \A n \in SeatIds : seats[n].queue \in Seq(Waiting)
    BY <1>1, SeatOrNone
  <1>3. \A k \in DOMAIN posts : posts[k] \in Post
    <2> HIDE DEF Post
    <2> QED BY <1>1
  <1>4. \A k \in DOMAIN posts : posts[k].seat \in SeatIds
    BY <1>3 DEF Post
  <1> QED BY <1>1, <1>2, <1>3, <1>4

LEMMA NextQueues ==
    ASSUME TypeInv'
    PROVE  /\ \A n \in SeatIds : seats'[n].queue \in Seq(Waiting)
           /\ \A n \in SeatIds : seats'[n].held => seats'[n] \in Seat
           /\ posts' \in Seq(Post)
           /\ \A k \in DOMAIN posts' : posts'[k].seat \in SeatIds /\ seats'[posts'[k].seat] # NoSeat
           /\ sessions' \in [Sessions -> Record] /\ Placing(seats', Home')
           /\ crossed' \subseteq Sessions /\ outstanding' \subseteq sent'
  <1>1. /\ seats' \in Table /\ sessions' \in [Sessions -> Record] /\ Placing(seats', Home')
        /\ crossed' \subseteq Sessions /\ outstanding' \subseteq sent'
    BY DEF TypeInv, TypeOK, Sound, Whole
  <1>2. posts' \in Seq(Post) /\ \A k \in DOMAIN posts' : seats'[posts'[k].seat] # NoSeat
    BY DEF TypeInv, Delivering
  <1>3. \A n \in SeatIds : seats'[n].queue \in Seq(Waiting) /\ (seats'[n].held => seats'[n] \in Seat)
    BY <1>1, SeatOrNone
  <1>4. \A k \in DOMAIN posts' : posts'[k] \in Post
    <2> HIDE DEF Post
    <2> QED BY <1>2
  <1>5. \A k \in DOMAIN posts' : posts'[k].seat \in SeatIds
    BY <1>4 DEF Post
  <1> QED BY <1>1, <1>2, <1>3, <1>5

\* A seat in the table is its session's only one, and the session is not to be
\* recovered.
LEMMA HeldSeat ==
    ASSUME TypeInv, NEW n \in SeatIds, seats[n].held, NEW s, s = seats[n].session
    PROVE  /\ s \in Sessions /\ s \notin todo /\ Exists(s) /\ n \in Placed(s)
           /\ seats[n] \in Seat
           /\ \A m \in SeatIds : seats[m].held /\ seats[m].session = s => m = n
  <1>1. seats \in Table /\ Placing(seats, Home)
    BY LedgerType DEF Sound, Whole
  <1>2. seats[n] \in Seat
    BY <1>1, SeatOrNone
  <1>3. s \in Sessions /\ seats[n].worker \in Workers /\ seats[n].worker # 0
    BY <1>2 DEF Seat, Workers
  <1>4. Home[s] = seats[n].worker
    BY <1>1 DEF Placing
  <1>5. s \notin todo /\ sessions[s].worker = seats[n].worker
    BY <1>3, <1>4 DEF Home
  <1> QED BY <1>1, <1>2, <1>3, <1>5 DEF Exists, Placed, SeatsAt, Placing

LEMMA LogTypes ==
    ASSUME LogInv
    PROVE  /\ RequestsInv /\ TypeInv /\ PlacesInv /\ Coded
           /\ \A s \in Sessions : Writing(s)
           /\ \A n \in SeatIds : Formed(n) /\ (seats[n].held => Tended(n))
           /\ outstanding \subseteq Ids /\ outstanding \subseteq sent /\ 0 \notin Ids
  BY LedgerTypes, RequestAssumption DEF LogInv

\* A seat goes on for its session as it was, and in the same line.
LEMMA TendedStays ==
    ASSUME NEW n \in SeatIds, Tended(n), NEW s, s = seats[n].session,
           seats'[n].session = s, seats'[n].queue = seats[n].queue,
           seats'[n].graph = seats[n].graph, seats'[n].value = seats[n].value,
           sessions'[s].pending = sessions[s].pending, sessions'[s].log = sessions[s].log,
           sessions[s].pending \subseteq outstanding', s \in crossed => s \in crossed',
           s \notin crossed' => InLine(sessions[s].pending, seats', posts')
    PROVE  Tended(n)'
  <1>1. \A i : Queued(seats', n, i) <=> Queued(seats, n, i)
    BY DEF Queued
  <1>2. /\ sessions[s].pending \subseteq outstanding
        /\ \A i \in Ids : Queued(seats, n, i) /\ Request[i].kind \in Writes => i \in sessions[s].pending
        /\ s \notin crossed => InLine(sessions[s].pending, seats, posts) /\ Synced(n)
    BY DEF Tended
  <1>3. Synced(n) => Synced(n)'
    <2>1. ASSUME Synced(n) PROVE Synced(n)'
      <3>1. Alive(seats', n) <=> Alive(seats, n)
        BY DEF Alive
      <3>2. \A v : Agrees(sessions[s], seats[n].queue, v) =>
              Agrees(sessions'[s], seats[n].queue, v)
        BY DEF Agrees, Elsewhere
      <3>3. Alive(seats', n) => \E v \in Values :
              /\ Comes(seats[n].queue, seats[n].value, v)
              /\ Agrees(sessions'[s], seats[n].queue, v)
        BY <2>1, <3>1, <3>2 DEF Synced
      <3> QED BY <3>3 DEF Synced
    <2> QED BY <2>1
  <1>4. /\ sessions'[s].pending \subseteq outstanding'
        /\ \A i \in Ids : Queued(seats', n, i) /\ Request[i].kind \in Writes => i \in sessions'[s].pending
        /\ s \notin crossed' => InLine(sessions'[s].pending, seats', posts') /\ Synced(n)'
    <2>1. sessions'[s].pending \subseteq outstanding'
      OBVIOUS
    <2>2. \A i \in Ids : Queued(seats', n, i) /\ Request[i].kind \in Writes => i \in sessions'[s].pending
      BY <1>1, <1>2
    <2>3. s \notin crossed' => InLine(sessions'[s].pending, seats', posts') /\ Synced(n)'
      BY <1>2, <1>3
    <2> QED BY <2>1, <2>2, <2>3
  <1>5. seats'[n].session = s
    OBVIOUS
  <1> QED BY <1>4, <1>5 DEF Tended

LEMMA FormedStays ==
    ASSUME TypeInv, TypeInv', NEW n \in SeatIds, Formed(n), seats'[n].graph = seats[n].graph,
           \/ Thin(seats'[n].queue, seats[n].queue)
           \/ \E f \in Waiting : Follows(f) /\ seats'[n].queue = Append(seats[n].queue, f)
    PROVE  Formed(n)' /\ (Alive(seats', n) => Alive(seats, n))
  <1> DEFINE q == seats[n].queue
             r == seats'[n].queue
  <1>1. q \in Seq(Waiting) /\ r \in Seq(Waiting)
    BY SeatQueues, NextQueues
  <1>2. (Shaped(q) => Shaped(r)) /\ (Opens(r) => Opens(q))
    <2> HIDE DEF Waiting, q, r
    <2>1. CASE Thin(r, q)
      BY <1>1, <2>1, ThinEffect
    <2>2. ASSUME NEW f \in Waiting, Follows(f), r = Append(q, f)
          PROVE  (Shaped(q) => Shaped(r)) /\ (Opens(r) => Opens(q))
      BY <1>1, <2>2, FollowedQueue
    <2> QED BY <2>1, <2>2 DEF q, r
  <1> QED BY <1>2 DEF Formed, Alive

\* The posts left are of those there were, from seats that are no more alive.
LEMMA CodedStays ==
    ASSUME Coded, \A k \in DOMAIN posts' : \E l \in DOMAIN posts : posts'[k] = posts[l],
           \A k \in DOMAIN posts' : Alive(seats', posts'[k].seat) => Alive(seats, posts'[k].seat)
    PROVE  Coded'
  <1> SUFFICES ASSUME NEW k \in DOMAIN posts', NEW i \in Ids, posts'[k].id = i,
                      Request[i].kind \in Writes
               PROVE  IF Request[i].fate = "ok"
                      THEN \/ posts'[k].code \in {"ack", "swept"}
                           \/ posts'[k].code = "error" /\ ~Alive(seats', posts'[k].seat)
                      ELSE posts'[k].code = "error"
    BY DEF Coded
  <1>1. PICK l \in DOMAIN posts : posts'[k] = posts[l]
    OBVIOUS
  <1>2. Alive(seats', posts[l].seat) => Alive(seats, posts[l].seat)
    BY <1>1
  <1>3. IF Request[i].fate = "ok"
        THEN \/ posts[l].code \in {"ack", "swept"}
             \/ posts[l].code = "error" /\ ~Alive(seats, posts[l].seat)
        ELSE posts[l].code = "error"
    BY <1>1 DEF Coded
  <1> QED BY <1>1, <1>2, <1>3

\* A session whose writes and log are as they were.
Same(r) ==
    /\ sessions'[r].pending = sessions[r].pending /\ sessions'[r].log = sessions[r].log
    /\ \A j \in outstanding : Request[j].session = r => j \in outstanding'
    /\ r \in crossed => r \in crossed'
GoesOn(n) ==
    /\ seats'[n].queue = seats[n].queue
    /\ seats'[n].graph = seats[n].graph /\ seats'[n].value = seats[n].value
    /\ seats'[n].held =>
         /\ seats[n].held /\ seats'[n].session = seats[n].session
         /\ Same(seats[n].session)

LEMMA PendingOwed ==
    ASSUME LogInv, NEW n \in SeatIds, seats[n].held, NEW s, s = seats[n].session
    PROVE  /\ s \in Sessions
           /\ \A j \in sessions[s].pending : /\ j \in Ids /\ j \in outstanding
                                             /\ Request[j].session = s /\ Request[j].kind \in Writes
                                             /\ Held(j)
  <1>1. s \in Sessions /\ s \notin todo
    BY HeldSeat, LogTypes
  <1>2. Writing(s) /\ sessions[s].pending \subseteq outstanding /\ outstanding \subseteq Ids
        /\ outstanding \subseteq sent
    BY <1>1, LogTypes DEF Tended
  <1>3. \A j \in Ids : Accounted(j)
    BY LedgerTypes, LogTypes DEF Books
  <1> QED BY <1>1, <1>2, <1>3 DEF Writing, Accounted

\* A step that leaves the seats that are not "at" as they are, and the posts and
\* the lines of unacked writes no longer than they were.
LEMMA LogFrame ==
    ASSUME LogInv, RequestsInv', NEW at, NEW x, x \notin outstanding, Calm(Ids \ {x}),
           \A n \in SeatIds : n \notin at => GoesOn(n),
           \A n \in SeatIds : n \in at => Formed(n)' /\ (seats'[n].held => Tended(n)'),
           \A k \in DOMAIN posts' :
             /\ \E l \in DOMAIN posts : posts'[k] = posts[l]
             /\ posts'[k].seat \in at =>
                  (Alive(seats', posts'[k].seat) => Alive(seats, posts'[k].seat)),
           \A r \in Sessions : Writing(r)'
    PROVE  LogInv'
  <1>1. \A n \in SeatIds : n \notin at => Formed(n)'
    BY LogTypes DEF Formed, GoesOn
  <1>2. Coded'
    <2>1. \A k \in DOMAIN posts' : posts'[k].seat \in SeatIds
      BY SeatQueues, LogTypes
    <2>2. \A n \in SeatIds : n \notin at => (Alive(seats', n) => Alive(seats, n))
      BY DEF GoesOn, Alive
    <2>3. \A k \in DOMAIN posts' : Alive(seats', posts'[k].seat) => Alive(seats, posts'[k].seat)
      BY <2>1, <2>2
    <2>4. \A k \in DOMAIN posts' : \E l \in DOMAIN posts : posts'[k] = posts[l]
      OBVIOUS
    <2> QED BY <2>3, <2>4, CodedStays, LogTypes
  <1>3. ASSUME NEW n \in SeatIds, n \notin at, seats'[n].held PROVE Tended(n)'
    <2>1. PICK s : s = seats[n].session
      OBVIOUS
    <2>2. /\ seats[n].held /\ seats'[n].session = s /\ Same(s)
          /\ seats'[n].queue = seats[n].queue
          /\ seats'[n].graph = seats[n].graph /\ seats'[n].value = seats[n].value
      BY <1>3, <2>1 DEF GoesOn
    <2>3. \A j \in sessions[s].pending : j \in Ids /\ j \in outstanding /\ Request[j].session = s
      BY <2>1, <2>2, PendingOwed
    <2>4. Tended(n)
      BY <2>2, LogTypes
    <2>5. /\ sessions[s].pending \subseteq outstanding'
          /\ s \in crossed => s \in crossed'
          /\ sessions'[s].pending = sessions[s].pending /\ sessions'[s].log = sessions[s].log
      BY <2>2, <2>3 DEF Same
    <2>6. s \notin crossed => InLine(sessions[s].pending, seats, posts)
      BY <2>1, <2>4 DEF Tended
    <2>7. sessions[s].pending \subseteq Ids \ {x}
      BY <2>3
    <2>8. s \notin crossed' => InLine(sessions[s].pending, seats', posts')
      BY <2>5, <2>6, <2>7, CalmLine
    <2> QED BY <2>1, <2>2, <2>4, <2>5, <2>8, TendedStays
  <1> QED BY <1>1, <1>2, <1>3 DEF LogInv

\* What is sent is sent, and no write is parked but one that comes in.
LEMMA WritingStays ==
    ASSUME NEW s \in Sessions, Writing(s), sent \subseteq sent',
           sessions'[s].pending \subseteq sessions[s].pending
    PROVE  Writing(s)'
  BY DEF Writing

LEMMA WritingComes ==
    ASSUME InOrder, NEW s \in Sessions, Writing(s), NEW i \in Ids, Receive(i), s = Request[i].session,
           sessions'[s].pending \subseteq sessions[s].pending \union Parked(i)
    PROVE  Writing(s)'
  <1>1. sent \subseteq sent'
    BY DEF Receive
  <1>2. \A j \in Ids : j < i /\ Request[j].session = s => j \in sent
    BY DEF Receive
  <1>3. Parked(i) \subseteq {i} /\ (i \in Parked(i) => Request[i].kind \in Writes)
    BY DEF Parked
  <1>4. ASSUME NEW j \in sessions'[s].pending
        PROVE  /\ Request[j].session = s /\ Request[j].kind \in Writes
               /\ \A k \in Ids : k < j /\ Request[k].session = s => k \in sent'
    BY <1>1, <1>2, <1>3 DEF Writing
  <1> QED BY <1>4 DEF Writing

\* The step the loop takes: posts and queues as they were or with less in them,
\* and a queue with a request behind that nobody is owed yet.
LEMMA LogMoves ==
    ASSUME LogInv, RequestsInv', NEW at, NEW x, x \notin outstanding, Thin(posts', posts),
           \A n \in SeatIds : n \notin at => GoesOn(n),
           \A n \in SeatIds : n \in at =>
             /\ Quiet(seats'[n].queue, seats[n].queue, Ids \ {x})
             /\ Formed(n)' /\ (seats'[n].held => Tended(n)')
             /\ \/ Alive(seats', n) => Alive(seats, n)
                \/ \A k \in DOMAIN posts' : posts'[k].seat # n,
           \A r \in Sessions : Writing(r)'
    PROVE  LogInv'
  <1>1. posts \in Seq(Post) /\ posts' \in Seq(Post)
    <2>1. TypeInv'
      BY DEF RequestsInv, PlacesInv
    <2> QED BY <2>1, SeatQueues, NextQueues, LogTypes
  <1>2. Quiet(posts', posts, Ids \ {x}) /\ \A k \in DOMAIN posts' : \E l \in DOMAIN posts : posts'[k] = posts[l]
    <2> HIDE DEF Post
    <2>1. Quiet(posts', posts, Ids \ {x})
      BY <1>1, QuietQueues
    <2>2. \A k \in DOMAIN posts' : \E l \in DOMAIN posts : posts'[k] = posts[l]
      BY <1>1, ThinEffect
    <2> QED BY <2>1, <2>2
  <1>3. \A n \in SeatIds : Quiet(seats'[n].queue, seats[n].queue, Ids \ {x})
    <2> SUFFICES ASSUME NEW n \in SeatIds, n \notin at
                 PROVE  Quiet(seats'[n].queue, seats[n].queue, Ids \ {x})
      OBVIOUS
    <2>1. seats'[n].queue = seats[n].queue
      BY DEF GoesOn
    <2> QED BY <2>1 DEF Quiet
  <1>4. Calm(Ids \ {x})
    BY <1>2, <1>3 DEF Calm
  <1>5. \A k \in DOMAIN posts' :
             /\ \E l \in DOMAIN posts : posts'[k] = posts[l]
             /\ posts'[k].seat \in at =>
                  (Alive(seats', posts'[k].seat) => Alive(seats, posts'[k].seat))
    <2>1. \A k \in DOMAIN posts' : posts'[k].seat \in SeatIds
      BY <1>2, SeatQueues, LogTypes
    <2>2. ASSUME NEW k \in DOMAIN posts', posts'[k].seat \in at, Alive(seats', posts'[k].seat)
          PROVE  Alive(seats, posts'[k].seat)
      BY <2>1, <2>2
    <2> QED BY <1>2, <2>2
  <1> QED BY <1>4, <1>5, LogFrame

\* Handlers that touch no queue, no graph and no log.
LEMMA LogQuiet ==
    ASSUME LogInv, RequestsInv', Thin(posts', posts), \A n \in SeatIds : GoesOn(n),
           \A r \in Sessions : Writing(r)'
    PROVE  LogInv'
  <1>1. 0 \notin outstanding
    BY LogTypes
  <1> PICK at : at = {}
    OBVIOUS
  <1>2. \A n \in SeatIds : n \in at =>
             /\ Quiet(seats'[n].queue, seats[n].queue, Ids \ {0})
             /\ Formed(n)' /\ (seats'[n].held => Tended(n)')
             /\ \/ Alive(seats', n) => Alive(seats, n)
                \/ \A k \in DOMAIN posts' : posts'[k].seat # n
    OBVIOUS
  <1>3. \A n \in SeatIds : n \notin at => GoesOn(n)
    OBVIOUS
  <1> QED BY <1>1, <1>2, <1>3, LogMoves

LEMMA LogSame ==
    ASSUME LogInv, RequestsInv', Thin(posts', posts), outstanding' = outstanding,
           crossed' = crossed, sent \subseteq sent',
           \A r \in Sessions :
             sessions'[r].pending = sessions[r].pending /\ sessions'[r].log = sessions[r].log,
           \A n \in SeatIds :
             /\ seats'[n].queue = seats[n].queue /\ seats'[n].session = seats[n].session
             /\ seats'[n].graph = seats[n].graph /\ seats'[n].value = seats[n].value
             /\ seats'[n].held = seats[n].held
    PROVE  LogInv'
  <1>1. \A n \in SeatIds : GoesOn(n)
    <2> SUFFICES ASSUME NEW n \in SeatIds PROVE GoesOn(n)
      OBVIOUS
    <2>1. seats[n].held => seats[n].session \in Sessions
      BY HeldSeat, LogTypes
    <2>2. seats[n].held => Same(seats[n].session)
      BY <2>1 DEF Same
    <2> QED BY <2>2 DEF GoesOn
  <1>2. \A r \in Sessions : Writing(r)'
    <2> SUFFICES ASSUME NEW r \in Sessions PROVE Writing(r)'
      OBVIOUS
    <2>1. Writing(r)
      BY LogTypes
    <2> QED BY <2>1, WritingStays
  <1> QED BY <1>1, <1>2, LogQuiet

LEMMA LogStutters ==
    ASSUME LogInv, RequestsInv', UNCHANGED <<supervisor, host, outstanding, crossed>>,
           sent \subseteq sent'
    PROVE  LogInv'
  <1>1. /\ sessions' = sessions /\ seats' = seats /\ posts' = posts
        /\ outstanding' = outstanding /\ crossed' = crossed
    BY DEF supervisor, host
  <1>2. Thin(posts', posts)
    BY <1>1, ThinSame
  <1> QED BY <1>1, <1>2, LogSame

LEMMA LogQuietRequest ==
    ASSUME LogInv, RequestsInv', NEW i \in Ids, OpenThrows(i) \/ DispatchUnknown(i)
    PROVE  LogInv'
  <1>1. CASE OpenThrows(i)
    BY <1>1, LogStutters DEF OpenThrows
  <1>2. CASE DispatchUnknown(i)
    <2>1. Receive(i) /\ UNCHANGED <<supervisor, host, crossed>> /\ outstanding' = outstanding \ {i}
      BY <1>2 DEF DispatchUnknown, Answered, Deliver
    <2>2. i \notin outstanding /\ sent \subseteq sent'
      BY <2>1, ReceiveType, LogTypes
    <2>3. outstanding' = outstanding
      BY <2>1, <2>2
    <2> QED BY <2>1, <2>2, <2>3, LogStutters
  <1> QED BY <1>1, <1>2

\* A seat that runs, or is told to stop, has the same frames and the same graph.
LEMMA LogRuns ==
    ASSUME LogInv, RequestsInv', NEW n \in SeatIds,
           Take(n) \/ \E i \in Ids : CancelRunning(i)
    PROVE  LogInv'
  <1> USE DEF ledger
  <1>0. seats \in Table /\ sessions \in [Sessions -> Record]
    BY LogTypes, LedgerType DEF Sound, Whole
  <1>1. /\ UNCHANGED <<posts, outstanding, crossed, sent>>
        /\ \A m \in SeatIds :
             /\ seats'[m].queue = seats[m].queue /\ seats'[m].session = seats[m].session
             /\ seats'[m].graph = seats[m].graph /\ seats'[m].value = seats[m].value
             /\ seats'[m].held = seats[m].held
        /\ \A r \in Sessions :
             sessions'[r].pending = sessions[r].pending /\ sessions'[r].log = sessions[r].log
    <2>1. CASE Take(n)
      <3>1. UNCHANGED <<posts, outstanding, crossed, sent, sessions>>
        BY <2>1 DEF Take, supervisor
      <3>2. \A m \in SeatIds :
             /\ seats'[m].queue = seats[m].queue /\ seats'[m].session = seats[m].session
             /\ seats'[m].graph = seats[m].graph /\ seats'[m].value = seats[m].value
             /\ seats'[m].held = seats[m].held
        BY <2>1, TakeEffect, LogTypes
      <3> QED BY <3>1, <3>2
    <2>2. ASSUME NEW i \in Ids, CancelRunning(i) PROVE <1>1!:
      <3>0. PICK s : s = Request[i].session
        OBVIOUS
      <3>1. PICK m \in Placed(s) : seats' = [seats EXCEPT ![m].stop = TRUE]
        BY <2>2, <3>0 DEF CancelRunning
      <3>2. UNCHANGED <<posts, outstanding, crossed, sent>>
        BY <2>2 DEF CancelRunning
      <3>3. sessions' = [sessions EXCEPT ![s].targets = @ \union {i}, ![s].armed = TRUE]
        BY <2>2, <3>0 DEF CancelRunning
      <3>4. \A r \in Sessions :
             sessions'[r].pending = sessions[r].pending /\ sessions'[r].log = sessions[r].log
        BY <1>0, <3>3 DEF Record
      <3>5. m \in SeatIds /\ seats[m] \in Seat
        BY <2>2, <3>0, <3>1, LogTypes, RequestType, PlacedSeat
      <3>6. \A k \in SeatIds \ {m} : seats'[k] = seats[k]
        BY <1>0, <3>1 DEF Table
      <3>7. seats'[m] = [seats[m] EXCEPT !.stop = TRUE]
        BY <1>0, <3>1, <3>5 DEF Table
      <3>8. /\ seats'[m].queue = seats[m].queue /\ seats'[m].session = seats[m].session
            /\ seats'[m].graph = seats[m].graph /\ seats'[m].value = seats[m].value
            /\ seats'[m].held = seats[m].held
        BY <3>5, <3>7 DEF Seat
      <3> QED BY <3>2, <3>4, <3>6, <3>8
    <2> QED BY <2>1, <2>2
  <1>2. Thin(posts', posts)
    BY <1>1, ThinSame
  <1> QED BY <1>1, <1>2, LogSame

LEMMA LogStale ==
    ASSUME LogInv, RequestsInv', TimerStale \/ LandStaleDeath
    PROVE  LogInv'
  <1>1. /\ sessions' = sessions /\ seats' = seats /\ UNCHANGED <<ledger, crossed>>
        /\ Thin(posts', posts)
    <2>1. CASE TimerStale
      BY <2>1, ThinSame DEF TimerStale, host
    <2>2. CASE LandStaleDeath
      <3>1. posts # <<>> /\ posts' = Tail(posts) /\ posts \in Seq(Post)
        BY <2>2, SeatQueues, LogTypes DEF LandStaleDeath
      <3>2. Thin(posts', posts)
        <4> HIDE DEF Post
        <4> QED BY <3>1, ThinTail
      <3> QED BY <2>2, <3>2 DEF LandStaleDeath, supervisor
    <2> QED BY <2>1, <2>2
  <1>2. outstanding' = outstanding /\ crossed' = crossed /\ sent' = sent
    BY <1>1 DEF ledger
  <1> QED BY <1>1, <1>2, LogSame

LEMMA GoneSeat ==
    ASSUME LogInv, RequestsInv', NEW n \in SeatIds, seats'[n] = NoSeat, NEW ids
    PROVE  /\ Quiet(seats'[n].queue, seats[n].queue, ids)
           /\ Formed(n)' /\ ~seats'[n].held
           /\ \A k \in DOMAIN posts' : posts'[k].seat # n
  <1>1. seats'[n].queue = <<>> /\ ~seats'[n].held /\ ~Opens(<<>>) /\ Shaped(<<>>)
    BY EmptyQueue
  <1>2. Formed(n)'
    BY <1>1 DEF Formed
  <1>3. Quiet(seats'[n].queue, seats[n].queue, ids)
    BY <1>1, EmptyQueue DEF Quiet, Ahead
  <1>4. TypeInv'
    BY DEF RequestsInv, PlacesInv
  <1>5. \A k \in DOMAIN posts' : posts'[k].seat # n
    BY <1>4, NextQueues
  <1> QED BY <1>1, <1>2, <1>3, <1>5

LEMMA LogGone ==
    ASSUME LogInv, RequestsInv', NEW at, Thin(posts', posts),
           \A n \in SeatIds : n \notin at => GoesOn(n),
           \A n \in SeatIds : n \in at => seats'[n] = NoSeat,
           \A r \in Sessions : Writing(r)'
    PROVE  LogInv'
  <1>1. 0 \notin outstanding
    BY LogTypes
  <1>2. \A n \in SeatIds : n \in at =>
             /\ Quiet(seats'[n].queue, seats[n].queue, Ids \ {0})
             /\ Formed(n)' /\ (seats'[n].held => Tended(n)')
             /\ \/ Alive(seats', n) => Alive(seats, n)
                \/ \A k \in DOMAIN posts' : posts'[k].seat # n
    BY GoneSeat
  <1> QED BY <1>1, <1>2, LogMoves

LEMMA LogReap ==
    ASSUME LogInv, RequestsInv', NEW n \in SeatIds, Reap(n)
    PROVE  LogInv'
  <1>1. /\ UNCHANGED <<posts, sessions, outstanding, crossed, sent>> /\ seats'[n] = NoSeat
        /\ \A m \in SeatIds \ {n} : seats'[m] = seats[m]
    BY ReapEffect, LogTypes DEF Reap, supervisor, ledger
  <1>2. \A m \in SeatIds : m \notin {n} => GoesOn(m)
    BY <1>1 DEF GoesOn, Same
  <1>3. \A r \in Sessions : Writing(r)'
    <2> SUFFICES ASSUME NEW r \in Sessions PROVE Writing(r)'
      OBVIOUS
    <2>1. Writing(r)
      BY LogTypes
    <2> QED BY <1>1, <2>1, WritingStays
  <1>4. Thin(posts', posts)
    BY <1>1, ThinSame
  <1>5. \A m \in SeatIds : m \in {n} => seats'[m] = NoSeat
    BY <1>1
  <1> QED BY <1>2, <1>3, <1>4, <1>5, LogGone

LEMMA LogGrace ==
    ASSUME LogInv, RequestsInv', GraceExpires
    PROVE  LogInv'
  <1>1. UNCHANGED <<sessions, outstanding, crossed, sent>>
    BY DEF GraceExpires, ledger
  <1>2. PICK w \in Workers : seats' = Kill(seats, w) /\ posts' = Deliverable(posts, seats')
    BY GraceEffect, LogTypes
  <1>3. \A m \in SeatIds : seats'[m] = IF m \in Killed(w) THEN NoSeat ELSE seats[m]
    BY <1>2, KillEffect, LogTypes, LedgerType DEF Killed, Sound
  <1>4. \A m \in SeatIds : m \notin Killed(w) => GoesOn(m)
    BY <1>1, <1>3 DEF GoesOn, Same
  <1>5. \A r \in Sessions : Writing(r)'
    <2> SUFFICES ASSUME NEW r \in Sessions PROVE Writing(r)'
      OBVIOUS
    <2>1. Writing(r)
      BY LogTypes
    <2> QED BY <1>1, <2>1, WritingStays
  <1>6. Thin(posts', posts)
    BY <1>2, SeatQueues, LogTypes, ThinDeliverable
  <1>7. \A m \in SeatIds : m \in Killed(w) => seats'[m] = NoSeat
    BY <1>3
  <1> QED BY <1>4, <1>5, <1>6, <1>7, LogGone

\* A seat that opens a session has nothing else to serve yet.
LEMMA OpeningQueue ==
    ASSUME NEW f, f.kind = "open", f.id = 0 \/ f = Frame(f.id), NEW v,
           v = IF f.id = 0 THEN f.of ELSE 0
    PROVE  /\ Shaped(<<f>>) /\ Opens(<<f>>) /\ \A x : Comes(<<f>>, x, v)
           /\ \A j : In(<<f>>, j) <=> f.id = j
  <1>1. DOMAIN <<f>> = {1} /\ <<f>>[1] = f
    OBVIOUS
  <1> PICK q : q = <<f>>
    OBVIOUS
  <1>2. DOMAIN q = {1} /\ q[1] = f
    BY <1>1
  <1>3. f.kind \notin Writes
    BY DEF Writes
  <1>4. Own(q) = {}
    BY <1>2, <1>3 DEF Own, Takes
  <1>5. Opens(q)
    BY <1>2 DEF Opens
  <1>6. Shaped(q)
    BY <1>2, <1>3 DEF Shaped
  <1>7. \A x : Comes(q, x, v)
    BY <1>2, <1>4, <1>5 DEF Comes
  <1>8. \A j : In(q, j) <=> f.id = j
    BY <1>2 DEF In
  <1> QED BY <1>5, <1>6, <1>7, <1>8

LEMMA FreshTended ==
    ASSUME LogInv, RequestsInv', NEW n \in SeatIds, NEW s \in Sessions, NEW w \in Workers,
           NEW f, f.kind = "open", f.id = 0 \/ (f.id \in Ids /\ f = Frame(f.id)),
           NEW v \in Values, v = IF f.id = 0 THEN f.of ELSE 0,
           seats'[n] = NewSeat(s, w, <<f>>),
           sessions'[s].pending = {}, sessions'[s].log = v
    PROVE  Formed(n)' /\ Tended(n)'
  <1>1. /\ seats'[n].queue = <<f>> /\ seats'[n].session = s /\ seats'[n].graph = "none"
    BY DEF NewSeat
  <1>2. /\ Shaped(<<f>>) /\ Opens(<<f>>) /\ \A x : Comes(<<f>>, x, v)
        /\ \A j : In(<<f>>, j) <=> f.id = j
    BY OpeningQueue
  <1>3. Formed(n)'
    BY <1>1, <1>2 DEF Formed
  <1>4. \A i \in Ids : Queued(seats', n, i) => Request[i].kind \notin Writes
    <2> SUFFICES ASSUME NEW i \in Ids, Queued(seats', n, i) PROVE Request[i].kind \notin Writes
      OBVIOUS
    <2>1. f.id = i
      BY <1>1, <1>2 DEF Queued
    <2>2. f = Frame(i)
      BY <2>1, LogTypes
    <2>3. Request[i].kind = "open"
      BY <2>2 DEF Frame
    <2> QED BY <2>3 DEF Writes
  <1>5. InLine(sessions'[s].pending, seats', posts')
    BY DEF InLine
  <1>6. Agrees(sessions'[s], <<f>>, v)
    BY DEF Agrees, Elsewhere
  <1>7. Synced(n)'
    BY <1>1, <1>2, <1>6 DEF Synced
  <1> QED BY <1>1, <1>3, <1>4, <1>5, <1>7 DEF Tended

LEMMA LogOpen ==
    ASSUME LogInv, RequestsInv', NEW i \in Ids, OpenSession(i)
    PROVE  LogInv'
  <1>1. PICK s \in Sessions : s = Request[i].session
    BY RequestType
  <1>2. /\ i \notin sent /\ sent' = sent \union {i} /\ posts' = posts /\ ~Exists(s)
        /\ outstanding' = outstanding \union {i} /\ Request[i].kind = "open" /\ crossed' = crossed
    BY <1>1 DEF OpenSession
  <1>3. /\ \A r \in Sessions \ {s} : sessions'[r] = sessions[r]
        /\ sessions'[s].log = 0 /\ sessions'[s].pending = {}
    BY <1>1, OpenEffect, LogTypes
  <1>4. PICK n \in SeatIds, w \in Workers :
          seats[n] = NoSeat /\ seats' = [seats EXCEPT ![n] = NewSeat(s, w, <<Frame(i)>>)]
    <2>1. \E n \in SeatIds, w \in Workers :
             /\ sessions'[Request[i].session].worker = w
             /\ seats[n] = NoSeat
             /\ seats' = [seats EXCEPT ![n] = NewSeat(Request[i].session, w, <<Frame(i)>>)]
      BY OpenEffect, LogTypes
    <2> QED BY <1>1, <2>1
  <1>5. seats'[n] = NewSeat(s, w, <<Frame(i)>>) /\ \A m \in SeatIds \ {n} : seats'[m] = seats[m]
    BY <1>4, LogTypes, LedgerType DEF Sound, Whole, Table
  <1>6. Frame(i).kind = "open" /\ Frame(i).id = i /\ i # 0 /\ 0 \in Values
    BY <1>2, RequestType, LogTypes DEF Values
  <1>7. Formed(n)' /\ Tended(n)'
    BY <1>3, <1>5, <1>6, FreshTended
  <1>8. \A m \in SeatIds : m \notin {n} => GoesOn(m)
    <2> SUFFICES ASSUME NEW m \in SeatIds, m # n PROVE GoesOn(m)
      OBVIOUS
    <2>1. seats'[m] = seats[m]
      BY <1>5
    <2>2. seats[m].held => seats[m].session \in Sessions \ {s}
      BY <1>2, HeldSeat, LogTypes
    <2>3. seats[m].held => Same(seats[m].session)
      BY <1>2, <1>3, <2>2 DEF Same
    <2> QED BY <2>1, <2>3 DEF GoesOn
  <1>9. Quiet(seats'[n].queue, seats[n].queue, Ids \ {i})
    <2>1. \A j : In(<<Frame(i)>>, j) <=> i = j
      BY <1>6, OpeningQueue
    <2>2. seats'[n].queue = <<Frame(i)>>
      BY <1>5 DEF NewSeat
    <2>3. \A j \in Ids \ {i} : ~In(seats'[n].queue, j)
      BY <2>1, <2>2
    <2>4. seats[n].queue \in Seq(Waiting)
      BY SeatQueues, LogTypes
    <2> HIDE DEF Waiting
    <2> QED BY <2>3, <2>4, QuietQueues
  <1>10. \A k \in DOMAIN posts' : posts'[k].seat # n
    BY <1>2, <1>4, SeatQueues, LogTypes
  <1>11. \A r \in Sessions : Writing(r)'
    <2> SUFFICES ASSUME NEW r \in Sessions PROVE Writing(r)'
      OBVIOUS
    <2>1. Writing(r) /\ sent \subseteq sent'
      BY <1>2, LogTypes
    <2>2. sessions'[r].pending \subseteq sessions[r].pending
      BY <1>3
    <2> QED BY <2>1, <2>2, WritingStays
  <1>12. i \notin outstanding /\ Thin(posts', posts)
    BY <1>2, LogTypes, ThinSame
  <1>13. \A m \in SeatIds : m \in {n} =>
             /\ Quiet(seats'[m].queue, seats[m].queue, Ids \ {i})
             /\ Formed(m)' /\ (seats'[m].held => Tended(m)')
             /\ \/ Alive(seats', m) => Alive(seats, m)
                \/ \A k \in DOMAIN posts' : posts'[k].seat # m
    BY <1>7, <1>9, <1>10
  <1> QED BY <1>8, <1>11, <1>12, <1>13, LogMoves

LEMMA SendGraph ==
    ASSUME LogInv, NEW s \in Sessions, NEW n \in Placed(s), NEW f \in Waiting,
           NEW tt, tt = Send(seats, n, f)
    PROVE  /\ n \in SeatIds /\ seats[n].held /\ seats[n].session = s /\ seats[n].queue \in Seq(Waiting)
           /\ tt[n].queue = Append(seats[n].queue, f) /\ tt[n].session = s
           /\ tt[n].graph = seats[n].graph /\ tt[n].value = seats[n].value
           /\ tt[n].held <=> f.kind # "close"
           /\ \A m \in SeatIds \ {n} : tt[m] = seats[m]
  <1>1. n \in SeatIds /\ seats[n].held /\ seats[n].session = s /\ seats[n] \in Seat
    BY LogTypes, PlacedSeat
  <1>2. Whole(seats)
    BY LogTypes, LedgerType DEF Sound
  <1>3. /\ tt[n].queue = Append(seats[n].queue, f) /\ tt[n].session = s
        /\ tt[n].held <=> f.kind # "close"
        /\ \A m \in SeatIds \ {n} : tt[m] = seats[m]
    BY <1>1, <1>2, SendEffect
  <1>4. tt[n].graph = seats[n].graph /\ tt[n].value = seats[n].value
    <2>1. tt[n] = [seats[n] EXCEPT !.queue = Append(@, f), !.held = f.kind # "close"]
      BY <1>1, <1>2 DEF Send, Whole, Table
    <2> QED BY <1>1, <2>1 DEF Seat
  <1>5. seats[n].queue \in Seq(Waiting)
    BY <1>1, SeatQueues, LogTypes
  <1> QED BY <1>1, <1>3, <1>4, <1>5

\* A session that leaves its seat, with a close behind what the seat has.
LEMMA LogLeaves ==
    ASSUME LogInv, RequestsInv', NEW s \in Sessions, NEW n \in Placed(s), NEW f \in Waiting,
           Follows(f), f.kind = "close", f.id \notin outstanding, seats' = Send(seats, n, f),
           Thin(posts', posts), crossed' = crossed, sent \subseteq sent',
           \A r \in Sessions \ {s} : sessions'[r] = sessions[r],
           sessions'[s].pending \subseteq sessions[s].pending,
           \A j \in outstanding : Request[j].session # s => j \in outstanding'
    PROVE  LogInv'
  <1>0. TypeInv /\ TypeInv'
    BY LogTypes DEF RequestsInv, PlacesInv
  <1>1. /\ n \in SeatIds /\ seats[n].held /\ seats[n].session = s /\ seats[n].queue \in Seq(Waiting)
        /\ seats'[n].queue = Append(seats[n].queue, f)
        /\ seats'[n].graph = seats[n].graph /\ ~seats'[n].held
        /\ \A m \in SeatIds \ {n} : seats'[m] = seats[m]
    BY SendGraph
  <1>2. Formed(n)' /\ (Alive(seats', n) => Alive(seats, n))
    BY <1>0, <1>1, FormedStays, LogTypes
  <1>3. Quiet(seats'[n].queue, seats[n].queue, Ids \ {f.id})
    <2> HIDE DEF Waiting
    <2> QED BY <1>1, QuietQueues
  <1>4. \A m \in SeatIds : m \notin {n} => GoesOn(m)
    <2> SUFFICES ASSUME NEW m \in SeatIds, m # n PROVE GoesOn(m)
      OBVIOUS
    <2>1. seats'[m] = seats[m]
      BY <1>1
    <2>2. seats[m].held => seats[m].session \in Sessions \ {s}
      BY <1>0, <1>1, HeldSeat
    <2>3. seats[m].held => Same(seats[m].session)
      BY <2>2 DEF Same
    <2> QED BY <2>1, <2>3 DEF GoesOn
  <1>5. \A r \in Sessions : Writing(r)'
    <2> SUFFICES ASSUME NEW r \in Sessions PROVE Writing(r)'
      OBVIOUS
    <2>1. Writing(r)
      BY LogTypes
    <2>2. sessions'[r].pending \subseteq sessions[r].pending
      OBVIOUS
    <2> QED BY <2>1, <2>2, WritingStays
  <1>6. \A m \in SeatIds : m \in {n} =>
             /\ Quiet(seats'[m].queue, seats[m].queue, Ids \ {f.id})
             /\ Formed(m)' /\ (seats'[m].held => Tended(m)')
             /\ \/ Alive(seats', m) => Alive(seats, m)
                \/ \A k \in DOMAIN posts' : posts'[k].seat # m
    BY <1>1, <1>2, <1>3
  <1> QED BY <1>4, <1>5, <1>6, LogMoves

LEMMA LogClose ==
    ASSUME LogInv, RequestsInv', NEW i \in Ids, DispatchClose(i)
    PROVE  LogInv'
  <1>1. PICK s \in Sessions : s = Request[i].session
    BY RequestType
  <1>2. /\ Receive(i) /\ outstanding' = outstanding \union {i} /\ posts' = posts
        /\ crossed' = crossed /\ Request[i].kind = "close"
    BY DEF DispatchClose
  <1>3. sent \subseteq sent' /\ i \notin outstanding
    BY <1>2, ReceiveType, LogTypes
  <1>4. PICK n \in Placed(s) : seats' = Send(seats, n, Frame(i))
    BY <1>1, ClosingType, LogTypes
  <1>5. /\ \A r \in Sessions \ {s} : sessions'[r] = sessions[r]
        /\ sessions'[s].pending \subseteq sessions[s].pending
    <2>1. sessions'[s] = NoSession /\ \A r \in Sessions \ {s} : sessions'[r] = sessions[r]
      BY <1>1, ClosingType, LogTypes
    <2> QED BY <2>1 DEF NoSession
  <1>6. /\ Frame(i) \in Waiting /\ Frame(i).kind = "close" /\ Frame(i).id = i /\ Follows(Frame(i))
    BY <1>2, RequestType, LogTypes DEF Follows
  <1>7. Thin(posts', posts)
    BY <1>2, ThinSame
  <1> QED BY <1>2, <1>3, <1>4, <1>5, <1>6, <1>7, LogLeaves

LEMMA HangupFollows ==
    Hangup \in Waiting /\ Hangup.kind = "close" /\ Hangup.id = 0 /\ Follows(Hangup)
  BY OwnFrames DEF Follows, Writes

LEMMA LogRefusedOpen ==
    ASSUME LogInv, RequestsInv', LandRefusedOpen
    PROVE  LogInv'
  <1>1. PICK p, s : p = Head(posts) /\ s = seats[p.seat].session
    OBVIOUS
  <1>2. /\ s \in Sessions /\ posts # <<>> /\ sessions'[s] = NoSession
        /\ \A r \in Sessions \ {s} : sessions'[r] = sessions[r]
        /\ \E n \in Placed(s) : seats' = Send(seats, n, Hangup)
    BY <1>1, RefusalEffect, LogTypes
  <1>3. PICK n \in Placed(s) : seats' = Send(seats, n, Hangup)
    BY <1>2
  <1>4. /\ posts' = Tail(posts) /\ crossed' = crossed /\ sent' = sent
        /\ outstanding' = outstanding \ OwedOn(s)
    BY <1>1 DEF LandRefusedOpen, Forget
  <1>5. Thin(posts', posts)
    <2>1. posts \in Seq(Post)
      BY SeatQueues, LogTypes
    <2> HIDE DEF Post
    <2> QED BY <1>2, <1>4, <2>1, ThinTail
  <1>6. \A j \in outstanding : Request[j].session # s => j \in outstanding'
    BY <1>4 DEF OwedOn
  <1>7. sessions'[s].pending \subseteq sessions[s].pending
    BY <1>2 DEF NoSession
  <1> QED BY <1>2, <1>3, <1>4, <1>5, <1>6, <1>7, HangupFollows, LogTypes, LogLeaves

LEMMA LogRelocateThrows ==
    ASSUME LogInv, RequestsInv', NEW i \in Ids, RelocateThrows(i)
    PROVE  LogInv'
  <1>1. PICK s \in Sessions : s = Request[i].session
    BY RequestType
  <1>2. /\ Receive(i) /\ outstanding' = outstanding \ {i} /\ posts' = posts /\ crossed' = crossed
    BY DEF RelocateThrows, Answered, Deliver
  <1>3. sent \subseteq sent' /\ i \notin outstanding
    BY <1>2, ReceiveType, LogTypes
  <1>4. /\ \A r \in Sessions \ {s} : sessions'[r] = sessions[r]
        /\ sessions'[s].pending = sessions[s].pending
        /\ \E n \in Placed(s) : seats' = Send(seats, n, Hangup)
    BY <1>1, RelocateThrowsEffect, LogTypes
  <1>5. PICK n \in Placed(s) : seats' = Send(seats, n, Hangup)
    BY <1>4
  <1>6. Thin(posts', posts)
    BY <1>2, ThinSame
  <1> QED BY <1>2, <1>3, <1>4, <1>5, <1>6, HangupFollows, LogTypes, LogLeaves

LEMMA LogThrows ==
    ASSUME InOrder, LogInv, RequestsInv', NEW i \in Ids, DispatchThrows(i)
    PROVE  LogInv'
  <1>1. PICK s \in Sessions : s = Request[i].session
    BY RequestType
  <1>2. /\ Receive(i) /\ outstanding' = outstanding \ {i} /\ posts' = posts /\ seats' = seats
        /\ crossed' = crossed
    BY DEF DispatchThrows, Answered, Deliver, host
  <1>3. sent \subseteq sent' /\ outstanding' = outstanding
    BY <1>2, ReceiveType, LogTypes
  <1>4. /\ Placed(s) = {} /\ \A r \in Sessions \ {s} : sessions'[r] = sessions[r]
        /\ sessions'[s].pending \subseteq sessions[s].pending \union Parked(i)
    BY <1>1, ThrowEffect, LogTypes
  <1>5. \A m \in SeatIds : GoesOn(m)
    <2> SUFFICES ASSUME NEW m \in SeatIds PROVE GoesOn(m)
      OBVIOUS
    <2>1. seats[m].held => seats[m].session \in Sessions \ {s}
      BY <1>4, HeldSeat, LogTypes
    <2>2. seats[m].held => Same(seats[m].session)
      BY <1>2, <1>3, <1>4, <2>1 DEF Same
    <2> QED BY <1>2, <2>2 DEF GoesOn
  <1>6. \A r \in Sessions : Writing(r)'
    <2>1. Writing(s)'
      BY <1>1, <1>2, <1>4, WritingComes, LogTypes
    <2>2. ASSUME NEW r \in Sessions, r # s PROVE Writing(r)'
      <3>1. Writing(r)
        BY LogTypes
      <3>2. sessions'[r].pending \subseteq sessions[r].pending
        BY <1>4, <2>2
      <3> QED BY <1>3, <3>1, <3>2, WritingStays
    <2> QED BY <2>1, <2>2
  <1>7. Thin(posts', posts)
    BY <1>2, ThinSame
  <1> QED BY <1>5, <1>6, <1>7, LogQuiet

\* A request that comes in is nowhere yet, and a write of its session's behind
\* those that are pending.
LEMMA Incoming ==
    ASSUME InOrder, LogInv, NEW i \in Ids, Receive(i), NEW s \in Sessions, s = Request[i].session,
           NEW n \in Placed(s)
    PROVE  /\ i \notin outstanding /\ i \notin sent /\ sent \subseteq sent'
           /\ i \notin sessions[s].pending
           /\ \A j \in sessions[s].pending : j \in Ids /\ j < i
           /\ \A m \in SeatIds : ~Queued(seats, m, i)
           /\ ~In(posts, i)
           /\ Frame(i) \in Waiting /\ Frame(i).id = i /\ Request[i].kind # "open"
           /\ Frame(i).kind = Request[i].kind /\ Follows(Frame(i))
  <1>1. /\ i \notin outstanding /\ i \notin sent /\ sent \subseteq sent' /\ Request[i].kind # "open"
        /\ s \in Sessions
    BY ReceiveType, LogTypes
  <1>2. \A j \in sessions[s].pending : j \in Ids /\ j < i
    <2> SUFFICES ASSUME NEW j \in sessions[s].pending PROVE j \in Ids /\ j < i
      OBVIOUS
    <2>1. j \in Ids /\ j \in outstanding /\ Writing(s)
      <3>1. n \in SeatIds /\ seats[n].held /\ seats[n].session = s
        BY PlacedSeat, LogTypes
      <3> QED BY <3>1, PendingOwed, LogTypes
    <2>2. ~(i < j)
      BY <1>1, <2>1 DEF Writing
    <2>3. j # i
      BY <1>1, <2>1
    <2> QED BY <2>1, <2>2, <2>3, RequestAssumption
  <1>3. \A m \in SeatIds : ~Queued(seats, m, i) /\ ~PostedBy(posts, m, i)
    BY <1>1, LogTypes, HoldsIs DEF PlacesInv
  <1>4. ~In(posts, i)
    BY <1>3, LogTypes, SeatQueues DEF In, PostedBy
  <1>5. Frame(i) \in Waiting /\ Frame(i).id = i /\ Frame(i).kind = Request[i].kind
    BY RequestType
  <1>6. Follows(Frame(i))
    BY <1>1, <1>5, LogTypes DEF Follows
  <1>7. i \notin sessions[s].pending
    BY <1>2, RequestAssumption
  <1> QED BY <1>1, <1>2, <1>3, <1>4, <1>5, <1>6, <1>7

\* A write behind those that are pending, where they are or were answered.
LEMMA LineGrows ==
    ASSUME LogInv, NEW n \in SeatIds, NEW ids \in SUBSET Ids, NEW i \in Ids,
           \A j \in ids : j < i /\ (Queued(seats, n, j) \/ PostedBy(posts, n, j)),
           \A m \in SeatIds : ~Queued(seats, m, i), ~In(posts, i), posts' = posts,
           Frame(i) \in Waiting, Follows(Frame(i)), Frame(i).id = i,
           seats'[n].queue = Append(seats[n].queue, Frame(i)),
           \A m \in SeatIds \ {n} : seats'[m] = seats[m],
           InLine(ids, seats, posts)
    PROVE  InLine(ids \union {i}, seats', posts')
  <1>0. seats[n].queue \in Seq(Waiting)
    BY SeatQueues, LogTypes
  <1>1. \A j : Queued(seats', n, j) <=> Queued(seats, n, j) \/ i = j
    <2> HIDE DEF Waiting
    <2> QED BY <1>0, AppendIds DEF Queued
  <1>2. \A j, k : Ahead(seats'[n].queue, j, k) => Ahead(seats[n].queue, j, k) \/ (Queued(seats, n, j) /\ i = k)
    <2> HIDE DEF Waiting
    <2> QED BY <1>0, FollowedQueue DEF Queued
  <1>3. \A m \in SeatIds \ {n} : \A j : Queued(seats', m, j) <=> Queued(seats, m, j)
    BY DEF Queued
  <1>4. \A j \in ids : i # j
    BY RequestAssumption
  <1>5. \A j : ~Ahead(posts, i, j) /\ ~Ahead(posts, j, i) /\ ~Ahead(seats[n].queue, i, j)
    BY DEF Ahead, In, Queued
  <1>6. \A m \in SeatIds : \A j : ~Ahead(seats[m].queue, i, j) /\ ~Ahead(seats[m].queue, j, i)
    BY DEF Ahead, In, Queued
  <1>7. Distinct(seats, posts)
    BY LogTypes DEF PlacesInv
  <1>8. \A m \in SeatIds : \A j \in ids : Queued(seats', m, j) => m = n
    <2> SUFFICES ASSUME NEW m \in SeatIds, NEW j \in ids, Queued(seats', m, j), m # n PROVE FALSE
      OBVIOUS
    <2>1. Queued(seats, m, j) /\ j \in Ids
      BY <1>3
    <2>2. Queued(seats, n, j) \/ PostedBy(posts, n, j)
      OBVIOUS
    <2> QED BY <1>7, <2>1, <2>2 DEF Distinct
  <1>9. ASSUME NEW j \in ids \union {i}, NEW k \in ids \union {i}
        PROVE  /\ Ahead(posts', j, k) => j < k
               /\ \A m \in SeatIds :
                    /\ Queued(seats', m, k) /\ In(posts', j) => j < k
                    /\ Ahead(seats'[m].queue, j, k) => j < k
                    /\ \A l \in SeatIds : Queued(seats', m, j) /\ Queued(seats', l, k) => m = l
    <2>1. Ahead(posts', j, k) => j < k
      BY <1>5 DEF InLine
    <2>2. ASSUME NEW m \in SeatIds, Queued(seats', m, k), In(posts', j) PROVE j < k
      <3>1. j \in ids
        BY <2>2
      <3>2. CASE k = i
        BY <3>1, <3>2
      <3>3. CASE k \in ids
        BY <1>1, <1>3, <1>4, <2>2, <3>1, <3>3 DEF InLine
      <3> QED BY <3>2, <3>3
    <2>3. ASSUME NEW m \in SeatIds, Ahead(seats'[m].queue, j, k) PROVE j < k
      <3>1. CASE m = n
        <4>1. CASE Ahead(seats[n].queue, j, k)
          <5>1. j \in ids /\ k \in ids
            BY <1>6, <4>1
          <5> QED BY <4>1, <5>1 DEF InLine
        <4>2. CASE Queued(seats, n, j) /\ i = k
          BY <4>2
        <4> QED BY <1>2, <2>3, <3>1, <4>1, <4>2
      <3>2. CASE m # n
        <4>1. Ahead(seats[m].queue, j, k)
          BY <2>3, <3>2
        <4>2. j \in ids /\ k \in ids
          BY <1>6, <4>1
        <4> QED BY <4>1, <4>2 DEF InLine
      <3> QED BY <3>1, <3>2
    <2>4. ASSUME NEW m \in SeatIds, NEW l \in SeatIds, Queued(seats', m, j), Queued(seats', l, k)
          PROVE  m = l
      <3>1. m = n
        BY <1>3, <1>8, <2>4
      <3>2. l = n
        BY <1>3, <1>8, <2>4
      <3> QED BY <3>1, <3>2
    <2> QED BY <2>1, <2>2, <2>3, <2>4
  <1> QED BY <1>9 DEF InLine

\* A graph comes to the same with a client's frame behind the others.
LEMMA SyncedBehind ==
    ASSUME NEW n \in SeatIds, Synced(n), NEW s, s = seats[n].session, seats'[n].session = s,
           seats[n].queue \in Seq(Waiting), NEW f \in Waiting, Follows(f),
           seats'[n].queue = Append(seats[n].queue, f),
           seats'[n].graph = seats[n].graph, seats'[n].value = seats[n].value,
           NEW more, sessions'[s].pending = sessions[s].pending \union more,
           sessions'[s].log = sessions[s].log,
           \A j \in more : f.id = j, \A j \in sessions[s].pending : f.id # j
    PROVE  Synced(n)'
  <1> PICK q, r : q = seats[n].queue /\ r = seats'[n].queue
    OBVIOUS
  <1>1. /\ Opens(r) <=> Opens(q)
        /\ \A x, v : Comes(r, x, v) <=> Comes(q, x, v)
        /\ \A j : In(r, j) <=> In(q, j) \/ f.id = j
    <2> HIDE DEF Waiting
    <2>1. q \in Seq(Waiting) /\ r = Append(q, f)
      OBVIOUS
    <2> QED BY <2>1, FollowedQueue, AppendIds
  <1>2. Elsewhere(sessions'[s], r) = Elsewhere(sessions[s], q)
    BY <1>1 DEF Elsewhere
  <1>3. \A v : Agrees(sessions[s], q, v) => Agrees(sessions'[s], r, v)
    BY <1>2 DEF Agrees
  <1>4. Alive(seats', n) => Alive(seats, n)
    BY <1>1 DEF Alive
  <1>5. Alive(seats, n) => \E v \in Values :
          Comes(q, seats[n].value, v) /\ Agrees(sessions[s], q, v)
    BY DEF Synced
  <1>6. Alive(seats', n) => \E v \in Values :
          Comes(r, seats'[n].value, v) /\ Agrees(sessions'[s], r, v)
    BY <1>1, <1>3, <1>4, <1>5
  <1> QED BY <1>6 DEF Synced

\* What an uncrossed dispatch of a write finds: every pending write on the seat.
LEMMA NothingBehind ==
    ASSUME LogInv, NEW i \in Ids, Dispatch(i), NEW s \in Sessions, s = Request[i].session,
           NEW n \in Placed(s), s \notin crossed'
    PROVE  /\ s \notin crossed
           /\ Parked(i) # {} => \A j \in sessions[s].pending :
                Queued(seats, n, j) \/ PostedBy(posts, n, j)
  <1>1. Crossing(i)
    BY DEF Dispatch
  <1>2. s \notin crossed
    BY <1>1 DEF Crossing
  <1>3. ASSUME Parked(i) # {}, NEW j \in sessions[s].pending
        PROVE  Queued(seats, n, j) \/ PostedBy(posts, n, j)
    <2>1. ~\A m \in Placed(s) :
            /\ \A k \in DOMAIN seats[m].queue : seats[m].queue[k].id # j
            /\ \A k \in DOMAIN posts : posts[k].seat = m => posts[k].id # j
      BY <1>1, <1>3 DEF Crossing
    <2>2. PICK m \in Placed(s) : Queued(seats, m, j) \/ PostedBy(posts, m, j)
      BY <2>1 DEF Queued, In, PostedBy
    <2>3. /\ m \in SeatIds /\ seats[m].held /\ seats[m].session = s
          /\ n \in SeatIds /\ seats[n].held /\ seats[n].session = s
      BY PlacedSeat, LogTypes
    <2>4. m = n
      BY <2>3, HeldSeat, LogTypes
    <2> QED BY <2>2, <2>4
  <1> QED BY <1>2, <1>3

LEMMA LogDispatch ==
    ASSUME InOrder, LogInv, RequestsInv', NEW i \in Ids, Dispatch(i)
    PROVE  LogInv'
  <1>0. TypeInv /\ TypeInv'
    BY LogTypes DEF RequestsInv, PlacesInv
  <1>1. PICK s \in Sessions : s = Request[i].session
    BY RequestType
  <1>2. /\ Receive(i) /\ outstanding' = outstanding \union {i} /\ posts' = posts
        /\ Request[i].kind # "close" /\ crossed \subseteq crossed'
    BY DEF Dispatch, Crossing
  <1>3. /\ \A r \in Sessions \ {s} : sessions'[r] = sessions[r]
        /\ sessions'[s].log = sessions[s].log
        /\ sessions'[s].pending = sessions[s].pending \union Parked(i)
    BY <1>0, <1>1, DispatchEffect
  <1>4. PICK n \in Placed(s) : seats' = Send(seats, n, Frame(i))
    BY <1>0, <1>1, DispatchEffect
  <1>5. /\ i \notin outstanding /\ sent \subseteq sent'
        /\ \A j \in sessions[s].pending : j \in Ids /\ j < i /\ j # i
        /\ \A m \in SeatIds : ~Queued(seats, m, i)
        /\ ~In(posts, i)
        /\ Frame(i) \in Waiting /\ Frame(i).id = i /\ Frame(i).kind # "close" /\ Follows(Frame(i))
    BY <1>1, <1>2, Incoming
  <1>6. /\ n \in SeatIds /\ seats[n].held /\ seats[n].session = s /\ seats[n].queue \in Seq(Waiting)
        /\ seats'[n].queue = Append(seats[n].queue, Frame(i)) /\ seats'[n].session = s
        /\ seats'[n].graph = seats[n].graph /\ seats'[n].value = seats[n].value
        /\ seats'[n].held
        /\ \A m \in SeatIds \ {n} : seats'[m] = seats[m]
    BY <1>4, <1>5, SendGraph
  <1>7. Formed(n)' /\ (Alive(seats', n) => Alive(seats, n))
    BY <1>0, <1>5, <1>6, FormedStays, LogTypes
  <1>8. Quiet(seats'[n].queue, seats[n].queue, Ids \ {i})
    <2> HIDE DEF Waiting
    <2> QED BY <1>5, <1>6, QuietQueues
  <1>9. Thin(posts', posts)
    BY <1>2, ThinSame
  <1>10. Parked(i) \subseteq {i} /\ (i \in Parked(i) <=> Request[i].kind \in Writes)
    BY DEF Parked
  <1>11. Tended(n)
    BY <1>6, LogTypes
  <1>12. sessions'[s].pending \subseteq outstanding'
    BY <1>2, <1>3, <1>6, <1>10, <1>11 DEF Tended
  <1>13. \A j \in Ids : Queued(seats', n, j) /\ Request[j].kind \in Writes => j \in sessions'[s].pending
    <2>1. \A j : Queued(seats', n, j) <=> Queued(seats, n, j) \/ i = j
      <3> HIDE DEF Waiting
      <3> QED BY <1>5, <1>6, AppendIds DEF Queued
    <2> QED BY <1>3, <1>6, <1>10, <1>11, <2>1 DEF Tended
  <1>14. ASSUME s \notin crossed'
         PROVE  InLine(sessions'[s].pending, seats', posts') /\ Synced(n)'
    <2>1. s \notin crossed
      BY <1>2, <1>14
    <2>2. InLine(sessions[s].pending, seats, posts) /\ Synced(n)
      BY <1>6, <1>11, <2>1 DEF Tended
    <2>3. Synced(n)'
      <3> HIDE DEF Waiting
      <3>1. (\A j \in Parked(i) : Frame(i).id = j) /\ \A j \in sessions[s].pending : Frame(i).id # j
        BY <1>5, <1>10
      <3>2. Frame(i) \in Waiting /\ Follows(Frame(i))
        BY <1>5
      <3>3. /\ seats'[n].session = s /\ seats[n].queue \in Seq(Waiting)
            /\ seats'[n].queue = Append(seats[n].queue, Frame(i))
            /\ seats'[n].graph = seats[n].graph /\ seats'[n].value = seats[n].value
            /\ n \in SeatIds /\ s = seats[n].session
        BY <1>6
      <3>4. sessions'[s].log = sessions[s].log /\ sessions'[s].pending = sessions[s].pending \union Parked(i)
        BY <1>3
      <3> QED BY <2>2, <3>1, <3>2, <3>3, <3>4, SyncedBehind
    <2>4. CASE Parked(i) = {}
      <3>1. sessions[s].pending \subseteq Ids \ {i}
        BY <1>5
      <3>2. Calm(Ids \ {i})
        <4>1. \A m \in SeatIds : Quiet(seats'[m].queue, seats[m].queue, Ids \ {i})
          BY <1>6, <1>8 DEF Quiet
        <4>2. Quiet(posts', posts, Ids \ {i})
          BY <1>2 DEF Quiet
        <4> QED BY <4>1, <4>2 DEF Calm
      <3>3. InLine(sessions[s].pending, seats', posts')
        BY <2>2, <3>1, <3>2, CalmLine
      <3>4. sessions'[s].pending = sessions[s].pending
        BY <1>3, <2>4
      <3> QED BY <2>3, <3>3, <3>4
    <2>5. CASE Parked(i) # {}
      <3>1. \A j \in sessions[s].pending : j < i /\ (Queued(seats, n, j) \/ PostedBy(posts, n, j))
        BY <1>1, <1>5, <1>14, <2>5, NothingBehind
      <3>2. sessions[s].pending \in SUBSET Ids
        BY <1>5
      <3>3. InLine(sessions[s].pending \union {i}, seats', posts')
        BY <1>2, <1>5, <1>6, <2>2, <3>1, <3>2, LineGrows
      <3>4. sessions'[s].pending = sessions[s].pending \union {i}
        BY <1>3, <1>10, <2>5
      <3> QED BY <2>3, <3>3, <3>4
    <2> QED BY <2>4, <2>5
  <1>15. Tended(n)'
    BY <1>6, <1>12, <1>13, <1>14 DEF Tended
  <1>16. \A m \in SeatIds : m \notin {n} => GoesOn(m)
    <2> SUFFICES ASSUME NEW m \in SeatIds, m # n PROVE GoesOn(m)
      OBVIOUS
    <2>1. seats'[m] = seats[m]
      BY <1>6
    <2>2. seats[m].held => seats[m].session \in Sessions \ {s}
      BY <1>0, <1>6, HeldSeat
    <2>3. seats[m].held => Same(seats[m].session)
      BY <1>2, <1>3, <2>2 DEF Same
    <2> QED BY <2>1, <2>3 DEF GoesOn
  <1>17. \A r \in Sessions : Writing(r)'
    <2>1. Writing(s)'
      BY <1>1, <1>2, <1>3, WritingComes, LogTypes
    <2>2. ASSUME NEW r \in Sessions, r # s PROVE Writing(r)'
      <3>1. Writing(r)
        BY LogTypes
      <3>2. sessions'[r].pending \subseteq sessions[r].pending
        BY <1>3, <2>2
      <3> QED BY <1>5, <3>1, <3>2, WritingStays
    <2> QED BY <2>1, <2>2
  <1>18. \A m \in SeatIds : m \in {n} =>
             /\ Quiet(seats'[m].queue, seats[m].queue, Ids \ {i})
             /\ Formed(m)' /\ (seats'[m].held => Tended(m)')
             /\ \/ Alive(seats', m) => Alive(seats, m)
                \/ \A k \in DOMAIN posts' : posts'[k].seat # m
    BY <1>7, <1>8, <1>15
  <1> QED BY <1>5, <1>9, <1>16, <1>17, <1>18, LogMoves

LEMMA LastOf ==
    ASSUME NEW ids \in SUBSET Nat, IsFiniteSet(ids), ids # {}
    PROVE  \E m \in ids : \A j \in ids : j <= m
  <1> DEFINE f == Ascending(ids)
             n == Cardinality(ids)
  <1>1. /\ f \in Seq(ids) /\ Range(f) = ids
        /\ \A k, l \in 1..n : k < l => f[k] < f[l]
    BY AscendingProperties, AscendingClimbs
  <1>2. n \in Nat /\ DOMAIN f = 1..n /\ n # 0
    BY FS_CardinalityType, FS_EmptySet DEF Ascending
  <1> HIDE DEF f, n
  <1>3. n \in 1..n /\ f[n] \in ids
    BY <1>1, <1>2
  <1>4. ASSUME NEW j \in ids PROVE j <= f[n]
    <2>1. PICK k \in 1..n : f[k] = j
      BY <1>1, <1>2 DEF Range
    <2>2. CASE k = n
      BY <1>3, <2>1, <2>2
    <2>3. CASE k < n
      <3> PICK last \in ids : last = f[n]
        BY <1>3
      <3>1. f[k] < f[n]
        BY <1>1, <1>3, <2>3
      <3>2. j < last /\ j \in Nat /\ last \in Nat
        BY <2>1, <3>1
      <3> QED BY <3>2
    <2>4. k = n \/ k < n
      BY <1>2
    <2> QED BY <2>2, <2>3, <2>4
  <1> QED BY <1>3, <1>4

LEMMA RebuildFrames ==
    ASSUME NEW rec \in Record
    PROVE  LET q == Rebuild(rec)
               c == Cardinality(rec.pending)
               asc == Ascending(rec.pending)
           IN /\ q \in Seq(Waiting) /\ c \in Nat /\ DOMAIN q = 1..(c + 1)
              /\ q[1] = Reopen(rec.log)
              /\ \A k \in 1..c : q[k + 1] = Rewrite(asc[k]) /\ asc[k] \in rec.pending
              /\ \A j \in rec.pending : \E k \in 1..c : asc[k] = j
              /\ \A k, l \in 1..c : k < l => asc[k] < asc[l]
              /\ rec.pending \in SUBSET Nat /\ IsFiniteSet(rec.pending) /\ rec.pending \subseteq Ids
  <1> DEFINE c == Cardinality(rec.pending)
             asc == Ascending(rec.pending)
             writes == [k \in 1..c |-> Rewrite(asc[k])]
             first == <<Reopen(rec.log)>>
  <1>1. rec.pending \in SUBSET Nat /\ IsFiniteSet(rec.pending) /\ rec.pending \subseteq Ids
    BY RequestAssumption, FS_Subset DEF Record
  <1>2. /\ asc \in Seq(rec.pending) /\ Range(asc) = rec.pending /\ c \in Nat
        /\ DOMAIN asc = 1..c
        /\ \A k, l \in 1..c : k < l => asc[k] < asc[l]
    BY <1>1, AscendingProperties, AscendingClimbs, FS_CardinalityType DEF Ascending
  <1>3. Rebuild(rec) = first \o writes /\ Rebuild(rec) \in Seq(Waiting)
    BY RebuildType DEF Rebuild
  <1> HIDE DEF c, asc
  <1>4. /\ \A k \in 1..c : asc[k] \in rec.pending
        /\ \A j \in rec.pending : \E k \in 1..c : asc[k] = j
    BY <1>2 DEF Range
  <1> PICK all : all = {Reopen(rec.log)} \union {Rewrite(asc[k]) : k \in 1..c}
    OBVIOUS
  <1>5. /\ writes \in Seq(all) /\ Len(writes) = c /\ \A k \in 1..c : writes[k] = Rewrite(asc[k])
        /\ first \in Seq(all) /\ Len(first) = 1 /\ first[1] = Reopen(rec.log)
    <2>1. writes \in [1..c -> all]
      OBVIOUS
    <2>2. writes \in Seq(all) /\ Len(writes) = c
      BY <1>2, <2>1
    <2>3. \A k \in 1..c : writes[k] = Rewrite(asc[k])
      OBVIOUS
    <2>4. first \in Seq(all) /\ Len(first) = 1 /\ first[1] = Reopen(rec.log)
      OBVIOUS
    <2> QED BY <2>2, <2>3, <2>4
  <1> HIDE DEF first, writes
  <1>6. /\ DOMAIN (first \o writes) = 1..(c + 1) /\ (first \o writes)[1] = Reopen(rec.log)
        /\ \A k \in 1..c : (first \o writes)[k + 1] = Rewrite(asc[k])
    <2>1. /\ first \o writes \in Seq(all) /\ Len(first \o writes) = 1 + c
          /\ \A k \in 1..(1 + c) : (first \o writes)[k] = IF k <= 1 THEN first[k] ELSE writes[k - 1]
      <3>1. /\ first \o writes \in Seq(all) /\ Len(first \o writes) = Len(first) + Len(writes)
            /\ \A k \in 1..(Len(first) + Len(writes)) : (first \o writes)[k] =
                 IF k <= Len(first) THEN first[k] ELSE writes[k - Len(first)]
        BY <1>5, ConcatProperties
      <3>2. Len(first) = 1 /\ Len(writes) = c
        BY <1>5
      <3> QED BY <3>1, <3>2
    <2>2. DOMAIN (first \o writes) = 1..(c + 1)
      <3>1. DOMAIN (first \o writes) = 1..Len(first \o writes)
        BY <2>1, LenProperties
      <3>2. 1 + c = c + 1
        BY <1>2
      <3> QED BY <2>1, <3>1, <3>2
    <2>3. (first \o writes)[1] = Reopen(rec.log)
      BY <1>2, <1>5, <2>1
    <2>4. ASSUME NEW k \in 1..c PROVE (first \o writes)[k + 1] = Rewrite(asc[k])
      <3>1. k + 1 \in 1..(1 + c) /\ ~(k + 1 <= 1) /\ (k + 1) - 1 = k
        BY <1>2
      <3>2. (first \o writes)[k + 1] = writes[k]
        BY <2>1, <3>1
      <3> QED BY <1>5, <3>2
    <2> QED BY <2>2, <2>3, <2>4
  <1> QED BY <1>1, <1>2, <1>3, <1>4, <1>6 DEF c, asc

\* The last write a session's log will take; the log when there is none.
Settles(rec, v) ==
    LET oks == {j \in rec.pending : Request[j].fate = "ok"} IN
    IF oks = {} THEN v = rec.log ELSE v \in oks /\ \A j \in oks : j <= v

\* A rebuilt graph comes to the last of the writes its session has pending.
LEMMA RebuildComes ==
    ASSUME NEW rec \in Record
    PROVE  /\ Shaped(Rebuild(rec)) /\ Opens(Rebuild(rec)) /\ \A j : In(Rebuild(rec), j) => j = 0
           /\ \E v \in Values : Settles(rec, v) /\ \A x : Comes(Rebuild(rec), x, v)
  <1> PICK q, c, asc : /\ q = Rebuild(rec) /\ c = Cardinality(rec.pending)
                       /\ asc = Ascending(rec.pending)
    OBVIOUS
  <1>1. /\ c \in Nat /\ DOMAIN q = 1..(c + 1)
        /\ q[1] = Reopen(rec.log)
        /\ \A k \in 1..c : q[k + 1] = Rewrite(asc[k]) /\ asc[k] \in rec.pending
        /\ \A j \in rec.pending : \E k \in 1..c : asc[k] = j
        /\ \A k, l \in 1..c : k < l => asc[k] < asc[l]
        /\ rec.pending \in SUBSET Nat /\ IsFiniteSet(rec.pending) /\ rec.pending \subseteq Ids
    BY RebuildFrames
  <1>2. \A k \in DOMAIN q : k \in Nat /\ (k = 1 \/ (k > 1 /\ k - 1 \in 1..c /\ q[k] = Rewrite(asc[k - 1])
                                                    /\ asc[k - 1] \in rec.pending))
    <2> SUFFICES ASSUME NEW k \in DOMAIN q, k # 1
                 PROVE  k \in Nat /\ k > 1 /\ k - 1 \in 1..c /\ q[k] = Rewrite(asc[k - 1])
                          /\ asc[k - 1] \in rec.pending
      BY <1>1
    <2>1. k \in Nat /\ k > 1 /\ k - 1 \in 1..c /\ (k - 1) + 1 = k
      BY <1>1
    <2> QED BY <1>1, <2>1
  <1>3. /\ q[1].kind = "open" /\ q[1].id = 0 /\ q[1].of = rec.log /\ 1 \in DOMAIN q
        /\ \A j : Rewrite(j).kind = "update" /\ Rewrite(j).id = 0 /\ Rewrite(j).of = j
        /\ "update" \in Writes /\ "open" \notin Writes
    BY <1>1 DEF Reopen, Rewrite, Writes
  <1>4. Shaped(q)
    <2>1. \A k \in DOMAIN q : q[k].kind = "open" => k = 1
      BY <1>2, <1>3
    <2>2. \A k \in DOMAIN q : q[k].id = 0
      BY <1>2, <1>3
    <2>3. \A k \in DOMAIN q : q[k].kind \in Writes => q[k].of \in Ids
      BY <1>1, <1>2, <1>3
    <2> QED BY <2>1, <2>2, <2>3 DEF Shaped
  <1>5. Opens(q) /\ \A j : In(q, j) => j = 0
    BY <1>2, <1>3 DEF Opens, In
  <1> PICK oks : oks = {j \in rec.pending : Request[j].fate = "ok"}
    OBVIOUS
  <1>6. \A k \in DOMAIN q : k \in Own(q) <=> k # 1 /\ asc[k - 1] \in oks
    <2> SUFFICES ASSUME NEW k \in DOMAIN q PROVE k \in Own(q) <=> k # 1 /\ asc[k - 1] \in oks
      OBVIOUS
    <2>1. CASE k = 1
      BY <1>3, <2>1 DEF Own, Takes
    <2>2. CASE k # 1
      BY <1>2, <1>3, <2>2 DEF Own, Takes
    <2> QED BY <2>1, <2>2
  <1>7. CASE oks = {}
    <2>1. Own(q) = {}
      BY <1>6, <1>7 DEF Own
    <2>2. \A x : Comes(q, x, rec.log)
      BY <1>3, <1>5, <2>1 DEF Comes
    <2>3. rec.log \in Values
      BY DEF Record, Values
    <2>4. Settles(rec, rec.log)
      BY <1>7 DEF Settles
    <2> QED BY <1>4, <1>5, <2>2, <2>3, <2>4
  <1>8. CASE oks # {}
    <2>1. oks \in SUBSET Nat /\ IsFiniteSet(oks) /\ oks \subseteq rec.pending
      BY <1>1, FS_Subset
    <2>2. PICK v \in oks : \A j \in oks : j <= v
      BY <1>8, <2>1, LastOf
    <2>3. PICK m \in 1..c : asc[m] = v
      BY <1>1, <2>1
    <2>4. m + 1 \in DOMAIN q /\ m + 1 # 1 /\ (m + 1) - 1 = m /\ m \in Nat
      BY <1>1
    <2>5. m + 1 \in Own(q) /\ q[m + 1].of = v
      <3>1. asc[(m + 1) - 1] \in oks
        BY <2>3, <2>4
      <3>2. m + 1 \in Own(q)
        BY <1>6, <2>4, <3>1
      <3>3. q[m + 1] = Rewrite(v)
        BY <1>1, <2>3
      <3> QED BY <1>3, <3>2, <3>3
    <2>6. ASSUME NEW k \in Own(q), ~(k <= m + 1) PROVE FALSE
      <3>1. k \in DOMAIN q /\ k # 1 /\ asc[k - 1] \in oks
        BY <1>6 DEF Own
      <3>2. k - 1 \in 1..c /\ m < k - 1
        BY <1>2, <2>4, <2>6, <3>1
      <3>3. asc[m] < asc[k - 1]
        BY <1>1, <3>2
      <3> PICK b \in oks : b = asc[k - 1]
        BY <3>1
      <3>4. v < b /\ b <= v
        BY <2>2, <2>3, <3>3
      <3> QED BY <2>1, <3>4
    <2>7. \A x : Comes(q, x, v)
      BY <2>5, <2>6 DEF Comes
    <2>8. v \in Values /\ Settles(rec, v)
      BY <1>1, <1>8, <2>1, <2>2 DEF Values, Settles
    <2> QED BY <1>4, <1>5, <2>7, <2>8
  <1> QED BY <1>7, <1>8

\* The seat a session moves to: its graph comes to the last write pending.
LEMMA RelocatedSynced ==
    ASSUME LogInv, NEW i \in Ids, NEW s \in Sessions, NEW n \in SeatIds, NEW w \in Workers,
           seats'[n] = NewSeat(s, w, Append(Rebuild(sessions[s]), Frame(i))),
           Frame(i) \in Waiting, Follows(Frame(i)), Frame(i).id = i,
           i \notin sessions[s].pending,
           sessions'[s].pending = sessions[s].pending \union Parked(i),
           sessions'[s].log = sessions[s].log
    PROVE  /\ Formed(n)' /\ Synced(n)' /\ seats'[n].session = s
           /\ \A j \in Ids : Queued(seats', n, j) => j = i
           /\ ~Ahead(seats'[n].queue, i, i)
  <1> PICK q, r : q = Rebuild(sessions[s]) /\ r = Append(q, Frame(i))
    OBVIOUS
  <1>0. sessions[s] \in Record
    BY SeatQueues, LogTypes
  <1>1. seats'[n].queue = r /\ seats'[n].session = s /\ seats'[n].graph = "none" /\ seats'[n].value = 0
    BY DEF NewSeat
  <1>2. /\ Shaped(q) /\ Opens(q) /\ \A j : In(q, j) => j = 0
        /\ \E v \in Values : Settles(sessions[s], v) /\ \A x : Comes(q, x, v)
    BY <1>0, RebuildComes
  <1>3. q \in Seq(Waiting)
    BY <1>0, RebuildType
  <1>4. /\ \A k, j : Ahead(r, k, j) => Ahead(q, k, j) \/ (In(q, k) /\ i = j)
        /\ Shaped(r) /\ Opens(r)
        /\ \A x, v : Comes(r, x, v) <=> Comes(q, x, v)
        /\ \A j : In(r, j) <=> In(q, j) \/ i = j
    <2> HIDE DEF Waiting
    <2>1. /\ \A k, j : Ahead(r, k, j) => Ahead(q, k, j) \/ (In(q, k) /\ Frame(i).id = j)
          /\ Shaped(q) => Shaped(r)
          /\ Opens(r) <=> Opens(q)
          /\ \A x, v : Comes(r, x, v) <=> Comes(q, x, v)
      BY <1>3, FollowedQueue
    <2>2. \A j : In(r, j) <=> In(q, j) \/ Frame(i).id = j
      BY <1>3, AppendIds
    <2> QED BY <1>2, <2>1, <2>2
  <1>5. 0 \notin Ids
    BY LogTypes
  <1>6. Formed(n)'
    BY <1>1, <1>4 DEF Formed
  <1>7. \A j \in Ids : In(r, j) <=> j = i
    BY <1>2, <1>4, <1>5
  <1>8. ~Ahead(r, i, i)
    <2>1. ~In(q, i)
      BY <1>2, <1>5
    <2>2. ~Ahead(q, i, i)
      BY <2>1 DEF Ahead, In
    <2> QED BY <1>4, <2>1, <2>2
  <1>9. PICK v \in Values : Settles(sessions[s], v) /\ \A x : Comes(q, x, v)
    BY <1>2
  <1>10. Elsewhere(sessions'[s], r) = {j \in sessions[s].pending : Request[j].fate = "ok"}
    <2>1. sessions[s].pending \subseteq Ids
      BY <1>0 DEF Record
    <2>2. Parked(i) \subseteq {i}
      BY DEF Parked
    <2> QED BY <1>7, <2>1, <2>2 DEF Elsewhere
  <1>11. Agrees(sessions'[s], r, v)
    BY <1>9, <1>10 DEF Agrees, Settles
  <1>12. Synced(n)'
    BY <1>1, <1>4, <1>9, <1>11 DEF Synced
  <1> QED BY <1>1, <1>6, <1>7, <1>8, <1>12 DEF Queued

LEMMA LogRelocate ==
    ASSUME InOrder, LogInv, RequestsInv', NEW i \in Ids, Relocate(i)
    PROVE  LogInv'
  <1>0. TypeInv /\ TypeInv'
    BY LogTypes DEF RequestsInv, PlacesInv
  <1>1. PICK s \in Sessions : s = Request[i].session
    BY RequestType
  <1>2. /\ Receive(i) /\ outstanding' = outstanding \union {i} /\ posts' = posts
        /\ crossed' = IF Parked(i) # {} /\ sessions[s].pending # {} THEN crossed \union {s} ELSE crossed
    BY <1>1 DEF Relocate
  <1>3. /\ \A r \in Sessions \ {s} : sessions'[r] = sessions[r]
        /\ sessions'[s].log = sessions[s].log
        /\ sessions'[s].pending = sessions[s].pending \union Parked(i)
    BY <1>0, <1>1, RelocateEffect
  <1>4. PICK old \in Placed(s), n \in SeatIds, w \in Workers :
          /\ Send(seats, old, Hangup)[n] = NoSeat /\ n # old
          /\ seats' = [Send(seats, old, Hangup) EXCEPT ![n] =
                         NewSeat(s, w, Append(Rebuild(sessions[s]), Frame(i)))]
    <2>1. \E old \in Placed(Request[i].session), n \in SeatIds, w \in Workers :
            /\ Send(seats, old, Hangup)[n] = NoSeat /\ n # old
            /\ seats' = [Send(seats, old, Hangup) EXCEPT ![n] =
                 NewSeat(Request[i].session, w,
                         Append(Rebuild(sessions[Request[i].session]), Frame(i)))]
      BY <1>0, RelocateEffect
    <2> QED BY <1>1, <2>1
  <1>5. /\ i \notin outstanding /\ sent \subseteq sent' /\ i \notin sessions[s].pending
        /\ \A m \in SeatIds : ~Queued(seats, m, i)
        /\ ~In(posts, i)
        /\ Frame(i) \in Waiting /\ Frame(i).id = i /\ Follows(Frame(i))
    BY <1>1, <1>2, Incoming
  <1> PICK left : left = Send(seats, old, Hangup)
    OBVIOUS
  <1>6. /\ old \in SeatIds /\ seats[old].held /\ seats[old].session = s /\ seats[old].queue \in Seq(Waiting)
        /\ left[old].queue = Append(seats[old].queue, Hangup)
        /\ left[old].graph = seats[old].graph /\ ~left[old].held
        /\ \A m \in SeatIds \ {old} : left[m] = seats[m]
    BY HangupFollows, SendGraph
  <1>7. /\ seats'[n] = NewSeat(s, w, Append(Rebuild(sessions[s]), Frame(i)))
        /\ \A m \in SeatIds \ {n} : seats'[m] = left[m]
        /\ seats[n] = NoSeat
    <2>1. left \in Table
      BY <1>0, HangupSame
    <2> QED BY <1>4, <1>6, <2>1 DEF Table
  <1>8. /\ seats'[old].queue = Append(seats[old].queue, Hangup) /\ seats'[old].graph = seats[old].graph
        /\ ~seats'[old].held /\ n # old
        /\ \A m \in SeatIds \ {old, n} : seats'[m] = seats[m]
    BY <1>4, <1>6, <1>7
  <1>9. Formed(old)' /\ (Alive(seats', old) => Alive(seats, old))
    BY <1>0, <1>6, <1>8, HangupFollows, FormedStays, LogTypes
  <1>10. /\ Formed(n)' /\ Synced(n)' /\ seats'[n].session = s
         /\ \A j \in Ids : Queued(seats', n, j) => j = i
         /\ ~Ahead(seats'[n].queue, i, i)
    BY <1>3, <1>5, <1>7, RelocatedSynced
  <1>11. \A m \in SeatIds : Quiet(seats'[m].queue, seats[m].queue, Ids \ {i})
    <2>1. Quiet(seats'[old].queue, seats[old].queue, Ids \ {i})
      <3> HIDE DEF Waiting
      <3>1. Hangup.id \notin Ids \ {i}
        BY HangupFollows, LogTypes
      <3> QED BY <1>6, <1>8, <3>1, HangupFollows, QuietQueues
    <2>2. Quiet(seats'[n].queue, seats[n].queue, Ids \ {i})
      <3>1. \A j \in Ids \ {i} : ~In(seats'[n].queue, j)
        BY <1>10 DEF Queued
      <3> QED BY <3>1 DEF Quiet, Ahead, In
    <2>3. \A m \in SeatIds \ {old, n} : Quiet(seats'[m].queue, seats[m].queue, Ids \ {i})
      BY <1>8 DEF Quiet
    <2> QED BY <2>1, <2>2, <2>3
  <1>12. Parked(i) \subseteq {i} /\ (i \in Parked(i) <=> Request[i].kind \in Writes)
    BY DEF Parked
  <1>13. Tended(old)
    BY <1>6, LogTypes
  <1>14. sessions'[s].pending \subseteq outstanding'
    BY <1>2, <1>3, <1>6, <1>12, <1>13 DEF Tended
  <1>15. \A j \in Ids : Queued(seats', n, j) /\ Request[j].kind \in Writes => j \in sessions'[s].pending
    BY <1>3, <1>10, <1>12
  <1>16. ASSUME s \notin crossed' PROVE InLine(sessions'[s].pending, seats', posts')
    <2>1. CASE Parked(i) = {}
      <3>1. s \notin crossed
        BY <1>2, <1>16
      <3>2. InLine(sessions[s].pending, seats, posts)
        BY <1>6, <1>13, <3>1 DEF Tended
      <3>3. sessions[s].pending \subseteq Ids \ {i}
        BY <1>5, <1>6, PendingOwed
      <3>4. Calm(Ids \ {i})
        <4>1. Quiet(posts', posts, Ids \ {i})
          BY <1>2 DEF Quiet
        <4> QED BY <1>11, <4>1 DEF Calm
      <3>5. InLine(sessions[s].pending, seats', posts')
        BY <3>2, <3>3, <3>4, CalmLine
      <3>6. sessions'[s].pending = sessions[s].pending
        BY <1>3, <2>1
      <3> QED BY <3>5, <3>6
    <2>2. CASE Parked(i) # {}
      <3>1. sessions'[s].pending = {i}
        BY <1>2, <1>3, <1>12, <1>16, <2>2
      <3>2. \A m \in SeatIds : Queued(seats', m, i) => m = n
        <4>1. ~Queued(seats', old, i)
          <5>1. \A j : In(seats'[old].queue, j) <=> In(seats[old].queue, j) \/ Hangup.id = j
            <6> HIDE DEF Waiting
            <6> QED BY <1>6, <1>8, HangupFollows, AppendIds
          <5>2. Hangup.id # i
            BY HangupFollows, LogTypes
          <5> QED BY <1>5, <1>6, <5>1, <5>2 DEF Queued
        <4>2. \A m \in SeatIds \ {old, n} : ~Queued(seats', m, i)
          BY <1>5, <1>8 DEF Queued
        <4> QED BY <4>1, <4>2
      <3>3. ~In(posts', i) /\ ~Ahead(posts', i, i)
        BY <1>2, <1>5 DEF Ahead, In
      <3>4. \A m \in SeatIds : ~Ahead(seats'[m].queue, i, i)
        <4> SUFFICES ASSUME NEW m \in SeatIds, Ahead(seats'[m].queue, i, i) PROVE FALSE
          OBVIOUS
        <4>1. Queued(seats', m, i)
          BY DEF Ahead, Queued, In
        <4> QED BY <1>10, <3>2, <4>1
      <3>5. InLine({i}, seats', posts')
        BY <3>2, <3>3, <3>4 DEF InLine
      <3> QED BY <3>1, <3>5
    <2> QED BY <2>1, <2>2
  <1>17. Tended(n)'
    BY <1>10, <1>14, <1>15, <1>16 DEF Tended
  <1>18. \A m \in SeatIds : m \notin {old, n} => GoesOn(m)
    <2> SUFFICES ASSUME NEW m \in SeatIds, m # n, m # old PROVE GoesOn(m)
      OBVIOUS
    <2>1. seats'[m] = seats[m]
      BY <1>8
    <2>2. seats[m].held => seats[m].session \in Sessions \ {s}
      BY <1>0, <1>6, HeldSeat
    <2>3. seats[m].held => Same(seats[m].session)
      BY <1>2, <1>3, <2>2 DEF Same
    <2> QED BY <2>1, <2>3 DEF GoesOn
  <1>19. \A r \in Sessions : Writing(r)'
    <2>1. Writing(s)'
      BY <1>1, <1>2, <1>3, WritingComes, LogTypes
    <2>2. ASSUME NEW r \in Sessions, r # s PROVE Writing(r)'
      <3>1. Writing(r)
        BY LogTypes
      <3>2. sessions'[r].pending \subseteq sessions[r].pending
        BY <1>3, <2>2
      <3> QED BY <1>5, <3>1, <3>2, WritingStays
    <2> QED BY <2>1, <2>2
  <1>20. \A k \in DOMAIN posts' : posts'[k].seat # n
    BY <1>2, <1>7, SeatQueues, LogTypes
  <1>21. \A m \in SeatIds : m \in {old, n} =>
             /\ Quiet(seats'[m].queue, seats[m].queue, Ids \ {i})
             /\ Formed(m)' /\ (seats'[m].held => Tended(m)')
             /\ \/ Alive(seats', m) => Alive(seats, m)
                \/ \A k \in DOMAIN posts' : posts'[k].seat # m
    BY <1>8, <1>9, <1>10, <1>11, <1>17, <1>20
  <1>22. Thin(posts', posts)
    BY <1>2, ThinSame
  <1> QED BY <1>5, <1>18, <1>19, <1>21, <1>22, LogMoves

LEMMA LineShrinks ==
    ASSUME NEW ids, NEW few, few \subseteq ids, NEW ss, NEW ps, InLine(ids, ss, ps)
    PROVE  InLine(few, ss, ps)
  <1> SUFFICES ASSUME NEW i \in few, NEW j \in few
               PROVE  /\ Ahead(ps, i, j) => i < j
                      /\ \A m \in SeatIds :
                           /\ Queued(ss, m, j) /\ In(ps, i) => i < j
                           /\ Ahead(ss[m].queue, i, j) => i < j
                           /\ \A n \in SeatIds : Queued(ss, m, i) /\ Queued(ss, n, j) => m = n
    BY DEF InLine
  <1>1. i \in ids /\ j \in ids
    OBVIOUS
  <1> QED BY <1>1 DEF InLine

\* A graph comes to the same without a client's frame that waited for it.
LEMMA SyncedWithout ==
    ASSUME NEW n \in SeatIds, Formed(n), Synced(n), NEW s, s = seats[n].session,
           seats'[n].session = s, seats[n].queue \in Seq(Waiting),
           NEW i, i # 0, NEW k \in DOMAIN seats[n].queue, seats[n].queue[k] = Frame(i),
           Frame(i).id = i,
           seats'[n].queue = RemoveAt(seats[n].queue, k),
           seats'[n].graph = seats[n].graph, seats'[n].value = seats[n].value,
           Single(seats[n].queue, i),
           sessions'[s].pending = sessions[s].pending \ {i}, sessions'[s].log = sessions[s].log
    PROVE  Synced(n)'
  <1> PICK q, r : q = seats[n].queue /\ r = seats'[n].queue
    OBVIOUS
  <1>1. q \in Seq(Waiting) /\ k \in DOMAIN q /\ r = RemoveAt(q, k) /\ q[k].id = i
    OBVIOUS
  <1>2. /\ r \in Seq(Waiting)
        /\ \E f : Thins(r, q, f) /\ \A l \in DOMAIN q : l # k => \E m \in DOMAIN r : f[m] = l
    <2> HIDE DEF Waiting
    <2> QED BY <1>1, ThinRemoveAt
  <1>3. PICK f : Thins(r, q, f) /\ \A l \in DOMAIN q : l # k => \E m \in DOMAIN r : f[m] = l
    BY <1>2
  <1>4. \A j : In(r, j) <=> In(q, j) /\ j # i
    <2> HIDE DEF Waiting
    <2>1. /\ \A j : In(r, j) => In(q, j)
          /\ \A j : In(q, j) /\ q[k].id # j => In(r, j)
          /\ \A j : Single(q, j) /\ q[k].id = j => ~In(r, j)
      BY <1>1, RemoveAtIds
    <2> QED BY <1>1, <2>1
  <1>5. CASE q[k].kind = "open"
    <2>1. \A l \in DOMAIN q : q[l].kind = "open" => l = k
      BY <1>1, <1>5 DEF Formed, Shaped
    <2>2. ~Opens(r)
      <3> SUFFICES ASSUME NEW m \in DOMAIN r, r[m].kind = "open" PROVE FALSE
        BY DEF Opens
      <3>1. f[m] \in DOMAIN q /\ r[m] = q[f[m]]
        BY <1>3 DEF Thins
      <3>2. f[m] = k
        BY <2>1, <3>1
      <3>3. In(r, i)
        BY <1>1, <3>1, <3>2 DEF In
      <3> QED BY <1>4, <3>3
    <2>3. seats[n].graph # "clean"
      BY <1>5 DEF Formed, Opens
    <2> QED BY <2>2, <2>3 DEF Synced, Alive
  <1>6. CASE q[k].kind # "open"
    <2>1. Spares(q, f, DOMAIN r)
      BY <1>1, <1>3, <1>6 DEF Spares
    <2>2. (Opens(r) <=> Opens(q)) /\ \A x, v : Comes(r, x, v) <=> Comes(q, x, v)
      <3> HIDE DEF Waiting
      <3> QED BY <1>1, <1>2, <1>3, <2>1, SparedComes
    <2>3. Elsewhere(sessions'[s], r) = Elsewhere(sessions[s], q)
      <3>1. In(q, i)
        BY <1>1 DEF In
      <3> QED BY <1>4, <3>1 DEF Elsewhere
    <2>4. \A v : Agrees(sessions[s], q, v) => Agrees(sessions'[s], r, v)
      BY <2>3 DEF Agrees
    <2>5. Alive(seats', n) => Alive(seats, n)
      BY <2>2 DEF Alive
    <2>6. Alive(seats, n) => \E v \in Values :
            Comes(q, seats[n].value, v) /\ Agrees(sessions[s], q, v)
      BY DEF Synced
    <2>7. Alive(seats', n) => \E v \in Values :
            Comes(r, seats'[n].value, v) /\ Agrees(sessions'[s], r, v)
      BY <2>2, <2>4, <2>5, <2>6
    <2> QED BY <2>7 DEF Synced
  <1> QED BY <1>5, <1>6

LEMMA LogWithdraw ==
    ASSUME LogInv, RequestsInv', NEW i \in Ids, CancelQueued(i)
    PROVE  LogInv'
  <1>0. TypeInv /\ TypeInv' /\ i # 0 /\ 0 \notin outstanding /\ PlacesInv
    BY LogTypes DEF RequestsInv, PlacesInv
  <1>1. PICK s \in Sessions : s = Request[i].session
    BY RequestType
  <1>2. /\ outstanding' = outstanding \ {i} /\ posts' = posts /\ crossed' = crossed /\ sent' = sent
    BY DEF CancelQueued, Answered, Deliver
  <1>3. /\ \A r \in Sessions \ {s} : sessions'[r] = sessions[r]
        /\ sessions'[s].log = sessions[s].log
        /\ sessions'[s].pending = sessions[s].pending \ {i}
    BY <1>0, <1>1, WithdrawEffect
  <1> PICK n \in Placed(s) : \E k \in DOMAIN seats[n].queue :
          seats[n].queue[k] = Frame(i) /\ seats' = [seats EXCEPT ![n].queue = RemoveAt(@, k)]
    BY <1>1 DEF CancelQueued
  <1>4. PICK k \in DOMAIN seats[n].queue :
          seats[n].queue[k] = Frame(i) /\ seats' = [seats EXCEPT ![n].queue = RemoveAt(@, k)]
    OBVIOUS
  <1>5. n \in SeatIds /\ seats[n].held /\ seats[n].session = s /\ seats[n] \in Seat
    BY <1>0, PlacedSeat
  <1>6. /\ seats'[n].queue = RemoveAt(seats[n].queue, k) /\ seats'[n].session = s
        /\ seats'[n].graph = seats[n].graph /\ seats'[n].value = seats[n].value
        /\ \A m \in SeatIds \ {n} : seats'[m] = seats[m]
    <2>1. seats \in Table
      BY <1>0, LedgerType DEF Sound, Whole
    <2>2. seats'[n] = [seats[n] EXCEPT !.queue = RemoveAt(@, k)]
      BY <1>4, <1>5, <2>1 DEF Table
    <2>3. \A m \in SeatIds \ {n} : seats'[m] = seats[m]
      BY <1>4, <1>5, <2>1 DEF Table
    <2> QED BY <1>5, <2>2, <2>3 DEF Seat
  <1>7. seats[n].queue \in Seq(Waiting) /\ seats'[n].queue \in Seq(Waiting)
    BY <1>0, <1>5, SeatQueues, NextQueues
  <1>8. Thin(seats'[n].queue, seats[n].queue)
    <2> HIDE DEF Waiting
    <2>1. \E f : Thins(RemoveAt(seats[n].queue, k), seats[n].queue, f)
      BY <1>7, ThinRemoveAt
    <2> QED BY <1>6, <2>1 DEF Thin
  <1>9. Formed(n) /\ Tended(n)
    BY <1>5, LogTypes
  <1>10. Formed(n)' /\ (Alive(seats', n) => Alive(seats, n))
    BY <1>0, <1>5, <1>6, <1>8, <1>9, FormedStays
  <1>11. \A ids : Quiet(seats'[n].queue, seats[n].queue, ids)
    <2> HIDE DEF Waiting
    <2> QED BY <1>7, <1>8, QuietQueues
  <1>12. Calm(Ids)
    <2>1. Quiet(posts', posts, Ids)
      BY <1>2 DEF Quiet
    <2>2. \A m \in SeatIds : Quiet(seats'[m].queue, seats[m].queue, Ids)
      BY <1>6, <1>11 DEF Quiet
    <2> QED BY <2>1, <2>2 DEF Calm
  <1>13. \A j \in Ids : Queued(seats', n, j) => Queued(seats, n, j) /\ j # i
    BY <1>0, <1>5, WithdrawPlaces DEF Leaves
  <1>14. Tended(n)'
    <2>1. sessions'[s].pending \subseteq outstanding'
      BY <1>2, <1>3, <1>5, <1>9 DEF Tended
    <2>2. \A j \in Ids : Queued(seats', n, j) /\ Request[j].kind \in Writes => j \in sessions'[s].pending
      BY <1>3, <1>5, <1>9, <1>13 DEF Tended
    <2>3. ASSUME s \notin crossed' PROVE InLine(sessions'[s].pending, seats', posts') /\ Synced(n)'
      <3>1. InLine(sessions[s].pending, seats, posts) /\ Synced(n)
        BY <1>2, <1>5, <1>9, <2>3 DEF Tended
      <3>2. sessions'[s].pending \subseteq sessions[s].pending /\ sessions'[s].pending \subseteq Ids
        BY <1>3, <1>5, PendingOwed
      <3>3. InLine(sessions'[s].pending, seats', posts')
        <4> PICK few : few = sessions'[s].pending
          OBVIOUS
        <4>1. few \subseteq sessions[s].pending /\ few \subseteq Ids
          BY <3>2
        <4>2. InLine(few, seats, posts)
          BY <3>1, <4>1, LineShrinks
        <4>3. InLine(few, seats', posts')
          BY <1>12, <4>1, <4>2, CalmLine
        <4> QED BY <4>3
      <3>4. Single(seats[n].queue, i)
        BY <1>0, <1>5 DEF PlacesInv, Distinct
      <3>5. Frame(i).id = i
        BY RequestType
      <3>6. Synced(n)'
        <4> HIDE DEF Waiting
        <4> QED BY <1>0, <1>3, <1>4, <1>5, <1>6, <1>7, <1>9, <3>1, <3>4, <3>5, SyncedWithout
      <3> QED BY <3>3, <3>6
    <2> QED BY <1>6, <2>1, <2>2, <2>3 DEF Tended
  <1>15. \A m \in SeatIds : m \notin {n} => GoesOn(m)
    <2> SUFFICES ASSUME NEW m \in SeatIds, m # n PROVE GoesOn(m)
      OBVIOUS
    <2>1. seats'[m] = seats[m]
      BY <1>6
    <2>2. seats[m].held => seats[m].session \in Sessions \ {s}
      BY <1>0, <1>5, HeldSeat
    <2>3. seats[m].held => Same(seats[m].session)
      BY <1>1, <1>2, <1>3, <2>2 DEF Same
    <2> QED BY <2>1, <2>3 DEF GoesOn
  <1>16. \A r \in Sessions : Writing(r)'
    <2> SUFFICES ASSUME NEW r \in Sessions PROVE Writing(r)'
      OBVIOUS
    <2>1. Writing(r)
      BY LogTypes
    <2>2. sessions'[r].pending \subseteq sessions[r].pending
      BY <1>3
    <2> QED BY <1>2, <2>1, <2>2, WritingStays
  <1>17. \A m \in SeatIds : m \in {n} =>
             /\ Quiet(seats'[m].queue, seats[m].queue, Ids \ {0})
             /\ Formed(m)' /\ (seats'[m].held => Tended(m)')
             /\ \/ Alive(seats', m) => Alive(seats, m)
                \/ \A k2 \in DOMAIN posts' : posts'[k2].seat # m
    BY <1>10, <1>11, <1>14
  <1>18. Thin(posts', posts)
    BY <1>2, ThinSame
  <1> QED BY <1>0, <1>15, <1>16, <1>17, <1>18, LogMoves

\* A session that is replayed is back with its log, on a seat that has it to open
\* and nothing else, or it is gone.
LEMMA ReplayLog ==
    ASSUME sessions \in [Sessions -> Record], NEW s \in Sessions, NEW p, NEW ss \in Table,
           Replay(s, p, ss)
    PROVE  /\ sessions'[s].pending = {} /\ sessions'[s].log \in Ids \union {0}
           /\ \A r \in Sessions \ {s} : sessions'[r] = sessions[r]
           /\ outstanding' = outstanding \ OwedOn(s)
           /\ \A n \in SeatIds :
                \/ seats'[n] = ss[n]
                \/ /\ ss[n] = NoSeat
                   /\ \E w \in Workers : seats'[n] = NewSeat(s, w, <<Reopen(sessions'[s].log)>>)
  <1> PICK rec : rec = sessions[s] /\ rec \in Record
    OBVIOUS
  <1>1. outstanding' = outstanding \ OwedOn(s)
    BY DEF Replay, Replayed, Dropped, Forget
  <1>2. CASE Replayed(s, p, ss)
    <2>1. PICK w \in Openings(p, ss, rec.placement), n \in FreeSeats(ss) :
            /\ seats' = [ss EXCEPT ![n] = NewSeat(s, w, <<Reopen(rec.log)>>)]
            /\ sessions' = [sessions EXCEPT ![s] =
                   [rec EXCEPT !.worker = w, !.pending = {}, !.targets = {}, !.armed = FALSE,
                               !.generation = rec.generation + 1]]
      BY <1>2 DEF Replayed
    <2>2. w \in Workers /\ n \in SeatIds /\ ss[n] = NoSeat
      BY DEF Openings, Unused, FreeSeats
    <2>3. /\ sessions'[s] = [rec EXCEPT !.worker = w, !.pending = {}, !.targets = {}, !.armed = FALSE,
                               !.generation = rec.generation + 1]
          /\ \A r \in Sessions \ {s} : sessions'[r] = sessions[r]
      BY <2>1
    <2>4. sessions'[s].pending = {} /\ sessions'[s].log = rec.log /\ rec.log \in Ids \union {0}
      BY <2>3 DEF Record
    <2>5. /\ seats'[n] = NewSeat(s, w, <<Reopen(rec.log)>>)
          /\ \A m \in SeatIds \ {n} : seats'[m] = ss[m]
      BY <2>1, <2>2 DEF Table
    <2> QED BY <1>1, <2>2, <2>3, <2>4, <2>5
  <1>3. CASE Dropped(s, p, ss)
    <2>1. sessions' = [sessions EXCEPT ![s] = NoSession] /\ seats' = ss
      BY <1>3 DEF Dropped
    <2>2. sessions'[s] = NoSession /\ \A r \in Sessions \ {s} : sessions'[r] = sessions[r]
      BY <2>1
    <2> QED BY <1>1, <2>1, <2>2 DEF NoSession
  <1> QED BY <1>2, <1>3 DEF Replay

LEMMA LogReplay ==
    ASSUME LogInv, RequestsInv', NEW s \in Sessions, NEW p, NEW ss \in Table, Replay(s, p, ss),
           Thin(posts', posts), \A k \in DOMAIN posts' : ss[posts'[k].seat] # NoSeat,
           crossed' = crossed, sent' = sent,
           \A n \in SeatIds : ss[n] = seats[n] \/ ss[n] = NoSeat,
           \A n \in SeatIds : ss[n].held => ss[n].session # s
    PROVE  LogInv'
  <1> DEFINE at == {n \in SeatIds : ss[n] = NoSeat}
  <1>1. /\ sessions'[s].pending = {} /\ sessions'[s].log \in Ids \union {0}
        /\ \A r \in Sessions \ {s} : sessions'[r] = sessions[r]
        /\ outstanding' = outstanding \ OwedOn(s)
        /\ \A n \in SeatIds :
             \/ seats'[n] = ss[n]
             \/ /\ ss[n] = NoSeat
                /\ \E w \in Workers : seats'[n] = NewSeat(s, w, <<Reopen(sessions'[s].log)>>)
    <2>1. sessions \in [Sessions -> Record]
      BY SeatQueues, LogTypes
    <2> HIDE DEF Replay, Record, Table
    <2> QED BY <2>1, ReplayLog
  <1>2. \A n \in SeatIds : n \notin at => GoesOn(n)
    <2> SUFFICES ASSUME NEW n \in SeatIds, ss[n] # NoSeat PROVE GoesOn(n)
      OBVIOUS
    <2>1. seats'[n] = seats[n] /\ (seats[n].held => seats[n].session # s)
      BY <1>1
    <2>2. seats[n].held => seats[n].session \in Sessions \ {s}
      BY <2>1, HeldSeat, LogTypes
    <2>3. seats[n].held => Same(seats[n].session)
      BY <1>1, <2>2 DEF Same, OwedOn
    <2> QED BY <2>1, <2>3 DEF GoesOn
  <1>3. ASSUME NEW n \in SeatIds, ss[n] = NoSeat
        PROVE  /\ Quiet(seats'[n].queue, seats[n].queue, Ids \ {0})
               /\ Formed(n)' /\ (seats'[n].held => Tended(n)')
    <2>1. CASE seats'[n] = NoSeat
      BY <2>1, GoneSeat
    <2>2. ASSUME NEW w \in Workers, seats'[n] = NewSeat(s, w, <<Reopen(sessions'[s].log)>>)
          PROVE  /\ Quiet(seats'[n].queue, seats[n].queue, Ids \ {0})
                 /\ Formed(n)' /\ (seats'[n].held => Tended(n)')
      <3> PICK f, v : v = sessions'[s].log /\ f = Reopen(v)
        OBVIOUS
      <3>1. f.kind = "open" /\ f.id = 0 /\ f.of = v /\ v \in Values
        BY <1>1 DEF Reopen, Values
      <3>2. v = IF f.id = 0 THEN f.of ELSE 0
        BY <3>1
      <3>3. seats'[n] = NewSeat(s, w, <<f>>)
        BY <2>2
      <3>4. Formed(n)' /\ Tended(n)'
        BY <1>1, <3>1, <3>2, <3>3, FreshTended
      <3>5. \A j : In(<<f>>, j) <=> f.id = j
        BY <3>1, <3>2, OpeningQueue
      <3>6. seats'[n].queue = <<f>>
        BY <3>3 DEF NewSeat
      <3>7. \A j \in Ids \ {0} : ~In(seats'[n].queue, j)
        BY <3>1, <3>5, <3>6
      <3>8. Quiet(seats'[n].queue, seats[n].queue, Ids \ {0})
        BY <3>7 DEF Quiet, Ahead, In
      <3> QED BY <3>4, <3>8
    <2> QED BY <1>1, <1>3, <2>1, <2>2
  <1>4. \A r \in Sessions : Writing(r)'
    <2> SUFFICES ASSUME NEW r \in Sessions PROVE Writing(r)'
      OBVIOUS
    <2>1. Writing(r)
      BY LogTypes
    <2>2. sessions'[r].pending \subseteq sessions[r].pending
      BY <1>1
    <2> QED BY <2>1, <2>2, WritingStays
  <1>5. 0 \notin outstanding
    BY LogTypes
  <1>6. \A n \in SeatIds : n \in at =>
             /\ Quiet(seats'[n].queue, seats[n].queue, Ids \ {0})
             /\ Formed(n)' /\ (seats'[n].held => Tended(n)')
             /\ \/ Alive(seats', n) => Alive(seats, n)
                \/ \A k \in DOMAIN posts' : posts'[k].seat # n
    <2> SUFFICES ASSUME NEW n \in SeatIds, ss[n] = NoSeat
                 PROVE  /\ Quiet(seats'[n].queue, seats[n].queue, Ids \ {0})
                        /\ Formed(n)' /\ (seats'[n].held => Tended(n)')
                        /\ \A k \in DOMAIN posts' : posts'[k].seat # n
      OBVIOUS
    <2>1. \A k \in DOMAIN posts' : posts'[k].seat # n
      OBVIOUS
    <2> QED BY <1>3, <2>1
  <1> HIDE DEF at
  <1> QED BY <1>2, <1>4, <1>5, <1>6, LogMoves

LEMMA LogRecovers ==
    ASSUME LogInv, RequestsInv', NEW s \in Sessions, Recover(s)
    PROVE  LogInv'
  <1>1. Replay(s, pool, seats) /\ posts' = posts /\ s \in todo /\ UNCHANGED <<sent, crossed>>
    BY DEF Recover
  <1>2. seats \in Table /\ \A k \in DOMAIN posts : seats[posts[k].seat] # NoSeat
    BY SeatQueues, LogTypes, LedgerType DEF Sound, Whole
  <1>3. \A n \in SeatIds : seats[n].held => seats[n].session # s
    BY <1>1, HeldSeat, LogTypes
  <1>4. Thin(posts', posts)
    BY <1>1, ThinSame
  <1> QED BY <1>1, <1>2, <1>3, <1>4, LogReplay

\* The seat that goes with a death, and what is left to put the session on.
LEMMA DeathReplays ==
    ASSUME TypeInv, LandDeath
    PROVE  \E s \in Sessions, n \in SeatIds :
             /\ posts # <<>> /\ sent' = sent /\ crossed' = crossed
             /\ seats[n].held /\ seats[n].session = s
             /\ Disown(seats, {n}) \in Table
             /\ posts' = Deliverable(Tail(posts), Disown(seats, {n}))
             /\ \E p : Replay(s, p, Disown(seats, {n}))
  <1> DEFINE from == seats[Head(posts).seat]
             s == from.session
             w == sessions[s].worker
             freed == Release(pool, w)
  <1>1. posts # <<>> /\ todo = {} /\ sent' = sent /\ crossed' = crossed
    BY DEF LandDeath
  <1>2. PICK n \in SeatsAt(seats, from.worker, s) :
          LET left == Retire(Disown(seats, {n}), freed, w) IN
          /\ posts' = Deliverable(Tail(posts), left)
          /\ Replay(s, freed, left)
    BY DEF LandDeath
  <1>3. n \in SeatIds /\ seats[n].held /\ seats[n].session = s /\ seats[n].worker = from.worker
    BY DEF SeatsAt
  <1>4. /\ s \in Sessions /\ seats[n].worker \in Workers /\ Home[s] = seats[n].worker
        /\ Sound(Release(pool, seats[n].worker), Disown(seats, {n}), [Home EXCEPT ![s] = 0])
        /\ Retire(Disown(seats, {n}), Release(pool, seats[n].worker), seats[n].worker)
             = Disown(seats, {n})
    BY <1>3, SoundDisown DEF TypeInv
  <1>5. w = seats[n].worker
    BY <1>1, <1>4 DEF Home
  <1>6. Disown(seats, {n}) \in Table
    BY <1>4 DEF Sound, Whole
  <1> HIDE DEF s, from, w, freed
  <1>7. Retire(Disown(seats, {n}), freed, w) = Disown(seats, {n})
    BY <1>4, <1>5 DEF freed
  <1>8. /\ posts' = Deliverable(Tail(posts), Disown(seats, {n}))
        /\ Replay(s, freed, Disown(seats, {n}))
    BY <1>2, <1>7
  <1> HIDE DEF LandDeath
  <1> QED BY <1>1, <1>3, <1>4, <1>6, <1>8

LEMMA LogDeath ==
    ASSUME LogInv, RequestsInv', LandDeath
    PROVE  LogInv'
  <1>0. TypeInv /\ posts \in Seq(Post)
    BY LogTypes, SeatQueues
  <1>1. PICK s \in Sessions, n \in SeatIds :
             /\ posts # <<>> /\ sent' = sent /\ crossed' = crossed
             /\ seats[n].held /\ seats[n].session = s
             /\ Disown(seats, {n}) \in Table
             /\ posts' = Deliverable(Tail(posts), Disown(seats, {n}))
             /\ \E p : Replay(s, p, Disown(seats, {n}))
    BY <1>0, DeathReplays
  <1>2. PICK p, ss : ss = Disown(seats, {n}) /\ Replay(s, p, ss) /\ ss \in Table
    BY <1>1
  <1>3. \A m \in SeatIds : ss[m] = IF m = n THEN NoSeat ELSE seats[m]
    BY <1>2 DEF Disown
  <1>4. Tail(posts) \in Seq(Post) /\ Thin(Tail(posts), posts)
    <2> HIDE DEF Post
    <2> QED BY <1>0, <1>1, ThinTail
  <1>5. Thin(posts', posts)
    <2>1. Thin(posts', Tail(posts))
      BY <1>1, <1>4, ThinDeliverable
    <2> QED BY <1>4, <2>1, ThinTwice
  <1>6. \A k \in DOMAIN posts' : ss[posts'[k].seat] # NoSeat
    <2>1. Delivering(posts', ss)
      BY <1>1, <1>2, <1>4, DeliverableEffect
    <2> QED BY <2>1 DEF Delivering
  <1>7. \A m \in SeatIds : ss[m].held => ss[m].session # s
    <2> SUFFICES ASSUME NEW m \in SeatIds, ss[m].held, ss[m].session = s PROVE FALSE
      OBVIOUS
    <2>1. m # n
      BY <1>3, EmptyQueue
    <2>2. seats[m].held /\ seats[m].session = s
      BY <1>3, <2>1
    <2> QED BY <1>0, <1>1, <2>1, <2>2, HeldSeat
  <1>8. \A m \in SeatIds : ss[m] = seats[m] \/ ss[m] = NoSeat
    BY <1>3
  <1> QED BY <1>1, <1>2, <1>5, <1>6, <1>7, <1>8, LogReplay

\* The first answer posted is older than what its session has pending still.
LEMMA FirstInLine ==
    ASSUME LogInv, posts # <<>>, NEW j, j = Head(posts).id, NEW n \in SeatIds, seats[n].held,
           NEW s, s = seats[n].session, s \notin crossed, j \in sessions[s].pending
    PROVE  /\ \A k \in sessions[s].pending : k # j => j < k
           /\ \A m \in SeatIds : ~Queued(seats, m, j)
  <1>0. posts \in Seq(Post) /\ 1 \in DOMAIN posts /\ Head(posts) = posts[1]
        /\ \A l \in DOMAIN posts : l # 1 => 1 < l
    <2>1. posts \in Seq(Post)
      BY SeatQueues, LogTypes
    <2> HIDE DEF Post
    <2>2. 1 \in DOMAIN posts /\ Head(posts) = posts[1] /\ \A l \in DOMAIN posts : l # 1 => l > 1
      BY <2>1, ThinTail
    <2>3. \A l \in DOMAIN posts : l \in Nat
      BY <2>1
    <2> QED BY <2>1, <2>2, <2>3
  <1>1. \A k \in sessions[s].pending : k \in Ids /\ Held(k)
    BY PendingOwed
  <1>2. InLine(sessions[s].pending, seats, posts)
    BY LogTypes DEF Tended
  <1>3. In(posts, j)
    BY <1>0 DEF In
  <1>4. ASSUME NEW k \in sessions[s].pending, k # j PROVE j < k
    <2>1. PICK m \in SeatIds : Queued(seats, m, k) \/ PostedBy(posts, m, k)
      BY <1>1 DEF Held
    <2>2. CASE Queued(seats, m, k)
      BY <1>2, <1>3, <2>2 DEF InLine
    <2>3. CASE PostedBy(posts, m, k)
      <3>1. PICK l \in DOMAIN posts : posts[l].id = k
        BY <2>3 DEF PostedBy
      <3>2. 1 < l /\ posts[1].id = j
        BY <1>0, <1>4, <3>1
      <3>3. Ahead(posts, j, k)
        BY <1>0, <3>1, <3>2 DEF Ahead
      <3> QED BY <1>2, <3>3 DEF InLine
    <2> QED BY <2>1, <2>2, <2>3
  <1>5. \A m \in SeatIds : ~Queued(seats, m, j)
    <2>1. posts[1].seat \in SeatIds /\ PostedBy(posts, posts[1].seat, j)
      BY <1>0, SeatQueues, LogTypes DEF PostedBy
    <2>2. Distinct(seats, posts) /\ j \in Ids
      BY <1>1, LogTypes DEF PlacesInv
    <2> QED BY <2>1, <2>2 DEF Distinct
  <1> QED BY <1>4, <1>5

\* What a session's graph agrees with once an answer has landed.
LEMMA AnswerAgrees ==
    ASSUME LogInv, posts # <<>>, NEW p, p = Head(posts), NEW n \in SeatIds, seats[n].held,
           NEW s, s = seats[n].session, s = seats[p.seat].session, s \notin crossed,
           p.id \in Ids, Alive(seats, n), ~FailedBehind(p),
           NEW rec, rec.pending = sessions[s].pending \ {p.id},
           rec.log = IF p.id \in sessions[s].pending /\ p.code \in {"ack", "swept"} THEN p.id
                     ELSE sessions[s].log,
           NEW v, Agrees(sessions[s], seats[n].queue, v)
    PROVE  Agrees(rec, seats[n].queue, v)
  <1> PICK q, j, old : q = seats[n].queue /\ j = p.id /\ old = sessions[s]
    OBVIOUS
  <1>1. CASE v \in {-i : i \in Ids}
    BY <1>1 DEF Agrees
  <1>2. CASE v \notin {-i : i \in Ids} /\ j \notin old.pending
    <2>1. rec.pending = old.pending /\ rec.log = old.log
      BY <1>2
    <2> QED BY <2>1 DEF Agrees, Elsewhere
  <1>3. CASE v \notin {-i : i \in Ids} /\ j \in old.pending
    <2>0. /\ IF Elsewhere(old, q) = {} THEN v = old.log
             ELSE v \in Elsewhere(old, q) /\ \A k \in Elsewhere(old, q) : k <= v
      BY <1>3 DEF Agrees
    <2>1. /\ \A k \in old.pending : k # j => j < k
          /\ \A m \in SeatIds : ~Queued(seats, m, j)
      BY <1>3, FirstInLine
    <2>2. ~In(q, j)
      BY <2>1 DEF Queued
    <2>3. Elsewhere(rec, q) = Elsewhere(old, q) \ {j}
      BY DEF Elsewhere
    <2>4. Request[j].kind \in Writes
      BY <1>3, PendingOwed
    <2>5. 1 \in DOMAIN posts /\ p = posts[1] /\ p.seat \in SeatIds
      <3>1. posts \in Seq(Post)
        BY SeatQueues, LogTypes
      <3>2. 1 \in DOMAIN posts /\ p = posts[1]
        <4> HIDE DEF Post
        <4> QED BY <3>1, ThinTail
      <3> QED BY <3>2, SeatQueues, LogTypes
    <2>6. IF Request[j].fate = "ok"
          THEN p.code \in {"ack", "swept"} \/ (p.code = "error" /\ ~Alive(seats, p.seat))
          ELSE p.code = "error"
      BY <2>4, <2>5, LogTypes DEF Coded
    <2>7. CASE Request[j].fate # "ok"
      <3>1. j \notin Elsewhere(old, q) /\ rec.log = old.log
        BY <2>6, <2>7 DEF Elsewhere
      <3>2. \A X : j \notin X => X \ {j} = X
        OBVIOUS
      <3>3. Elsewhere(rec, q) = Elsewhere(old, q)
        BY <2>3, <3>1, <3>2
      <3> QED BY <2>0, <3>1, <3>3 DEF Agrees
    <2>8. CASE Request[j].fate = "ok" /\ p.code \in {"ack", "swept"}
      <3>1. rec.log = j /\ j \in Elsewhere(old, q)
        BY <1>3, <2>2, <2>8 DEF Elsewhere
      <3>2. v \in Elsewhere(old, q) /\ \A k \in Elsewhere(old, q) : k <= v
        BY <2>0, <3>1
      <3>3. CASE Elsewhere(rec, q) = {}
        <4>1. v = rec.log
          BY <2>3, <3>1, <3>2, <3>3
        <4> QED BY <3>3, <4>1 DEF Agrees
      <3>4. CASE Elsewhere(rec, q) # {}
        <4>1. PICK k \in Elsewhere(rec, q) : k # j
          BY <2>3, <3>4
        <4>2. k \in old.pending /\ k <= v /\ j < k
          BY <2>1, <2>3, <3>2, <4>1 DEF Elsewhere
        <4>3. k \in Nat /\ v \in Nat /\ j \in Nat
          <5>1. k \in Ids /\ v \in Ids
            BY <3>2, <4>2, PendingOwed DEF Elsewhere
          <5> QED BY <5>1, RequestAssumption
        <4>4. v # j
          BY <4>2, <4>3
        <4>5. v \in Elsewhere(rec, q) /\ \A l \in Elsewhere(rec, q) : l <= v
          BY <2>3, <3>2, <4>4
        <4> QED BY <3>4, <4>5 DEF Agrees
      <3> QED BY <3>3, <3>4
    <2>9. CASE Request[j].fate = "ok" /\ p.code = "error" /\ ~Alive(seats, p.seat)
      <3>1. seats[p.seat].held
        BY <1>3, <2>9 DEF FailedBehind
      <3>2. p.seat = n
        BY <2>5, <3>1, HeldSeat, LogTypes
      <3> QED BY <2>9, <3>2
    <2> QED BY <2>6, <2>7, <2>8, <2>9
  <1> QED BY <1>1, <1>2, <1>3

LEMMA TerminatedLog ==
    ASSUME NEW rec \in Record, NEW p \in Post
    PROVE  /\ Terminated(rec, p).pending = rec.pending \ {p.id}
           /\ Terminated(rec, p).log =
                IF p.id \in rec.pending /\ p.code \in {"ack", "swept"} THEN p.id ELSE rec.log
  BY DEF Terminated, Record

LEMMA LogAnswer ==
    ASSUME LogInv, RequestsInv', LandAnswer
    PROVE  LogInv'
  <1>0. TypeInv /\ TypeInv' /\ PlacesInv /\ posts \in Seq(Post) /\ 0 \notin outstanding
    BY LogTypes, SeatQueues DEF RequestsInv, PlacesInv
  <1> PICK p, s : p = Head(posts) /\ s = seats[p.seat].session
    OBVIOUS
  <1>1. /\ posts # <<>> /\ posts' = Tail(posts) /\ seats' = seats /\ sent' = sent
        /\ outstanding' = outstanding \ {p.id}
        /\ crossed' = IF FailedBehind(p) THEN crossed \union {s} ELSE crossed
    BY DEF LandAnswer, Deliver
  <1>2. /\ s \in Sessions /\ p \in Post
        /\ \A r \in Sessions \ {s} : sessions'[r] = sessions[r]
        /\ ~Exists(s) => sessions'[s] = sessions[s]
        /\ Exists(s) => sessions'[s] = Terminated(sessions[s], p)
    BY <1>0, AnswerEffect
  <1>3. p.id \in Ids /\ Request[p.id].session = s /\ Leaves(p.id)
    BY <1>0, LandPlaces
  <1>4. sessions[s] \in Record
    BY <1>0, <1>2, SeatQueues
  <1>5. /\ Terminated(sessions[s], p).pending = sessions[s].pending \ {p.id}
        /\ Terminated(sessions[s], p).log =
             IF p.id \in sessions[s].pending /\ p.code \in {"ack", "swept"} THEN p.id
             ELSE sessions[s].log
    BY <1>2, <1>4, TerminatedLog
  <1>6. Thin(posts', posts)
    <2> HIDE DEF Post
    <2> QED BY <1>0, <1>1, ThinTail
  <1>7. Calm(Ids)
    <2>1. Quiet(posts', posts, Ids)
      <3> HIDE DEF Post
      <3>1. posts' \in Seq(Post)
        BY <1>0, <1>1, ThinTail
      <3> QED BY <1>0, <1>6, <3>1, QuietQueues
    <2>2. \A m \in SeatIds : Quiet(seats'[m].queue, seats[m].queue, Ids)
      BY <1>1 DEF Quiet
    <2> QED BY <2>1, <2>2 DEF Calm
  <1>8. ASSUME NEW n \in SeatIds, seats[n].held, seats[n].session = s PROVE Tended(n)'
    <2>1. Tended(n) /\ Exists(s)
      BY <1>0, <1>8, HeldSeat, LogTypes
    <2>2. /\ sessions'[s].pending = sessions[s].pending \ {p.id}
          /\ sessions'[s].log = IF p.id \in sessions[s].pending /\ p.code \in {"ack", "swept"} THEN p.id
                                ELSE sessions[s].log
      BY <1>2, <1>5, <2>1
    <2>3. sessions'[s].pending \subseteq outstanding'
      BY <1>1, <1>8, <2>1, <2>2 DEF Tended
    <2>4. \A j \in Ids : Queued(seats', n, j) /\ Request[j].kind \in Writes => j \in sessions'[s].pending
      <3>1. \A j \in Ids : Queued(seats', n, j) => Queued(seats, n, j) /\ j # p.id
        BY <1>3 DEF Leaves
      <3> QED BY <1>8, <2>1, <2>2, <3>1 DEF Tended
    <2>5. ASSUME s \notin crossed' PROVE InLine(sessions'[s].pending, seats', posts') /\ Synced(n)'
      <3>1. s \notin crossed /\ ~FailedBehind(p)
        BY <1>1, <2>5
      <3>2. InLine(sessions[s].pending, seats, posts) /\ Synced(n)
        BY <1>8, <2>1, <3>1 DEF Tended
      <3>3. InLine(sessions'[s].pending, seats', posts')
        <4> PICK few : few = sessions'[s].pending
          OBVIOUS
        <4>1. few \subseteq sessions[s].pending /\ few \subseteq Ids
          BY <1>8, <2>2, PendingOwed
        <4>2. InLine(few, seats, posts)
          BY <3>2, <4>1, LineShrinks
        <4>3. InLine(few, seats', posts')
          BY <1>7, <4>1, <4>2, CalmLine
        <4> QED BY <4>3
      <3>4. ASSUME Alive(seats, n)
            PROVE  \E v \in Values : /\ Comes(seats[n].queue, seats[n].value, v)
                                     /\ Agrees(sessions'[s], seats[n].queue, v)
        <4>1. PICK v \in Values : /\ Comes(seats[n].queue, seats[n].value, v)
                                  /\ Agrees(sessions[s], seats[n].queue, v)
          BY <1>8, <3>2, <3>4 DEF Synced
        <4>2. Agrees(sessions'[s], seats[n].queue, v)
          BY <1>1, <1>3, <1>8, <2>2, <3>1, <3>4, <4>1, AnswerAgrees
        <4> QED BY <4>1, <4>2
      <3>5. Synced(n)'
        BY <1>1, <1>8, <3>4 DEF Synced
      <3> QED BY <3>3, <3>5
    <2>6. seats'[n].session = s
      BY <1>1, <1>8
    <2> QED BY <2>3, <2>4, <2>5, <2>6 DEF Tended
  <1> DEFINE at == {m \in SeatIds : seats[m].session = s}
  <1>9. \A m \in SeatIds : m \notin at => GoesOn(m)
    <2> SUFFICES ASSUME NEW m \in SeatIds, seats[m].session # s PROVE GoesOn(m)
      OBVIOUS
    <2>1. seats[m].held => seats[m].session \in Sessions \ {s}
      BY <1>0, HeldSeat
    <2>2. crossed \subseteq crossed'
      BY <1>1
    <2>3. seats[m].held => Same(seats[m].session)
      BY <1>1, <1>2, <1>3, <2>1, <2>2 DEF Same
    <2> QED BY <1>1, <2>3 DEF GoesOn
  <1>10. ASSUME NEW m \in SeatIds, m \in at
         PROVE  /\ Quiet(seats'[m].queue, seats[m].queue, Ids \ {0})
                /\ Formed(m)' /\ (seats'[m].held => Tended(m)')
                /\ Alive(seats', m) => Alive(seats, m)
    <2>1. Formed(m)'
      BY <1>1, LogTypes DEF Formed
    <2>2. Quiet(seats'[m].queue, seats[m].queue, Ids \ {0})
      BY <1>1 DEF Quiet
    <2>3. seats'[m].held => Tended(m)'
      BY <1>1, <1>8, <1>10
    <2> QED BY <1>1, <2>1, <2>2, <2>3
  <1>11. \A r \in Sessions : Writing(r)'
    <2> SUFFICES ASSUME NEW r \in Sessions PROVE Writing(r)'
      OBVIOUS
    <2>1. Writing(r)
      BY LogTypes
    <2>2. sessions'[r].pending \subseteq sessions[r].pending
      BY <1>2, <1>5
    <2> QED BY <1>1, <2>1, <2>2, WritingStays
  <1> HIDE DEF at
  <1> QED BY <1>0, <1>6, <1>9, <1>10, <1>11, LogMoves

\* What a frame of each kind makes of a graph and its value, and how it is answered.
Outcome(f, was, x, code, graph, value) ==
    /\ f.kind = "open" /\ graph = "clean" => value = IF f.id = 0 THEN f.of ELSE 0
    /\ f.kind = "close" => graph # "clean"
    /\ f.kind \notin {"open", "close"} /\ was # "clean" => graph # "clean" /\ code = "error"
    /\ f.kind = "price" /\ was = "clean" => value = x
    /\ f.kind \in Writes /\ was = "clean" =>
         IF Request[f.of].fate = "ok"
         THEN code \in {"ack", "swept"} /\ value \in {f.of, -f.of}
         ELSE code = "error" /\ (graph = "clean" => value \in {x, -f.of})

LEMMA ServeOutcome ==
    ASSUME TypeInv, NEW n \in SeatIds, Serve(n)
    PROVE  \E code \in Codes, graph \in {"none", "clean", "dirty"}, value \in Values,
              died \in BOOLEAN :
             /\ Served(n, code, graph, value, died) /\ UNCHANGED <<supervisor, ledger, crossed>>
             /\ Outcome(Head(seats[n].queue), seats[n].graph, seats[n].value, code, graph, value)
  <1> DEFINE f == Head(seats[n].queue)
             g == seats[n].graph
             x == seats[n].value
             Ends == \E code \in Codes, graph \in {"none", "clean", "dirty"}, value \in Values,
                        died \in BOOLEAN :
                       /\ Finish(n, code, graph, value, died)
                       /\ Outcome(f, g, x, code, graph, value)
  <1>1. /\ seats[n] \in Seat /\ seats[n].queue # <<>> /\ seats[n].busy
    <2>1. seats[n].busy
      BY DEF Serve, ServeOpen, ServeClose, ServeWithoutGraph, ServeDirtyGraph, ServeUpdate,
             ServeSweep, ServePrice, Graphed, Serving
    <2> QED BY <2>1, SeatOrNone DEF TypeInv, TypeOK, Sound, Whole
  <1>2. f \in Waiting
    BY <1>1, HeadTailProperties DEF Seat
  <1>3. f.of \in Values /\ x \in Values /\ 0 \in Values /\ -f.of \in Values
    <2>1. f.of \in Values /\ x \in Values /\ 0 \in Values
      BY <1>1, <1>2 DEF Seat, Waiting, Values
    <2>2. \A i \in Ids : i \in Int /\ -(-i) = i
      BY RequestAssumption
    <2> HIDE DEF f
    <2> QED BY <2>1, <2>2 DEF Values
  <1>4. ASSUME NEW code \in Codes, NEW graph \in {"none", "clean", "dirty"}, NEW value \in Values,
               NEW died \in BOOLEAN, Finish(n, code, graph, value, died),
               Outcome(f, g, x, code, graph, value)
        PROVE  Ends
    BY <1>4
  <1>5. ServeOpen(n) => Ends
    <2>1. ASSUME ServeOpen(n)
          PROVE  /\ f.kind = "open"
                 /\ \/ Finish(n, "error", "none", 0, FALSE)
                    \/ Finish(n, "opened", "clean", IF f.id = 0 THEN f.of ELSE 0, FALSE)
      BY <2>1 DEF ServeOpen, Serving
    <2> HIDE DEF f, g, x, Ends
    <2>2. (IF f.id = 0 THEN f.of ELSE 0) \in Values
      BY <1>3
    <2> QED BY <1>3, <1>4, <2>1, <2>2 DEF Outcome, Writes, Codes
  <1>6. ServeClose(n) => Ends
    <2>1. ASSUME ServeClose(n) PROVE f.kind = "close" /\ Finish(n, "ack", "none", 0, FALSE)
      BY <2>1 DEF ServeClose, Serving
    <2> HIDE DEF f, g, x, Ends
    <2> QED BY <1>3, <1>4, <2>1 DEF Outcome, Writes, Codes
  <1>7. ServeWithoutGraph(n) \/ ServeDirtyGraph(n) => Ends
    <2>1. ASSUME ServeWithoutGraph(n) \/ ServeDirtyGraph(n)
          PROVE  /\ f.kind \notin {"open", "close"} /\ g # "clean"
                 /\ \E graph \in {"none", "dirty"}, died \in BOOLEAN :
                      Finish(n, "error", graph, 0, died)
      BY <2>1 DEF ServeWithoutGraph, ServeDirtyGraph, Graphed, Serving
    <2> HIDE DEF f, g, x, Ends
    <2> QED BY <1>3, <1>4, <2>1 DEF Outcome, Writes, Codes
  <1>8. ServeUpdate(n) => Ends
    <2>1. ASSUME ServeUpdate(n)
          PROVE  /\ f.kind = "update" /\ g = "clean"
                 /\ \/ Request[f.of].fate = "ok" /\ Finish(n, "ack", "clean", f.of, FALSE)
                    \/ /\ Request[f.of].fate # "ok"
                       /\ \/ Finish(n, "error", "clean", -f.of, FALSE)
                          \/ Finish(n, "error", "clean", x, FALSE)
                          \/ Finish(n, "error", "none", 0, TRUE)
                          \/ Finish(n, "error", "dirty", 0, FALSE)
      BY <2>1 DEF ServeUpdate, Serving
    <2> HIDE DEF f, g, x, Ends
    <2>2. /\ Outcome(f, g, x, "ack", "clean", f.of) \/ ~(Request[f.of].fate = "ok" /\ ServeUpdate(n))
          /\ \A graph : graph # "clean" =>
               Outcome(f, g, x, "error", graph, 0) \/ ~(Request[f.of].fate # "ok" /\ ServeUpdate(n))
          /\ \A v \in {x, -f.of} : Outcome(f, g, x, "error", "clean", v)
                                     \/ ~(Request[f.of].fate # "ok" /\ ServeUpdate(n))
      BY <2>1 DEF Outcome, Writes
    <2> QED BY <1>3, <1>4, <2>1, <2>2 DEF Codes
  <1>9. ServeSweep(n) => Ends
    <2>1. ASSUME ServeSweep(n)
          PROVE  /\ f.kind = "sweep" /\ g = "clean"
                 /\ \/ /\ Request[f.of].fate = "ok"
                       /\ \E v \in {f.of, -f.of} : Finish(n, "swept", "clean", v, FALSE)
                    \/ /\ Request[f.of].fate # "ok"
                       /\ \/ \E v \in {x, -f.of} : Finish(n, "error", "clean", v, FALSE)
                          \/ Finish(n, "error", "none", 0, TRUE)
      BY <2>1 DEF ServeSweep, Serving
    <2> HIDE DEF f, g, x, Ends
    <2>2. /\ \A v \in {f.of, -f.of} : Outcome(f, g, x, "swept", "clean", v)
                                        \/ ~(Request[f.of].fate = "ok" /\ ServeSweep(n))
          /\ Outcome(f, g, x, "error", "none", 0) \/ ~(Request[f.of].fate # "ok" /\ ServeSweep(n))
          /\ \A v \in {x, -f.of} : Outcome(f, g, x, "error", "clean", v)
                                     \/ ~(Request[f.of].fate # "ok" /\ ServeSweep(n))
      BY <2>1 DEF Outcome, Writes
    <2> QED BY <1>3, <1>4, <2>1, <2>2 DEF Codes
  <1>10. ServePrice(n) => Ends
    <2>1. ASSUME ServePrice(n) PROVE f.kind = "price" /\ g = "clean" /\ Finish(n, "result", "clean", x, FALSE)
      BY <2>1 DEF ServePrice, Serving
    <2> HIDE DEF f, g, x, Ends
    <2> QED BY <1>3, <1>4, <2>1 DEF Outcome, Writes, Codes
  <1>11. Ends
    <2> HIDE DEF Ends
    <2> QED BY <1>5, <1>6, <1>7, <1>8, <1>9, <1>10 DEF Serve
  <1>12. PICK code \in Codes, graph \in {"none", "clean", "dirty"}, value \in Values, died \in BOOLEAN :
           Finish(n, code, graph, value, died) /\ Outcome(f, g, x, code, graph, value)
    BY <1>11
  <1>13. Served(n, code, graph, value, died)
    BY <1>1, <1>12, FinishEffect
  <1>14. UNCHANGED <<supervisor, ledger, crossed>>
    BY <1>12 DEF Finish
  <1> QED BY <1>12, <1>13, <1>14

\* A request answered goes from the front of its queue to the end of the posts.
LEMMA ServedLine ==
    ASSUME NEW n \in SeatIds, NEW q \in Seq(Waiting), q = seats[n].queue, q # <<>>,
           NEW i, i = q[1].id, posts \in Seq(Post), posts' \in Seq(Post),
           seats'[n].queue = Tail(q), \A m \in SeatIds \ {n} : seats'[m] = seats[m],
           \A k \in DOMAIN posts : posts'[k] = posts[k],
           \A k \in DOMAIN posts' \ DOMAIN posts :
             (k = Len(posts) + 1 /\ posts'[k].id = i) \/ posts'[k].id = 0,
           NEW ids \in SUBSET Ids, InLine(ids, seats, posts)
    PROVE  InLine(ids, seats', posts')
  <1>1. \A a, b \in ids :
          /\ Ahead(posts, a, b) => a < b
          /\ \A m \in SeatIds :
             /\ Queued(seats, m, b) /\ In(posts, a) => a < b
             /\ Ahead(seats[m].queue, a, b) => a < b
             /\ \A l \in SeatIds : Queued(seats, m, a) /\ Queued(seats, l, b) => m = l
    BY DEF InLine
  <1>2. 0 \notin ids
    BY RequestAssumption
  <1>3. /\ Thin(Tail(q), q) /\ 1 \in DOMAIN q
        /\ \A k \in DOMAIN Tail(q) : k + 1 \in DOMAIN q /\ Tail(q)[k] = q[k + 1] /\ k >= 1
        /\ Tail(q) \in Seq(Waiting)
    <2> HIDE DEF Waiting
    <2> QED BY ThinTail
  <1>4. /\ \A a : In(Tail(q), a) => In(q, a)
        /\ \A a, b : Ahead(Tail(q), a, b) => Ahead(q, a, b)
    <2> HIDE DEF Waiting
    <2> QED BY <1>3, ThinEffect
  <1>5. \A m \in SeatIds :
          /\ \A a : Queued(seats', m, a) => Queued(seats, m, a)
          /\ \A a, b : Ahead(seats'[m].queue, a, b) => Ahead(seats[m].queue, a, b)
    <2> SUFFICES ASSUME NEW m \in SeatIds
                 PROVE  /\ \A a : Queued(seats', m, a) => Queued(seats, m, a)
                        /\ \A a, b : Ahead(seats'[m].queue, a, b) => Ahead(seats[m].queue, a, b)
      OBVIOUS
    <2>1. CASE m = n
      BY <1>4, <2>1 DEF Queued
    <2>2. CASE m # n
      BY <2>2 DEF Queued
    <2> QED BY <2>1, <2>2
  <1>6. \A b : In(Tail(q), b) => Ahead(q, i, b)
    <2> SUFFICES ASSUME NEW k \in DOMAIN Tail(q) PROVE Ahead(q, i, Tail(q)[k].id)
      BY DEF In
    <2>1. k \in Int
      OBVIOUS
    <2>2. 1 < k + 1 /\ k + 1 \in DOMAIN q /\ Tail(q)[k] = q[k + 1]
      BY <1>3, <2>1
    <2> QED BY <1>3, <2>2 DEF Ahead
  <1>7. Queued(seats, n, i)
    BY <1>3 DEF Queued, In
  <1> PICK len : len = Len(posts)
    OBVIOUS
  <1>8. /\ len \in Nat /\ DOMAIN posts = 1..len
        /\ \A k \in DOMAIN posts' : k \in Nat /\ k >= 1
    OBVIOUS
  <1>9. \A k \in DOMAIN posts' : posts'[k].id \in ids =>
          \/ k \in 1..len /\ posts[k].id = posts'[k].id
          \/ k = len + 1 /\ posts'[k].id = i
    BY <1>2, <1>8
  <1>10. \A a \in ids : In(posts', a) => In(posts, a) \/ a = i
    BY <1>8, <1>9 DEF In
  <1>11. ASSUME NEW a \in ids, NEW b \in ids PROVE Ahead(posts', a, b) => a < b
    <2> SUFFICES ASSUME NEW k \in DOMAIN posts', NEW l \in DOMAIN posts', k < l,
                        posts'[k].id = a, posts'[l].id = b
                 PROVE  a < b
      BY DEF Ahead
    <2>1. k \in 1..len /\ posts[k].id = a
      BY <1>8, <1>9
    <2>2. CASE l \in 1..len /\ posts[l].id = b
      BY <1>1, <1>8, <2>1, <2>2 DEF Ahead
    <2>3. CASE b = i
      BY <1>1, <1>7, <1>8, <2>1, <2>3 DEF In
    <2> QED BY <1>9, <2>2, <2>3
  <1>12. ASSUME NEW a \in ids, NEW b \in ids, NEW m \in SeatIds
         PROVE  Queued(seats', m, b) /\ In(posts', a) => a < b
    <2> SUFFICES ASSUME Queued(seats', m, b), In(posts', a) PROVE a < b
      OBVIOUS
    <2>1. Queued(seats, m, b)
      BY <1>5
    <2>2. CASE In(posts, a)
      BY <1>1, <2>1, <2>2
    <2>3. CASE a = i
      <3>1. m = n
        BY <1>1, <1>7, <2>1, <2>3
      <3>2. Ahead(seats[n].queue, a, b)
        BY <1>6, <2>3, <3>1 DEF Queued
      <3> QED BY <1>1, <3>2
    <2> QED BY <1>10, <2>2, <2>3
  <1>13. ASSUME NEW a \in ids, NEW b \in ids, NEW m \in SeatIds
         PROVE  /\ Ahead(seats'[m].queue, a, b) => a < b
                /\ \A l \in SeatIds : Queued(seats', m, a) /\ Queued(seats', l, b) => m = l
    BY <1>1, <1>5
  <1> QED BY <1>11, <1>12, <1>13 DEF InLine

LEMMA AgreesStays ==
    ASSUME NEW rec, NEW q, NEW r,
           \A j \in rec.pending : Request[j].fate = "ok" => (In(r, j) <=> In(q, j)),
           NEW v, Agrees(rec, q, v)
    PROVE  Agrees(rec, r, v)
  <1>1. Elsewhere(rec, r) = Elsewhere(rec, q)
    BY DEF Elsewhere
  <1> QED BY <1>1 DEF Agrees

\* The graph that serves a frame comes to what it came to before, or to an unacked
\* write that is the last of those served.
LEMMA ServedAgrees ==
    ASSUME NEW q \in Seq(Waiting), q # <<>>, Shaped(q), NEW f, f = q[1],
           \A j \in Ids : Single(q, j),
           NEW rec, rec.pending \subseteq Ids,
           \A j \in rec.pending : Request[j].kind \in Writes,
           \A j \in Ids : In(q, j) /\ Request[j].kind \in Writes => j \in rec.pending,
           \A j \in rec.pending : In(q, f.id) /\ f.id \in rec.pending /\ ~In(q, j) => j < f.id,
           NEW was, was = "clean" \/ Opens(q), NEW x, NEW v \in Values, Comes(q, x, v), Agrees(rec, q, v),
           NEW code, NEW value \in Values, Outcome(f, was, x, code, "clean", value)
    PROVE  \E y \in Values : Comes(Tail(q), value, y) /\ Agrees(rec, Tail(q), y)
  <1> PICK r : r = Tail(q)
    OBVIOUS
  <1>1. /\ r \in Seq(Waiting) /\ 1 \in DOMAIN q /\ f = Head(q) /\ f \in Waiting
    <2>1. r \in Seq(Waiting) /\ 1 \in DOMAIN q /\ f = Head(q)
      <3> HIDE DEF Waiting
      <3> QED BY ThinTail
    <2>2. f \in Waiting
      <3> HIDE DEF Waiting
      <3> QED BY <2>1
    <2> QED BY <2>1, <2>2
  <1>2. /\ Opens(q) <=> f.kind = "open"
        /\ Own(r) # {} => \A y : Comes(r, y, v)
        /\ Own(r) = {} => v = First(q, x) /\ \A y : Comes(r, y, y)
    <2> HIDE DEF Waiting
    <2> QED BY TailComes
  <1>3. /\ \A j \in Ids : j # f.id => (In(r, j) <=> In(q, j))
        /\ f.id \in Ids => ~In(r, f.id) /\ In(q, f.id)
    <2> HIDE DEF Waiting
    <2>1. /\ \A j : In(r, j) => In(q, j)
          /\ \A j : In(q, j) /\ Head(q).id # j => In(r, j)
          /\ \A j : Single(q, j) /\ Head(q).id = j => ~In(r, j)
          /\ In(q, Head(q).id)
      BY TailIds
    <2> QED BY <1>1, <2>1
  <1>4. /\ f.id # 0 => f = Frame(f.id)
        /\ f.id = 0 /\ f.kind \in Writes => f.of \in Ids
        /\ f.id \in Ids \union {0}
    BY <1>1 DEF Shaped, Waiting
  <1>5. f.id \in Ids => f.kind = Request[f.id].kind /\ f.of = f.id
    BY <1>4, RequestAssumption DEF Frame
  <1>6. f.kind \in Writes => f.of \in Ids
    BY <1>4, <1>5
  <1>7. f.kind \in Kinds /\ f.kind # "close" /\ 0 \notin Ids
    BY <1>1, RequestAssumption DEF Outcome, Waiting
  <1>8. CASE f.id = 0 \/ f.kind \notin Writes \/ Request[f.of].fate # "ok"
    <2>1. \A j \in rec.pending : Request[j].fate = "ok" => (In(r, j) <=> In(q, j))
      <3> SUFFICES ASSUME NEW j \in rec.pending, Request[j].fate = "ok" PROVE In(r, j) <=> In(q, j)
        OBVIOUS
      <3>1. j \in Ids /\ Request[j].kind \in Writes
        OBVIOUS
      <3>2. j # f.id
        BY <1>5, <1>7, <1>8, <3>1
      <3> QED BY <1>3, <3>1, <3>2
    <2>2. Agrees(rec, r, v)
      BY <2>1, AgreesStays
    <2>3. CASE Own(r) # {}
      BY <1>2, <2>2, <2>3
    <2>4. CASE Own(r) = {} /\ f.kind = "open"
      <3>1. value = IF f.id = 0 THEN f.of ELSE 0
        BY <2>4 DEF Outcome
      <3>2. v = value
        BY <1>2, <2>4, <3>1 DEF First, Takes, Writes
      <3> QED BY <1>2, <2>2, <2>4, <3>2
    <2>5. CASE Own(r) = {} /\ f.kind = "price"
      <3>1. value = x
        BY <1>2, <2>5 DEF Outcome
      <3>2. v = value
        BY <1>2, <2>5, <3>1 DEF First, Takes, Writes
      <3> QED BY <1>2, <2>2, <2>5, <3>2
    <2>6. CASE Own(r) = {} /\ f.kind \in Writes /\ Request[f.of].fate = "ok"
      <3>1. value = f.of \/ value = -f.of
        BY <1>2, <2>6 DEF Outcome, Writes
      <3>2. f.id = 0
        BY <1>8, <2>6
      <3>3. v = f.of
        BY <1>2, <2>6, <3>2 DEF First, Takes
      <3>4. value = -f.of => Agrees(rec, r, value)
        BY <1>6, <2>6 DEF Agrees
      <3> QED BY <1>2, <2>2, <2>6, <3>1, <3>3, <3>4
    <2>7. CASE Own(r) = {} /\ f.kind \in Writes /\ Request[f.of].fate # "ok"
      <3>1. value = x \/ value = -f.of
        BY <1>2, <2>7 DEF Outcome, Writes
      <3>2. v = x
        BY <1>2, <2>7 DEF First, Takes, Writes
      <3>3. value = -f.of => Agrees(rec, r, value)
        BY <1>6, <2>7 DEF Agrees
      <3> QED BY <1>2, <2>2, <2>7, <3>1, <3>2, <3>3
    <2> QED BY <1>7, <2>3, <2>4, <2>5, <2>6, <2>7 DEF Kinds, Writes
  <1>9. CASE f.id # 0 /\ f.kind \in Writes /\ Request[f.of].fate = "ok"
    <2>1. PICK i \in Ids : i = f.id
      BY <1>4, <1>9
    <2>2. f.kind = Request[i].kind /\ f.of = i /\ i \in rec.pending /\ ~In(r, i) /\ In(q, i)
      BY <1>3, <1>5, <1>9, <2>1
    <2>3. Own(r) = {}
      <3> HIDE DEF Waiting
      <3> QED BY <1>9, ClientFirst
    <2>4. value = i \/ value = -i
      BY <1>2, <1>9, <2>2 DEF Outcome, Writes
    <2>5. CASE value = -i
      BY <1>2, <2>3, <2>5 DEF Agrees
    <2>6. CASE value = i
      <3>1. i \in Elsewhere(rec, r)
        BY <1>9, <2>2 DEF Elsewhere
      <3>2. \A j \in Elsewhere(rec, r) : j <= i
        <4> SUFFICES ASSUME NEW j \in Elsewhere(rec, r), j # i PROVE j <= i
          BY RequestAssumption
        <4>1. j \in rec.pending /\ j \in Ids /\ ~In(r, j)
          BY DEF Elsewhere
        <4>2. ~In(q, j)
          BY <1>3, <2>1, <4>1
        <4>3. j < i
          BY <2>1, <2>2, <4>1, <4>2
        <4> QED BY <4>1, <4>3, RequestAssumption
      <3>3. Agrees(rec, r, value)
        BY <2>6, <3>1, <3>2 DEF Agrees
      <3> QED BY <1>2, <2>3, <3>3
    <2> QED BY <2>4, <2>5, <2>6
  <1> QED BY <1>8, <1>9

\* An answer is posted that fits the request and the graph it leaves.
LEMMA CodedServes ==
    ASSUME Coded, \A k \in DOMAIN posts : posts[k].seat \in SeatIds,
           \A m \in SeatIds : Alive(seats', m) => Alive(seats, m),
           \A k \in DOMAIN posts : posts'[k] = posts[k],
           NEW p,
           \A i \in Ids : p.id = i /\ Request[i].kind \in Writes =>
             \/ p.code = "error" /\ ~Alive(seats', p.seat)
             \/ IF Request[i].fate = "ok" THEN p.code \in {"ack", "swept"} ELSE p.code = "error",
           \A k \in DOMAIN posts' \ DOMAIN posts : posts'[k] = p \/ posts'[k].id = 0
    PROVE  Coded'
  <1> SUFFICES ASSUME NEW k \in DOMAIN posts', NEW i \in Ids,
                      posts'[k].id = i, Request[i].kind \in Writes
               PROVE  IF Request[i].fate = "ok"
                      THEN \/ posts'[k].code \in {"ack", "swept"}
                           \/ posts'[k].code = "error" /\ ~Alive(seats', posts'[k].seat)
                      ELSE posts'[k].code = "error"
    BY DEF Coded
  <1>1. CASE k \in DOMAIN posts
    <2>1. PICK m \in SeatIds : m = posts[k].seat
      BY <1>1
    <2>2. posts'[k] = posts[k]
      BY <1>1
    <2>3. Alive(seats', m) => Alive(seats, m)
      OBVIOUS
    <2>4. IF Request[i].fate = "ok"
          THEN \/ posts[k].code \in {"ack", "swept"}
               \/ posts[k].code = "error" /\ ~Alive(seats, m)
          ELSE posts[k].code = "error"
      BY <1>1, <2>1, <2>2 DEF Coded
    <2> QED BY <2>1, <2>2, <2>3, <2>4
  <1>2. CASE k \notin DOMAIN posts
    <2>1. i # 0
      BY RequestAssumption
    <2>2. posts'[k] = p
      BY <1>2, <2>1
    <2> QED BY <2>2
  <1> QED BY <1>1, <1>2

LEMMA LogServe ==
    ASSUME LogInv, RequestsInv', NEW n \in SeatIds, Serve(n)
    PROVE  LogInv'
  <1>0. TypeInv /\ TypeInv' /\ PlacesInv /\ Coded /\ 0 \notin Ids
    BY LogTypes DEF RequestsInv, PlacesInv
  <1>1. PICK code \in Codes, graph \in {"none", "clean", "dirty"}, value \in Values,
             died \in BOOLEAN :
          /\ Served(n, code, graph, value, died) /\ UNCHANGED <<supervisor, ledger, crossed>>
          /\ Outcome(Head(seats[n].queue), seats[n].graph, seats[n].value, code, graph, value)
    BY <1>0, ServeOutcome
  <1> PICK q, f, s : q = seats[n].queue /\ f = Head(q) /\ s = seats[n].session
    OBVIOUS
  <1>2. /\ q # <<>> /\ seats'[n].queue = Tail(q) /\ seats'[n].session = s
        /\ seats'[n].held = seats[n].held /\ seats'[n].graph = graph /\ seats'[n].value = value
        /\ \A m \in SeatIds \ {n} : seats'[m] = seats[m]
        /\ \A k \in DOMAIN posts : posts'[k] = posts[k]
        /\ \A k \in DOMAIN posts' \ DOMAIN posts :
             \/ k = Len(posts) + 1 /\ posts'[k] = [seat |-> n, id |-> f.id, code |-> code]
             \/ posts'[k] = [seat |-> n, id |-> 0, code |-> "died"]
    BY <1>1 DEF Served
  <1>3. /\ sessions' = sessions /\ outstanding' = outstanding /\ sent' = sent /\ crossed' = crossed
        /\ Outcome(f, seats[n].graph, seats[n].value, code, graph, value)
    BY <1>1 DEF supervisor, ledger
  <1>4. /\ q \in Seq(Waiting) /\ posts \in Seq(Post) /\ posts' \in Seq(Post)
        /\ \A k \in DOMAIN posts : posts[k].seat \in SeatIds
    BY <1>0, SeatQueues, NextQueues
  <1>5. f = q[1] /\ Tail(q) \in Seq(Waiting) /\ Thin(Tail(q), q) /\ 1 \in DOMAIN q
    <2> HIDE DEF Waiting
    <2> QED BY <1>2, <1>4, ThinTail
  <1>6. Formed(n) /\ Shaped(q) /\ (f.id # 0 => f = Frame(f.id))
    BY <1>5, LogTypes DEF Formed, Shaped
  <1>7. ~Opens(Tail(q)) /\ (Opens(q) <=> f.kind = "open")
    <2>1. \A k \in DOMAIN Tail(q) : k + 1 \in DOMAIN q /\ Tail(q)[k] = q[k + 1] /\ k >= 1 /\ k \in Int
      <3> HIDE DEF Waiting
      <3>1. \A k \in DOMAIN Tail(q) : k + 1 \in DOMAIN q /\ Tail(q)[k] = q[k + 1] /\ k >= 1
        BY <1>2, <1>4, ThinTail
      <3> QED BY <1>5, <3>1
    <2>2. ~Opens(Tail(q))
      <3> SUFFICES ASSUME NEW k \in DOMAIN Tail(q), Tail(q)[k].kind = "open" PROVE FALSE
        BY DEF Opens
      <3>1. k + 1 # 1 /\ k + 1 \in DOMAIN q /\ q[k + 1].kind = "open"
        BY <2>1
      <3> QED BY <1>6, <3>1 DEF Shaped
    <2> QED BY <1>5, <1>6, <2>2 DEF Opens, Shaped
  <1>8. Shaped(Tail(q))
    <2> HIDE DEF Waiting
    <2> QED BY <1>4, <1>5, <1>6, ThinEffect
  <1>9. Formed(n)'
    BY <1>2, <1>7, <1>8 DEF Formed
  <1>10. /\ f.kind \in Kinds
         /\ graph = "clean" => f.kind = "open" \/ seats[n].graph = "clean"
    <2>1. f \in Waiting
      <3> HIDE DEF Waiting
      <3> QED BY <1>4, <1>5
    <2> QED BY <1>3, <2>1 DEF Waiting, Outcome
  <1>11. Alive(seats', n) => Alive(seats, n)
    BY <1>2, <1>7, <1>10 DEF Alive
  <1>12. Coded'
    <2>1. /\ graph # "clean" => ~Alive(seats', n)
          /\ f.kind \in Writes =>
               \/ code = "error" /\ graph # "clean"
               \/ IF Request[f.of].fate = "ok" THEN code \in {"ack", "swept"} ELSE code = "error"
      BY <1>2, <1>3, <1>7 DEF Alive, Outcome, Writes
    <2>2. PICK p : p = [seat |-> n, id |-> f.id, code |-> code]
      OBVIOUS
    <2>3. p.seat = n /\ p.id = f.id /\ p.code = code
      BY <2>2
    <2>4. ASSUME NEW i \in Ids, p.id = i, Request[i].kind \in Writes
          PROVE  \/ p.code = "error" /\ ~Alive(seats', p.seat)
                 \/ IF Request[i].fate = "ok" THEN p.code \in {"ack", "swept"} ELSE p.code = "error"
      <3>1. f = Frame(i)
        BY <1>0, <1>6, <2>3, <2>4
      <3>2. f.kind = Request[i].kind /\ f.of = i
        BY <3>1 DEF Frame
      <3> QED BY <2>1, <2>3, <2>4, <3>2
    <2>5. \A k \in DOMAIN posts' \ DOMAIN posts : posts'[k] = p \/ posts'[k].id = 0
      BY <1>2, <2>2
    <2>6. \A m \in SeatIds : Alive(seats', m) => Alive(seats, m)
      BY <1>2, <1>11 DEF Alive
    <2>7. \A k \in DOMAIN posts : posts'[k] = posts[k] /\ posts[k].seat \in SeatIds
      BY <1>2, <1>4
    <2> QED BY <1>0, <2>4, <2>5, <2>6, <2>7, CodedServes
  <1>13. ASSUME NEW ids \in SUBSET Ids, InLine(ids, seats, posts) PROVE InLine(ids, seats', posts')
    <2>1. \A k \in DOMAIN posts' \ DOMAIN posts :
            (k = Len(posts) + 1 /\ posts'[k].id = f.id) \/ posts'[k].id = 0
      BY <1>2
    <2> PICK i : i = f.id
      OBVIOUS
    <2>2. /\ q = seats[n].queue /\ i = q[1].id /\ q # <<>> /\ seats'[n].queue = Tail(q)
          /\ \A m \in SeatIds \ {n} : seats'[m] = seats[m]
          /\ \A k \in DOMAIN posts : posts'[k] = posts[k]
          /\ \A k \in DOMAIN posts' \ DOMAIN posts :
               (k = Len(posts) + 1 /\ posts'[k].id = i) \/ posts'[k].id = 0
      BY <1>2, <1>5, <2>1
    <2> HIDE DEF Waiting, Post
    <2> QED BY <1>4, <1>13, <2>2, ServedLine
  <1>14. ASSUME NEW m \in SeatIds, m # n, seats'[m].held PROVE Tended(m)'
    <2>1. PICK r : r = seats[m].session
      OBVIOUS
    <2>2. seats'[m] = seats[m] /\ seats[m].held
      BY <1>2, <1>14
    <2>3. Tended(m) /\ r \in Sessions /\ sessions[r].pending \subseteq Ids
      BY <2>1, <2>2, LogTypes, PendingOwed
    <2>4. sessions[r].pending \subseteq outstanding /\ (r \notin crossed => InLine(sessions[r].pending, seats, posts))
      BY <2>1, <2>3 DEF Tended
    <2>5. r \notin crossed' => InLine(sessions[r].pending, seats', posts')
      BY <1>3, <1>13, <2>3, <2>4
    <2> QED BY <1>3, <2>1, <2>2, <2>3, <2>4, <2>5, TendedStays
  <1>15. ASSUME seats'[n].held PROVE Tended(n)'
    <2>1. seats[n].held
      BY <1>2, <1>15
    <2>2. /\ Tended(n)
          /\ \A j \in sessions[s].pending : j \in Ids /\ Request[j].kind \in Writes /\ Held(j)
      BY <2>1, LogTypes, PendingOwed
    <2>3. /\ sessions[s].pending \subseteq outstanding
          /\ \A i \in Ids : In(q, i) /\ Request[i].kind \in Writes => i \in sessions[s].pending
          /\ s \notin crossed => InLine(sessions[s].pending, seats, posts) /\ Synced(n)
      BY <2>2 DEF Tended, Queued
    <2>4. \A i : In(Tail(q), i) => In(q, i)
      <3> HIDE DEF Waiting
      <3> QED BY <1>2, <1>4, TailIds
    <2>5. ASSUME s \notin crossed PROVE Synced(n)'
      <3>1. InLine(sessions[s].pending, seats, posts) /\ Synced(n)
        BY <2>3, <2>5
      <3>2. ASSUME graph = "clean"
            PROVE  \E y \in Values : Comes(Tail(q), value, y) /\ Agrees(sessions[s], Tail(q), y)
        <4>1. seats[n].graph = "clean" \/ Opens(q)
          BY <1>7, <1>10, <3>2
        <4>2. PICK v \in Values : Comes(q, seats[n].value, v) /\ Agrees(sessions[s], q, v)
          BY <3>1, <4>1 DEF Synced, Alive
        <4>3. ASSUME NEW j \in sessions[s].pending, In(q, f.id), f.id \in sessions[s].pending, ~In(q, j)
              PROVE  j < f.id
          <5>1. PICK m \in SeatIds : Queued(seats, m, j) \/ PostedBy(posts, m, j)
            BY <2>2 DEF Held
          <5>2. Queued(seats, n, f.id) /\ ~Queued(seats, n, j)
            BY <4>3 DEF Queued
          <5>3. ~Queued(seats, m, j)
            BY <3>1, <4>3, <5>2 DEF InLine
          <5>4. In(posts, j)
            BY <5>1, <5>3 DEF PostedBy, In
          <5> QED BY <3>1, <4>3, <5>2, <5>4 DEF InLine
        <4>4. \A j \in Ids : Single(q, j)
          BY <1>0 DEF PlacesInv, Distinct
        <4>5. Outcome(f, seats[n].graph, seats[n].value, code, "clean", value)
          BY <1>3, <3>2
        <4>6. sessions[s].pending \subseteq Ids /\ \A j \in sessions[s].pending : Request[j].kind \in Writes
          BY <2>2
        <4>7. \A j \in sessions[s].pending :
                In(q, f.id) /\ f.id \in sessions[s].pending /\ ~In(q, j) => j < f.id
          BY <4>3
        <4> PICK rec, x, g : rec = sessions[s] /\ x = seats[n].value /\ g = seats[n].graph
          OBVIOUS
        <4> HIDE DEF Waiting
        <4>8. /\ g = "clean" \/ Opens(q)
              /\ Comes(q, x, v) /\ Agrees(rec, q, v)
              /\ Outcome(f, g, x, code, "clean", value)
              /\ rec.pending \subseteq Ids
              /\ \A j \in rec.pending : Request[j].kind \in Writes
              /\ \A j \in Ids : In(q, j) /\ Request[j].kind \in Writes => j \in rec.pending
              /\ \A j \in rec.pending : In(q, f.id) /\ f.id \in rec.pending /\ ~In(q, j) => j < f.id
          BY <2>3, <4>1, <4>2, <4>5, <4>6, <4>7
        <4>9. \E y \in Values : Comes(Tail(q), value, y) /\ Agrees(rec, Tail(q), y)
          BY <1>2, <1>4, <1>5, <1>6, <4>4, <4>8, ServedAgrees
        <4> QED BY <4>9
      <3>3. Alive(seats', n) => graph = "clean"
        BY <1>2, <1>7 DEF Alive
      <3> QED BY <1>2, <1>3, <3>2, <3>3 DEF Synced
    <2>6. \A i \in Ids : Queued(seats', n, i) => In(q, i)
      BY <1>2, <2>4 DEF Queued
    <2>7. sessions[s].pending \in SUBSET Ids
      BY <2>2
    <2>8. s \notin crossed => InLine(sessions[s].pending, seats', posts')
      BY <1>13, <2>3, <2>7
    <2> QED BY <1>2, <1>3, <2>3, <2>5, <2>6, <2>8 DEF Tended
  <1>16. \A r \in Sessions : Writing(r)'
    BY <1>3, LogTypes DEF Writing
  <1>17. \A m \in SeatIds : m # n => Formed(m)'
    BY <1>2, LogTypes DEF Formed
  <1> QED BY <1>9, <1>12, <1>14, <1>15, <1>16, <1>17 DEF LogInv

LEMMA LogInit == Init => LogInv
  <1> SUFFICES ASSUME Init PROVE LogInv
    OBVIOUS
  <1>1. RequestsInv
    BY RequestsInit
  <1>2. /\ posts = <<>> /\ \A n \in SeatIds : seats[n] = NoSeat
        /\ \A s \in Sessions : sessions[s].pending = {}
    BY DEF Init, NoSession
  <1>3. Coded
    BY <1>2 DEF Coded
  <1>4. \A s \in Sessions : Writing(s)
    BY <1>2 DEF Writing
  <1>5. \A n \in SeatIds : Formed(n) /\ ~seats[n].held
    BY <1>2, EmptyQueue DEF Formed
  <1> QED BY <1>1, <1>3, <1>4, <1>5 DEF LogInv

LEMMA LogStep ==
    ASSUME InOrder, LogInv, [Next]_vars
    PROVE  LogInv'
  <1>0. RequestsInv'
    BY RequestsStep, LogTypes
  <1>1. ASSUME NEW i \in Ids,
               \/ OpenSession(i) \/ OpenThrows(i) \/ DispatchUnknown(i) \/ DispatchClose(i)
               \/ Dispatch(i) \/ Relocate(i) \/ RelocateThrows(i) \/ DispatchThrows(i)
               \/ CancelQueued(i)
        PROVE  LogInv'
    BY <1>0, <1>1, LogOpen, LogQuietRequest, LogClose, LogDispatch, LogRelocate, LogRelocateThrows,
       LogThrows, LogWithdraw
  <1>2. ASSUME NEW i \in Ids, CancelRunning(i) PROVE LogInv'
    <2>1. PICK n : n \in Placed(Request[i].session)
      BY <1>2 DEF CancelRunning
    <2>2. n \in SeatIds
      BY <2>1 DEF Placed, SeatsAt
    <2> QED BY <1>0, <1>2, <2>2, LogRuns
  <1>3. CASE Timer
    BY <1>0, <1>3, LogStale, LogGrace DEF Timer
  <1>4. CASE Loop
    BY <1>0, <1>4, LogAnswer, LogRefusedOpen, LogStale, LogDeath, LogRecovers DEF Loop
  <1>5. CASE \E n \in SeatIds : SeatStep(n)
    BY <1>0, <1>5, LogRuns, LogServe, LogReap DEF SeatStep
  <1>6. CASE UNCHANGED vars
    <2>1. UNCHANGED <<supervisor, host, outstanding, crossed>> /\ sent \subseteq sent'
      BY <1>6 DEF vars, ledger
    <2> QED BY <1>0, <2>1, LogStutters
  <1> QED BY <1>1, <1>2, <1>3, <1>4, <1>5, <1>6 DEF Next, Client

\* Where clients number a session's requests in the order they send them, what a
\* replay would rebuild of a session at rest is what its graph holds, whatever
\* kills, moves and refused writes came before: unless a kept sweep ended early,
\* or a write overtook an older one on a seat left behind or failed there.
THEOREM SupervisorLogIsTheGraph ==
    ASSUME InOrder PROVE Spec => []LogIsTheGraph
  <1>1. ASSUME LogInv PROVE LogIsTheGraph
    <2> SUFFICES ASSUME NEW s \in Sessions, AtRest(s), s \notin crossed, NEW n \in Placed(s)
                 PROVE  seats[n].value \in {sessions[s].log} \union {-i : i \in Ids}
      BY DEF LogIsTheGraph
    <2>1. /\ n \in SeatIds /\ seats[n].held /\ seats[n].session = s
          /\ \A m \in Placed(s) : m \in SeatIds /\ seats[m].held /\ seats[m].session = s
      BY <1>1, LogTypes, PlacedSeat
    <2>2. \A m \in Placed(s) : m = n
      BY <1>1, <2>1, LogTypes, HeldSeat
    <2>3. seats[n].graph = "clean" /\ seats[n].queue = <<>> /\ OwedOn(s) = {}
      BY <2>2 DEF AtRest
    <2>4. /\ Synced(n) /\ sessions[s].pending \subseteq outstanding
          /\ \A j \in sessions[s].pending : Request[j].session = s
      BY <1>1, <2>1, LogTypes DEF Tended, Writing
    <2>5. sessions[s].pending = {}
      BY <2>3, <2>4 DEF OwedOn
    <2>6. PICK v \in Values : Comes(<<>>, seats[n].value, v) /\ Agrees(sessions[s], <<>>, v)
      BY <2>1, <2>3, <2>4 DEF Synced, Alive
    <2>7. v = seats[n].value
      BY <2>6, EmptyQueue DEF Comes
    <2>8. Elsewhere(sessions[s], <<>>) = {}
      BY <2>5 DEF Elsewhere
    <2> QED BY <2>6, <2>7, <2>8 DEF Agrees
  <1>2. LogInv /\ [Next]_vars => LogInv'
    BY LogStep
  <1> QED BY <1>1, <1>2, LogInit, PTL DEF Spec
=============================================================================
