---------------------------- MODULE WorkerProofs ----------------------------
(***************************************************************************)
(* Theorems about one seat, for every set of frames and every queue it may *)
(* start with: the type invariant, that a stop ends no other request than  *)
(* its target and is not lost, that a kill starts nothing more, that every *)
(* request has one fate, that the seat implements the abstract Seat, and   *)
(* what lands at the gateway: the answer before the death, and no answer   *)
(* that a session its client never closed is gone.                         *)
(***************************************************************************)
EXTENDS Worker, OrderingProofs

\* What Reply does to the history it keeps.
LEMMA ReplyType ==
    ASSUME TypeOK, NEW code \in Codes, NEW next \in {"served", "dropping"},
           Reply(code, next), frame \in Frames
    PROVE  /\ posts' \in Seq(Posts)
           /\ answers' \in [Ids -> Nat]
           /\ pc' \in {"served", "dropping"}
  <1>1. [id |-> frame.id, kind |-> frame.kind, code |-> code] \in Posts
    BY FramesAssumption DEF TypeOK, Posts, Ids, NoId, Codes
  <1> QED BY <1>1 DEF TypeOK, Reply

\* The thread serves a frame it was given, never the placeholder.
Busy == pc \in {"serving", "dropping", "served"} => frame \in Frames

TypeInv == TypeOK /\ Busy

LEMMA TypeInit == Init => TypeInv
  <1> SUFFICES ASSUME Init PROVE TypeInv
    OBVIOUS
  <1>1. queue \in Seq(Frames) /\ queue # <<>>
    BY SeedsAssumption DEF Init
  <1>2. Head(queue) \in Frames
    BY <1>1, HeadTailProperties
  <1>3. accepted \subseteq Ids \union {NoId}
    BY <1>2 DEF Init, Ids
  <1>4. posts \in Seq(Posts)
    BY EmptySeq DEF Init
  <1>5. frame \in Frames \union {NoFrame} /\ polled \in 0..frame.polls
    BY DEF Init, NoFrame
  <1>6. current \in Ids \union {NoId} /\ answers \in [Ids -> Nat]
    BY DEF Init
  <1>7. Busy
    BY DEF Init, Busy
  <1> QED BY <1>1, <1>3, <1>4, <1>5, <1>6, <1>7 DEF Init, TypeInv, TypeOK

LEMMA TypeStep == TypeInv /\ [Next]_vars => TypeInv'
  <1> SUFFICES ASSUME TypeInv, [Next]_vars PROVE TypeInv'
    OBVIOUS
  <1> USE DEF TypeInv, Busy
  <1>1. ASSUME NEW f \in Frames, Submit(f) PROVE TypeInv'
    <2>1. queue' \in Seq(Frames)
      BY <1>1 DEF Submit, TypeOK
    <2>2. accepted' \subseteq Ids \union {NoId}
      BY <1>1 DEF Submit, TypeOK, Ids
    <2> QED BY <1>1, <2>1, <2>2 DEF Submit, TypeOK, thread
  <1>2. ASSUME NEW r \in Ids, StopQueued(r) PROVE TypeInv'
    <2>1. PICK i \in DOMAIN queue : queue' = RemoveAt(queue, i)
      BY <1>2 DEF StopQueued
    <2>2. queue' \in Seq(Frames)
      BY <2>1, RemoveAtProperties, LenProperties DEF TypeOK
    <2> QED BY <1>2, <2>2 DEF StopQueued, TypeOK, thread, loop
  <1>3. ASSUME NEW r \in Ids, StopRunning(r) PROVE TypeInv'
    BY <1>3 DEF StopRunning, TypeOK, thread, loop
  <1>4. CASE AbandonQueue
    <2>1. QueuedIds \subseteq Ids
      BY ElementOfSeq, LenProperties DEF QueuedIds, TypeOK, Ids
    <2> QED BY <1>4, <2>1 DEF AbandonQueue, TypeOK, thread
  <1>5. CASE AbandonRunning
    BY <1>5 DEF AbandonRunning, TypeOK, thread, history
  <1>6. CASE LandFrame
    <2>1. Tail(posts) \in Seq(Posts) /\ Head(posts) \in Posts
      BY <1>6, HeadTailProperties DEF LandFrame, TypeOK
    <2> QED BY <1>6, <2>1 DEF LandFrame, TypeOK, thread, shared, loop
  <1>7. CASE LandDeath
    <2>1. Tail(posts) \in Seq(Posts)
      BY <1>7, HeadTailProperties DEF LandDeath, TypeOK
    <2> QED BY <1>7, <2>1, ZenonT(40) DEF LandDeath, TypeOK, thread, shared, history
  <1>8. CASE Shutdown
    BY <1>8 DEF Shutdown, TypeOK, thread, loop, history
  <1>9. CASE Take
    <2>1. Head(queue) \in Frames /\ Tail(queue) \in Seq(Frames)
      BY <1>9, HeadTailProperties DEF Take, TypeOK
    <2>2. Head(queue).id \in Ids \union {NoId} /\ 0 \in 0..Head(queue).polls
      BY <2>1, FramesAssumption DEF Ids
    <2> QED BY <1>9, <2>1, <2>2 DEF Take, TypeOK, loop, history
  <1>10. ASSUME NEW code \in Codes, NEW next \in {"served", "dropping"},
                pc = "serving", Reply(code, next), frame' = frame,
                session' \in {"none", "clean", "dirty"}, polled' \in 0..frame.polls,
                UNCHANGED <<shared, loop, history>>
         PROVE  TypeInv'
    <2>1. frame \in Frames
      BY <1>10
    <2>2. /\ posts' \in Seq(Posts)
          /\ answers' \in [Ids -> Nat]
          /\ pc' \in {"served", "dropping"}
      BY <1>10, <2>1, ReplyType
    <2> QED BY <1>10, <2>1, <2>2 DEF TypeOK, shared, loop, history
  <1>11. CASE ServeOpen
    BY <1>10, <1>11 DEF ServeOpen, TypeOK, Codes
  <1>12. CASE ServeClose
    BY <1>10, <1>12 DEF ServeClose, TypeOK, Codes
  <1>13. CASE ServeOther
    BY <1>10, <1>13 DEF ServeOther, TypeOK, Codes
  <1>14. CASE ServeWithoutGraph
    BY <1>10, <1>14 DEF ServeWithoutGraph, TypeOK, Codes
  <1>15. CASE ServeDirtyGraph
    BY <1>10, <1>15 DEF ServeDirtyGraph, TypeOK, Codes
  <1>16. CASE ServeUpdate
    BY <1>10, <1>16 DEF ServeUpdate, TypeOK, Codes
  <1>17. CASE Boundary
    <2>1. frame \in Frames /\ pc = "serving"
      BY <1>17 DEF Boundary, Calculating
    <2>2. polled' \in 0..frame.polls
      BY <1>17, <2>1, FramesAssumption DEF Boundary, TypeOK
    <2>3. CASE stopRequested
      BY <1>10, <1>17, <2>1, <2>2, <2>3 DEF Boundary, TypeOK, Codes, StopCodes
    <2>4. CASE ~stopRequested
      BY <1>17, <2>1, <2>2, <2>4 DEF Boundary, TypeOK, shared, loop, history
    <2> QED BY <2>3, <2>4
  <1>18. CASE Complete
    BY <1>10, <1>18 DEF Complete, Calculating, TypeOK, Codes
  <1>19. CASE Fail
    BY <1>10, <1>19 DEF Fail, Calculating, TypeOK, Codes
  <1>20. CASE BreakSweep
    BY <1>10, <1>20 DEF BreakSweep, Calculating, TypeOK, Codes
  <1>21. CASE DropSession
    <2>1. frame \in Frames
      BY <1>21 DEF DropSession
    <2>2. [id |-> frame.id, kind |-> frame.kind, code |-> "died"] \in Posts
      BY <2>1, FramesAssumption DEF Posts, Ids
    <2> QED BY <1>21, <2>1, <2>2 DEF DropSession, TypeOK, shared, loop, history
  <1>22. CASE Served
    BY <1>22 DEF Served, TypeOK, loop, history, NoFrame, NoId
  <1>23. CASE Exit
    BY <1>23 DEF Exit, TypeOK, shared, loop, history
  <1>24. CASE UNCHANGED vars
    BY <1>24 DEF vars, TypeOK, shared, thread, loop, history
  <1> QED
    BY <1>1, <1>2, <1>3, <1>4, <1>5, <1>6, <1>7, <1>8, <1>9, <1>11, <1>12, <1>13,
       <1>14, <1>15, <1>16, <1>17, <1>18, <1>19, <1>20, <1>21, <1>22, <1>23, <1>24
    DEF Next, LoopStep, ThreadStep

\* A seat's state has its type in every behaviour.
THEOREM WorkerTypeOK == Spec => []TypeOK
  <1>1. TypeInv => TypeOK
    BY DEF TypeInv
  <1> QED BY <1>1, TypeInit, TypeStep, PTL DEF Spec
-----------------------------------------------------------------------------
(* A stop ends its target only *)

\* What was posted, after one more frame and after the oldest has landed.
LEMMA PostedAppend ==
    ASSUME TypeOK, NEW p \in Posts, posts' = Append(posts, p)
    PROVE  Posted' = Posted \union {p}
  <1>1. /\ Len(posts) \in Nat /\ DOMAIN posts = 1..Len(posts)
        /\ DOMAIN posts' = 1..(Len(posts) + 1)
        /\ posts'[Len(posts) + 1] = p
        /\ \A i \in 1..Len(posts) : posts'[i] = posts[i]
    BY LenProperties DEF TypeOK
  <1>2. Posted' \subseteq Posted \union {p}
    BY <1>1 DEF Posted
  <1>3. Posted \union {p} \subseteq Posted'
    <2>1. p \in Posted'
      BY <1>1 DEF Posted
    <2>2. ASSUME NEW i \in DOMAIN posts PROVE posts[i] \in Posted'
      BY <1>1, <2>2 DEF Posted
    <2> QED BY <2>1, <2>2 DEF Posted
  <1> QED BY <1>2, <1>3

LEMMA PostedTail ==
    ASSUME TypeOK, posts # <<>>, posts' = Tail(posts)
    PROVE  Posted' \subseteq Posted /\ Head(posts) \in Posted
  <1>1. /\ Len(posts) \in Nat /\ DOMAIN posts = 1..Len(posts) /\ Len(posts) # 0
        /\ Len(Tail(posts)) = Len(posts) - 1
        /\ DOMAIN Tail(posts) = 1..(Len(posts) - 1)
        /\ \A i \in 1..(Len(posts) - 1) : Tail(posts)[i] = posts[i + 1]
    BY LenProperties, EmptySeq, HeadTailProperties DEF TypeOK
  <1>2. Posted' \subseteq Posted
    BY <1>1 DEF Posted
  <1>3. Head(posts) = posts[1] /\ 1 \in DOMAIN posts
    BY <1>1
  <1> QED BY <1>2, <1>3 DEF Posted

\* A stop stands for the request being served, and a kill leaves no queue.
StopInv ==
    /\ host = "disowning" => abandoned
    /\ abandoned => host # "held" /\ queue = <<>>
    /\ pc \in {"idle", "exited"} => current = NoId
    /\ current # NoId => current = frame.id
    /\ pc = "serving" /\ stopRequested /\ ~abandoned => frame.id \in aimed
    /\ StopsOnlyItsTarget

LEMMA StopInit == Init => StopInv
  <1> SUFFICES ASSUME Init PROVE StopInv
    OBVIOUS
  <1>1. Posted = {}
    BY DEF Init, Posted
  <1> QED BY <1>1 DEF Init, StopInv, StopsOnlyItsTarget, NoId

LEMMA StopStep == TypeInv /\ StopInv /\ [Next]_vars => StopInv'
  <1> SUFFICES ASSUME TypeInv, StopInv, [Next]_vars PROVE StopInv'
    OBVIOUS
  <1>0. TypeOK /\ Busy
    BY DEF TypeInv
  <1>1. ASSUME UNCHANGED posts PROVE UNCHANGED Posted
    BY <1>1 DEF Posted
  <1> USE DEF StopInv, StopsOnlyItsTarget
  <1>2. ASSUME NEW f \in Frames, Submit(f) PROVE StopInv'
    BY <1>1, <1>2 DEF Submit, thread
  <1>3. ASSUME NEW r \in Ids, StopQueued(r) PROVE StopInv'
    BY <1>1, <1>3 DEF StopQueued, thread, loop
  <1>4. ASSUME NEW r \in Ids, StopRunning(r) PROVE StopInv'
    BY <1>1, <1>4 DEF StopRunning, thread, loop
  <1>5. CASE AbandonQueue
    BY <1>1, <1>5 DEF AbandonQueue, thread
  <1>6. CASE AbandonRunning
    BY <1>1, <1>6 DEF AbandonRunning, thread, history
  <1>7. CASE LandFrame
    <2>1. Posted' \subseteq Posted /\ Head(posts) \in Posted
      BY <1>0, <1>7, PostedTail DEF LandFrame
    <2> QED BY <1>7, <2>1 DEF LandFrame, thread, shared, loop
  <1>8. CASE LandDeath
    <2>1. Posted' \subseteq Posted
      BY <1>0, <1>8, PostedTail DEF LandDeath
    <2> QED BY <1>8, <2>1 DEF LandDeath, thread, shared, history
  <1>9. CASE Shutdown
    BY <1>1, <1>9 DEF Shutdown, thread, loop, history
  <1>10. CASE Take
    BY <1>1, <1>10 DEF Take, loop, history
  <1>11. ASSUME NEW code \in Codes, NEW next \in {"served", "dropping"},
                pc = "serving", Reply(code, next), frame' = frame,
                code \in StopCodes => stopRequested,
                UNCHANGED <<shared, loop, history>>
         PROVE  StopInv'
    <2> DEFINE p == [id |-> frame.id, kind |-> frame.kind, code |-> code]
    <2>1. p \in Posts
      BY <1>0, <1>11, FramesAssumption DEF Busy, Posts, Ids
    <2>2. Posted' = Posted \union {p}
      BY <1>0, <1>11, <2>1, PostedAppend DEF Reply
    <2>3. p.code \in StopCodes => p.id \in aimed \/ abandoned
      BY <1>0, <1>11 DEF TypeOK
    <2>4. StopsOnlyItsTarget'
      BY <1>11, <2>2, <2>3 DEF history, shared
    <2> QED BY <1>11, <2>4 DEF Reply, shared, loop, history
  <1>12. CASE ServeOpen
    BY <1>11, <1>12 DEF ServeOpen, Codes, StopCodes
  <1>13. CASE ServeClose
    BY <1>11, <1>13 DEF ServeClose, Codes, StopCodes
  <1>14. CASE ServeOther
    BY <1>11, <1>14 DEF ServeOther, Codes, StopCodes
  <1>15. CASE ServeWithoutGraph
    BY <1>11, <1>15 DEF ServeWithoutGraph, Codes, StopCodes
  <1>16. CASE ServeDirtyGraph
    BY <1>11, <1>16 DEF ServeDirtyGraph, Codes, StopCodes
  <1>17. CASE ServeUpdate
    BY <1>11, <1>17 DEF ServeUpdate, Codes, StopCodes
  <1>18. CASE Boundary
    <2>1. CASE stopRequested
      BY <1>11, <1>18, <2>1 DEF Boundary, Calculating, Codes, StopCodes
    <2>2. CASE ~stopRequested
      BY <1>1, <1>18, <2>2 DEF Boundary, Calculating, shared, loop, history
    <2> QED BY <2>1, <2>2
  <1>19. CASE Complete
    BY <1>11, <1>19 DEF Complete, Calculating, Codes, StopCodes
  <1>20. CASE Fail
    BY <1>11, <1>20 DEF Fail, Calculating, Codes, StopCodes
  <1>21. CASE BreakSweep
    BY <1>11, <1>21 DEF BreakSweep, Calculating, Codes, StopCodes
  <1>22. CASE DropSession
    <2> DEFINE p == [id |-> frame.id, kind |-> frame.kind, code |-> "died"]
    <2>1. p \in Posts
      BY <1>0, <1>22, FramesAssumption DEF DropSession, Busy, Posts, Ids
    <2>2. Posted' = Posted \union {p}
      BY <1>0, <1>22, <2>1, PostedAppend DEF DropSession
    <2>3. StopsOnlyItsTarget'
      BY <1>22, <2>2 DEF DropSession, history, shared, StopCodes
    <2> QED BY <1>22, <2>3 DEF DropSession, shared, loop, history
  <1>23. CASE Served
    BY <1>1, <1>23 DEF Served, loop, history
  <1>24. CASE Exit
    BY <1>1, <1>24 DEF Exit, shared, loop, history
  <1>25. CASE UNCHANGED vars
    BY <1>1, <1>25 DEF vars, shared, thread, loop, history
  <1> QED
    BY <1>2, <1>3, <1>4, <1>5, <1>6, <1>7, <1>8, <1>9, <1>10, <1>12, <1>13, <1>14,
       <1>15, <1>16, <1>17, <1>18, <1>19, <1>20, <1>21, <1>22, <1>23, <1>24, <1>25
    DEF Next, LoopStep, ThreadStep

\* A calculation is cut short only by a stop that named it or by the kill of its
\* seat, however stops, pops and kills interleave.
THEOREM WorkerStopsOnlyItsTarget == Spec => []StopsOnlyItsTarget
  <1>1. StopInv => StopsOnlyItsTarget
    BY DEF StopInv
  <1> QED BY <1>1, TypeInit, TypeStep, StopInit, StopStep, PTL DEF Spec

\* Once a kill has taken the queue, the thread starts nothing more.
THEOREM WorkerNothingStartsAfterKill == Spec => NothingStartsAfterKill
  <1>1. StopInv /\ [Next]_vars => [abandoned => frame' \in {frame, NoFrame}]_vars
    <2> SUFFICES ASSUME StopInv, Next, abandoned PROVE frame' \in {frame, NoFrame}
      BY DEF vars
    <2>1. ~Take
      BY DEF StopInv, Take
    <2> QED BY <2>1 DEF Next, LoopStep, ThreadStep, Submit, StopQueued, StopRunning,
          AbandonQueue, AbandonRunning, LandFrame, LandDeath, Shutdown, ServeOpen,
          ServeClose, ServeOther, ServeWithoutGraph, ServeDirtyGraph, ServeUpdate,
          Boundary, Complete, Fail, BreakSweep, DropSession, Served, Exit, thread
  <1> QED
    BY <1>1, TypeInit, TypeStep, StopInit, StopStep, PTL DEF Spec, NothingStartsAfterKill
-----------------------------------------------------------------------------
(* Every request has one fate *)

Distinct(q) == \A i, j \in DOMAIN q : q[i].id = q[j].id /\ q[i].id # NoId => i = j

IdsIn(q) == {q[i].id : i \in DOMAIN q} \ {NoId}

\* The queue gains the id that was appended, and keeps its ids distinct when it
\* did not hold that one.
LEMMA QueueAppend ==
    ASSUME NEW q \in Seq(Frames), NEW f \in Frames, Distinct(q), f.id \notin IdsIn(q)
    PROVE  /\ Distinct(Append(q, f))
           /\ IdsIn(Append(q, f)) = IdsIn(q) \union ({f.id} \ {NoId})
  <1> DEFINE r == Append(q, f)
  <1>1. /\ Len(q) \in Nat /\ DOMAIN q = 1..Len(q) /\ DOMAIN r = 1..(Len(q) + 1)
        /\ r[Len(q) + 1] = f
        /\ \A i \in 1..Len(q) : r[i] = q[i]
    BY LenProperties
  <1> HIDE DEF r
  <1>2. Distinct(r)
    <2> SUFFICES ASSUME NEW i \in DOMAIN r, NEW j \in DOMAIN r,
                        r[i].id = r[j].id, r[i].id # NoId
                 PROVE  i = j
      BY DEF Distinct
    <2>1. \A k \in 1..Len(q) : q[k].id # NoId => q[k].id \in IdsIn(q)
      BY <1>1 DEF IdsIn
    <2> QED BY <1>1, <2>1 DEF Distinct
  <1>3. IdsIn(r) \subseteq IdsIn(q) \union ({f.id} \ {NoId})
    BY <1>1 DEF IdsIn
  <1>4. IdsIn(q) \union ({f.id} \ {NoId}) \subseteq IdsIn(r)
    <2>1. \A i \in DOMAIN q : i \in DOMAIN r /\ r[i] = q[i]
      BY <1>1
    <2>2. Len(q) + 1 \in DOMAIN r
      BY <1>1
    <2> QED BY <1>1, <2>1, <2>2 DEF IdsIn
  <1> QED BY <1>2, <1>3, <1>4 DEF r

\* The queue loses the id at the place that was taken out, and only that one.
LEMMA QueueRemove ==
    ASSUME NEW q \in Seq(Frames), NEW k \in 1..Len(q), NEW r \in Seq(Frames), Distinct(q),
           Len(r) = Len(q) - 1,
           \A j \in 1..(Len(q) - 1) : r[j] = IF j < k THEN q[j] ELSE q[j + 1]
    PROVE  Distinct(r) /\ IdsIn(r) = IdsIn(q) \ {q[k].id}
  <1>1. Len(q) \in Nat /\ DOMAIN q = 1..Len(q) /\ DOMAIN r = 1..(Len(q) - 1)
    BY LenProperties
  <1> DEFINE old(j) == IF j < k THEN j ELSE j + 1
  <1>2. \A j \in DOMAIN r : old(j) \in DOMAIN q /\ old(j) # k /\ r[j] = q[old(j)]
    BY <1>1
  <1>3. Distinct(r)
    <2> SUFFICES ASSUME NEW i \in DOMAIN r, NEW j \in DOMAIN r,
                        r[i].id = r[j].id, r[i].id # NoId
                 PROVE  i = j
      BY DEF Distinct
    <2>1. old(i) = old(j)
      BY <1>2 DEF Distinct
    <2> QED BY <2>1, <1>1
  <1>4. IdsIn(r) \subseteq IdsIn(q) \ {q[k].id}
    BY <1>1, <1>2 DEF IdsIn, Distinct
  <1>5. ASSUME NEW i \in DOMAIN q, i # k PROVE \E j \in DOMAIN r : r[j] = q[i]
    <2>1. CASE i < k
      BY <2>1, <1>1
    <2>2. CASE i > k
      <3>1. i - 1 \in DOMAIN r /\ r[i - 1] = q[i]
        BY <2>2, <1>1
      <3> QED BY <3>1
    <2> QED BY <1>5, <2>1, <2>2, <1>1
  <1>6. IdsIn(q) \ {q[k].id} \subseteq IdsIn(r)
    BY <1>1, <1>5 DEF IdsIn
  <1> QED BY <1>3, <1>4, <1>6

\* The pop takes the first.
LEMMA QueuePop ==
    ASSUME NEW q \in Seq(Frames), q # <<>>, Distinct(q)
    PROVE  /\ Distinct(Tail(q))
           /\ IdsIn(Tail(q)) = IdsIn(q) \ {Head(q).id}
           /\ Head(q).id # NoId => Head(q).id \in IdsIn(q)
  <1>1. /\ Tail(q) \in Seq(Frames)
        /\ Len(Tail(q)) = Len(q) - 1
        /\ \A j \in 1..(Len(q) - 1) : Tail(q)[j] = q[j + 1]
        /\ Len(q) \in Nat \ {0} /\ DOMAIN q = 1..Len(q)
    BY HeadTailProperties, EmptySeq, LenProperties
  <1>2. Head(q) = q[1] /\ 1 \in DOMAIN q
    BY <1>1
  <1>3. \A j \in 1..(Len(q) - 1) : Tail(q)[j] = IF j < 1 THEN q[j] ELSE q[j + 1]
    BY <1>1
  <1>4. Distinct(Tail(q)) /\ IdsIn(Tail(q)) = IdsIn(q) \ {q[1].id}
    <2> DEFINE r == Tail(q)
    <2>1. r \in Seq(Frames) /\ Len(r) = Len(q) - 1 /\ 1 \in 1..Len(q)
      BY <1>1
    <2>2. \A j \in 1..(Len(q) - 1) : r[j] = IF j < 1 THEN q[j] ELSE q[j + 1]
      BY <1>3
    <2> HIDE DEF r
    <2>3. Distinct(r) /\ IdsIn(r) = IdsIn(q) \ {q[1].id}
      BY ONLY <2>1, <2>2, QueueRemove, Distinct(q), q \in Seq(Frames)
    <2> QED BY <2>3 DEF r
  <1> QED BY <1>2, <1>4 DEF IdsIn

\* OneFate spelled out fate by fate, and what keeps a stop standing: nothing
\* still queued has been aimed at, so the pop resets no stop that was meant.
ServingId == IF pc = "serving" THEN frame.id ELSE NoId

FateInv ==
    /\ Distinct(queue)
    /\ \A r \in Ids :
        /\ r \in QueuedIds =>
             /\ r # ServingId /\ answers[r] = 0
             /\ r \notin withdrawn /\ r \notin lost /\ r \notin aimed
        /\ r = ServingId => answers[r] = 0 /\ r \notin withdrawn /\ r \notin lost
        /\ r = frame.id /\ pc \in {"dropping", "served"} => answers[r] = 1
        /\ answers[r] <= 1
        /\ answers[r] = 1 => r \notin withdrawn /\ r \notin lost
        /\ ~(r \in withdrawn /\ r \in lost)
        /\ r \in accepted <=>
             \/ r \in QueuedIds \/ r = ServingId \/ answers[r] = 1
             \/ r \in withdrawn \/ r \in lost
        /\ r \in aimed => r \in accepted
    /\ StopNotLost

LEMMA FateInit == Init => FateInv
  <1> SUFFICES ASSUME Init PROVE FateInv
    OBVIOUS
  <1>1. /\ queue \in Seq(Frames) /\ queue # <<>>
        /\ \A i \in 2..Len(queue) : queue[i].id = NoId
        /\ Head(queue).id # NoId => Len(queue) = 1
    BY SeedsAssumption DEF Init
  <1>2. Len(queue) \in Nat \ {0} /\ DOMAIN queue = 1..Len(queue) /\ Head(queue) = queue[1]
    BY <1>1, EmptySeq, LenProperties
  <1>3. \A i \in DOMAIN queue : queue[i].id = NoId \/ i = 1
    BY <1>1, <1>2
  <1>4. Distinct(queue)
    BY <1>3 DEF Distinct
  <1>5. QueuedIds = {Head(queue).id} \ {NoId}
    BY <1>2, <1>3 DEF QueuedIds
  <1>6. \A r \in Ids : r # NoId
    BY DEF Ids
  <1> QED BY <1>4, <1>5, <1>6 DEF Init, FateInv, ServingId, StopNotLost

LEMMA FateStep == TypeInv /\ StopInv /\ FateInv /\ [Next]_vars => FateInv'
  <1> SUFFICES ASSUME TypeInv, StopInv, FateInv, [Next]_vars PROVE FateInv'
    OBVIOUS
  <1>0. /\ queue \in Seq(Frames) /\ answers \in [Ids -> Nat]
        /\ \A r \in Ids : r # NoId
        /\ QueuedIds = IdsIn(queue) /\ QueuedIds' = IdsIn(queue')
        /\ Distinct(queue) /\ QueuedIds \subseteq Ids
        /\ aimed \subseteq Ids
    <2>1. QueuedIds \subseteq Ids
      BY ElementOfSeq, LenProperties DEF QueuedIds, Ids, TypeInv, TypeOK
    <2> QED BY <2>1 DEF TypeInv, TypeOK, Ids, QueuedIds, IdsIn, FateInv
  <1>1. ASSUME UNCHANGED queue PROVE UNCHANGED QueuedIds
    BY <1>1 DEF QueuedIds
  <1> USE DEF FateInv, ServingId, StopNotLost
  <1>2. ASSUME NEW f \in Frames, Submit(f) PROVE FateInv'
    <2>1. f.id \notin IdsIn(queue)
      BY <1>0, <1>2 DEF Submit, IdsIn
    <2>2. Distinct(queue') /\ QueuedIds' = QueuedIds \union ({f.id} \ {NoId})
      BY <1>0, <1>2, <2>1, QueueAppend DEF Submit
    <2>3. f.id # NoId => f.id \in Ids
      BY DEF Ids
    <2> QED BY <1>0, <1>2, <2>2, <2>3 DEF Submit, StopInv, thread
  <1>3. ASSUME NEW r \in Ids, StopQueued(r) PROVE FateInv'
    <2>1. PICK i \in DOMAIN queue : queue[i].id = r /\ queue' = RemoveAt(queue, i)
      BY <1>3 DEF StopQueued
    <2>2. i \in 1..Len(queue)
      BY <1>0, LenProperties
    <2> DEFINE shorter == RemoveAt(queue, i)
    <2>3. /\ shorter \in Seq(Frames)
          /\ Len(shorter) = Len(queue) - 1
          /\ \A j \in 1..(Len(queue) - 1) :
               shorter[j] = IF j < i THEN queue[j] ELSE queue[j + 1]
      BY <1>0, <2>2, RemoveAtProperties
    <2> HIDE DEF shorter
    <2>4. Distinct(shorter) /\ IdsIn(shorter) = IdsIn(queue) \ {queue[i].id}
      BY <1>0, <2>2, <2>3, QueueRemove
    <2>5. Distinct(queue') /\ QueuedIds' = QueuedIds \ {r}
      BY <1>0, <2>1, <2>4 DEF shorter
    <2>6. r \in QueuedIds
      BY <1>0, <2>1 DEF QueuedIds
    <2> QED BY <1>0, <1>3, <2>5, <2>6 DEF StopQueued, thread, loop
  <1>4. ASSUME NEW r \in Ids, StopRunning(r) PROVE FateInv'
    <2>1. r = frame.id /\ pc \in {"serving", "dropping", "served"}
      BY <1>0, <1>4 DEF StopRunning, StopInv, TypeInv, TypeOK
    <2>2. r \in accepted
      BY <1>0, <1>4, <2>1 DEF StopRunning
    <2> QED BY <1>0, <1>1, <1>4, <2>1, <2>2 DEF StopRunning, thread, loop
  <1>5. CASE AbandonQueue
    <2>1. Distinct(queue') /\ QueuedIds' = {}
      BY <1>5 DEF AbandonQueue, Distinct, QueuedIds
    <2> QED BY <1>0, <1>5, <2>1 DEF AbandonQueue, thread
  <1>6. CASE AbandonRunning
    BY <1>0, <1>1, <1>6 DEF AbandonRunning, thread, history
  <1>7. CASE LandFrame
    BY <1>0, <1>1, <1>7 DEF LandFrame, thread, shared, loop
  <1>8. CASE LandDeath
    BY <1>0, <1>1, <1>8 DEF LandDeath, StopInv, thread, shared, history
  <1>9. CASE Shutdown
    BY <1>0, <1>1, <1>9 DEF Shutdown, thread, loop, history
  <1>10. CASE Take
    <2>1. /\ Distinct(queue') /\ QueuedIds' = QueuedIds \ {Head(queue).id}
          /\ Head(queue).id # NoId => Head(queue).id \in QueuedIds
      BY <1>0, <1>10, QueuePop DEF Take
    <2> QED BY <1>0, <1>10, <2>1 DEF Take, StopInv, loop, history
  <1>11. ASSUME NEW code, NEW next \in {"served", "dropping"},
                pc = "serving", Reply(code, next), UNCHANGED <<shared, frame, loop, history>>
         PROVE  FateInv'
    <2>1. frame.id \in Ids \union {NoId}
      BY <1>11 DEF TypeInv, Busy, Ids
    <2>2. UNCHANGED QueuedIds /\ UNCHANGED queue
      BY <1>1, <1>11 DEF shared
    <2> QED BY <1>0, <1>11, <2>1, <2>2 DEF Reply, shared, loop, history
  <1>12. CASE ServeOpen
    BY <1>11, <1>12 DEF ServeOpen
  <1>13. CASE ServeClose
    BY <1>11, <1>13 DEF ServeClose
  <1>14. CASE ServeOther
    BY <1>11, <1>14 DEF ServeOther
  <1>15. CASE ServeWithoutGraph
    BY <1>11, <1>15 DEF ServeWithoutGraph
  <1>16. CASE ServeDirtyGraph
    BY <1>11, <1>16 DEF ServeDirtyGraph
  <1>17. CASE ServeUpdate
    BY <1>11, <1>17 DEF ServeUpdate
  <1>18. CASE Boundary
    <2>1. CASE stopRequested
      BY <1>11, <1>18, <2>1 DEF Boundary, Calculating
    <2>2. CASE ~stopRequested
      BY <1>0, <1>1, <1>18, <2>2 DEF Boundary, Calculating, shared, loop, history
    <2> QED BY <2>1, <2>2
  <1>19. CASE Complete
    BY <1>11, <1>19 DEF Complete, Calculating
  <1>20. CASE Fail
    BY <1>11, <1>20 DEF Fail, Calculating
  <1>21. CASE BreakSweep
    BY <1>11, <1>21 DEF BreakSweep, Calculating
  <1>22. CASE DropSession
    BY <1>0, <1>1, <1>22 DEF DropSession, shared, loop, history
  <1>23. CASE Served
    BY <1>0, <1>1, <1>23 DEF Served, loop, history
  <1>24. CASE Exit
    BY <1>0, <1>1, <1>24 DEF Exit, shared, loop, history
  <1>25. CASE UNCHANGED vars
    BY <1>0, <1>1, <1>25 DEF vars, shared, thread, loop, history
  <1> QED
    BY <1>2, <1>3, <1>4, <1>5, <1>6, <1>7, <1>8, <1>9, <1>10, <1>12, <1>13, <1>14,
       <1>15, <1>16, <1>17, <1>18, <1>19, <1>20, <1>21, <1>22, <1>23, <1>24, <1>25
    DEF Next, LoopStep, ThreadStep

\* Whatever the order of submits, pops, stops and kills, a request the seat took
\* is in one place and is answered at most once.
THEOREM WorkerOneFate == Spec => []OneFate
  <1>1. TypeInv /\ FateInv => OneFate
    <2> SUFFICES ASSUME TypeInv, FateInv, NEW r \in Ids
                 PROVE  /\ answers[r] <= 1
                        /\ r \notin accepted => Fates(r) = {}
                        /\ r \in accepted => \E fate \in Fates(r) : Fates(r) = {fate}
      BY DEF OneFate
    <2>1. r # NoId /\ answers[r] \in Nat
      BY DEF Ids, TypeInv, TypeOK
    <2>2. /\ "queued" \in Fates(r) <=> r \in QueuedIds
          /\ "serving" \in Fates(r) <=> r = ServingId
          /\ "answered" \in Fates(r) <=> answers[r] = 1
          /\ "withdrawn" \in Fates(r) <=> r \in withdrawn
          /\ "lost" \in Fates(r) <=> r \in lost
          /\ Fates(r) \subseteq {"queued", "serving", "answered", "withdrawn", "lost"}
      BY <2>1 DEF Fates, FateInv, ServingId
    <2>3. \A x, y \in Fates(r) : x = y
      BY <2>1, <2>2 DEF FateInv
    <2>4. r \in accepted <=> Fates(r) # {}
      BY <2>1, <2>2 DEF FateInv
    <2> QED BY <2>3, <2>4 DEF FateInv
  <1> QED
    BY <1>1, TypeInit, TypeStep, StopInit, StopStep, FateInit, FateStep, PTL DEF Spec

\* A stop that found its request running, or a kill, stands at every boundary
\* that request has left.
THEOREM WorkerStopNotLost == Spec => []StopNotLost
  <1>1. FateInv => StopNotLost
    BY DEF FateInv
  <1> QED
    BY <1>1, TypeInit, TypeStep, StopInit, StopStep, FateInit, FateStep, PTL DEF Spec
-----------------------------------------------------------------------------
(* The seat as its clients see it *)

\* A line is the ids of those before the queue and then of those in it.
LEMMA LineProperties ==
    ASSUME NEW q \in Seq(Frames), NEW first \in Seq(Nat)
    PROVE  /\ Line(first, q) \in Seq(Nat)
           /\ Len(Line(first, q)) = Len(first) + Len(q)
           /\ \A k \in 1..(Len(first) + Len(q)) :
                Line(first, q)[k] = IF k <= Len(first) THEN first[k] ELSE q[k - Len(first)].id
           /\ Len(first) \in Nat /\ Len(q) \in Nat
  <1> DEFINE ids == [i \in DOMAIN q |-> q[i].id]
  <1>1. /\ Len(q) \in Nat /\ DOMAIN q = 1..Len(q) /\ Len(first) \in Nat
        /\ \A k \in 1..Len(q) : q[k] \in Frames
    BY LenProperties, ElementOfSeq
  <1>2. /\ ids \in Seq(Nat) /\ Len(ids) = Len(q)
        /\ \A k \in 1..Len(q) : ids[k] = q[k].id
    <2>1. \A k \in 1..Len(q) : q[k].id \in Nat
      BY <1>1, FramesAssumption
    <2>2. ids \in [1..Len(q) -> Nat]
      BY <1>1, <2>1
    <2> QED BY <1>1, <2>2
  <1> HIDE DEF ids
  <1>3. /\ first \o ids \in Seq(Nat) /\ Len(first \o ids) = Len(first) + Len(q)
        /\ \A k \in 1..(Len(first) + Len(q)) :
             (first \o ids)[k] = IF k <= Len(first) THEN first[k] ELSE ids[k - Len(first)]
    <2>1. /\ first \o ids \in Seq(Nat) /\ Len(first \o ids) = Len(first) + Len(ids)
          /\ \A k \in 1..(Len(first) + Len(ids)) :
               (first \o ids)[k] = IF k <= Len(first) THEN first[k] ELSE ids[k - Len(first)]
      BY <1>2, ConcatProperties
    <2> QED BY <1>2, <2>1
  <1>4. Line(first, q) = first \o ids
    BY DEF Line, ids
  <1>5. \A k \in 1..(Len(first) + Len(q)) : k <= Len(first) \/ k - Len(first) \in 1..Len(q)
    BY <1>1
  <1> QED BY <1>1, <1>2, <1>3, <1>4, <1>5

LEMMA LineAppend ==
    ASSUME NEW q \in Seq(Frames), NEW first \in Seq(Nat), NEW f \in Frames
    PROVE  Line(first, Append(q, f)) = Append(Line(first, q), f.id)
  <1> DEFINE r == Append(q, f)
             l == Line(first, q)
             m == Line(first, r)
             n == Append(l, f.id)
  <1>1. /\ r \in Seq(Frames) /\ Len(r) = Len(q) + 1 /\ r[Len(q) + 1] = f
        /\ \A k \in 1..Len(q) : r[k] = q[k]
    BY AppendProperties
  <1>2. /\ l \in Seq(Nat) /\ Len(l) = Len(first) + Len(q)
        /\ \A k \in 1..(Len(first) + Len(q)) :
             l[k] = IF k <= Len(first) THEN first[k] ELSE q[k - Len(first)].id
        /\ Len(first) \in Nat /\ Len(q) \in Nat
    BY LineProperties
  <1> HIDE DEF r
  <1>3. /\ m \in Seq(Nat) /\ Len(m) = Len(first) + Len(r)
        /\ \A k \in 1..(Len(first) + Len(r)) :
             m[k] = IF k <= Len(first) THEN first[k] ELSE r[k - Len(first)].id
    BY <1>1, LineProperties
  <1>4. f.id \in Nat
    BY FramesAssumption
  <1> HIDE DEF l, m
  <1>5. /\ n \in Seq(Nat) /\ Len(n) = Len(l) + 1
        /\ \A k \in 1..Len(l) : n[k] = l[k]
        /\ n[Len(l) + 1] = f.id
    BY <1>2, <1>4, AppendProperties
  <1> HIDE DEF n
  <1>6. ASSUME NEW k \in 1..Len(m) PROVE m[k] = n[k]
    <2>1. CASE k <= Len(first)
      <3>1. k \in 1..(Len(first) + Len(q)) /\ k \in 1..Len(l)
        BY <1>2, <2>1
      <3> QED BY <1>2, <1>3, <1>5, <2>1, <3>1
    <2>2. CASE k > Len(first) /\ k <= Len(first) + Len(q)
      <3>1. k \in 1..Len(l) /\ k - Len(first) \in 1..Len(q) /\ ~(k <= Len(first))
        BY <1>2, <2>2
      <3> QED BY <1>1, <1>2, <1>3, <1>5, <3>1
    <2>3. CASE k = Len(first) + Len(q) + 1
      <3>1. k = Len(l) + 1 /\ k - Len(first) = Len(q) + 1 /\ ~(k <= Len(first))
        BY <1>2, <2>3
      <3> QED BY <1>1, <1>3, <1>5, <3>1
    <2>4. /\ k \in Nat /\ Len(first) \in Nat /\ Len(q) \in Nat
          /\ k <= Len(first) + Len(q) + 1
      BY <1>1, <1>2, <1>3
    <2>5. \/ k <= Len(first) \/ (k > Len(first) /\ k <= Len(first) + Len(q))
          \/ k = Len(first) + Len(q) + 1
      BY <2>4
    <2> QED BY <2>1, <2>2, <2>3, <2>5
  <1>7. Len(m) = Len(n)
    BY <1>1, <1>2, <1>3, <1>5
  <1>8. m = n
    BY <1>3, <1>5, <1>6, <1>7, SeqEqual
  <1> QED BY <1>8 DEF m, n, l, r

LEMMA LineRemove ==
    ASSUME NEW q \in Seq(Frames), NEW first \in Seq(Nat), NEW i \in 1..Len(q)
    PROVE  Line(first, RemoveAt(q, i)) = RemoveAt(Line(first, q), Len(first) + i)
  <1> DEFINE r == RemoveAt(q, i)
             l == Line(first, q)
             m == Line(first, r)
             n == RemoveAt(l, Len(first) + i)
  <1>1. /\ r \in Seq(Frames) /\ Len(r) = Len(q) - 1
        /\ \A j \in 1..(Len(q) - 1) : r[j] = IF j < i THEN q[j] ELSE q[j + 1]
    BY RemoveAtProperties
  <1>2. /\ l \in Seq(Nat) /\ Len(l) = Len(first) + Len(q)
        /\ \A k \in 1..(Len(first) + Len(q)) :
             l[k] = IF k <= Len(first) THEN first[k] ELSE q[k - Len(first)].id
        /\ Len(first) \in Nat /\ Len(q) \in Nat
    BY LineProperties
  <1> HIDE DEF r
  <1>3. /\ m \in Seq(Nat) /\ Len(m) = Len(first) + Len(r)
        /\ \A k \in 1..(Len(first) + Len(r)) :
             m[k] = IF k <= Len(first) THEN first[k] ELSE r[k - Len(first)].id
    BY <1>1, LineProperties
  <1> HIDE DEF l, m
  <1>4. /\ n \in Seq(Nat) /\ Len(n) = Len(l) - 1
        /\ \A j \in 1..(Len(l) - 1) : n[j] = IF j < Len(first) + i THEN l[j] ELSE l[j + 1]
    <2>1. Len(first) + i \in 1..Len(l)
      BY <1>2
    <2> QED BY <1>2, <2>1, RemoveAtProperties
  <1> HIDE DEF n
  <1>5. ASSUME NEW k \in 1..Len(m) PROVE m[k] = n[k]
    <2>0. k \in 1..(Len(l) - 1) /\ k \in 1..(Len(first) + Len(r)) /\ k + 1 \in 1..Len(l)
      BY <1>1, <1>2, <1>3
    <2>1. CASE k <= Len(first)
      <3>1. k < Len(first) + i /\ k \in 1..(Len(first) + Len(q))
        BY <1>2, <2>1, SMTT(40)
      <3> QED BY <1>2, <1>3, <1>4, <2>0, <2>1, <3>1
    <2>2. CASE k > Len(first) /\ k < Len(first) + i
      <3>0. /\ k \in Nat /\ i \in Nat /\ Len(first) \in Nat /\ Len(q) \in Nat
            /\ 1 <= i /\ i <= Len(q) /\ Len(first) < k /\ k < Len(first) + i
        BY <1>2, <2>0, <2>2
      <3>1. /\ k - Len(first) \in 1..(Len(q) - 1) /\ k - Len(first) < i
            /\ k \in 1..(Len(first) + Len(q)) /\ ~(k <= Len(first))
        BY <3>0
      <3> QED BY <1>1, <1>2, <1>3, <1>4, <2>0, <2>2, <3>1
    <2>3. CASE k >= Len(first) + i
      <3>1. /\ k - Len(first) \in 1..(Len(q) - 1) /\ ~(k - Len(first) < i)
            /\ k + 1 \in 1..(Len(first) + Len(q)) /\ ~(k + 1 <= Len(first)) /\ ~(k <= Len(first))
            /\ (k + 1) - Len(first) = (k - Len(first)) + 1 /\ ~(k < Len(first) + i)
        BY <1>2, <2>0, <2>3, SMTT(40)
      <3>2. m[k] = q[(k - Len(first)) + 1].id
        BY <1>1, <1>3, <2>0, <3>1
      <3>3. n[k] = l[k + 1]
        BY <1>4, <2>0, <3>1
      <3> QED BY <1>2, <3>1, <3>2, <3>3
    <2> QED BY <1>2, <2>1, <2>2, <2>3
  <1>6. Len(m) = Len(n)
    BY <1>1, <1>2, <1>3, <1>4
  <1>7. m = n
    BY <1>3, <1>4, <1>5, <1>6, SeqEqual
  <1> QED BY <1>7 DEF m, n, l, r

\* The pop changes nothing: the first moves from the queue to before it.
LEMMA LineTake ==
    ASSUME NEW q \in Seq(Frames), q # <<>>
    PROVE  Line(<<Head(q).id>>, Tail(q)) = Line(<<>>, q)
  <1> DEFINE r == Tail(q)
             one == <<Head(q).id>>
             l == Line(<<>>, q)
             m == Line(one, r)
  <1>1. /\ r \in Seq(Frames) /\ Len(r) = Len(q) - 1 /\ Head(q) = q[1] /\ Len(q) \in Nat \ {0}
        /\ \A j \in 1..(Len(q) - 1) : r[j] = q[j + 1]
    BY HeadTailProperties, EmptySeq, LenProperties
  <1>2. one \in Seq(Nat) /\ Len(one) = 1 /\ one[1] = q[1].id
    <2>1. Head(q).id \in Nat
      BY HeadTailProperties, FramesAssumption
    <2> QED BY <1>1, <2>1
  <1> HIDE DEF r, one
  <1>3. /\ l \in Seq(Nat) /\ Len(l) = Len(q) /\ \A k \in 1..Len(q) : l[k] = q[k].id
    <2>1. <<>> \in Seq(Nat) /\ Len(<<>>) = 0
      BY EmptySeq
    <2>2. /\ l \in Seq(Nat) /\ Len(l) = 0 + Len(q)
          /\ \A k \in 1..(0 + Len(q)) : l[k] = IF k <= 0 THEN <<>>[k] ELSE q[k - 0].id
      BY <2>1, LineProperties, ZenonT(40)
    <2> HIDE DEF l
    <2> QED BY <1>1, <2>2
  <1>4. /\ m \in Seq(Nat) /\ Len(m) = Len(q)
        /\ \A k \in 1..Len(q) : m[k] = IF k <= 1 THEN one[k] ELSE r[k - 1].id
    <2>1. /\ m \in Seq(Nat) /\ Len(m) = Len(one) + Len(r)
          /\ \A k \in 1..(Len(one) + Len(r)) :
               m[k] = IF k <= Len(one) THEN one[k] ELSE r[k - Len(one)].id
      BY <1>1, <1>2, LineProperties
    <2> HIDE DEF m
    <2> QED BY <1>1, <1>2, <2>1
  <1> HIDE DEF l, m
  <1>5. ASSUME NEW k \in 1..Len(m) PROVE m[k] = l[k]
    <2>1. CASE k = 1
      BY <1>1, <1>2, <1>3, <1>4, <2>1
    <2>2. CASE k # 1
      <3>1. k - 1 \in 1..(Len(q) - 1) /\ ~(k <= 1) /\ (k - 1) + 1 = k
        BY <1>1, <1>4, <2>2
      <3> QED BY <1>1, <1>3, <1>4, <3>1
    <2> QED BY <2>1, <2>2
  <1>6. m = l
    BY <1>3, <1>4, <1>5, SeqEqual
  <1> QED BY <1>6 DEF l, m, one, r

\* The answer takes the first away.
LEMMA LineAnswer ==
    ASSUME NEW q \in Seq(Frames), NEW id \in Nat
    PROVE  /\ Line(<<id>>, q) \in Seq(Nat) /\ Line(<<id>>, q) # <<>>
           /\ Head(Line(<<id>>, q)) = id /\ Tail(Line(<<id>>, q)) = Line(<<>>, q)
  <1> DEFINE one == <<id>>
             l == Line(<<>>, q)
             m == Line(one, q)
  <1>1. one \in Seq(Nat) /\ Len(one) = 1 /\ one[1] = id /\ Len(q) \in Nat
    BY LenProperties
  <1> HIDE DEF one
  <1>3. /\ l \in Seq(Nat) /\ Len(l) = Len(q) /\ \A k \in 1..Len(q) : l[k] = q[k].id
    <2>1. <<>> \in Seq(Nat) /\ Len(<<>>) = 0
      BY EmptySeq
    <2>2. /\ l \in Seq(Nat) /\ Len(l) = 0 + Len(q)
          /\ \A k \in 1..(0 + Len(q)) : l[k] = IF k <= 0 THEN <<>>[k] ELSE q[k - 0].id
      BY <2>1, LineProperties, ZenonT(40)
    <2> HIDE DEF l
    <2> QED BY <1>1, <2>2
  <1>4. /\ m \in Seq(Nat) /\ Len(m) = 1 + Len(q)
        /\ \A k \in 1..(1 + Len(q)) : m[k] = IF k <= 1 THEN one[k] ELSE q[k - 1].id
    <2>1. /\ m \in Seq(Nat) /\ Len(m) = Len(one) + Len(q)
          /\ \A k \in 1..(Len(one) + Len(q)) :
               m[k] = IF k <= Len(one) THEN one[k] ELSE q[k - Len(one)].id
      BY <1>1, LineProperties
    <2> HIDE DEF m
    <2> QED BY <1>1, <2>1
  <1> HIDE DEF l, m
  <1>5. m # <<>> /\ Head(m) = id
    BY <1>1, <1>4, EmptySeq
  <1>6. /\ Tail(m) \in Seq(Nat) /\ Len(Tail(m)) = Len(q)
        /\ \A k \in 1..Len(Tail(m)) : Tail(m)[k] = m[k + 1]
    BY <1>1, <1>4, <1>5, HeadTailProperties
  <1>7. ASSUME NEW k \in 1..Len(Tail(m)) PROVE Tail(m)[k] = l[k]
    <2>1. k + 1 \in 1..(1 + Len(q)) /\ ~(k + 1 <= 1) /\ (k + 1) - 1 = k
      BY <1>1, <1>6
    <2> QED BY <1>3, <1>4, <1>6, <2>1
  <1>8. Tail(m) = l
    BY <1>3, <1>6, <1>7, SeqEqual
  <1> QED BY <1>4, <1>5, <1>8 DEF l, m, one
-----------------------------------------------------------------------------
(* The seat keeps its promise *)

\* A thread that has ended was let go and left nothing.
ExitInv ==
    /\ shuttingDown => host = "reaped"
    /\ pc = "exited" => shuttingDown /\ queue = <<>>

SeatInv == TypeInv /\ StopInv /\ FateInv /\ ExitInv

LEMMA ExitInit == Init => ExitInv
  BY DEF Init, ExitInv

LEMMA ExitStep == ExitInv /\ [Next]_vars => ExitInv'
  <1> SUFFICES ASSUME ExitInv, [Next]_vars PROVE ExitInv'
    OBVIOUS
  <1> QED BY DEF ExitInv, Next, LoopStep, ThreadStep, Submit, StopQueued, StopRunning,
        AbandonQueue, AbandonRunning, LandFrame, LandDeath, Shutdown, Take, Reply,
        ServeOpen, ServeClose, ServeOther, ServeWithoutGraph, ServeDirtyGraph, ServeUpdate,
        Boundary, Calculating, Complete, Fail, BreakSweep, DropSession, Served, Exit,
        shared, thread, loop, vars

First == IF pc = "serving" THEN <<frame.id>> ELSE <<>>
Whole == Line(First, queue)
Named(line) == Without(line, NoId)

LEMMA Bridge ==
    /\ Unsettled = Named(Whole)
    /\ \A q, x : Promise!Without(q, x) = Without(q, x)
    /\ \A q : Promise!Range(q) = Range(q)
  <1>3. \A q, x : Promise!Without(q, x) = Without(q, x)
    BY DEF Promise!Without, Without, Promise!Kept, Kept, Promise!Ascending, Ascending,
           Promise!Cardinality, Cardinality
  <1> QED BY <1>3 DEF Unsettled, Named, Whole, First, Promise!Range, Range

LEMMA WholeType ==
    ASSUME TypeInv
    PROVE  /\ queue \in Seq(Frames) /\ frame.id \in Nat /\ frame.id \in Ids \union {NoId}
           /\ First \in Seq(Nat) /\ Whole \in Seq(Nat) /\ Unsettled \in Seq(Nat)
  <1>1. queue \in Seq(Frames) /\ frame.id \in Nat /\ frame.id \in Ids \union {NoId}
    BY FramesAssumption DEF TypeInv, TypeOK, NoFrame, NoId, Ids
  <1>2. First \in Seq(Nat)
    BY <1>1, EmptySeq DEF First
  <1>3. Whole \in Seq(Nat)
    BY <1>1, <1>2, LineProperties DEF Whole
  <1>4. Unsettled \in Seq(Nat)
    BY <1>3, WithoutProperties, Bridge DEF Named
  <1> QED BY <1>1, <1>2, <1>3, <1>4

\* What is unsettled is queued or being served.
LEMMA NamedQueue ==
    ASSUME NEW q \in Seq(Frames)
    PROVE  Named(Line(<<>>, q)) \in Seq(Nat) /\ Range(Named(Line(<<>>, q))) = IdsIn(q)
  <1> DEFINE l == Line(<<>>, q)
             w == Named(l)
  <1>1. /\ l \in Seq(Nat) /\ DOMAIN l = DOMAIN q /\ \A k \in DOMAIN q : l[k] = q[k].id
    <2>1. <<>> \in Seq(Nat) /\ Len(<<>>) = 0
      BY EmptySeq
    <2>2. /\ l \in Seq(Nat) /\ Len(l) = 0 + Len(q)
          /\ \A k \in 1..(0 + Len(q)) : l[k] = IF k <= 0 THEN <<>>[k] ELSE q[k - 0].id
          /\ Len(q) \in Nat
      BY <2>1, LineProperties, ZenonT(40)
    <2> HIDE DEF l
    <2> QED BY <2>2, LenProperties
  <1> HIDE DEF l
  <1>2. /\ w \in Seq(Nat)
        /\ \A k \in DOMAIN w : \E p \in DOMAIN l : w[k] = l[p] /\ l[p] # NoId
        /\ \A p \in DOMAIN l : l[p] # NoId => \E k \in DOMAIN w : w[k] = l[p]
    <2>1. w = Without(l, NoId)
      BY DEF Named
    <2> HIDE DEF w
    <2> QED BY <1>1, <2>1, WithoutProperties
  <1> HIDE DEF w
  <1>3. ASSUME NEW k \in DOMAIN w PROVE w[k] \in IdsIn(q)
    <2>1. PICK p \in DOMAIN q : w[k] = q[p].id /\ q[p].id # NoId
      BY <1>1, <1>2, SMTT(40)
    <2> QED BY <2>1 DEF IdsIn
  <1>4. IdsIn(q) \subseteq Range(w)
    BY <1>1, <1>2 DEF Range, IdsIn
  <1>5. Range(w) \subseteq IdsIn(q)
    BY <1>3 DEF Range
  <1> QED BY <1>2, <1>4, <1>5 DEF w, l

\* With a request being served before it.
LEMMA NamedServing ==
    ASSUME NEW q \in Seq(Frames), NEW id \in Nat
    PROVE  LET w == Named(Line(<<id>>, q)) IN
           /\ id = NoId => w = Named(Line(<<>>, q))
           /\ id # NoId => w # <<>> /\ Head(w) = id /\ Tail(w) = Named(Line(<<>>, q))
  <1> DEFINE l == Line(<<id>>, q)
  <1>1. l \in Seq(Nat) /\ l # <<>> /\ Head(l) = id /\ Tail(l) = Line(<<>>, q)
    BY LineAnswer
  <1> HIDE DEF l
  <1>2. IF Head(l) = NoId
        THEN Without(l, NoId) = Without(Tail(l), NoId)
        ELSE /\ Without(l, NoId) # <<>> /\ Head(Without(l, NoId)) = Head(l)
             /\ Tail(Without(l, NoId)) = Without(Tail(l), NoId)
    BY <1>1, WithoutHead
  <1> QED BY <1>1, <1>2 DEF Named, l

LEMMA UnsettledRange ==
    ASSUME TypeInv
    PROVE  Range(Unsettled) = QueuedIds \union ({ServingId} \ {NoId})
  <1> DEFINE w == Named(Line(<<>>, queue))
  <1>1. queue \in Seq(Frames) /\ frame.id \in Nat /\ Unsettled \in Seq(Nat)
    BY WholeType
  <1>2. w \in Seq(Nat) /\ Range(w) = IdsIn(queue) /\ QueuedIds = IdsIn(queue)
    BY <1>1, NamedQueue DEF QueuedIds, IdsIn
  <1>3. Unsettled = Named(Line(First, queue))
    BY Bridge DEF Whole
  <1>4. CASE pc # "serving"
    BY <1>2, <1>3, <1>4 DEF First, ServingId
  <1>5. CASE pc = "serving" /\ frame.id = NoId
    BY <1>1, <1>2, <1>3, <1>5, NamedServing DEF First, ServingId
  <1>6. CASE pc = "serving" /\ frame.id # NoId
    <2>1. Unsettled # <<>> /\ Head(Unsettled) = frame.id /\ Tail(Unsettled) = w
      BY <1>1, <1>3, <1>6, NamedServing DEF First
    <2> HIDE DEF w
    <2>2. Range(Unsettled) = {frame.id} \union Range(w)
      <3>1. /\ Len(Unsettled) \in Nat \ {0} /\ DOMAIN Unsettled = 1..Len(Unsettled)
            /\ Unsettled[1] = frame.id
            /\ DOMAIN w = 1..(Len(Unsettled) - 1)
            /\ \A k \in 1..(Len(Unsettled) - 1) : w[k] = Unsettled[k + 1]
        <4>1. Len(Unsettled) \in Nat \ {0} /\ DOMAIN Unsettled = 1..Len(Unsettled)
          BY <1>1, <2>1, EmptySeq, LenProperties
        <4>2. Unsettled[1] = frame.id
          BY <1>1, <2>1
        <4>3. /\ Len(w) = Len(Unsettled) - 1
              /\ \A k \in 1..Len(w) : w[k] = Unsettled[k + 1]
          BY <1>1, <2>1, HeadTailProperties
        <4>4. DOMAIN w = 1..Len(w)
          BY <1>2, LenProperties
        <4> QED BY <4>1, <4>2, <4>3, <4>4
      <3>2. Range(Unsettled) \subseteq {frame.id} \union Range(w)
        <4> SUFFICES ASSUME NEW k \in DOMAIN Unsettled, k # 1
                     PROVE  \E j \in DOMAIN w : w[j] = Unsettled[k]
          BY <3>1 DEF Range
        <4>1. k - 1 \in DOMAIN w /\ w[k - 1] = Unsettled[k]
          BY <3>1
        <4> QED BY <4>1
      <3>3. \A k \in DOMAIN w : k + 1 \in DOMAIN Unsettled /\ Unsettled[k + 1] = w[k]
        BY <3>1
      <3>4. Range(w) \subseteq Range(Unsettled)
        BY <3>3 DEF Range
      <3>5. frame.id \in Range(Unsettled)
        BY <3>1 DEF Range
      <3> QED BY <3>2, <3>4, <3>5
    <2> QED BY <1>2, <1>6, <2>2 DEF ServingId
  <1> QED BY <1>4, <1>5, <1>6

State == IF pc = "exited" THEN "gone" ELSE IF host = "held" THEN "held" ELSE "leaving"

LEMMA PromiseInit == Init => Promise!Init
  <1> SUFFICES ASSUME Init PROVE Promise!Init
    OBVIOUS
  <1>1. /\ queue \in Seq(Frames) /\ queue # <<>> /\ Head(queue).kind = "open"
        /\ \A i \in 2..Len(queue) : queue[i].id = NoId
        /\ Head(queue).id # NoId => Len(queue) = 1
    BY SeedsAssumption DEF Init
  <1>2. /\ Len(queue) \in Nat \ {0} /\ Head(queue) = queue[1] /\ queue[1] \in Frames
        /\ DOMAIN queue = 1..Len(queue)
    BY <1>1, EmptySeq, LenProperties, ElementOfSeq
  <1>3. TypeInv
    BY TypeInit
  <1>4. Range(Unsettled) = IdsIn(queue) /\ Unsettled \in Seq(Nat)
    BY <1>3, UnsettledRange, WholeType DEF Init, ServingId, QueuedIds, IdsIn
  <1>5. CASE Head(queue).id = NoId
    <2>1. IdsIn(queue) = {}
      BY <1>1, <1>2, <1>5 DEF IdsIn
    <2>2. Unsettled = <<>>
      <3>1. Unsettled # <<>> => 1 \in DOMAIN Unsettled
        BY <1>4, EmptySeq, LenProperties
      <3> QED BY <1>4, <2>1, <3>1 DEF Range
    <2> QED BY <2>2 DEF Init, Promise!Init
  <1>6. CASE Head(queue).id # NoId
    <2> DEFINE id == Head(queue).id
    <2>1. id \in Opening
      BY <1>1, <1>2, <1>6 DEF Opening
    <2>2. Tail(queue) = <<>> /\ Tail(queue) \in Seq(Frames)
      BY <1>1, <1>6, HeadTailProperties, EmptySeq
    <2>3. id \in Nat /\ First = <<>>
      BY <1>2, FramesAssumption DEF Init, First
    <2>4. Unsettled = Named(Line(<<id>>, Tail(queue)))
      BY <1>1, <2>3, LineTake, Bridge DEF Whole
    <2>5. /\ Unsettled # <<>> /\ Head(Unsettled) = id
          /\ Tail(Unsettled) = Named(Line(<<>>, Tail(queue)))
      BY <1>6, <2>2, <2>3, <2>4, NamedServing
    <2>6. Tail(Unsettled) = <<>>
      <3>1. IdsIn(Tail(queue)) = {}
        BY <2>2 DEF IdsIn
      <3>2. Tail(Unsettled) \in Seq(Nat) /\ Range(Tail(Unsettled)) = {}
        BY <2>2, <2>5, <3>1, NamedQueue
      <3>3. Tail(Unsettled) # <<>> => 1 \in DOMAIN Tail(Unsettled)
        BY <3>2, EmptySeq, LenProperties
      <3> QED BY <3>2, <3>3 DEF Range
    <2>7. Unsettled = <<id>>
      <3>1. Len(Tail(Unsettled)) = 0
        BY <2>6, EmptySeq
      <3>2. Len(Unsettled) = 1 /\ Unsettled[1] = id
        BY <1>4, <2>5, <3>1, HeadTailProperties, EmptySeq
      <3>3. <<id>> \in Seq(Nat) /\ Len(<<id>>) = 1 /\ <<id>>[1] = id
        BY <2>3
      <3> HIDE DEF id
      <3> QED BY <1>4, <3>2, <3>3, SeqEqual
    <2> HIDE DEF id
    <2>8. <<id>> \in {<<>>} \union {<<r>> : r \in Opening}
      BY <2>1
    <2> QED BY <2>7, <2>8 DEF Init, Promise!Init
  <1> QED BY <1>5, <1>6

\* Nothing the clients see has changed.
LEMMA PromiseStays ==
    ASSUME State' = State, First' = First, queue' = queue,
           UNCHANGED <<answers, withdrawn, lost>>
    PROVE  UNCHANGED Promise!vars
  BY DEF Promise!vars, State, Unsettled, First

\* An answer is that of the first unsettled request, or of none of the clients'.
LEMMA PromiseAnswer ==
    ASSUME SeatInv, NEW code, NEW next \in {"served", "dropping"},
           pc = "serving", Reply(code, next), UNCHANGED <<shared, frame, loop, history>>
    PROVE  [Promise!Next]_(Promise!vars)
  <1>1. /\ queue \in Seq(Frames) /\ frame.id \in Nat /\ frame.id \in Ids \union {NoId}
        /\ First = <<frame.id>> /\ First' = <<>> /\ queue' = queue
    BY WholeType DEF SeatInv, First, Reply, shared
  <1>2. State' = State /\ UNCHANGED <<withdrawn, lost>>
    BY DEF State, Reply, loop, history
  <1>3. Unsettled = Named(Line(<<frame.id>>, queue)) /\ Unsettled' = Named(Line(<<>>, queue))
    BY <1>1, Bridge DEF Unsettled, Named, Whole, First
  <1>4. answers' = [r \in Ids |-> IF r = frame.id THEN answers[r] + 1 ELSE answers[r]]
        /\ answers \in [Ids -> Nat]
    BY DEF Reply, SeatInv, TypeInv, TypeOK
  <1>5. CASE frame.id = NoId
    <2>1. Unsettled' = Unsettled
      BY <1>1, <1>3, <1>5, NamedServing
    <2>2. answers' = answers
      BY <1>4, <1>5 DEF Ids
    <2> QED BY <1>2, <2>1, <2>2 DEF Promise!vars, State
  <1>6. CASE frame.id # NoId
    <2>1. Unsettled # <<>> /\ Head(Unsettled) = frame.id /\ Unsettled' = Tail(Unsettled)
      BY <1>1, <1>3, <1>6, NamedServing
    <2>2. answers' = [answers EXCEPT ![Head(Unsettled)] = @ + 1]
      BY <1>1, <1>4, <1>6, <2>1
    <2>3. Promise!Answer
      BY <1>2, <2>1, <2>2 DEF Promise!Answer, State
    <2> QED BY <2>3 DEF Promise!Next
  <1> QED BY <1>5, <1>6

\* A request a client sends is taken, unless it is the supervisor's own close.
LEMMA PromiseSubmit ==
    ASSUME SeatInv, NEW f \in Frames, Submit(f)
    PROVE  Promise!Next
  <1>1. /\ queue \in Seq(Frames) /\ First \in Seq(Nat) /\ First' = First
        /\ Whole \in Seq(Nat) /\ f.id \in Nat /\ pc # "exited" /\ host = "held"
        /\ queue' = Append(queue, f) /\ Named(Whole) = Unsettled
    BY WholeType, Bridge, FramesAssumption DEF SeatInv, ExitInv, Submit, First, thread
  <1>2. Line(First, queue') = Append(Whole, f.id)
    BY <1>1, LineAppend DEF Whole
  <1>3. Unsettled' = Without(Append(Whole, f.id), NoId)
    BY <1>1, <1>2 DEF Unsettled, First
  <1>4. Unsettled' = IF f.id = NoId THEN Unsettled ELSE Append(Unsettled, f.id)
    BY <1>1, <1>3, WithoutAppend, ZenonT(40) DEF Named
  <1>5. /\ State = "held" /\ UNCHANGED <<answers, withdrawn, lost>>
        /\ State' = IF f.kind = "close" THEN "leaving" ELSE "held"
    BY <1>1 DEF State, Submit, thread
  <1>6. CASE f.id = NoId
    <2>1. f.kind = "close"
      BY <1>6 DEF Submit
    <2>2. Promise!Close
      BY <1>4, <1>5, <1>6, <2>1 DEF Promise!Close, State
    <2> QED BY <2>2 DEF Promise!Next
  <1>7. CASE f.id # NoId
    <2>1. f.id \in Ids /\ f.id \notin accepted
      BY <1>7 DEF Ids, Submit
    <2>2. /\ f.id \notin QueuedIds /\ f.id # ServingId /\ ~(answers[f.id] > 0)
          /\ f.id \notin withdrawn /\ f.id \notin lost
      <3>1. answers[f.id] \in Nat /\ answers[f.id] <= 1 /\ answers[f.id] # 1
        BY <2>1 DEF SeatInv, FateInv, TypeInv, TypeOK
      <3> QED BY <2>1, <3>1 DEF SeatInv, FateInv
    <2>3. ~Promise!Taken(f.id)
      BY <2>2, UnsettledRange, Bridge DEF Promise!Taken, SeatInv
    <2>4. Promise!Take(f.id)
      BY <1>4, <1>5, <1>7, <2>3 DEF Promise!Take, State
    <2> QED BY <2>1, <2>4 DEF Promise!Next
  <1> QED BY <1>6, <1>7

\* A stop takes its own request out of those that wait.
LEMMA PromiseStop ==
    ASSUME SeatInv, NEW r \in Ids, StopQueued(r)
    PROVE  Promise!Next
  <1>1. /\ queue \in Seq(Frames) /\ First \in Seq(Nat) /\ First' = First
        /\ Whole \in Seq(Nat) /\ Named(Whole) = Unsettled /\ r # NoId
        /\ pc # "exited" /\ host = "held"
    BY WholeType, Bridge DEF SeatInv, ExitInv, StopQueued, First, thread, Ids
  <1>2. PICK i \in DOMAIN queue : /\ queue[i].id = r /\ queue[i].kind # "open"
                                  /\ queue' = RemoveAt(queue, i)
    BY DEF StopQueued
  <1>3. i \in 1..Len(queue) /\ queue[i] \in Frames /\ DOMAIN queue = 1..Len(queue)
    BY <1>1, LenProperties, ElementOfSeq
  <1> DEFINE at == Len(First) + i
  <1>4. /\ Len(Whole) = Len(First) + Len(queue) /\ Len(First) \in Nat /\ Len(queue) \in Nat
        /\ DOMAIN Whole = 1..(Len(First) + Len(queue))
        /\ \A k \in 1..(Len(First) + Len(queue)) :
             Whole[k] = IF k <= Len(First) THEN First[k] ELSE queue[k - Len(First)].id
    BY <1>1, LineProperties, LenProperties DEF Whole
  <1>5. at \in 1..Len(Whole) /\ Whole[at] = r
    BY <1>2, <1>3, <1>4
  <1>6. r \in QueuedIds /\ r # ServingId
    BY <1>1, <1>2 DEF QueuedIds, SeatInv, FateInv
  <1>7. ASSUME NEW k \in DOMAIN Whole, Whole[k] = r PROVE k = at
    <2>1. CASE k <= Len(First)
      <3>1. pc = "serving" /\ First = <<frame.id>> /\ k = 1
        BY <1>4, <2>1 DEF First
      <3> QED BY <1>4, <1>6, <1>7, <2>1, <3>1 DEF ServingId
    <2>2. CASE k > Len(First)
      <3>1. k - Len(First) \in DOMAIN queue /\ queue[k - Len(First)].id = r
        BY <1>3, <1>4, <1>7, <2>2
      <3>2. k - Len(First) = i
        BY <1>1, <1>2, <3>1 DEF SeatInv, FateInv, Distinct
      <3> QED BY <1>3, <1>4, <3>2
    <2> QED BY <1>4, <2>1, <2>2
  <1>8. Line(First, queue') = RemoveAt(Whole, at)
    BY <1>1, <1>2, <1>3, LineRemove DEF Whole
  <1> HIDE DEF at
  <1>9. Unsettled' = Without(RemoveAt(Whole, at), NoId)
    BY <1>1, <1>8 DEF Unsettled, First
  <1>10. Unsettled' = Promise!Without(Unsettled, r)
    <2>1. Without(RemoveAt(Whole, at), NoId) = Without(Without(Whole, NoId), r)
      <3>1. r # NoId /\ Whole \in Seq(Nat) /\ \A k \in DOMAIN Whole : Whole[k] = r => k = at
        BY <1>1, <1>7
      <3> HIDE DEF NoId
      <3> QED BY <1>5, <3>1, WithoutRemoveAt
    <2> QED BY <1>1, <1>9, <2>1, Bridge DEF Named
  <1>11. r \in Promise!Range(Unsettled) \ Opening
    <2>1. r \in Range(Unsettled)
      BY <1>1, <1>6, UnsettledRange DEF SeatInv
    <2>2. r \notin Opening
      BY <1>1, <1>2, <1>3, FramesAssumption DEF Opening
    <2> QED BY <2>1, <2>2, Bridge
  <1>12. /\ State = "held" /\ State' = State /\ UNCHANGED <<answers, lost>>
         /\ withdrawn' = withdrawn \union {r}
    BY <1>1 DEF State, StopQueued, thread, loop
  <1>13. Promise!TakeBack(r)
    BY <1>10, <1>11, <1>12 DEF Promise!TakeBack, State
  <1> QED BY <1>13 DEF Promise!Next

\* A kill loses all that wait but the one under way.
LEMMA PromiseKill ==
    ASSUME SeatInv, AbandonQueue
    PROVE  Promise!Next
  <1> DEFINE rest == Named(Line(<<>>, queue))
             none == Named(Line(<<>>, <<>>))
  <1>1. /\ queue \in Seq(Frames) /\ frame.id \in Nat /\ First' = First
        /\ pc # "exited" /\ host = "held" /\ queue' = <<>> /\ Unsettled \in Seq(Nat)
        /\ Unsettled = Named(Line(First, queue)) /\ <<>> \in Seq(Frames)
        /\ lost' = lost \union QueuedIds /\ UNCHANGED <<answers, withdrawn>>
    BY WholeType, Bridge, EmptySeq DEF SeatInv, ExitInv, AbandonQueue, First, thread, Whole
  <1>2. State = "held" /\ State' = "leaving"
    BY <1>1 DEF State, AbandonQueue, thread
  <1>3. /\ rest \in Seq(Nat) /\ Range(rest) = IdsIn(queue) /\ QueuedIds = IdsIn(queue)
    BY <1>1, NamedQueue DEF QueuedIds, IdsIn
  <1>4. none = <<>>
    <2>1. none \in Seq(Nat) /\ Range(none) = IdsIn(<<>>)
      BY <1>1, NamedQueue
    <2>2. IdsIn(<<>>) = {}
      BY DEF IdsIn
    <2>3. none # <<>> => 1 \in DOMAIN none
      <3> HIDE DEF none
      <3> QED BY <2>1, EmptySeq, LenProperties
    <2> HIDE DEF none
    <2> QED BY <2>1, <2>2, <2>3 DEF Range
  <1>5. Unsettled' = Named(Line(First, <<>>))
    BY <1>1 DEF Unsettled, Named, First
  <1> HIDE DEF rest, none
  <1>6. ASSUME pc # "serving" \/ frame.id = NoId PROVE Promise!Kill
    <2>1. Unsettled = rest /\ Unsettled' = <<>>
      BY <1>1, <1>4, <1>5, <1>6, NamedServing DEF First, rest, none
    <2>2. SubSeq(Unsettled, 1, 0) = <<>>
      BY SubSeqEmpty
    <2>3. SubSeq(Unsettled, 0 + 1, Len(Unsettled)) = Unsettled
      BY <1>1
    <2>4. /\ Unsettled' = SubSeq(Unsettled, 1, 0)
          /\ lost' = lost \union Promise!Range(SubSeq(Unsettled, 0 + 1, Len(Unsettled)))
      BY <1>1, <1>3, <2>1, <2>2, <2>3, Bridge
    <2> QED BY <1>1, <1>2, <2>4 DEF Promise!Kill, State
  <1>7. ASSUME pc = "serving", frame.id # NoId PROVE Promise!Kill
    <2>1. Unsettled # <<>> /\ Head(Unsettled) = frame.id /\ Tail(Unsettled) = rest
      BY <1>1, <1>7, NamedServing DEF First, rest
    <2>2. Unsettled' # <<>> /\ Head(Unsettled') = frame.id /\ Tail(Unsettled') = <<>>
      BY <1>1, <1>4, <1>5, <1>7, NamedServing DEF First, none
    <2>3. Unsettled' \in Seq(Nat)
      <3>1. First \in Seq(Nat) /\ Line(First, <<>>) \in Seq(Nat)
        BY <1>1, WholeType, LineProperties DEF SeatInv
      <3> QED BY <1>5, <3>1, WithoutProperties DEF Named
    <2>4. /\ Len(Unsettled) \in Nat \ {0} /\ Unsettled[1] = frame.id
          /\ Len(Unsettled') = 1 /\ (Unsettled')[1] = frame.id
      <3>1. Len(Tail(Unsettled')) = 0
        BY <2>2, EmptySeq
      <3> QED BY <1>1, <2>1, <2>2, <2>3, <3>1, HeadTailProperties, EmptySeq
    <2>5. SubSeq(Unsettled, 1, 1) = Unsettled'
      <3>1. /\ SubSeq(Unsettled, 1, 1) \in Seq(Nat) /\ Len(SubSeq(Unsettled, 1, 1)) = 1
            /\ SubSeq(Unsettled, 1, 1)[1] = Unsettled[1]
        BY <2>4, <1>1
      <3> QED BY <2>3, <2>4, <3>1, SeqEqual
    <2>6. SubSeq(Unsettled, 1 + 1, Len(Unsettled)) = rest
      <3>1. Tail(Unsettled) = SubSeq(Unsettled, 2, Len(Unsettled))
        BY <1>1, <2>1, TailIsSubSeq
      <3>2. 1 + 1 = 2
        OBVIOUS
      <3> QED BY <2>1, <3>1, <3>2
    <2>7. /\ Unsettled' = SubSeq(Unsettled, 1, 1)
          /\ lost' = lost \union Promise!Range(SubSeq(Unsettled, 1 + 1, Len(Unsettled)))
      BY <1>1, <1>3, <2>5, <2>6, Bridge
    <2> QED BY <1>1, <1>2, <2>7 DEF Promise!Kill, State
  <1> QED BY <1>6, <1>7 DEF Promise!Next

\* Every step of the seat is one of what it promises, or none that its clients see.
LEMMA PromiseStep == SeatInv /\ [Next]_vars => [Promise!Next]_(Promise!vars)
  <1> SUFFICES ASSUME SeatInv, [Next]_vars PROVE [Promise!Next]_(Promise!vars)
    OBVIOUS
  <1>1. ASSUME NEW f \in Frames, Submit(f) PROVE Promise!Next
    BY <1>1, PromiseSubmit
  <1>2. ASSUME NEW r \in Ids, StopQueued(r) PROVE Promise!Next
    BY <1>2, PromiseStop
  <1>3. ASSUME NEW r \in Ids, StopRunning(r) PROVE UNCHANGED Promise!vars
    BY <1>3, PromiseStays DEF StopRunning, thread, loop, State, First
  <1>4. CASE AbandonQueue
    BY <1>4, PromiseKill
  <1>5. CASE AbandonRunning
    BY <1>5, PromiseStays DEF AbandonRunning, thread, history, State, First
  <1>6. CASE LandFrame
    BY <1>6, PromiseStays DEF LandFrame, shared, thread, loop, State, First
  <1>7. CASE LandDeath
    <2>1. Unsettled' = Unsettled /\ UNCHANGED <<answers, withdrawn, lost>>
      BY <1>7 DEF LandDeath, shared, thread, history, Unsettled
    <2>2. CASE alive /\ host = "held"
      <3>1. State = "held" /\ State' = "leaving"
        BY <1>7, <2>2 DEF LandDeath, State, thread, SeatInv, ExitInv
      <3>2. Promise!Close
        BY <2>1, <3>1 DEF Promise!Close, State
      <3> QED BY <3>2 DEF Promise!Next
    <2>3. CASE ~(alive /\ host = "held")
      BY <1>7, <2>1, <2>3 DEF LandDeath, State, thread, Promise!vars
    <2> QED BY <2>2, <2>3
  <1>8. CASE Shutdown
    BY <1>8, PromiseStays DEF Shutdown, thread, loop, history, State, First
  <1>9. CASE Take
    <2>1. queue \in Seq(Frames) /\ queue # <<>> /\ First = <<>> /\ First' = <<Head(queue).id>>
      BY <1>9, WholeType DEF SeatInv, Take, First
    <2>2. Line(First', queue') = Line(First, queue)
      BY <1>9, <2>1, LineTake DEF Take
    <2>3. Unsettled' = Unsettled
      BY <2>2 DEF Unsettled, First
    <2> QED BY <1>9, <2>3 DEF Take, State, loop, history, Promise!vars
  <1>10. CASE ServeOpen
    BY <1>10, PromiseAnswer DEF ServeOpen
  <1>11. CASE ServeClose
    BY <1>11, PromiseAnswer DEF ServeClose
  <1>12. CASE ServeOther
    BY <1>12, PromiseAnswer DEF ServeOther
  <1>13. CASE ServeWithoutGraph
    BY <1>13, PromiseAnswer DEF ServeWithoutGraph
  <1>14. CASE ServeDirtyGraph
    BY <1>14, PromiseAnswer DEF ServeDirtyGraph
  <1>15. CASE ServeUpdate
    BY <1>15, PromiseAnswer DEF ServeUpdate
  <1>16. CASE Boundary
    <2>1. CASE stopRequested
      BY <1>16, <2>1, PromiseAnswer DEF Boundary, Calculating
    <2>2. CASE ~stopRequested
      BY <1>16, <2>2, PromiseStays DEF Boundary, Calculating, shared, loop, history, State, First
    <2> QED BY <2>1, <2>2
  <1>17. CASE Complete
    BY <1>17, PromiseAnswer DEF Complete, Calculating
  <1>18. CASE Fail
    BY <1>18, PromiseAnswer DEF Fail, Calculating
  <1>19. CASE BreakSweep
    BY <1>19, PromiseAnswer DEF BreakSweep, Calculating
  <1>20. CASE DropSession
    BY <1>20, PromiseStays DEF DropSession, shared, loop, history, State, First
  <1>21. CASE Served
    BY <1>21, PromiseStays DEF Served, loop, history, State, First
  <1>22. CASE Exit
    <2>1. Unsettled' = Unsettled /\ State = "leaving" /\ State' = "gone"
      BY <1>22 DEF Exit, SeatInv, ExitInv, State, Unsettled, shared, loop
    <2>2. Unsettled = <<>>
      <3>1. Range(Unsettled) = {} /\ Unsettled \in Seq(Nat)
        BY <1>22, UnsettledRange, WholeType DEF SeatInv, Exit, ServingId, QueuedIds
      <3>2. Unsettled # <<>> => 1 \in DOMAIN Unsettled
        BY <3>1, EmptySeq, LenProperties
      <3> QED BY <3>1, <3>2 DEF Range
    <2>3. Promise!Leave
      BY <1>22, <2>1, <2>2 DEF Exit, history, Promise!Leave, State
    <2> QED BY <2>3 DEF Promise!Next
  <1>23. CASE UNCHANGED vars
    BY <1>23, PromiseStays DEF vars, shared, thread, loop, history, State, First
  <1> QED
    BY <1>1, <1>2, <1>3, <1>4, <1>5, <1>6, <1>7, <1>8, <1>9, <1>10, <1>11, <1>12, <1>13,
       <1>14, <1>15, <1>16, <1>17, <1>18, <1>19, <1>20, <1>21, <1>22, <1>23
    DEF Next, LoopStep, ThreadStep

\* A seat implements what is promised of one: requests are answered in the order they
\* came, each once, unless a stop takes one back or a kill loses it, and a seat that is
\* gone owes nothing.
THEOREM WorkerImplementsSeat == Spec => Promise!Safety
  <1> QED
    BY PromiseInit, PromiseStep, TypeInit, TypeStep, StopInit, StopStep, FateInit, FateStep,
       ExitInit, ExitStep, PTL DEF Spec, SeatInv, Promise!Safety
-----------------------------------------------------------------------------
(* Answers and deaths in the order they land *)

LEMMA PostsTail ==
    ASSUME TypeOK, posts # <<>>, posts' = Tail(posts)
    PROVE  /\ Len(posts) \in Nat \ {0} /\ DOMAIN posts = 1..Len(posts)
           /\ DOMAIN posts' = 1..(Len(posts) - 1) /\ Len(posts') = Len(posts) - 1
           /\ \A i \in 1..(Len(posts) - 1) : posts'[i] = posts[i + 1]
           /\ Head(posts) = posts[1]
  <1> QED BY LenProperties, EmptySeq, HeadTailProperties DEF TypeOK

LEMMA PostsAppend ==
    ASSUME TypeOK, NEW p \in Posts, posts' = Append(posts, p)
    PROVE  /\ Len(posts) \in Nat /\ DOMAIN posts = 1..Len(posts)
           /\ DOMAIN posts' = 1..(Len(posts) + 1) /\ Len(posts') = Len(posts) + 1
           /\ \A i \in 1..Len(posts) : posts'[i] = posts[i]
           /\ posts'[Len(posts) + 1] = p
  <1> QED BY LenProperties, AppendProperties DEF TypeOK

\* The request's answer has landed, or was posted among the first k.
Answered(id, k) ==
    \/ ~alive
    \/ \E a \in landed : a.id = id /\ a.code # "died"
    \/ \E j \in 1..k : posts[j].id = id /\ posts[j].code # "died"

\* The thread reports the death after the answer, and nothing overtakes it.
DeathInv ==
    /\ \A i \in DOMAIN posts :
         posts[i].code = "died" /\ posts[i].id # NoId => Answered(posts[i].id, i - 1)
    /\ pc = "dropping" /\ frame.id # NoId => Answered(frame.id, Len(posts))

LEMMA DeathInit == Init => DeathInv
  BY DEF Init, DeathInv

LEMMA DeathStep == TypeInv /\ DeathInv /\ [Next]_vars => DeathInv'
  <1> SUFFICES ASSUME TypeInv, DeathInv, [Next]_vars PROVE DeathInv'
    OBVIOUS
  <1>0. TypeOK /\ Len(posts) \in Nat /\ DOMAIN posts = 1..Len(posts)
    BY LenProperties DEF TypeInv, TypeOK
  \* Nothing is posted or landed.
  <1>1. ASSUME UNCHANGED <<posts, landed>>, alive' => alive,
               pc' = "dropping" => pc = "dropping" /\ frame' = frame
        PROVE  DeathInv'
    BY <1>1 DEF DeathInv, Answered
  \* An answer is posted.
  <1>2. ASSUME NEW code \in Codes, NEW next \in {"served", "dropping"}, pc = "serving",
               Reply(code, next), UNCHANGED <<frame, alive, landed>>
        PROVE  DeathInv'
    <2> DEFINE p == [id |-> frame.id, kind |-> frame.kind, code |-> code]
    <2>1. p \in Posts /\ p.id = frame.id /\ p.code # "died"
      BY <1>2, FramesAssumption DEF TypeInv, Busy, Posts, Ids, Codes, StopCodes
    <2>2. posts' = Append(posts, p)
      BY <1>2 DEF Reply
    <2> HIDE DEF p
    <2>3. /\ DOMAIN posts' = 1..(Len(posts) + 1) /\ Len(posts') = Len(posts) + 1
          /\ \A i \in 1..Len(posts) : posts'[i] = posts[i]
          /\ posts'[Len(posts) + 1] = p
      BY <1>0, <2>1, <2>2, PostsAppend
    <2>4. ASSUME NEW i \in DOMAIN posts', posts'[i].code = "died", posts'[i].id # NoId
          PROVE  Answered(posts[i].id, i - 1)' /\ posts'[i] = posts[i]
      <3>1. i \in 1..Len(posts) /\ posts'[i] = posts[i]
        BY <1>0, <2>1, <2>3, <2>4
      <3>2. Answered(posts[i].id, i - 1)
        BY <1>0, <2>4, <3>1 DEF DeathInv
      <3>3. \A j \in 1..(i - 1) : posts'[j] = posts[j]
        BY <1>0, <2>3, <3>1
      <3> QED BY <1>2, <2>4, <3>1, <3>2, <3>3 DEF Answered
    <2>5. Answered(frame.id, Len(posts))'
      <3>1. Len(posts) + 1 \in 1..Len(posts')
        BY <1>0, <2>3
      <3> QED BY <1>2, <2>1, <2>3, <3>1 DEF Answered
    <2> QED BY <1>2, <2>4, <2>5 DEF DeathInv
  <1>3. CASE DropSession
    <2> DEFINE p == [id |-> frame.id, kind |-> frame.kind, code |-> "died"]
    <2>1. p \in Posts /\ p.id = frame.id
      BY <1>3, FramesAssumption DEF DropSession, TypeInv, Busy, Posts, Ids
    <2>2. posts' = Append(posts, p)
      BY <1>3 DEF DropSession
    <2> HIDE DEF p
    <2>3. /\ DOMAIN posts' = 1..(Len(posts) + 1)
          /\ \A i \in 1..Len(posts) : posts'[i] = posts[i]
          /\ posts'[Len(posts) + 1] = p
      BY <1>0, <2>1, <2>2, PostsAppend
    <2>4. ASSUME NEW i \in DOMAIN posts', posts'[i].code = "died", posts'[i].id # NoId
          PROVE  Answered(posts'[i].id, i - 1)
      <3>1. CASE i = Len(posts) + 1
        BY <1>0, <1>3, <2>1, <2>3, <2>4, <3>1 DEF DeathInv, DropSession
      <3>2. CASE i \in 1..Len(posts)
        BY <1>0, <2>3, <2>4, <3>2 DEF DeathInv
      <3> QED BY <1>0, <2>3, <3>1, <3>2
    <2>5. \A i \in DOMAIN posts' : \A j \in 1..(i - 1) : posts'[j] = posts[j]
      BY <1>0, <2>3
    <2> QED BY <1>3, <2>4, <2>5 DEF DropSession, DeathInv, Answered, loop, history
  \* A post is taken: the answer, into what has landed, or a death.
  <1>4. ASSUME posts # <<>>, posts' = Tail(posts), UNCHANGED <<pc, frame>>,
               alive' => alive, landed \subseteq landed',
               alive' /\ Head(posts).code # "died" => Head(posts) \in landed'
        PROVE  DeathInv'
    <2>1. /\ DOMAIN posts' = 1..(Len(posts) - 1) /\ Len(posts') = Len(posts) - 1
          /\ \A i \in 1..(Len(posts) - 1) : posts'[i] = posts[i + 1]
          /\ Head(posts) = posts[1]
      BY <1>0, <1>4, PostsTail
    <2>2. ASSUME NEW id, NEW k \in 0..(Len(posts) - 1), Answered(id, k + 1)
          PROVE  Answered(id, k)'
      <3>1. CASE \E j \in 1..(k + 1) : posts[j].id = id /\ posts[j].code # "died"
        <4>1. PICK j \in 1..(k + 1) : posts[j].id = id /\ posts[j].code # "died"
          BY <3>1
        <4>2. CASE j = 1
          BY <1>4, <2>1, <4>1, <4>2 DEF Answered
        <4>3. CASE j # 1
          <5>1. /\ j - 1 \in 1..k /\ j - 1 \in 1..(Len(posts) - 1) /\ (j - 1) + 1 = j
            BY <1>0, <4>3
          <5>2. posts'[j - 1] = posts[j]
            BY <2>1, <5>1
          <5> QED BY <4>1, <5>1, <5>2 DEF Answered
        <4> QED BY <4>2, <4>3
      <3> QED BY <1>4, <2>2, <3>1 DEF Answered
    <2>3. ASSUME NEW i \in DOMAIN posts', posts'[i].code = "died", posts'[i].id # NoId
          PROVE  Answered(posts[i].id, i - 1)'
      <3>1. i + 1 \in DOMAIN posts /\ posts'[i] = posts[i + 1] /\ (i + 1) - 1 = (i - 1) + 1
            /\ i - 1 \in 0..(Len(posts) - 1)
        BY <1>0, <2>1
      <3>2. Answered(posts[i + 1].id, (i + 1) - 1)
        BY <2>3, <3>1 DEF DeathInv
      <3>3. PICK r : r = posts[i + 1].id
        OBVIOUS
      <3>4. Answered(r, (i - 1) + 1)
        BY <3>1, <3>2, <3>3
      <3>5. Answered(r, i - 1)'
        BY <2>2, <3>1, <3>4
      <3> QED BY <3>1, <3>3, <3>5 DEF Answered
    <2>4. pc' = "dropping" /\ frame'.id # NoId => Answered(frame.id, Len(posts))'
      <3>1. Len(posts) - 1 \in 0..(Len(posts) - 1) /\ (Len(posts) - 1) + 1 = Len(posts)
        BY <1>0, <1>4, PostsTail
      <3>2. PICK r : r = frame.id
        OBVIOUS
      <3>3. PICK k \in 0..(Len(posts) - 1) : k = Len(posts) - 1
        BY <3>1
      <3>4. pc = "dropping" /\ frame.id # NoId => Answered(r, k + 1)
        BY <3>1, <3>2, <3>3 DEF DeathInv
      <3>5. pc = "dropping" /\ frame.id # NoId => Answered(r, k)'
        BY <2>2, <3>4
      <3> QED BY <1>4, <2>1, <3>2, <3>3, <3>5 DEF Answered
    <2> QED BY <2>3, <2>4 DEF DeathInv
  <1>5. CASE LandFrame
    BY <1>4, <1>5 DEF LandFrame, thread, loop
  <1>6. CASE LandDeath
    BY <1>4, <1>6 DEF LandDeath, thread, history
  <1>7. CASE Boundary
    <2>1. CASE stopRequested
      BY <1>2, <1>7, <2>1 DEF Boundary, Calculating, Codes, StopCodes, loop, history
    <2>2. CASE ~stopRequested
      BY <1>1, <1>7, <2>2 DEF Boundary, loop, history
    <2> QED BY <2>1, <2>2
  <1>8. CASE ServeOpen \/ ServeClose \/ ServeOther \/ ServeWithoutGraph \/ ServeDirtyGraph
             \/ ServeUpdate \/ Complete \/ Fail \/ BreakSweep
    BY <1>2, <1>8 DEF ServeOpen, ServeClose, ServeOther, ServeWithoutGraph, ServeDirtyGraph,
       ServeUpdate, Complete, Fail, BreakSweep, Calculating, Codes, loop, history
  <1>9. CASE \/ \E f \in Frames : Submit(f)
             \/ \E r \in Ids : StopQueued(r) \/ StopRunning(r)
             \/ AbandonQueue \/ AbandonRunning \/ Shutdown \/ Take \/ Served \/ Exit
             \/ UNCHANGED vars
    BY <1>1, <1>9 DEF Submit, StopQueued, StopRunning, AbandonQueue, AbandonRunning, Shutdown,
       Take, Served, Exit, shared, thread, loop, history, vars
  <1> QED BY <1>3, <1>5, <1>6, <1>7, <1>8, <1>9 DEF Next, LoopStep, ThreadStep

\* The request that broke the graph is answered before its session's death is known,
\* however posts, kills and deaths fall together.
THEOREM WorkerDeathAfterAnswer == Spec => []DeathAfterAnswer
  <1>1. DeathInv => DeathAfterAnswer
    BY DEF DeathInv, DeathAfterAnswer, Answered
  <1> QED BY <1>1, TypeInit, TypeStep, DeathInit, DeathStep, PTL DEF Spec
-----------------------------------------------------------------------------
(* No client is told that a session it never closed is gone *)

KindsIn(q) == {q[i].kind : i \in DOMAIN q}

\* The session's close is on its way through the seat, or went.
ClosePosted == \E b \in Posted \union landed : b.kind = "close"
CloseSeen == ClosePosted \/ "close" \in KindsIn(queue) \/ frame.kind = "close"

\* The seat is let go alive for a close only, and a close that went through the thread
\* has left its answer.
CloseInv ==
    /\ CloseSeen => host = "reaped" /\ alive
    /\ host = "reaped" /\ alive => CloseSeen
    /\ host = "held" => alive
    /\ pc \in {"dropping", "served"} /\ frame.kind = "close" => ClosePosted
    /\ pc = "idle" => frame = NoFrame
    /\ pc = "dropping" => frame.kind \in NeedGraph
    /\ \A b \in Posted : b.code = "died" => b.kind # "close"

LEMMA KindsAppend ==
    ASSUME NEW q \in Seq(Frames), NEW f \in Frames
    PROVE  KindsIn(Append(q, f)) = KindsIn(q) \union {f.kind}
  <1> DEFINE r == Append(q, f)
  <1>1. /\ Len(q) \in Nat /\ DOMAIN q = 1..Len(q) /\ DOMAIN r = 1..(Len(q) + 1)
        /\ r[Len(q) + 1] = f
        /\ \A i \in 1..Len(q) : r[i] = q[i]
    BY LenProperties, AppendProperties
  <1> HIDE DEF r
  <1>2. KindsIn(r) \subseteq KindsIn(q) \union {f.kind}
    BY <1>1 DEF KindsIn
  <1>3. \A i \in DOMAIN q : q[i].kind \in KindsIn(r)
    BY <1>1 DEF KindsIn
  <1>4. f.kind \in KindsIn(r)
    BY <1>1 DEF KindsIn
  <1>5. KindsIn(q) \subseteq KindsIn(r)
    BY <1>3 DEF KindsIn
  <1>6. KindsIn(r) = KindsIn(q) \union {f.kind}
    BY <1>2, <1>4, <1>5
  <1> QED BY <1>6 DEF r

LEMMA KindsTail ==
    ASSUME NEW q \in Seq(Frames), q # <<>>
    PROVE  KindsIn(q) = KindsIn(Tail(q)) \union {Head(q).kind}
  <1> DEFINE r == Tail(q)
  <1>1. /\ Len(q) \in Nat \ {0} /\ DOMAIN q = 1..Len(q) /\ DOMAIN r = 1..(Len(q) - 1)
        /\ \A i \in 1..(Len(q) - 1) : r[i] = q[i + 1]
        /\ Head(q) = q[1]
    BY LenProperties, EmptySeq, HeadTailProperties
  <1> HIDE DEF r
  <1>2. KindsIn(r) \subseteq KindsIn(q)
    BY <1>1, SMTT(40) DEF KindsIn
  <1>3. Head(q).kind \in KindsIn(q)
    BY <1>1 DEF KindsIn
  <1>4. ASSUME NEW i \in DOMAIN q, i # 1 PROVE q[i].kind \in KindsIn(r)
    <2>1. i - 1 \in DOMAIN r /\ r[i - 1] = q[i]
      BY <1>1, <1>4
    <2> QED BY <2>1 DEF KindsIn
  <1>5. KindsIn(q) \subseteq KindsIn(r) \union {Head(q).kind}
    BY <1>1, <1>4 DEF KindsIn
  <1>6. KindsIn(q) = KindsIn(r) \union {Head(q).kind}
    BY <1>2, <1>3, <1>5
  <1> QED BY <1>6 DEF r

LEMMA KindsRemove ==
    ASSUME NEW q \in Seq(Frames), NEW k \in DOMAIN q
    PROVE  KindsIn(RemoveAt(q, k)) \subseteq KindsIn(q)
  <1> DEFINE r == RemoveAt(q, k)
  <1>1. Len(q) \in Nat /\ DOMAIN q = 1..Len(q)
    BY LenProperties
  <1>2. /\ r \in Seq(Frames) /\ Len(r) = Len(q) - 1
        /\ \A i \in 1..(Len(q) - 1) : r[i] = IF i < k THEN q[i] ELSE q[i + 1]
    BY <1>1, RemoveAtProperties
  <1>3. DOMAIN r = 1..(Len(q) - 1)
    BY <1>2, LenProperties
  <1> HIDE DEF r
  <1>4. \A i \in DOMAIN r : \E j \in DOMAIN q : r[i] = q[j]
    BY <1>1, <1>2, <1>3
  <1>5. KindsIn(r) \subseteq KindsIn(q)
    BY <1>4 DEF KindsIn
  <1> QED BY <1>5 DEF r

LEMMA PostedHead ==
    ASSUME TypeOK, posts # <<>>, posts' = Tail(posts)
    PROVE  Posted \subseteq Posted' \union {Head(posts)}
  <1>1. /\ Len(posts) \in Nat \ {0} /\ DOMAIN posts = 1..Len(posts)
        /\ DOMAIN posts' = 1..(Len(posts) - 1)
        /\ \A i \in 1..(Len(posts) - 1) : posts'[i] = posts[i + 1]
        /\ Head(posts) = posts[1]
    BY PostsTail
  <1>2. ASSUME NEW i \in DOMAIN posts, i # 1 PROVE posts[i] \in Posted'
    <2>1. i - 1 \in DOMAIN posts' /\ posts'[i - 1] = posts[i]
      BY <1>1, <1>2
    <2> QED BY <2>1 DEF Posted
  <1> QED BY <1>1, <1>2 DEF Posted

LEMMA CloseInit == Init => CloseInv
  <1> SUFFICES ASSUME Init PROVE CloseInv
    OBVIOUS
  <1>1. Posted = {} /\ landed = {} /\ frame = NoFrame
    BY DEF Init, Posted
  <1>2. queue \in Seq(Frames) /\ Head(queue).kind = "open"
        /\ \A i \in 2..Len(queue) : queue[i].kind = "update"
    BY SeedsAssumption DEF Init
  <1>3. \A i \in DOMAIN queue : i = 1 \/ i \in 2..Len(queue)
    BY <1>2, LenProperties
  <1>4. "close" \notin KindsIn(queue)
    BY <1>2, <1>3 DEF KindsIn
  <1> QED BY <1>1, <1>4 DEF Init, CloseInv, CloseSeen, ClosePosted, NoFrame

\* A close, once there, stays in sight.
LEMMA CloseStep ==
    TypeInv /\ ExitInv /\ CloseInv /\ [Next]_vars => CloseInv' /\ (CloseSeen => CloseSeen')
  <1> SUFFICES ASSUME TypeInv, ExitInv, CloseInv, [Next]_vars
               PROVE  CloseInv' /\ (CloseSeen => CloseSeen')
    OBVIOUS
  <1>0. TypeOK /\ Busy
    BY DEF TypeInv
  <1>1. ASSUME UNCHANGED posts PROVE UNCHANGED Posted
    BY <1>1 DEF Posted
  <1>2. ASSUME UNCHANGED queue PROVE UNCHANGED KindsIn(queue)
    BY <1>2
  <1> USE DEF CloseInv, CloseSeen, ClosePosted
  <1>3. ASSUME NEW f \in Frames, Submit(f) PROVE CloseInv' /\ (CloseSeen => CloseSeen')
    <2>1. KindsIn(queue)' = KindsIn(queue) \union {f.kind}
      BY <1>0, <1>3, KindsAppend DEF Submit, TypeOK
    <2> QED BY <1>1, <1>3, <2>1 DEF Submit, thread
  <1>4. ASSUME NEW r \in Ids, StopQueued(r) PROVE CloseInv' /\ (CloseSeen => CloseSeen')
    <2>1. KindsIn(queue)' \subseteq KindsIn(queue)
      BY <1>0, <1>4, KindsRemove DEF StopQueued, TypeOK
    <2> QED BY <1>1, <1>4, <2>1 DEF StopQueued, thread, loop
  <1>5. ASSUME NEW r \in Ids, StopRunning(r) PROVE CloseInv' /\ (CloseSeen => CloseSeen')
    BY <1>1, <1>2, <1>5 DEF StopRunning, thread, loop
  <1>6. CASE AbandonQueue
    <2>1. KindsIn(queue)' = {}
      BY <1>6 DEF AbandonQueue, KindsIn
    <2> QED BY <1>1, <1>6, <2>1 DEF AbandonQueue, thread
  <1>7. CASE AbandonRunning
    BY <1>1, <1>2, <1>7 DEF AbandonRunning, thread, history
  <1>8. CASE LandFrame
    <2>1. Posted \subseteq Posted' \union {Head(posts)} /\ Posted' \subseteq Posted
          /\ Head(posts) \in Posted
      BY <1>0, <1>8, PostedTail, PostedHead DEF LandFrame
    <2> QED BY <1>2, <1>8, <2>1 DEF LandFrame, shared, thread, loop
  <1>9. CASE LandDeath
    <2>1. Posted \subseteq Posted' \union {Head(posts)} /\ Posted' \subseteq Posted
          /\ Head(posts) \in Posted
      BY <1>0, <1>9, PostedTail, PostedHead DEF LandDeath
    <2> QED BY <1>2, <1>9, <2>1 DEF LandDeath, shared, thread, history
  <1>10. CASE Shutdown
    BY <1>1, <1>2, <1>10 DEF Shutdown, thread, loop, history
  <1>11. CASE Take
    <2>1. KindsIn(queue) = KindsIn(queue)' \union {frame'.kind}
      BY <1>0, <1>11, KindsTail DEF Take, TypeOK
    <2> QED BY <1>1, <1>11, <2>1 DEF Take, loop, history, NoFrame
  <1>12. ASSUME NEW code \in Codes, NEW next \in {"served", "dropping"},
                pc = "serving", Reply(code, next),
                next = "dropping" => frame.kind \in NeedGraph,
                UNCHANGED <<queue, frame, host, alive, landed>>
         PROVE  CloseInv' /\ (CloseSeen => CloseSeen')
    <2> DEFINE p == [id |-> frame.id, kind |-> frame.kind, code |-> code]
    <2>1. p \in Posts
      BY <1>0, <1>12, FramesAssumption DEF Busy, Posts, Ids
    <2>2. Posted' = Posted \union {p}
      BY <1>0, <1>12, <2>1, PostedAppend DEF Reply
    <2>3. p.kind = frame.kind /\ p.code # "died"
      BY <1>12 DEF Codes, StopCodes
    <2> HIDE DEF p
    <2> QED BY <1>2, <1>12, <2>2, <2>3 DEF Reply
  <1>13. CASE ServeOpen \/ ServeClose \/ ServeOther \/ ServeWithoutGraph \/ ServeDirtyGraph
              \/ ServeUpdate \/ Complete \/ Fail \/ BreakSweep
    BY <1>12, <1>13 DEF ServeOpen, ServeClose, ServeOther, ServeWithoutGraph, ServeDirtyGraph,
       ServeUpdate, Complete, Fail, BreakSweep, Calculating, Codes, shared, loop, history,
       NeedGraph, Polled
  <1>14. CASE Boundary
    <2>1. CASE stopRequested
      BY <1>12, <1>14, <2>1 DEF Boundary, Calculating, Codes, StopCodes, shared, loop, history
    <2>2. CASE ~stopRequested
      BY <1>1, <1>2, <1>14, <2>2 DEF Boundary, Calculating, shared, loop, history
    <2> QED BY <2>1, <2>2
  <1>15. CASE DropSession
    <2> DEFINE p == [id |-> frame.id, kind |-> frame.kind, code |-> "died"]
    <2>1. p \in Posts
      BY <1>0, <1>15, FramesAssumption DEF DropSession, Busy, Posts, Ids
    <2>2. Posted' = Posted \union {p}
      BY <1>0, <1>15, <2>1, PostedAppend DEF DropSession
    <2>3. p.kind = frame.kind /\ frame.kind # "close"
      BY <1>15 DEF DropSession, NeedGraph, Polled
    <2> HIDE DEF p
    <2> QED BY <1>2, <1>15, <2>2, <2>3 DEF DropSession, shared, loop, history
  <1>16. CASE Served
    BY <1>1, <1>2, <1>16 DEF Served, loop, history, NoFrame
  <1>17. CASE Exit
    BY <1>1, <1>2, <1>17 DEF Exit, shared, loop, history
  <1>18. CASE UNCHANGED vars
    BY <1>1, <1>2, <1>18 DEF vars, shared, thread, loop, history
  <1> QED
    BY <1>3, <1>4, <1>5, <1>6, <1>7, <1>8, <1>9, <1>10, <1>11, <1>13, <1>14, <1>15,
       <1>16, <1>17, <1>18
    DEF Next, LoopStep, ThreadStep

\* A post that costs the session its graph.
Breaks(p) == p.code = "died" \/ (p.kind = "open" /\ p.code = "failed")

\* What may be behind an answer posted after the first k that the session is gone.
Excuse(k) ==
    \/ ~alive \/ host = "disowning" \/ CloseSeen
    \/ \E b \in landed : b.kind = "open" /\ b.code = "failed"
    \/ \E j \in 1..k : Breaks(posts[j])

\* A thread without a session has an open to serve first, or an excuse.
GhostInv ==
    /\ NoGhostAnswers
    /\ \A i \in DOMAIN posts : posts[i].code = "SESSION_NOT_FOUND" => Excuse(i - 1)
    /\ session = "none" =>
         \/ Excuse(Len(posts))
         \/ pc = "idle" /\ queue # <<>> /\ Head(queue).kind = "open"
         \/ pc = "serving" /\ frame.kind = "open"

LEMMA GhostInit == Init => GhostInv
  <1> SUFFICES ASSUME Init PROVE GhostInv
    OBVIOUS
  <1>1. queue # <<>> /\ Head(queue).kind = "open"
    BY SeedsAssumption DEF Init
  <1> QED BY <1>1 DEF Init, GhostInv, NoGhostAnswers

\* The open a seat starts with stays first until the thread takes it.
LEMMA OpenStays ==
    ASSUME TypeOK, queue # <<>>, Head(queue).kind = "open",
           (\E f \in Frames : Submit(f)) \/ (\E r \in Ids : StopQueued(r))
    PROVE  queue' # <<>> /\ Head(queue').kind = "open"
  <1>1. /\ Len(queue) \in Nat \ {0} /\ DOMAIN queue = 1..Len(queue) /\ Head(queue) = queue[1]
        /\ queue \in Seq(Frames)
    BY LenProperties, EmptySeq, HeadTailProperties DEF TypeOK
  <1>2. ASSUME NEW f \in Frames, Submit(f) PROVE queue' # <<>> /\ Head(queue').kind = "open"
    <2>1. queue' \in Seq(Frames) /\ Len(queue') = Len(queue) + 1 /\ queue'[1] = queue[1]
      BY <1>1, <1>2, AppendProperties DEF Submit
    <2> QED BY <1>1, <2>1, HeadTailProperties, EmptySeq
  <1>3. ASSUME NEW r \in Ids, StopQueued(r) PROVE queue' # <<>> /\ Head(queue').kind = "open"
    <2>1. PICK k \in DOMAIN queue : queue[k].kind # "open" /\ queue' = RemoveAt(queue, k)
      BY <1>3 DEF StopQueued
    <2>2. k \in 2..Len(queue)
      BY <1>1, <2>1
    <2>3. /\ queue' \in Seq(Frames) /\ Len(queue') = Len(queue) - 1
          /\ \A i \in 1..(Len(queue) - 1) : queue'[i] = IF i < k THEN queue[i] ELSE queue[i + 1]
      BY <1>1, <2>1, <2>2, RemoveAtProperties, ZenonT(40)
    <2>4. queue'[1] = queue[1] /\ Len(queue') # 0
      BY <1>1, <2>2, <2>3
    <2> QED BY <1>1, <2>3, <2>4, HeadTailProperties, EmptySeq
  <1> QED BY <1>2, <1>3

LEMMA GhostStep ==
    TypeInv /\ ExitInv /\ CloseInv /\ GhostInv /\ [Next]_vars => GhostInv'
  <1> SUFFICES ASSUME TypeInv, ExitInv, CloseInv, GhostInv, [Next]_vars PROVE GhostInv'
    OBVIOUS
  <1>0. TypeOK /\ Busy /\ Len(posts) \in Nat /\ DOMAIN posts = 1..Len(posts)
    BY LenProperties DEF TypeInv, TypeOK
  <1>1. CloseSeen => CloseSeen'
    BY CloseStep
  <1>2. NoGhostAnswers <=>
          \A a \in landed : a.code = "SESSION_NOT_FOUND" =>
            CloseSeen \/ \E b \in landed : b.kind = "open" /\ b.code = "failed"
    BY DEF NoGhostAnswers, CloseSeen, ClosePosted, KindsIn
  <1>3. NoGhostAnswers' <=>
          \A a \in landed' : a.code = "SESSION_NOT_FOUND" =>
            CloseSeen' \/ \E b \in landed' : b.kind = "open" /\ b.code = "failed"
    BY DEF NoGhostAnswers, CloseSeen, ClosePosted, KindsIn
  \* Nothing is posted or landed.
  <1>4. ASSUME UNCHANGED <<posts, landed>>, alive' => alive,
               host = "disowning" => host' = "disowning" \/ ~alive',
               session' = "none" =>
                 \/ session = "none" /\ UNCHANGED <<pc, frame, queue>>
                 \/ Excuse(Len(posts))
                 \/ host' = "disowning"
                 \/ pc' = "idle" /\ queue' # <<>> /\ Head(queue').kind = "open"
                 \/ pc' = "serving" /\ frame'.kind = "open"
        PROVE  GhostInv'
    <2>1. ASSUME NEW k \in Nat, Excuse(k) PROVE Excuse(k)'
      BY <1>1, <1>4, <2>1 DEF Excuse
    <2>2. NoGhostAnswers'
      BY <1>1, <1>2, <1>3, <1>4 DEF GhostInv
    <2>3. ASSUME NEW i \in DOMAIN posts', posts'[i].code = "SESSION_NOT_FOUND"
          PROVE  Excuse(i - 1)'
      BY <1>0, <1>4, <2>1, <2>3 DEF GhostInv
    <2>4. PICK n \in Nat : n = Len(posts)
      BY <1>0
    <2>5. Excuse(n) => Excuse(n)'
      BY <2>1
    <2>6. Excuse(Len(posts)) => Excuse(Len(posts))'
      BY <1>4, <2>4, <2>5 DEF Excuse
    <2>7. host' = "disowning" => Excuse(Len(posts))'
      BY DEF Excuse
    <2> QED BY <1>4, <2>2, <2>3, <2>6, <2>7 DEF GhostInv
  \* A frame is posted.
  <1>5. ASSUME NEW p \in Posts, posts' = Append(posts, p), UNCHANGED <<alive, host, landed>>,
               p.code = "SESSION_NOT_FOUND" => session = "none" /\ pc = "serving"
                                               /\ frame.kind # "open",
               session' = "none" => \/ session = "none" /\ pc = "serving" /\ frame.kind # "open"
                                    \/ frame.kind = "close"
                                    \/ Breaks(p)
        PROVE  GhostInv'
    <2>1. /\ DOMAIN posts' = 1..(Len(posts) + 1) /\ Len(posts') = Len(posts) + 1
          /\ \A i \in 1..Len(posts) : posts'[i] = posts[i]
          /\ posts'[Len(posts) + 1] = p
      BY <1>0, <1>5, PostsAppend
    <2>2. ASSUME NEW k \in 0..Len(posts), Excuse(k) PROVE Excuse(k)'
      <3>1. \A j \in 1..k : j \in 1..Len(posts) /\ posts'[j] = posts[j]
        BY <1>0, <2>1
      <3> QED BY <1>1, <1>5, <2>2, <3>1 DEF Excuse
    <2>3. PICK n \in 0..Len(posts) : n = Len(posts)
      <3>1. Len(posts) \in 0..Len(posts)
        BY <1>0
      <3> QED BY <3>1, Zenon
    <2>4. session = "none" /\ pc = "serving" /\ frame.kind # "open" => Excuse(n)
      BY <2>3 DEF GhostInv
    <2>5. frame.kind = "close" => Excuse(n)
      BY DEF Excuse, CloseSeen
    <2>6. Excuse(n) => Excuse(n)'
      BY <2>2
    <2>7. NoGhostAnswers'
      BY <1>1, <1>2, <1>3, <1>5 DEF GhostInv
    <2>8. ASSUME NEW i \in DOMAIN posts', posts'[i].code = "SESSION_NOT_FOUND"
          PROVE  Excuse(i - 1)'
      <3>1. CASE i = Len(posts) + 1
        BY <1>0, <1>5, <2>1, <2>3, <2>4, <2>6, <2>8, <3>1 DEF Excuse
      <3>2. CASE i \in 1..Len(posts)
        <4>1. i - 1 \in 0..Len(posts) /\ Excuse(i - 1)
          BY <1>0, <2>1, <2>8, <3>2 DEF GhostInv
        <4> QED BY <2>2, <4>1
      <3> QED BY <1>0, <2>1, <3>1, <3>2
    <2>9. Excuse(n)' => Excuse(Len(posts))'
      <3>1. \A j \in 1..n : j \in 1..Len(posts')
        BY <1>0, <2>1, <2>3
      <3> QED BY <3>1 DEF Excuse
    <2>10. Breaks(p) => Excuse(Len(posts))'
      <3>1. Len(posts) + 1 \in 1..Len(posts')
        BY <1>0, <2>1
      <3> QED BY <2>1, <3>1 DEF Excuse, Breaks
    <2>11. session' = "none" => Excuse(Len(posts))'
      BY <1>5, <2>4, <2>5, <2>6, <2>9, <2>10
    <2> QED BY <2>7, <2>8, <2>11 DEF GhostInv
  \* The oldest post is taken: an answer, into what has landed, or a death.
  <1>6. ASSUME posts # <<>>, posts' = Tail(posts), UNCHANGED <<pc, frame, queue, session>>,
               host # "disowning", alive' => alive, landed \subseteq landed',
               \A b \in landed' : b \in landed \/ (b = Head(posts) /\ alive),
               alive' /\ Head(posts).code # "died" => Head(posts) \in landed',
               alive' /\ Head(posts).code = "died" => CloseSeen
        PROVE  GhostInv'
    <2>1. /\ Len(posts) \in Nat \ {0}
          /\ DOMAIN posts' = 1..(Len(posts) - 1) /\ Len(posts') = Len(posts) - 1
          /\ \A i \in 1..(Len(posts) - 1) : posts'[i] = posts[i + 1]
          /\ Head(posts) = posts[1]
      BY <1>0, <1>6, PostsTail
    <2>2. ASSUME NEW k \in 0..(Len(posts) - 1), Excuse(k + 1) PROVE Excuse(k)'
      <3>1. CASE \E j \in 1..(k + 1) : Breaks(posts[j])
        <4>1. PICK j \in 1..(k + 1) : Breaks(posts[j])
          BY <3>1
        <4>2. CASE j = 1
          BY <1>1, <1>6, <2>1, <4>1, <4>2 DEF Excuse, Breaks
        <4>3. CASE j # 1
          <5>1. j - 1 \in 1..k /\ j - 1 \in 1..(Len(posts) - 1) /\ (j - 1) + 1 = j
            BY <1>0, <4>3
          <5>2. posts'[j - 1] = posts[j]
            BY <2>1, <5>1
          <5> QED BY <4>1, <5>1, <5>2 DEF Excuse, Breaks
        <4> QED BY <4>2, <4>3
      <3> QED BY <1>1, <1>6, <2>2, <3>1 DEF Excuse
    <2>3. NoGhostAnswers'
      <3>1. ASSUME alive, Head(posts).code = "SESSION_NOT_FOUND"
            PROVE  CloseSeen \/ \E b \in landed : b.kind = "open" /\ b.code = "failed"
        <4>1. 1 \in DOMAIN posts /\ \A j \in 1..(1 - 1) : FALSE
          BY <1>0, <2>1
        <4>2. Excuse(1 - 1)
          BY <2>1, <3>1, <4>1 DEF GhostInv
        <4> QED BY <1>6, <3>1, <4>1, <4>2 DEF Excuse
      <3> QED BY <1>1, <1>2, <1>3, <1>6, <3>1 DEF GhostInv
    <2>4. ASSUME NEW i \in DOMAIN posts', posts'[i].code = "SESSION_NOT_FOUND"
          PROVE  Excuse(i - 1)'
      <3>1. /\ i + 1 \in DOMAIN posts /\ posts'[i] = posts[i + 1] /\ (i + 1) - 1 = (i - 1) + 1
            /\ i - 1 \in 0..(Len(posts) - 1)
        BY <1>0, <2>1
      <3>2. Excuse((i - 1) + 1)
        BY <2>4, <3>1 DEF GhostInv
      <3> QED BY <2>2, <3>1, <3>2
    <2>5. PICK n \in 0..(Len(posts) - 1) : n = Len(posts) - 1
      BY <2>1
    <2>6. Excuse(Len(posts)) => Excuse(n + 1)
      BY <2>1, <2>5
    <2>7. Excuse(n)' => Excuse(Len(posts))'
      BY <2>1, <2>5 DEF Excuse
    <2>8. Excuse(Len(posts)) => Excuse(Len(posts))'
      BY <2>2, <2>6, <2>7
    <2> QED BY <1>6, <2>3, <2>4, <2>8 DEF GhostInv
  <1>7. CASE LandFrame
    BY <1>0, <1>6, <1>7 DEF LandFrame, shared, thread, loop
  <1>8. CASE LandDeath
    <2>1. alive' => CloseSeen
      BY <1>8 DEF LandDeath, TypeInv, TypeOK, CloseInv
    <2> QED BY <1>6, <1>8, <2>1 DEF LandDeath, shared, thread, history
  <1>9. ASSUME NEW code \in Codes, NEW next \in {"served", "dropping"}, pc = "serving",
               Reply(code, next), UNCHANGED <<frame, host, alive, landed>>,
               code = "SESSION_NOT_FOUND" => session = "none" /\ frame.kind # "open",
               session' = "none" => \/ session = "none" /\ frame.kind # "open"
                                    \/ frame.kind = "close"
                                    \/ frame.kind = "open" /\ code = "failed"
        PROVE  GhostInv'
    <2> DEFINE p == [id |-> frame.id, kind |-> frame.kind, code |-> code]
    <2>1. p \in Posts
      BY <1>0, <1>9, FramesAssumption DEF Busy, Posts, Ids
    <2>2. posts' = Append(posts, p) /\ p.kind = frame.kind /\ p.code = code
      BY <1>9 DEF Reply
    <2> HIDE DEF p
    <2> QED BY <1>5, <1>9, <2>1, <2>2 DEF Breaks
  <1>10. CASE ServeOpen \/ ServeClose \/ ServeOther \/ ServeWithoutGraph
    BY <1>9, <1>10 DEF ServeOpen, ServeClose, ServeOther, ServeWithoutGraph, Codes, loop, history,
       NeedGraph, Polled
  <1>11. CASE ServeDirtyGraph \/ ServeUpdate \/ Complete \/ Fail \/ BreakSweep
    BY <1>9, <1>11 DEF ServeDirtyGraph, ServeUpdate, Complete, Fail, BreakSweep, Calculating,
       Codes, loop, history
  <1>12. CASE Boundary
    <2>1. CASE stopRequested
      BY <1>9, <1>12, <2>1 DEF Boundary, Calculating, Codes, StopCodes, loop, history
    <2>2. CASE ~stopRequested
      BY <1>4, <1>12, <2>2 DEF Boundary, Calculating, loop, history
    <2> QED BY <2>1, <2>2
  <1>13. CASE DropSession
    <2> DEFINE p == [id |-> frame.id, kind |-> frame.kind, code |-> "died"]
    <2>1. p \in Posts /\ p.code = "died"
      BY <1>0, <1>13, FramesAssumption DEF DropSession, Busy, Posts, Ids
    <2>2. posts' = Append(posts, p)
      BY <1>13 DEF DropSession
    <2> HIDE DEF p
    <2> QED BY <1>5, <1>13, <2>1, <2>2 DEF Breaks, DropSession, loop, history
  <1>14. CASE \E f \in Frames : Submit(f)
    BY <1>0, <1>4, <1>14, OpenStays DEF GhostInv, Submit, thread
  <1>15. CASE \E r \in Ids : StopQueued(r)
    BY <1>0, <1>4, <1>15, OpenStays DEF GhostInv, StopQueued, thread, loop
  <1>16. CASE \E r \in Ids : StopRunning(r)
    BY <1>4, <1>16 DEF StopRunning, thread, loop
  <1>17. CASE AbandonQueue \/ AbandonRunning
    BY <1>4, <1>17 DEF AbandonQueue, AbandonRunning, thread, history
  <1>18. CASE Take
    BY <1>4, <1>18 DEF GhostInv, Take, loop, history
  <1>19. CASE Served
    BY <1>4, <1>19 DEF GhostInv, Served, loop, history
  <1>20. CASE Exit
    <2>1. Excuse(Len(posts))
      BY <1>20 DEF Exit, ExitInv, CloseInv, Excuse
    <2> QED BY <1>4, <1>20, <2>1 DEF Exit, shared, loop, history
  <1>21. CASE Shutdown \/ UNCHANGED vars
    BY <1>4, <1>21 DEF Shutdown, vars, shared, thread, loop, history
  <1> QED
    BY <1>7, <1>8, <1>10, <1>11, <1>12, <1>13, <1>14, <1>15, <1>16, <1>17, <1>18, <1>19,
       <1>20, <1>21
    DEF Next, LoopStep, ThreadStep

\* A seat that lost its graph tells no client that a session is gone which the client
\* never closed: only an open that failed, or a close on its way, lets that answer land.
THEOREM WorkerNoGhostAnswers == Spec => []NoGhostAnswers
  <1>1. GhostInv => NoGhostAnswers
    BY DEF GhostInv
  <1> QED
    BY <1>1, TypeInit, TypeStep, ExitInit, ExitStep, CloseInit, CloseStep, GhostInit, GhostStep,
       PTL DEF Spec
=============================================================================
