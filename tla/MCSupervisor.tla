---------------------------- MODULE MCSupervisor ----------------------------
(***************************************************************************)
(* The supervisor under TLC.  Each instance is a small script of requests; *)
(* when they are sent, stopped, answered and lost is TLC's.                *)
(***************************************************************************)
EXTENDS Supervisor

Q(s, kind, wants, fate) == [session |-> s, kind |-> kind, wants |-> wants, fate |-> fate]

\* Two tenants of one shared worker: one breaks its graph and moves to a process of
\* its own, the other breaks its graph in a sweep.
PoolRequest == <<
    Q("s1", "open", "shared", "ok"),
    Q("s2", "open", "shared", "ok"),
    Q("s1", "update", "shared", "breaks"),
    Q("s1", "price", "sacrificial", "ok"),
    Q("s2", "sweep", "shared", "breaks")>>

\* A session that breaks its graph and is gone and back before that is known,
\* its neighbour keeping the worker alive.
ReturnRequest == <<
    Q("s1", "open", "shared", "ok"),
    Q("s2", "open", "shared", "ok"),
    Q("s1", "update", "shared", "breaks"),
    Q("s1", "price", "sacrificial", "ok"),
    Q("s1", "price", "shared", "ok")>>

\* One session's writes, in both placements, with the kept sweep among them.
LogRequest == <<
    Q("s1", "open", "shared", "ok"),
    Q("s1", "update", "shared", "ok"),
    Q("s1", "price", "sacrificial", "ok"),
    Q("s1", "update", "shared", "refused"),
    Q("s1", "sweep", "sacrificial", "ok"),
    Q("s1", "price", "shared", "ok")>>

\* A session from its open to what follows its close.  Its graph breaks under one
\* write, with others sent behind it and a move that may come before their answers,
\* and a write is refused after it.
LifeRequest == <<
    Q("s1", "open", "shared", "ok"),
    Q("s1", "update", "shared", "breaks"),
    Q("s1", "sweep", "shared", "ok"),
    Q("s1", "update", "shared", "ok"),
    Q("s1", "price", "sacrificial", "ok"),
    Q("s1", "update", "shared", "refused"),
    Q("s1", "close", "shared", "ok"),
    Q("s1", "price", "shared", "ok")>>

\* Two tenants whose requests may be stopped: one calculates, moves and closes, the
\* other's open is refused.
LiveRequest == <<
    Q("s1", "open", "shared", "ok"),
    Q("s1", "price", "shared", "ok"),
    Q("s1", "price", "sacrificial", "ok"),
    Q("s1", "close", "shared", "ok"),
    Q("s2", "open", "shared", "refused")>>

FiveIds == 1..5
SixIds == 1..6
EightIds == 1..8
=============================================================================
