------------------------------ MODULE MCGateway ------------------------------
(***************************************************************************)
(* The gateway under TLC: a small script of requests, sent when and on     *)
(* which socket TLC likes.                                                 *)
(***************************************************************************)
EXTENDS Gateway

Q(s, kind) == [session |-> s, kind |-> kind, of |-> 1]

\* A session that works and is resumed, and a second that competes for its socket
\* and its place among the absent.
WindowRequest == <<
    Q("s1", "open"),
    Q("s1", "work"),
    Q("s1", "work"),
    Q("s1", "resume"),
    Q("s2", "open")>>

\* One session that is cancelled, closed and resumed.
LiveRequest == <<
    Q("s1", "open"),
    Q("s1", "work"),
    [session |-> "s1", kind |-> "cancel", of |-> 2],
    Q("s1", "resume"),
    Q("s1", "close")>>

FiveIds == 1..5
=============================================================================
