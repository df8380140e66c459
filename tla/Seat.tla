--------------------------------- MODULE Seat ---------------------------------
(***************************************************************************)
(* What a seat promises whoever sends it requests, and nothing of how:     *)
(* they are answered in the order they came, each once, unless a stop      *)
(* takes one back first or a kill loses it; a seat that is let go takes    *)
(* no more, loses all but the one it is serving if it is killed and none   *)
(* if it is closed, and then it is gone.  Worker implements it.            *)
(***************************************************************************)
EXTENDS Naturals, Sequences, SequencesExt, Ordering

CONSTANTS
    Ids,    \* requests that are answered
    Opens   \* those of them a stop does not take back

VARIABLES
    state,      \* held, leaving or gone
    waiting,    \* requests taken and neither answered, taken back nor lost
    answers,    \* how often each was answered
    withdrawn,  \* taken back
    lost        \* lost to a kill

vars == <<state, waiting, answers, withdrawn, lost>>

Init ==
    /\ state = "held"
    /\ waiting \in {<<>>} \union {<<r>> : r \in Opens}
    /\ answers = [r \in Ids |-> 0] /\ withdrawn = {} /\ lost = {}

Taken(r) == r \in Range(waiting) \union withdrawn \union lost \/ answers[r] > 0

\* A request that ends the session is the last the seat takes.
Take(r) ==
    /\ state = "held" /\ ~Taken(r)
    /\ waiting' = Append(waiting, r)
    /\ state' \in {"held", "leaving"}
    /\ UNCHANGED <<answers, withdrawn, lost>>

Answer ==
    /\ waiting # <<>>
    /\ answers' = [answers EXCEPT ![Head(waiting)] = @ + 1]
    /\ waiting' = Tail(waiting)
    /\ UNCHANGED <<state, withdrawn, lost>>

TakeBack(r) ==
    /\ state = "held" /\ r \in Range(waiting) \ Opens
    /\ waiting' = Without(waiting, r)
    /\ withdrawn' = withdrawn \union {r}
    /\ UNCHANGED <<state, answers, lost>>

Close ==
    /\ state = "held" /\ state' = "leaving"
    /\ UNCHANGED <<waiting, answers, withdrawn, lost>>

Kill ==
    /\ state = "held" /\ state' = "leaving"
    /\ \E n \in {0, 1} :
         /\ waiting' = SubSeq(waiting, 1, n)
         /\ lost' = lost \union Range(SubSeq(waiting, n + 1, Len(waiting)))
    /\ UNCHANGED <<answers, withdrawn>>

Leave ==
    /\ state = "leaving" /\ waiting = <<>> /\ state' = "gone"
    /\ UNCHANGED <<waiting, answers, withdrawn, lost>>

Next == Answer \/ Close \/ Kill \/ Leave \/ \E r \in Ids : Take(r) \/ TakeBack(r)

Safety == Init /\ [][Next]_vars

\* What is taken is settled, and a seat that is let go is gone in the end.
Spec == Safety /\ WF_vars(Answer) /\ WF_vars(Leave)
=============================================================================
