------------------------------- MODULE WorkPool -------------------------------
(***************************************************************************)
(* What the pool of workers promises to its owner, without threads, locks  *)
(* or signals: items are taken in the order in which they were queued,     *)
(* each of them once, and when the pool is closed nobody works any more.   *)
(* ThreadPool is shown to implement it.                                    *)
(***************************************************************************)
EXTENDS Sequences

CONSTANT Item

VARIABLES
    waiting,    \* items nobody has taken yet, in order
    working,    \* items being worked on
    finished,   \* items whose work is done
    phase       \* "open", "closing" once the owner wants it closed, "closed"

poolVars == <<waiting, working, finished, phase>>

Init == waiting = << >> /\ working = {} /\ finished = {} /\ phase = "open"

\* Items it has, or has had.
Known == {waiting[i] : i \in DOMAIN waiting} \cup working \cup finished

Queue(j) ==
    /\ phase = "open" /\ j \notin Known
    /\ waiting' = Append(waiting, j)
    /\ UNCHANGED <<working, finished, phase>>

\* The oldest item is taken, also while the pool closes.
Take ==
    /\ phase # "closed" /\ waiting # << >>
    /\ waiting' = Tail(waiting)
    /\ working' = working \cup {Head(waiting)}
    /\ UNCHANGED <<finished, phase>>

Finish(j) ==
    /\ j \in working
    /\ working' = working \ {j}
    /\ finished' = finished \cup {j}
    /\ UNCHANGED <<waiting, phase>>

Close == phase = "open" /\ phase' = "closing" /\ UNCHANGED <<waiting, working, finished>>

\* What still waits then is the owner's.
Closed ==
    /\ phase = "closing" /\ working = {}
    /\ phase' = "closed" /\ UNCHANGED <<waiting, working, finished>>

Next == Take \/ Close \/ Closed \/ \E j \in Item : Queue(j) \/ Finish(j)

Spec == Init /\ [][Next]_poolVars
=============================================================================
