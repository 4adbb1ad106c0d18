--------------------------- MODULE PriorityQueue ---------------------------
(***************************************************************************)
(* What the frontier of a search promises: entries are kept as a bag, and  *)
(* popping takes one of least priority, or tells that there is none.       *)
(***************************************************************************)
EXTENDS Integers, Bags

CONSTANTS
    Entries,           \* what may be pushed
    PriorityOf(_),
    Nothing            \* Option::None

VARIABLES
    contents,
    popped             \* the last pop returned this

Init == contents = EmptyBag /\ popped = Nothing

Push(e) ==
    /\ contents' = contents (+) SetToBag({e})
    /\ UNCHANGED popped

Pop ==
    IF contents = EmptyBag
    THEN popped' = Nothing /\ UNCHANGED contents
    ELSE \E e \in BagToSet(contents) :
            /\ \A f \in BagToSet(contents) : PriorityOf(e) <= PriorityOf(f)
            /\ popped' = e
            /\ contents' = contents (-) SetToBag({e})

Next == Pop \/ \E e \in Entries : Push(e)

Spec == Init /\ [][Next]_<<contents, popped>>
=============================================================================
