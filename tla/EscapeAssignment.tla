-------------------------- MODULE EscapeAssignment --------------------------
(***************************************************************************)
(* Reserving block RAM channels before routing (route/escape.rs).          *)
(*                                                                         *)
(* Every block RAM data pin to be routed requests one of the exits it can  *)
(* take.  Requests that compete for exits form a group; a group with as    *)
(* many exits as requests has none to spare, so each of its requests gets  *)
(* an exit of its own by augmenting paths, or the stage fails.             *)
(***************************************************************************)
EXTENDS Integers, Sequences, FiniteSets

CONSTANTS
    Nets,
    Exits,        \* stitched components next to block RAM pins, in order: numbers
    RequestLists, \* the lists of requests, sorted by number of exits and net
    Nobody

\* What a list of requests is: sorted by number of exits, none without an exit.
RequestsAssumption ==
    \A R \in RequestLists :
        /\ R \in Seq([net : Nets, exits : SUBSET Exits])
        /\ \A i \in 1 .. Len(R) : R[i].exits # {}
        /\ \A i, j \in 1 .. Len(R) :
              i < j => Cardinality(R[i].exits) <= Cardinality(R[j].exits)

VARIABLES
    requests,
    visited,     \* requests whose group has been found
    group,       \* the requests of the current group that have no exit yet
    owners,      \* of the current group: the request each exit is assigned to
    assignments, \* pairs of an exit and the net it is reserved for
    outcome

vars == <<requests, visited, group, owners, assignments, outcome>>

Request == 1 .. Len(requests)

Unowned == [x \in Exits |-> Nobody]

Init ==
    /\ requests \in RequestLists
    /\ visited = {} /\ group = {} /\ owners = Unowned
    /\ assignments = {}
    /\ outcome = "running"

Users(x) == {i \in Request : x \in requests[i].exits}

RECURSIVE GroupOf(_)
\* The requests connected to those of R by a common exit.
GroupOf(R) ==
    LET more == UNION {Users(x) : x \in UNION {requests[i].exits : i \in R}}
    IN  IF more \subseteq R THEN R ELSE GroupOf(R \cup more)

Tracks(R) == UNION {requests[i].exits : i \in R}

\* Mutant: a group with an exit to spare is assigned as well.
Saturated_Spare(R) == Cardinality(R) <= Cardinality(Tracks(R))

Saturated(R) ==
    /\ Cardinality(R) = Cardinality(Tracks(R))
    /\ \A i, j \in R : requests[i].net = requests[j].net => i = j

LeastOf(S) == CHOOSE i \in S : \A j \in S : i <= j

\* The next group, that of the first request in none: left to the router, or
\* assigned.
FindGroup ==
    /\ outcome = "running" /\ group = {} /\ owners = Unowned
    /\ Request \ visited # {}
    /\ LET R == GroupOf({LeastOf(Request \ visited)})
       IN  /\ visited' = visited \cup R
           /\ group' = IF Saturated(R) THEN R ELSE {}
    /\ UNCHANGED <<requests, owners, assignments, outcome>>

RECURSIVE Augment(_, _, _, _)
\* augment: try the exits X of request i in order; an exit in use is free if
\* its owner can be moved.  `found` tells whether i has an exit now.
Augment(i, X, own, seen) ==
    LET open == X \ seen
        x == LeastOf(open)
        moved == Augment(own[x], requests[own[x]].exits, own, seen \cup {x})
    IN  IF open = {} THEN [found |-> FALSE, owners |-> own, seen |-> seen]
        ELSE IF own[x] = Nobody
        THEN [found |-> TRUE, owners |-> [own EXCEPT ![x] = i], seen |-> seen \cup {x}]
        ELSE IF moved.found
        THEN [moved EXCEPT !.owners = [@ EXCEPT ![x] = i]]
        ELSE Augment(i, X, own, moved.seen)

Assigned(i) == Augment(i, requests[i].exits, owners, {})

AssignRequest ==
    /\ outcome = "running" /\ group # {}
    /\ LET i == LeastOf(group)
           attempt == Assigned(i)
       IN  /\ owners' = attempt.owners
           /\ group' = group \ {i}
           /\ outcome' = IF attempt.found THEN outcome ELSE "error"
    /\ UNCHANGED <<requests, visited, assignments>>

FinishGroup ==
    /\ outcome = "running" /\ group = {} /\ owners # Unowned
    /\ assignments' = assignments \cup
         {<<x, requests[owners[x]].net>> : x \in {y \in Exits : owners[y] # Nobody}}
    /\ owners' = Unowned
    /\ UNCHANGED <<requests, visited, group, outcome>>

Finish ==
    /\ outcome = "running" /\ group = {} /\ owners = Unowned
    /\ visited = Request
    /\ outcome' = "ok"
    /\ UNCHANGED <<requests, visited, group, owners, assignments>>

Returned == outcome # "running" /\ UNCHANGED vars

Next == FindGroup \/ AssignRequest \/ FinishGroup \/ Finish \/ Returned

Spec == Init /\ [][Next]_vars

-----------------------------------------------------------------------------

\* An assignment of its own exit to every request of R.
Matching(R) ==
    {f \in [R -> Exits] : /\ \A i \in R : f[i] \in requests[i].exits
                          /\ \A i, j \in R : f[i] = f[j] => i = j}

\* The requests of G need every exit they can take, for a net each.
NoneToSpare(G) ==
    /\ Cardinality(Tracks(G)) = Cardinality(G)
    /\ Cardinality({requests[i].net : i \in G}) = Cardinality(G)

\* Every request of a saturated group has an exit reserved for its net, each
\* exit is reserved for one net, and no request is locked out of an exit it
\* could take by the reservations of a group that is not its own.  However the
\* requests before it were moved, the stage gives up only on a crossbar that no
\* assignment satisfies.
ReservationsComplete ==
    /\ outcome = "error" =>
        \E i \in visited : NoneToSpare(GroupOf({i})) /\ Matching(GroupOf({i})) = {}
    /\ outcome = "ok" =>
        /\ \A a, b \in assignments : a[1] = b[1] => a = b
        /\ \A i \in Request :
              IF NoneToSpare(GroupOf({i}))
              THEN \E x \in requests[i].exits : <<x, requests[i].net>> \in assignments
              ELSE \A a \in assignments : a[1] \notin requests[i].exits
=============================================================================
