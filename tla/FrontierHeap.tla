---------------------------- MODULE FrontierHeap ----------------------------
(***************************************************************************)
(* The binary heap of search states (route/heap.rs): push sifts up, and    *)
(* pop lets a hole sink to a leaf without looking at the entry that will   *)
(* fill it, then sifts that entry up.  Positions count from 0; an entry    *)
(* has a priority, the only field the heap compares, and a tag.            *)
(***************************************************************************)
EXTENDS Integers, FiniteSets, Bags

CONSTANTS
    Entries,
    Capacity,   \* bound on the entries pushed (the Vec grows without one)
    Nothing

\* What the entries are.
ASSUME HeapAssumption ==
    /\ \A e \in Entries : e.priority \in Nat
    /\ Capacity \in Nat

VARIABLES heap, popped

heapVars == <<heap, popped>>

SizeOf(h) == Cardinality(DOMAIN h)

Prefix(h, n) == [i \in 0 .. n - 1 |-> h[i]]

Parent(i) == (i - 1) \div 2

Prefers(lhs, rhs) == lhs.priority > rhs.priority

\* An entry on its way up a heap: at is its position.
Risen(s) ==
    IF s.at > 0 /\ Prefers(s.heap[Parent(s.at)], s.heap[s.at])
    THEN [heap |-> [s.heap EXCEPT ![s.at] = s.heap[Parent(s.at)],
                                  ![Parent(s.at)] = s.heap[s.at]],
          at |-> Parent(s.at)]
    ELSE s

\* frontier_sift_up_to: move the entry at a position up to where it belongs.
SiftUp(h, child) ==
    LET after[k \in 0 .. child] ==
            IF k = 0 THEN [heap |-> h, at |-> child] ELSE Risen(after[k - 1])
    IN  after[child].heap

LeastChild(h, hole) ==
    LET left == 2 * hole + 1
    IN  IF left + 1 \in DOMAIN h /\ Prefers(h[left], h[left + 1]) THEN left + 1 ELSE left

\* A hole on its way down: the lesser child moves into it.
Sunk(s) ==
    IF s.at > (SizeOf(s.heap) - 2) \div 2 THEN s
    ELSE [heap |-> [s.heap EXCEPT ![s.at] = s.heap[LeastChild(s.heap, s.at)]],
          at |-> LeastChild(s.heap, s.at)]

\* frontier_floyd_sift_down: the heap and the leaf the hole reaches, every entry
\* on the way having moved up.
SinkHole(h) ==
    LET after[k \in 0 .. SizeOf(h)] ==
            IF k = 0 THEN [heap |-> h, at |-> 0] ELSE Sunk(after[k - 1])
    IN  after[SizeOf(h)]

\* Mutant: the entry that fills the hole stays there.
Filled_NoSift(sunk, last) ==
    Prefix([sunk.heap EXCEPT ![sunk.at] = sunk.heap[last]], last)

\* The last entry fills the hole, unless the hole is its own place.
Filled(sunk, last) ==
    IF sunk.at = last THEN Prefix(sunk.heap, last)
    ELSE Prefix(SiftUp([sunk.heap EXCEPT ![sunk.at] = sunk.heap[last]], sunk.at), last)

\* frontier_heap_push and frontier_heap_pop on a heap.
Pushed(h, e) ==
    SiftUp([i \in 0 .. SizeOf(h) |-> IF i = SizeOf(h) THEN e ELSE h[i]], SizeOf(h))

Rest(h) ==
    IF SizeOf(h) = 1 THEN Prefix(h, 0) ELSE Filled(SinkHole(h), SizeOf(h) - 1)

HeapInit == heap = <<>> /\ popped = Nothing

Push(e) ==
    /\ SizeOf(heap) < Capacity
    /\ heap' = Pushed(heap, e)
    /\ UNCHANGED popped

PopEmpty ==
    /\ SizeOf(heap) = 0
    /\ popped' = Nothing
    /\ UNCHANGED heap

Pop ==
    /\ SizeOf(heap) > 0
    /\ popped' = heap[0]
    /\ heap' = Rest(heap)

HeapNext == PopEmpty \/ Pop \/ \E e \in Entries : Push(e)

HeapSpec == HeapInit /\ [][HeapNext]_heapVars

-----------------------------------------------------------------------------

PriorityField(e) == e.priority

Contents ==
    [e \in {heap[i] : i \in DOMAIN heap} |-> Cardinality({i \in DOMAIN heap : heap[i] = e})]

\* No entry is lost or duplicated and every pop returns a least one: the heap
\* implements the bag that RouteSearch takes its frontier to be.
Queue ==
    INSTANCE PriorityQueue
    WITH PriorityOf <- PriorityField,
         contents <- Contents

ImplementsQueue == Queue!Spec
=============================================================================
