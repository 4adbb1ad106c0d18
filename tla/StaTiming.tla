----------------------------- MODULE StaTiming -----------------------------
(***************************************************************************)
(* The propagation of static timing analysis (stages/sta): arrival times   *)
(* forward, pass after pass over the cells until nothing changes or the    *)
(* pass limit tells of a combinational loop, then required times backward  *)
(* and the trace of the path behind an endpoint's arrival.                 *)
(*                                                                         *)
(* A source is a start point (an input port, a register or a block RAM     *)
(* output, a constant), which has a launch time, or a combinational cell.  *)
(* An input pin of a cell is the source that drives it.  Times are whole   *)
(* numbers: rounding is left out.                                          *)
(***************************************************************************)
EXTENDS Integers, FiniteSets, FiniteSetsExt, Sequences, SequencesExt

CONSTANTS
  CellCount,      \* cells are numbered in the order of the design
  Starts, Ends,
  Launch,         \* launch time of a start point
  EndDriver,      \* the source that drives an end point
  CellDelay,      \* of each cell
  NetDelay(_, _), \* from a source to a cell or end point
  Requirement,    \* required time of the constrained end points
  Designs         \* the functional inputs of the cells

Cells == 1 .. CellCount
Sources == Cells \union Starts
Nodes == Sources \union Ends

ASSUME TimingAssumption ==
  /\ CellCount \in Nat
  /\ IsFiniteSet(Starts) /\ IsFiniteSet(Ends)
  /\ Cells \intersect Starts = {} /\ Sources \intersect Ends = {}
  /\ Launch \in [Starts -> Nat] /\ EndDriver \in [Ends -> Sources]
  /\ CellDelay \in [Cells -> Nat \ {0}]
  /\ \A s \in Sources, n \in Cells \union Ends : NetDelay(s, n) \in Nat
  /\ DOMAIN Requirement \subseteq Ends /\ \A e \in DOMAIN Requirement : Requirement[e] \in Int
  /\ Designs \subseteq [Cells -> SUBSET Sources]

VARIABLES
  phase,     \* which propagation is under way
  inputs,    \* the design
  arrival,   \* arrival time of every node; Absent before it has one
  pass,      \* the pass over the cells
  cell,      \* next cell of the pass
  changed,   \* has this pass raised an arrival?
  required   \* required time of every node

vars == <<phase, inputs, arrival, pass, cell, changed, required>>

Absent == -1

Init ==
  /\ phase = "arrival"
  /\ inputs \in Designs
  /\ arrival = [n \in Nodes |-> IF n \in Starts THEN Launch[n] ELSE Absent]
  /\ pass = 1 /\ cell = 1 /\ changed = FALSE
  /\ required = [n \in Nodes |-> 0]

(***************************************************************************)
(* compute_arrivals.                                                       *)
(***************************************************************************)
(* An arrival that is not there yet counts as zero. *)
ArrivalOf(s) == IF arrival[s] = Absent THEN 0 ELSE arrival[s]
PinArrival(s, c) == ArrivalOf(s) + NetDelay(s, c)

(* Mutant: only one input of a cell is looked at. *)
OutputArrival_FirstPin(c) ==
  CellDelay[c] + IF inputs[c] = {} THEN 0
                 ELSE LET s == CHOOSE s \in inputs[c] : TRUE IN PinArrival(s, c)

OutputArrival(c) == Max({PinArrival(s, c) : s \in inputs[c]} \union {0}) + CellDelay[c]

(* An arrival is only ever raised. *)
RelaxCell ==
  /\ phase = "arrival" /\ cell <= CellCount
  /\ IF OutputArrival(cell) > arrival[cell]
     THEN arrival' = [arrival EXCEPT ![cell] = OutputArrival(cell)] /\ changed' = TRUE
     ELSE UNCHANGED <<arrival, changed>>
  /\ cell' = cell + 1
  /\ UNCHANGED <<phase, inputs, pass, required>>

(* Mutant: one pass too few before a loop is reported. *)
PassLimit_OnePerCell == Max({CellCount, 1})

PassLimit == Max({CellCount, 1}) * 2

EndPass ==
  /\ phase = "arrival" /\ cell > CellCount
  /\ changed /\ pass < PassLimit
  /\ pass' = pass + 1 /\ cell' = 1 /\ changed' = FALSE
  /\ UNCHANGED <<phase, inputs, arrival, required>>

CombinationalLoop ==
  /\ phase = "arrival" /\ cell > CellCount
  /\ changed /\ pass = PassLimit
  /\ phase' = "loop"
  /\ UNCHANGED <<inputs, arrival, pass, cell, changed, required>>

(* Mutant: the net delay to an end point is forgotten. *)
SinkArrivals_NoNetDelay ==
  [n \in Nodes |-> IF n \in Ends THEN ArrivalOf(EndDriver[n]) ELSE arrival[n]]

(* The sinks get their arrivals.  Every node starts with its requirement   *)
(* or, without one, with the worst arrival of the design.                  *)
SinkArrivals ==
  [n \in Nodes |-> IF n \in Ends THEN ArrivalOf(EndDriver[n]) + NetDelay(EndDriver[n], n)
                   ELSE arrival[n]]

Seed(arrivals) ==
  [n \in Nodes |-> IF n \in DOMAIN Requirement THEN Requirement[n]
                   ELSE Max({arrivals[m] : m \in Nodes})]

Settle ==
  /\ phase = "arrival" /\ cell > CellCount /\ ~changed
  /\ arrival' = SinkArrivals
  /\ required' = Seed(SinkArrivals)
  /\ phase' = "required"
  /\ UNCHANGED <<inputs, pass, cell, changed>>

(***************************************************************************)
(* compute_required_times: edges are relaxed until none changes anything.  *)
(***************************************************************************)
Edges == {e \in Sources \X Cells : e[1] \in inputs[e[2]]}
           \union {<<EndDriver[e], e>> : e \in Ends}
EdgeDelay(e) == NetDelay(e[1], e[2]) + IF e[2] \in Cells THEN CellDelay[e[2]] ELSE 0

Candidate(e) == required[e[2]] - EdgeDelay(e)

(* Mutant: a required time may rise again. *)
RelaxEdge_Assign ==
  /\ phase = "required"
  /\ \E e \in Edges :
       /\ Candidate(e) # required[e[1]]
       /\ required' = [required EXCEPT ![e[1]] = Candidate(e)]
  /\ UNCHANGED <<phase, inputs, arrival, pass, cell, changed>>

RelaxEdge ==
  /\ phase = "required"
  /\ \E e \in Edges :
       /\ Candidate(e) < required[e[1]]
       /\ required' = [required EXCEPT ![e[1]] = Candidate(e)]
  /\ UNCHANGED <<phase, inputs, arrival, pass, cell, changed>>

Report ==
  /\ phase = "required"
  /\ \A e \in Edges : Candidate(e) >= required[e[1]]
  /\ phase' = "done"
  /\ UNCHANGED <<inputs, arrival, pass, cell, changed, required>>

Stopped == phase \in {"loop", "done"} /\ UNCHANGED vars

Next == RelaxCell \/ EndPass \/ CombinationalLoop \/ Settle \/ RelaxEdge \/ Report \/ Stopped

(* The loops run to their end and wait for nothing. *)
Spec == Init /\ [][Next]_vars /\ WF_vars(Next)

(***************************************************************************)
(* trace_path: from an end point back through the latest input of every    *)
(* cell until a start point, a cell without inputs or one seen before, as  *)
(* the sequence of nodes in the order they are met.                        *)
(***************************************************************************)
LatestInput(c) == CHOOSE s \in inputs[c] : \A t \in inputs[c] : PinArrival(s, c) >= PinArrival(t, c)

TraceEnds(path) ==
  \/ Last(path) \in Starts \/ inputs[Last(path)] = {}
  \/ Contains(Front(path), Last(path))

Traces(e) ==
  LET back[k \in 0 .. CellCount] ==
        IF k = 0 THEN <<e, EndDriver[e]>>
        ELSE IF TraceEnds(back[k - 1]) THEN back[k - 1]
        ELSE Append(back[k - 1], LatestInput(Last(back[k - 1])))
  IN  back

TracePath(e) == Traces(e)[CellCount]

(* What a list of times adds up to, entry by entry. *)
RunningSums(times) ==
  LET upto[k \in DOMAIN times] == times[k] + IF k = 1 THEN 0 ELSE upto[k - 1] IN upto

SumOf(times) == RunningSums(times)[Len(times)]

(* The increments of a trace: every arc, and the start's arrival. *)
Increments(path) ==
  [k \in 1 .. Len(path) |-> IF k = Len(path) THEN arrival[path[k]]
                            ELSE EdgeDelay(<<path[k + 1], path[k]>>)]

TraceDelay(path) == SumOf(Increments(path))

(***************************************************************************)
(* Properties.                                                             *)
(***************************************************************************)
(* The paths of distinct cells that end in c, as sequences. *)
CellPaths(c) ==
  {p \in UNION {[1 .. n -> Cells] : n \in Cells} :
     /\ p[Len(p)] = c
     /\ \A i, j \in 1 .. Len(p) : i # j => p[i] # p[j]
     /\ \A i \in 1 .. Len(p) - 1 : p[i] \in inputs[p[i + 1]]}

(* What a path adds up to, launched at the latest start into its head. *)
LaunchInto(c) ==
  Max({0} \union {Launch[s] + NetDelay(s, c) : s \in inputs[c] \intersect Starts})

PathTimes(p) ==
  [k \in 1 .. Len(p) |->
     CellDelay[p[k]] + IF k = 1 THEN LaunchInto(p[1]) ELSE NetDelay(p[k - 1], p[k])]

PathDelay(p) == SumOf(PathTimes(p))

Longest(c) == Max({PathDelay(p) : p \in CellPaths(c)})

(* The design has a cycle of cells. *)
Cyclic == \E c \in Cells : \E p \in CellPaths(c) : c \in inputs[p[1]]

(* In a design without combinational loops the arrival of a cell settles   *)
(* at its longest path and never exceeds it on the way.                    *)
ArrivalIsLongestPath ==
  ~Cyclic => \A c \in Cells :
    /\ arrival[c] <= Longest(c)
    /\ phase \in {"required", "done"} => arrival[c] = Longest(c)

(* The pass limit is reached in designs with a combinational loop and in   *)
(* no others, in whatever order the cells are numbered.                    *)
LoopsReported ==
  /\ phase = "loop" => Cyclic
  /\ phase \in {"required", "done"} => ~Cyclic

(* The forward passes settle exactly on the designs that can settle, and   *)
(* there on the longest paths (compute_arrivals).                          *)
PassesSettle == ArrivalIsLongestPath /\ LoopsReported

(* The points of a traced path add up to the arrival reported for its end  *)
(* point, and the trace goes back to where the path is launched.           *)
TraceReconciles ==
  phase = "done" => \A e \in Ends :
    /\ TraceDelay(TracePath(e)) = arrival[e]
    /\ LET start == Last(TracePath(e)) IN start \in Starts \/ inputs[start] = {}

(* The analysis ends. *)
Termination == <>(phase \in {"loop", "done"})
=============================================================================
