------------------------- MODULE TimingConstraints -------------------------
(***************************************************************************)
(* What timing is held against: the clocks of the constraint file and of   *)
(* the SDC file, merged (infra/constraints and app/support.rs), compiled   *)
(* into a requirement for every end point (stages/sta/constraints.rs), and *)
(* the status the analysis reports (stages/sta/graph.rs).                  *)
(*                                                                         *)
(* Pins and ports are names.  A clock is [name, port, period], an I/O      *)
(* delay [port, clock, delay], an uncertainty [clock, setup].  Times are   *)
(* whole numbers.  An end point is reached from one start, over the delay  *)
(* that StaTiming computes for longer paths.                               *)
(***************************************************************************)
EXTENDS Integers, Sequences, SequencesExt, FiniteSets

CONSTANTS
  TimedProjects,  \* designs with their libraries and constraint files
  NoNet           \* the clock of a pin that is not connected

VARIABLES
  project,
  stage,                  \* "files", "validate", "cells", "outputs", "judge" or where it ended
  clocks,                 \* of both files
  next_cell,
  register_inputs,        \* capture pin -> setup time
  endpoint_requirements,  \* end point -> required time
  used_clocks,
  constraint_status

constraintVars == <<project, stage, clocks, next_cell, register_inputs,
                    endpoint_requirements, used_clocks, constraint_status>>

\* Ports, cells, nets and pins have names of their own, and a pin belongs to one
\* clock of one cell.
ASSUME TimedAssumption == \A P \in TimedProjects :
  /\ \A clocks_of \in {P.xml, P.sdc.clocks} :
       clocks_of \in Seq([name : STRING, port : STRING, period : Int])
  /\ \A delays \in {P.sdc.inputs, P.sdc.outputs} :
       delays \in Seq([port : STRING, clock : STRING, delay : Int])
  /\ P.order \in Seq(DOMAIN P.cells)
  /\ IsFiniteSet(DOMAIN P.ports) /\ IsFiniteSet(DOMAIN P.drivers)
  /\ DOMAIN P.ports \intersect DOMAIN P.cells = {} /\ NoNet \notin DOMAIN P.ports
  /\ \A x, y \in DOMAIN P.cells : \A d \in P.cells[x].domains, e \in P.cells[y].domains :
       /\ IsFiniteSet(d.captures) /\ d.captures \intersect DOMAIN P.ports = {}
       /\ d.captures \intersect e.captures = {} \/ <<x, d>> = <<y, e>>
  /\ \A x \in DOMAIN P.cells : IsFiniteSet(P.cells[x].domains)

ConstraintsInit ==
  /\ project \in TimedProjects
  /\ stage = "files" /\ clocks = <<>> /\ next_cell = 1
  /\ register_inputs = <<>> /\ endpoint_requirements = <<>>
  /\ used_clocks = {} /\ constraint_status = "NOT ANALYZED"

compiled == <<clocks, next_cell, register_inputs, endpoint_requirements, used_clocks, constraint_status>>

Refused == stage' = "refused" /\ UNCHANGED <<project, compiled>>

-----------------------------------------------------------------------------
(* load_timing_constraints.                                                *)
Names(C) == {c.name : c \in ToSet(C)}

(* validate_clock_constraints. *)
ValidClocks(C) ==
  /\ \A c \in ToSet(C) : c.period > 0
  /\ Cardinality(Names(C)) = Len(C)
  /\ Cardinality({c.port : c \in ToSet(C)}) = Len(C)

(* validate_sdc_constraints: an SDC file knows its own clocks only. *)
ValidSdc(sdc) ==
  /\ \A d \in ToSet(sdc.inputs \o sdc.outputs) : d.clock \in Names(sdc.clocks)
  /\ \A u \in ToSet(sdc.uncertainties) : u.clock \in Names(sdc.clocks)
  /\ Cardinality({u.clock : u \in ToSet(sdc.uncertainties)}) = Len(sdc.uncertainties)

(* Mutant: what both files hold together is not validated again. *)
Mergeable_Apart(P) == ValidClocks(P.xml) /\ ValidClocks(P.sdc.clocks) /\ ValidSdc(P.sdc)

Mergeable(P) ==
  /\ ValidClocks(P.xml) /\ ValidClocks(P.sdc.clocks) /\ ValidSdc(P.sdc)
  /\ ValidClocks(P.xml \o P.sdc.clocks)

LoadFiles ==
  /\ stage = "files"
  /\ \/ ~Mergeable(project) /\ Refused
     \/ /\ Mergeable(project)
        /\ clocks' = project.xml \o project.sdc.clocks
        /\ stage' = "validate"
        /\ UNCHANGED <<project, next_cell, register_inputs, endpoint_requirements,
                       used_clocks, constraint_status>>

-----------------------------------------------------------------------------
(* TimingRequirements::compile.                                            *)
IsInput(p) == p \in DOMAIN project.ports /\ project.ports[p] \in {"input", "inout"}
IsOutput(p) == p \in DOMAIN project.ports /\ project.ports[p] \in {"output", "inout"}

(* validate_clock_ports, validate_io_delays and compile_clock_uncertainties. *)
ValidPorts ==
  LET sdc == project.sdc
  IN /\ \A c \in ToSet(clocks) : IsInput(c.port)
     /\ \A d \in ToSet(sdc.inputs) : d.clock \in Names(clocks) /\ IsInput(d.port)
     /\ \A d \in ToSet(sdc.outputs) : d.clock \in Names(clocks) /\ IsOutput(d.port)
     /\ Cardinality({d.port : d \in ToSet(sdc.inputs)}) = Len(sdc.inputs)
     /\ Cardinality({d.port : d \in ToSet(sdc.outputs)}) = Len(sdc.outputs)
     /\ \A u \in ToSet(sdc.uncertainties) : u.clock \in Names(clocks)

Validate ==
  /\ stage = "validate"
  /\ \/ ~ValidPorts /\ Refused
     \/ ValidPorts /\ stage' = "cells" /\ UNCHANGED <<project, compiled>>

(* sync_domains: a flip-flop, or the connected ports of a block RAM.       *)
SyncDomains(c) ==
  IF c.kind = "block_ram" THEN {d \in c.domains : d.clock # NoNet} ELSE c.domains

SetupOf(c) == IF c.kind = "block_ram" THEN project.ram_setup ELSE project.setup

(* Mutant: any cell is looked through. *)
Transparent_Any(c) == TRUE

Transparent(c) == c.kind = "buffer"

(* source_port_for_net: back through buffers, giving up in a circle.       *)
DrivenNets == DOMAIN project.drivers

back[n \in DrivenNets] ==
  LET by == project.drivers[n]
  IN [seen \in SUBSET DrivenNets |->
        IF n \in seen THEN NoNet
        ELSE IF by \in DOMAIN project.ports THEN by
        ELSE IF /\ by \in DOMAIN project.cells /\ Transparent(project.cells[by])
                /\ project.cells[by].input \in DrivenNets
             THEN back[project.cells[by].input][seen \union {n}]
        ELSE NoNet]

SourcePort(net) == IF net \in DrivenNets THEN back[net][{}] ELSE NoNet

ClocksAt(d) == {c \in ToSet(clocks) : c.port = SourcePort(d.clock)}

UncertaintyOf(name) ==
  IF \E u \in ToSet(project.sdc.uncertainties) : u.clock = name
  THEN (CHOOSE u \in ToSet(project.sdc.uncertainties) : u.clock = name).setup ELSE 0

(* Mutant: uncertainty is taken off for outputs only. *)
CaptureBy_NoUncertainty(c, setup) == c.period - setup

CaptureBy(c, setup) == c.period - setup - UncertaintyOf(c.name)

Captured(c) == UNION {d.captures : d \in SyncDomains(c)}

\* Inserting into a map: f, and g where f has no entry.
Over(f, g) == [x \in DOMAIN f \union DOMAIN g |-> IF x \in DOMAIN f THEN f[x] ELSE g[x]]

DomainOf(c, pin) == CHOOSE d \in SyncDomains(c) : pin \in d.captures

(* One cell of the loop over the synchronous cells of the design. *)
CompileCell ==
  /\ stage = "cells" /\ next_cell <= Len(project.order)
  /\ LET c == project.cells[project.order[next_cell]]
         clocked == clocks # <<>>
         lost == c.kind = "latch" \/ (clocked /\ \E d \in SyncDomains(c) : ClocksAt(d) = {})
     IN \/ lost /\ Refused
        \/ /\ ~lost
           /\ register_inputs' = Over([p \in Captured(c) |-> SetupOf(c)], register_inputs)
           /\ endpoint_requirements' =
                IF ~clocked THEN endpoint_requirements
                ELSE Over([p \in Captured(c) |->
                             CaptureBy(CHOOSE k \in ClocksAt(DomainOf(c, p)) : TRUE, SetupOf(c))],
                          endpoint_requirements)
           /\ used_clocks' = used_clocks
                \union UNION {{k.name : k \in ClocksAt(d)} : d \in SyncDomains(c)}
           /\ next_cell' = next_cell + 1
           /\ UNCHANGED <<project, stage, clocks, constraint_status>>

DelayClocks == {d.clock : d \in ToSet(project.sdc.inputs \o project.sdc.outputs)}

(* A clock that nothing uses is refused; then the outputs get their times. *)
ConstrainOutputs ==
  /\ stage = "cells" /\ next_cell > Len(project.order)
  /\ used_clocks' = used_clocks \union DelayClocks
  /\ \/ /\ \E c \in ToSet(clocks) : c.name \notin used_clocks'
        /\ stage' = "refused"
        /\ UNCHANGED endpoint_requirements
     \/ /\ \A c \in ToSet(clocks) : c.name \in used_clocks'
        /\ stage' = "judge"
        /\ LET delay(p) == CHOOSE d \in ToSet(project.sdc.outputs) : d.port = p
               clock(p) == CHOOSE c \in ToSet(clocks) : c.name = delay(p).clock
           IN endpoint_requirements' =
                Over([p \in {d.port : d \in ToSet(project.sdc.outputs)} |->
                        clock(p).period - delay(p).delay - UncertaintyOf(clock(p).name)],
                     endpoint_requirements)
  /\ UNCHANGED <<project, clocks, next_cell, register_inputs, constraint_status>>

-----------------------------------------------------------------------------
(* timing_summary.                                                         *)
InputDelay(p) ==
  IF \E d \in ToSet(project.sdc.inputs) : d.port = p
  THEN (CHOOSE d \in ToSet(project.sdc.inputs) : d.port = p).delay ELSE 0

ArrivalAt(e) ==
  LET from == project.feeds[e].start
  IN project.feeds[e].delay
       + IF from \in DOMAIN project.ports THEN InputDelay(from) ELSE project.launch[from]

Slacks ==
  [e \in DOMAIN endpoint_requirements \intersect DOMAIN project.feeds |->
     endpoint_requirements[e] - ArrivalAt(e)]

ClockPorts == {c.port : c \in ToSet(clocks)}

(* Mutant: ports without a delay are not asked for. *)
Incomplete_Registers ==
  Cardinality(DOMAIN register_inputs \intersect DOMAIN endpoint_requirements)
    < Cardinality(DOMAIN register_inputs)

(* Coverage compares numbers of ports, not ports. *)
Incomplete ==
  \/ Cardinality(DOMAIN register_inputs \intersect DOMAIN endpoint_requirements)
       < Cardinality(DOMAIN register_inputs)
  \/ Len(project.sdc.inputs)
       < Cardinality({p \in DOMAIN project.ports : IsInput(p) /\ p \notin ClockPorts})
  \/ Len(project.sdc.outputs) < Cardinality({p \in DOMAIN project.ports : IsOutput(p)})

(* Block RAM ports that capture or launch without times of the library.    *)
Unmodeled ==
  ~project.ram_timing /\ \E i \in DOMAIN project.order :
    LET c == project.cells[project.order[i]]
    IN c.kind = "block_ram" /\ \E d \in SyncDomains(c) : d.captures \union d.launches # {}

Judge ==
  /\ stage = "judge"
  /\ constraint_status' =
       CASE clocks = <<>> -> "UNCONSTRAINED"
         [] clocks # <<>> /\ \E e \in DOMAIN Slacks : Slacks[e] < 0 -> "VIOLATED"
         [] OTHER -> IF Incomplete \/ Unmodeled THEN "PARTIALLY CONSTRAINED" ELSE "MET"
  /\ stage' = "judged"
  /\ UNCHANGED <<project, clocks, next_cell, register_inputs, endpoint_requirements, used_clocks>>

Concluded == stage \in {"refused", "judged"} /\ UNCHANGED constraintVars

ConstraintsNext ==
  LoadFiles \/ Validate \/ CompileCell \/ ConstrainOutputs \/ Judge \/ Concluded

ConstraintsSpec == ConstraintsInit /\ [][ConstraintsNext]_constraintVars

-----------------------------------------------------------------------------
(* Properties.                                                             *)
AllClocks == ToSet(project.xml) \union ToSet(project.sdc.clocks)

(* Port p reaches a net over buffers and nothing else. *)
Reaches(p, net) ==
  \E k \in 1..Cardinality(DOMAIN project.drivers) :
    \E way \in [1..k -> DOMAIN project.drivers] :
      /\ project.drivers[way[1]] = p /\ way[k] = net
      /\ \A i \in 2..k :
           LET by == project.drivers[way[i]]
           IN by \in DOMAIN project.cells /\ project.cells[by].kind = "buffer"
                /\ project.cells[by].input = way[i - 1]

Synchronous == {project.cells[project.order[i]] : i \in DOMAIN project.order}

(* The one clock that reaches a domain, when one does, and what it demands. *)
Demands(c, d) ==
  {k.period - SetupOf(c) - UncertaintyOf(k.name) : k \in {k \in AllClocks : Reaches(k.port, d.clock)}}

(* Every constraint of an accepted project is applied and nothing else is: *)
(* whichever file a clock is in, every connected capture pin is held to    *)
(* exactly the clock that reaches it over buffers, every delayed output to *)
(* its clock, and no clock is left without effect.                         *)
RequirementsTrue ==
  stage = "judged" =>
    /\ \A c \in Synchronous : \A d \in SyncDomains(c) : \A p \in d.captures :
         IF AllClocks = {} THEN p \notin DOMAIN endpoint_requirements
         ELSE p \in DOMAIN endpoint_requirements /\ {endpoint_requirements[p]} = Demands(c, d)
    /\ \A o \in ToSet(project.sdc.outputs) :
         {endpoint_requirements[o.port]} =
           {k.period - o.delay - UncertaintyOf(k.name) : k \in {k \in AllClocks : k.name = o.clock}}
    /\ \A k \in AllClocks :
         \/ k.name \in DelayClocks
         \/ \E c \in Synchronous : \E d \in SyncDomains(c) : Reaches(k.port, d.clock)

Delayed == {d.port : d \in ToSet(project.sdc.inputs)}

DataInputs == {p \in DOMAIN project.ports : IsInput(p)} \ {c.port : c \in AllClocks}

Met == constraint_status = "MET"

(* The status is what docs/reporting.md makes of it, as long as delays are *)
(* given for data inputs only: MET means that every end point and every    *)
(* data port is constrained and none late, VIOLATED that one is late, and  *)
(* RAM without times of the library is never signed off.                   *)
StatusTrue ==
  stage = "judged" =>
    LET late == \E e \in DOMAIN Slacks : Slacks[e] < 0
    IN /\ constraint_status = "UNCONSTRAINED" <=> AllClocks = {}
       /\ constraint_status = "VIOLATED" <=> late /\ AllClocks # {}
       /\ Met => /\ ~Unmodeled
                 /\ \A c \in Synchronous : Captured(c) \subseteq DOMAIN endpoint_requirements
                 /\ \A p \in DOMAIN project.ports : IsOutput(p) => p \in DOMAIN endpoint_requirements
                 /\ Delayed \subseteq DataInputs => Delayed = DataInputs

(* docs/reporting.md:84: MET means that every non-clock primary input is   *)
(* constrained (README.md:193: missing I/O delays are never a timing pass).*)
MetIsComplete == Met => DataInputs \subseteq Delayed
=============================================================================
