---------------------------- MODULE MCPackAndMap ----------------------------
(***************************************************************************)
(* Technology mapping and packing, each by itself, in one run: the         *)
(* netlists of MCMapRewrite; and a block RAM, three flip-flops, four LUTs, *)
(* a buffer and a constant to pack.                                        *)
(***************************************************************************)
EXTENDS MCMapRewrite, Pack

CONSTANTS k1, k2

ASSUME CellsInOrder == PackAssumption

MapIdle ==
  /\ pc = "idle" /\ pending = {} /\ ports = {} /\ netEnds = <<>>
  /\ cells = <<>> /\ nets = <<>> /\ imported = <<>>

PackIdle ==
  /\ phase = "idle" /\ design = (CHOOSE d \in Designs : TRUE)
  /\ lanes = {} /\ clusters = {} /\ open = {}

PartsInit == (Init /\ PackIdle) \/ (MapIdle /\ PackInit)

Stopped == pc \in {"done", "failed"} /\ UNCHANGED <<vars, pack_vars>>

PartsNext ==
  \/ phase = "idle" /\ Next /\ UNCHANGED pack_vars
  \/ pc = "idle" /\ PackNext /\ UNCHANGED vars
  \/ Stopped

PartsSpec == PartsInit /\ [][PartsNext]_<<vars, pack_vars>>

(* Mapping loses neither function nor connections (see MapRewrite). *)
DesignKept == phase = "idle" => MappingSound

MCKind == <<"bram", "ff", "ff", "ff", "lut", "lut", "lut", "lut", "other", "constant">>

(* Shared drivers, two control sets, capacities of two and four, and nets between LUTs and flip-flops. *)
MCDesigns ==
  [driver  : {d \in [2 .. 4 -> {5, 6, 9, None}] : d[2] = 5 /\ d[3] \in {5, 6}},
   control : {k \in [2 .. 4 -> ControlSets] : k[2] = k[4]},
   nets    : {{}, {{2, 3}, {5, 7}}, {{1, 3, 4}, {6, 7, 8}, {2, 10}}},
   capacity : {1, 4}]
=============================================================================
