------------------------------ MODULE StagedFlow ------------------------------
(***************************************************************************)
(* From a packed design to its bitstream, in the two ways the program      *)
(* offers (app): `fde impl` hands the design from stage to stage in memory *)
(* and `fde place`, `route`, `sta` and `bitgen` each load what the last    *)
(* one saved.  The two run side by side here, on equal placements and      *)
(* routes: whole is the design kept in memory, staged the one that goes    *)
(* through the physical XML after every stage.                             *)
(*                                                                         *)
(* Placing gives the k-th logic cluster the k-th of LogicSites and the     *)
(* k-th block RAM the k-th of RamSites, as the placer does in some order.  *)
(***************************************************************************)
EXTENDS PhysicalXml, SiteProgramming

CONSTANTS
  Projects,    \* packed designs, each with its env
  LogicSites, RamSites

VARIABLES
  phase,       \* "packed", "placed", "routed", "timed" or "programmed"
  saved,       \* whether the staged design has been saved since its last stage
  env,
  whole, staged,
  kept,        \* the device and the route pips that routing leaves in memory
  programs     \* the programming images, once there are some

vars == <<phase, saved, env, whole, staged, kept, programs>>

Init ==
  /\ \E p \in Projects : env = p.env /\ whole = p.design /\ staged = p.design
  /\ phase = "packed" /\ saved = FALSE
  /\ kept = None /\ programs = <<>>

(* The stages save with what they know: packing has no architecture, and   *)
(* sta no constraints.                                                     *)
WriterEnv ==
  CASE phase = "packed" -> [env EXCEPT !.pads = <<>>, !.pins = <<>>]
    [] phase \in {"placed", "routed"} -> env
    [] phase = "timed" -> [env EXCEPT !.pins = <<>>]

SaveAndLoad ==
  /\ phase # "programmed" /\ ~saved
  /\ staged' = Import(Export(staged, WriterEnv))
  /\ saved' = TRUE
  /\ UNCHANGED <<phase, env, whole, kept, programs>>

(* What the placer changes in the design. *)
Rank(d, k) == Cardinality({j \in 1..k : d.clusters[j].kind = d.clusters[k].kind})

Placed(d) ==
  [WithPorts(d, env) EXCEPT
     !.stage = "placed",
     !.clusters = [k \in DOMAIN @ |->
        [@[k] EXCEPT !.at = (IF d.clusters[k].kind = "ram" THEN RamSites ELSE LogicSites)[Rank(d, k)]]]]

Place ==
  /\ phase = "packed" /\ saved
  /\ phase' = "placed" /\ saved' = FALSE
  /\ whole' = Placed(whole) /\ staged' = Placed(staged)
  /\ UNCHANGED <<env, kept, programs>>

(* What the router changes in the design.  The whole flow hands the device *)
(* and the pips on; bitgen on its own lowers the loaded design again.      *)
RoutedDesign(d) == ApplyRouteImage(WithPorts(d, env), RouteImage(Lower(d, env)))

Route ==
  /\ phase = "placed" /\ saved
  /\ Lowers(whole) /\ Lowers(staged)
  /\ phase' = "routed" /\ saved' = FALSE
  /\ whole' = RoutedDesign(whole) /\ staged' = RoutedDesign(staged)
  /\ kept' = [device |-> Lower(whole, env), pips |-> ImagePips(RouteImage(Lower(whole, env)))]
  /\ UNCHANGED <<env, programs>>

(* sta changes nothing that is read again; its output may be passed on.    *)
Sta ==
  /\ phase = "routed" /\ saved
  /\ phase' = "timed" /\ saved' = FALSE
  /\ UNCHANGED <<env, whole, staged, kept, programs>>

Program ==
  /\ phase \in {"routed", "timed"} /\ saved
  /\ phase' = "programmed"
  /\ programs' = [whole  |-> ProgrammingImage(kept.device, kept.pips),
                  staged |-> Bitgen(staged, env)]
  /\ UNCHANGED <<saved, env, whole, staged, kept>>

Done == phase = "programmed" /\ UNCHANGED vars

Next == SaveAndLoad \/ Place \/ Route \/ Sta \/ Program \/ Done

Spec == Init /\ [][Next]_vars

-----------------------------------------------------------------------------
(***************************************************************************)
(* The stages one by one give the bitstream that the whole flow gives: the *)
(* same requests at the same sites, the same memories and the same pips,   *)
(* although every cell and most nets have been renamed on the way, slots   *)
(* have been chosen anew and local connections left out and put back.      *)
(***************************************************************************)
StagedProgramMatches ==
  phase = "programmed" =>
    /\ programs.staged.sites = programs.whole.sites
    /\ programs.staged.memories = programs.whole.memories
    /\ programs.staged.routes = programs.whole.routes

(***************************************************************************)
(* The three places that decide whether a flip-flop takes its data from    *)
(* the LUT beside it or from outside, and whether a LUT's output leaves    *)
(* the slice, decide alike: the router, by the wires it routes to and      *)
(* from, the XML writer, by its configs, and bit generation.               *)
(***************************************************************************)
Pips(dev) == UNION {r.pips : r \in RouteImage(dev)}

(* Of one site: its requests, its configs and the pips of its tile. *)
SiteDecidedAlike(z, requests, configs, pips) ==
  \A s \in 0..1 :
    /\ configs.ff[s] =>
         LET bypass == configs.data[s] = "0"
         IN /\ bypass <=> <<<<"data", s>>, "0">> \in requests
            /\ bypass <=> \E pip \in pips : pip.to = DataWire(z, s)
    /\ configs.lut[s] # Off =>
         LET leaves == configs.used[s] = "0"
         IN /\ leaves <=> <<<<"used", s>>, "0">> \in requests
            /\ leaves <=> \E pip \in pips : pip.from = LutOutWire(z, s)

DecidedAlike(d, dev, pips) ==
  \A k \in {k \in DOMAIN d.clusters : d.clusters[k].kind = "logic"} :
    LET at == d.clusters[k].at
    IN SiteDecidedAlike(at[3], SiteRequests(dev, <<at, "slice">>), SliceConfigs(d, k),
                        {pip \in pips : pip.at = <<at[1], at[2]>>})

MuxesAgree ==
  (phase # "packed") =>
    \A d \in {whole, staged} :
      Lowers(d) => \A dev \in {Lower(d, env)} : DecidedAlike(d, dev, Pips(dev))

(***************************************************************************)
(* No two cells of a slice claim one slot, in memory or loaded, and the    *)
(* bindings that bit generation reads off the routes name, for every cell  *)
(* they name, the slot it was routed in, so that assigning the slots again *)
(* from those bindings moves no cell.                                      *)
(***************************************************************************)
OwnSlots(d) ==
  \A k \in DOMAIN d.clusters : \A b, c \in ToSet(d.clusters[k].members) :
    (b # c /\ IsSliceCell(d, b) /\ Type(d, b) = Type(d, c)) => SlotIn(d, b) # SlotIn(d, c)

SlotsInferredTrue(d) ==
  \A c \in DOMAIN d.cells :
    (IsSliceCell(d, c) /\ ClusterOf(d, c) # None) =>
      /\ InferredBinding(d, c) # None =>
           InferredBinding(d, c) = [slot |-> SlotIn(d, c), kind |-> Type(d, c)]
      /\ SlotIn(InferBindings(d), c) = SlotIn(d, c)

SlotsKept ==
  /\ OwnSlots(whole) /\ OwnSlots(staged)
  /\ whole.stage = "routed" => SlotsInferredTrue(whole)
  /\ staged.stage = "routed" => SlotsInferredTrue(staged)

(***************************************************************************)
(* What is decided more than once is decided alike every time: the slot of *)
(* a cell (slice_assignment.rs, design.rs) and the muxes beside it.        *)
(***************************************************************************)
DecisionsAgree == MuxesAgree /\ SlotsKept

(***************************************************************************)
(* A flip-flop's data that does not come from the LUT paired with it is    *)
(* routed to the bypass pin of its slot, whichever way the design came.    *)
(***************************************************************************)
UnpairedDataRouted ==
  phase \in {"routed", "timed", "programmed"} =>
    LET dev == Lower(whole, env)
    IN \A c \in DOMAIN whole.cells :
         (IsSequential(whole, c) /\ ~LocalPath(dev, c)) =>
           \E pip \in DesignPips(staged) :
             /\ pip.at = <<dev.cells[c].at[1], dev.cells[c].at[2]>>
             /\ pip.to = DataWire(dev.cells[c].at[3], dev.cells[c].slot)
=============================================================================
