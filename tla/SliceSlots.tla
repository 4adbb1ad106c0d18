----------------------------- MODULE SliceSlots -----------------------------
(***************************************************************************)
(* The design between packing and bitstream generation (core/ir) and the   *)
(* slot, 0 or 1, a cell takes in its slice.  Four places choose a slot:    *)
(* the lowering to device cells and the physical XML assign slots to the   *)
(* members of a cluster (core/ir/slice_assignment.rs), from the bindings   *)
(* of the cells when every LUT and flip-flop has one and by the order of   *)
(* the members otherwise; the XML import binds cells to the slots the      *)
(* instances name; bit generation infers bindings from the routed wires    *)
(* (core/ir/design.rs).                                                    *)
(*                                                                         *)
(* A design d is a record:                                                 *)
(*   stage     "packed", "placed" or "routed"                              *)
(*   ports     port -> its direction, package pin and site position        *)
(*   cells     cell -> its type and the attributes of that type            *)
(*   clusters  a sequence of [kind, members, at]                           *)
(*   nets      a sequence of [name, driver, sinks, pips]                   *)
(*   bound     cell -> its slice binding [slot, kind] or None              *)
(* Endpoints are <<"cell", c, pin>> and <<"port", p>>; pins, wires and the *)
(* names of cells and nets are tuples.  The pins of a cell are not kept    *)
(* twice: they are read off the nets (attach_cell_pins keeps them equal).  *)
(***************************************************************************)
EXTENDS Pins, FiniteSets, SequencesExt, FiniteSetsExt, Functions

Type(d, c) == d.cells[c].type
IsLut(d, c) == Type(d, c) = "lut"
IsSequential(d, c) == Type(d, c) = "ff"
IsCell(endpoint) == endpoint # None /\ endpoint[1] = "cell"

SinksOf(net) == ToSet(net.sinks)

(* The elements of a set one after the other, in any order and in order. *)
Listed(S) == FoldSet(LAMBDA x, seq : Append(seq, x), <<>>, S)
Ascending(S) == SortSeq(Listed(S), <)

(* The first net of the design for which P holds, None if there is none. *)
FirstNet(d, P(_)) ==
  LET found == {i \in DOMAIN d.nets : P(d.nets[i])}
  IN IF found = {} THEN None ELSE d.nets[Min(found)]

NetIntoPin(d, c, pin) ==
  FirstNet(d, LAMBDA net : <<"cell", c, pin>> \in SinksOf(net))

Drives(net, c) == IsCell(net.driver) /\ net.driver[2] = c

(* cluster_for_cell: None for the constant sources, which no slice holds. *)
ClusterOf(d, c) ==
  LET of == {k \in DOMAIN d.clusters : c \in ToSet(d.clusters[k].members)}
  IN IF of = {} THEN None ELSE Max(of)

(* lut_feeding_ff: the first LUT of the members that drives ff's data net. *)
LutFeeding(d, members, ff) ==
  LET net  == NetIntoPin(d, ff, <<"D">>)
      luts == SelectSeq(members, LAMBDA c : IsLut(d, c) /\ net # None /\ Drives(net, c))
  IN IF luts = <<>> THEN None ELSE luts[1]

(***************************************************************************)
(* assign_cluster_slice_cells: a function from the members to slots.       *)
(***************************************************************************)
IsSliceCell(d, c) == IsLut(d, c) \/ IsSequential(d, c)

(* Every LUT and flip-flop of the cluster has a binding of its own kind. *)
Authoritative(d, members) ==
  \A c \in ToSet(members) :
    IsSliceCell(d, c) => d.bound[c] # None /\ d.bound[c].kind = Type(d, c)

(* authoritative_cluster_assignments: the bindings; cells of other types   *)
(* after the last bound slot, in member order.                             *)
BoundSlots(d, members) ==
  LET core   == {c \in ToSet(members) : IsSliceCell(d, c)}
      others == SelectSeq(members, LAMBDA c : c \notin core)
      next   == IF core = {} THEN 0 ELSE Max({d.bound[c].slot : c \in core}) + 1
  IN [c \in ToSet(members) |->
        IF c \in core THEN d.bound[c].slot
        ELSE next + (CHOOSE i \in DOMAIN others : others[i] = c) - 1]

(* Mutant: the LUT behind a flip-flop does not take its slot. *)
OrderedSlots_Unpaired(d, members) ==
  LET ffs  == SelectSeq(members, LAMBDA c : IsSequential(d, c))
      rest == SelectSeq(members, LAMBDA c : ~IsSequential(d, c))
  IN [c \in ToSet(members) |->
        IF c \in ToSet(ffs) THEN (CHOOSE i \in DOMAIN ffs : ffs[i] = c) - 1
        ELSE Len(ffs) + (CHOOSE i \in DOMAIN rest : rest[i] = c) - 1]

(* heuristic_cluster_assignments: the flip-flops in member order, each     *)
(* with the LUT behind it unless an earlier one took that; then the rest.  *)
OrderedSlots(d, members) ==
  LET ffs   == SelectSeq(members, LAMBDA c : IsSequential(d, c))
      luts  == [i \in DOMAIN ffs |-> LutFeeding(d, members, ffs[i])]
      taken == ToSet(ffs) \union ToSet(luts)
      rest  == SelectSeq(members, LAMBDA c : c \notin taken)
  IN [c \in ToSet(members) |->
        IF c \in taken
        THEN Min({i \in DOMAIN ffs : c \in {ffs[i], luts[i]}}) - 1
        ELSE Len(ffs) + (CHOOSE i \in DOMAIN rest : rest[i] = c) - 1]

Slots(d, k) ==
  LET members == d.clusters[k].members
  IN IF Authoritative(d, members) THEN BoundSlots(d, members) ELSE OrderedSlots(d, members)

SiteSlot(slot) == Min({slot, 1})

SlotIn(d, c) == SiteSlot(Slots(d, ClusterOf(d, c))[c])

(***************************************************************************)
(* infer_slice_bindings_from_route_pips.                                   *)
(***************************************************************************)
(* parse_slice_output_wire: the wires that leave a slice; wires of a slice *)
(* are <<"slice", site, pin ...>>.                                         *)
OutputWires == [X  |-> [slot |-> 0, kind |-> "lut"], Y  |-> [slot |-> 1, kind |-> "lut"],
                XQ |-> [slot |-> 0, kind |-> "ff"],  YQ |-> [slot |-> 1, kind |-> "ff"]]

IsOutputWire(wire) == wire[1] = "slice" /\ Len(wire) = 3 /\ wire[3] \in DOMAIN OutputWires

(* physical_net_binding: routes pass through no slice, so that the wires   *)
(* that leave one all leave the driver's.                                  *)
WireBinding(net) ==
  LET wires == {pip.from : pip \in net.pips}
      leaving == {w \in wires : IsOutputWire(w)}
  IN IF leaving = {} THEN None ELSE OutputWires[(CHOOSE w \in leaving : TRUE)[3]]

(* The bindings of the drivers of routed nets; the last net of a cell wins. *)
RoutedBinding(d, c) ==
  LET nets == {i \in DOMAIN d.nets : Drives(d.nets[i], c) /\ WireBinding(d.nets[i]) # None}
  IN IF nets = {} THEN None ELSE WireBinding(d.nets[Max(nets)])

(* propagate_slice_pair_bindings: an unbound LUT takes the slot of the     *)
(* first bound flip-flop of its cluster it feeds.                          *)
InferredBinding(d, c) ==
  LET fed(k) == SelectSeq(d.clusters[k].members,
                  LAMBDA ff : /\ IsSequential(d, ff) /\ RoutedBinding(d, ff) # None
                              /\ LutFeeding(d, d.clusters[k].members, ff) = c)
      k == ClusterOf(d, c)
  IN CASE RoutedBinding(d, c) # None -> RoutedBinding(d, c)
       [] RoutedBinding(d, c) = None /\ IsLut(d, c) /\ k # None /\ fed(k) # <<>> ->
            [slot |-> RoutedBinding(d, fed(k)[1]).slot, kind |-> "lut"]
       [] OTHER -> None

InferBindings(d) == [d EXCEPT !.bound = [c \in DOMAIN d.cells |-> InferredBinding(d, c)]]
=============================================================================
