--------------------------- MODULE DeviceLowering ---------------------------
(***************************************************************************)
(* The way from the placed design to the device: the pads of the ports     *)
(* (infra/constraints), the cells with their sites and slots and the nets  *)
(* with the synthetic pads and clock buffers (stages/route/lowering), the  *)
(* wires the endpoints stand for (stages/route/mapping), and back: the     *)
(* pips of the routed wires become those of the nets (stages/route/api.rs) *)
(* and the nets' pips the route image (stages/route/image.rs).             *)
(*                                                                         *)
(* A device is a record [cells, nets]: cells, by name, with their site and *)
(* slot; nets [name, origin, driver, sinks], endpoints as in a design.     *)
(* env.pads are the chip's pads by pin, env.fallback the pad a port takes  *)
(* when nothing places it.                                                 *)
(***************************************************************************)
EXTENDS SliceSlots

(***************************************************************************)
(* apply_constraints and ensure_port_positions.                            *)
(***************************************************************************)
PlacedPort(d, env, p) ==
  LET port   == d.ports[p]
      At(pin) == [dir |-> port.dir, pin |-> pin, at |-> env.pads[pin].at]
      on     == {pin \in DOMAIN env.pads : env.pads[pin].at = port.at}
  IN CASE p \in DOMAIN env.pins -> At(env.pins[p])
       [] p \notin DOMAIN env.pins /\ port.pin \in DOMAIN env.pads -> At(port.pin)
       [] p \notin DOMAIN env.pins /\ port.pin \notin DOMAIN env.pads /\ port.at # None ->
            IF on = {} THEN port ELSE At(CHOOSE pin \in on : TRUE)
       [] OTHER -> At(env.fallback[p])

WithPorts(d, env) == [d EXCEPT !.ports = [p \in DOMAIN @ |-> PlacedPort(d, env, p)]]

(***************************************************************************)
(* lower_design, for a design whose ports are placed.                      *)
(***************************************************************************)
Iob(p)  == <<"iob", p>>
Gclk(p) == <<"gclk", p>>
InputLike(d, p) == d.ports[p].dir \in {"in", "inout"}
PadKind(d, env, p) == env.pads[d.ports[p].pin].kind

(* is_clock_port: by the names of a flip-flop's clock pins, whatever the   *)
(* cell is.                                                                *)
IsClockPort(d, p) ==
  \E i \in DOMAIN d.nets : d.nets[i].driver = <<"port", p>> /\
    \E s \in SinksOf(d.nets[i]) : IsCell(s) /\ s[3] \in ClockPins

HasBuffer(d, env, p) == InputLike(d, p) /\ IsClockPort(d, p) /\ PadKind(d, env, p) = "gclkiob"

(* lower_original_cells: the sites and slots of the members of a cluster.  *)
LoweredCell(d, c) ==
  LET k == ClusterOf(d, c)
  IN CASE k = None -> [site |-> "const", at |-> <<0, 0, 0>>, slot |-> 0, of |-> d.cells[c]]
       [] k # None /\ d.clusters[k].kind = "logic" ->
            [site |-> "slice", at |-> d.clusters[k].at, slot |-> SlotIn(d, c), of |-> d.cells[c]]
       [] OTHER -> [site |-> "bram", at |-> d.clusters[k].at, slot |-> 0, of |-> d.cells[c]]

PortCell(d, site, p) == [site |-> site, at |-> d.ports[p].at, slot |-> 0, of |-> [type |-> site]]

(* An output pad is an IOB whatever its pad kind: only the cell's type     *)
(* says so, the site stays that of the pad.                                *)
LoweredCells(d, env) ==
  LET iobs  == {Iob(p) : p \in DOMAIN d.ports}
      gclks == {Gclk(p) : p \in {q \in DOMAIN d.ports : HasBuffer(d, env, q)}}
  IN [c \in DOMAIN d.cells \union iobs \union gclks |->
        CASE c \in DOMAIN d.cells -> LoweredCell(d, c)
          [] c \in iobs  -> PortCell(d, PadKind(d, env, c[2]), c[2])
          [] c \in gclks -> PortCell(d, "gclk", c[2])]

(* lowered_endpoint. *)
LoweredDriver(d, env, endpoint) ==
  CASE endpoint = None -> None
    [] IsCell(endpoint) -> endpoint
    [] endpoint # None /\ endpoint[1] = "port" ->
         CASE ~InputLike(d, endpoint[2]) -> endpoint
           [] InputLike(d, endpoint[2]) /\ HasBuffer(d, env, endpoint[2]) -> <<"cell", Gclk(endpoint[2]), <<"OUT">>>>
           [] OTHER -> <<"cell", Iob(endpoint[2]), <<"IN">>>>

LoweredSink(d, endpoint) ==
  IF endpoint[1] = "port" /\ d.ports[endpoint[2]].dir \in {"out", "inout"}
  THEN <<"cell", Iob(endpoint[2]), <<"OUT">>>> ELSE endpoint

LogicalNet(d, env, net) ==
  [name |-> net.name, origin |-> "logical", driver |-> LoweredDriver(d, env, net.driver),
   sinks |-> [i \in DOMAIN net.sinks |-> LoweredSink(d, net.sinks[i])]]

(* materialize_input_nets, materialize_output_nets: the nets at the pads   *)
(* and between a clock pad and its buffer.                                 *)
PadNets(d, env) ==
  {[name |-> <<"pad", p>>, origin |-> "pad", driver |-> <<"port", p>>, sinks |-> <<<<"cell", Iob(p), <<"PAD">>>>>>] :
     p \in {q \in DOMAIN d.ports : InputLike(d, q)}}
  \union
  {[name |-> <<"gclk", p>>, origin |-> "gclk", driver |-> <<"cell", Iob(p), <<"GCLKOUT">>>>,
    sinks |-> <<<<"cell", Gclk(p), <<"IN">>>>>>] : p \in {q \in DOMAIN d.ports : HasBuffer(d, env, q)}}
  \union
  {[name |-> <<"pad", p>>, origin |-> "pad", driver |-> <<"cell", Iob(p), <<"PAD">>>>, sinks |-> <<<<"port", p>>>>] :
     p \in {q \in DOMAIN d.ports : d.ports[q].dir \in {"out", "inout"}}}

(* ensure_cluster_positions refuses a design with an unplaced cluster.     *)
Lowers(d) == \A k \in DOMAIN d.clusters : d.clusters[k].at # None

Lower(d, env) ==
  LET placed == WithPorts(d, env)
  IN [cells |-> LoweredCells(placed, env),
      nets  |-> [i \in DOMAIN d.nets |-> LogicalNet(placed, env, d.nets[i])]
                \o Listed(PadNets(placed, env))]

(***************************************************************************)
(* endpoint_source_nets, endpoint_sink_nets: the wires at an endpoint.  A  *)
(* block RAM's pins are in the rows of its column.                         *)
(***************************************************************************)
(* register_data_uses_local_lut: the LUT of the same slot of the same site *)
UsesLocalLut(dev, driver, ff) ==
  /\ IsCell(driver)
  /\ dev.cells[driver[2]].site = "slice" /\ dev.cells[driver[2]].of.type = "lut"
  /\ dev.cells[driver[2]].at = dev.cells[ff].at
  /\ dev.cells[driver[2]].slot = dev.cells[ff].slot

TileOf(dev, endpoint) ==
  LET cell == dev.cells[endpoint[2]]
      row  == IF cell.site = "bram" /\ RamTarget(endpoint[3]) # None THEN RamTarget(endpoint[3]).row ELSE 0
      x    == cell.at[1] + row
  IN <<IF x < 0 THEN 0 ELSE x, cell.at[2]>>

RamWires(pin) == IF RamTarget(pin) = None THEN {} ELSE {RamTarget(pin).wire}

SourceWires(dev, endpoint) ==
  LET cell == dev.cells[endpoint[2]]
      pin  == endpoint[3]
      z    == cell.at[3]
  IN CASE cell.site = "slice" /\ cell.of.type = "ff" /\ RegisterRole(pin) = "output" -> {RegOutWire(z, cell.slot)}
       [] cell.site = "slice" /\ cell.of.type = "lut" /\ pin = <<"O">> -> {LutOutWire(z, cell.slot)}
       [] cell.site = "bram" -> RamWires(pin)
       [] cell.site = "iob" /\ pin = <<"IN">> -> {<<"iob", z, "I">>}
       [] cell.site = "gclkiob" /\ pin = <<"GCLKOUT">> -> {<<"clkpad", z>>}
       [] cell.site = "gclk" /\ pin = <<"OUT">> -> {<<"gclk", z, "PW">>}
       [] OTHER -> {}

LutPins(cell, i) == IF i \in DOMAIN cell.of.map THEN cell.of.map[i] ELSE {i}

RegisterWires(dev, driver, ff, pin) ==
  LET cell == dev.cells[ff]
      z    == cell.at[3]
  IN CASE RegisterRole(pin) \in {"clock", "enable", "setreset"} -> {ControlWire(z, RegisterRole(pin))}
       [] RegisterRole(pin) = "data" /\ ~UsesLocalLut(dev, driver, ff) -> {DataWire(z, cell.slot)}
       [] OTHER -> {}

SinkWires(dev, driver, endpoint) ==
  LET cell == dev.cells[endpoint[2]]
      pin  == endpoint[3]
      z    == cell.at[3]
  IN CASE cell.site = "slice" /\ cell.of.type = "lut" /\ pin[1] = "ADR" ->
            {LutInWire(z, cell.slot, i) : i \in LutPins(cell, pin[2])}
       [] cell.site = "slice" /\ cell.of.type = "ff" -> RegisterWires(dev, driver, endpoint[2], pin)
       [] cell.site = "bram" -> RamWires(pin)
       [] cell.site = "iob" /\ pin = <<"OUT">> -> {<<"iob", z, "O">>}
       [] cell.site = "gclk" /\ pin = <<"IN">> -> {<<"gclkbuf", z, "IN">>}
       [] OTHER -> {}

(* should_route_device_net. *)
Routed(net) ==
  /\ net.origin # "pad" /\ IsCell(net.driver)
  /\ \E s \in ToSet(net.sinks) : IsCell(s)

(* The sinks of a net that the router routes, with their wires: a sink     *)
(* with several LUT pins is routed to each of them.                        *)
RoutedSinks(dev, net) ==
  {<<TileOf(dev, s), w>> : <<s, w>> \in
     UNION {{s} \X SinkWires(dev, net.driver, s) : s \in {t \in ToSet(net.sinks) : IsCell(t)}}}

(***************************************************************************)
(* The result of routing, without the router: every net that is routed     *)
(* takes one line of its own, named by where it starts, from its source to *)
(* its sinks; a clock pad has a pip to its buffer.                         *)
(***************************************************************************)
PipsThrough(tile, from, line, sinks) ==
  {[at |-> tile, from |-> from, to |-> line]}
  \union {[at |-> sink[1], from |-> line, to |-> sink[2]] : sink \in sinks}

CanonicalPips(dev, net) ==
  LET tile  == TileOf(dev, net.driver)
      sinks == RoutedSinks(dev, net)
      Of(from) == IF net.origin = "gclk" THEN {[at |-> tile, from |-> from, to |-> sink[2]] : sink \in sinks}
                  ELSE PipsThrough(tile, from, <<"line", tile, from>>, sinks)
  IN IF sinks = {} THEN {} ELSE UNION {Of(from) : from \in SourceWires(dev, net.driver)}

RouteImage(dev) ==
  {[net |-> dev.nets[i].name, pips |-> CanonicalPips(dev, dev.nets[i])] :
     i \in {j \in DOMAIN dev.nets : Routed(dev.nets[j])}}

(* logical_route_net_name: the net into the buffer of p is part of p's.    *)
LogicalRouteName(name) == IF name[1] = "gclk" /\ Len(name) = 2 THEN <<name[2]>> ELSE name

(* apply_route_image: the pips of the first net of a name. *)
ApplyRouteImage(d, image) ==
  LET First(i) == \A j \in 1..(i - 1) : d.nets[j].name # d.nets[i].name
      PipsOf(name) == UNION {r.pips : r \in {q \in image : LogicalRouteName(q.net) = name}}
  IN [d EXCEPT !.stage = "routed",
               !.nets = [i \in DOMAIN @ |->
                 [@[i] EXCEPT !.pips = IF First(i) THEN PipsOf(d.nets[i].name) ELSE {}]]]

(* collect_design_route_pips. *)
DesignPips(d) == UNION {net.pips : net \in ToSet(d.nets)}

ImagePips(image) == UNION {r.pips : r \in image}
=============================================================================
