----------------------------- MODULE PhysicalXml -----------------------------
(***************************************************************************)
(* The physical XML between the command-line stages (infra/io/xml):        *)
(* Export is PhysicalDesignView::build and the writer, Import is           *)
(* load_fde_physical_design_xml.  A document x is a record:                *)
(*   ports      port -> its direction and package pin                      *)
(*   instances  a sequence of [name, module, at, configs]                  *)
(*   nets       a sequence of [name, refs, pips]; a reference is           *)
(*              <<instance, pin>>, the instance None at a top-level port   *)
(* Instances are named <<"iSlice", k>>, <<"iBram", k>>, <<"iGclk", p>> and *)
(* <<p>> for the pad of port p.  A design is that of module SliceSlots.    *)
(*                                                                         *)
(* env is what the writer knows of the chip: env.pads, the pads by package *)
(* pin (empty after packing, which saves without an architecture), and     *)
(* env.pins, the constraints, port -> pin.                                 *)
(***************************************************************************)
EXTENDS SliceSlots

CONSTANT Off   \* the config value #OFF

(***************************************************************************)
(* Export.                                                                 *)
(***************************************************************************)
(* instance_position: no positions before placement. *)
PositionIn(d, at) == IF d.stage = "packed" THEN None ELSE at

ClustersOf(d, kind) == SelectSeq(Ascending(DOMAIN d.clusters), LAMBDA k : d.clusters[k].kind = kind)

(* The instance of a cell: its slice by cluster, its RAM by RAM cluster. *)
InstanceOf(d, c) ==
  LET k    == ClusterOf(d, c)
      rams == ClustersOf(d, "ram")
  IN CASE k = None -> None
       [] k # None /\ d.clusters[k].kind = "logic" -> <<"iSlice", k>>
       [] OTHER -> <<"iBram", CHOOSE i \in DOMAIN rams : rams[i] = k>>

InSlice(d, c) == ClusterOf(d, c) # None /\ d.clusters[ClusterOf(d, c)].kind = "logic"

(* register_uses_local_lut: a LUT drives net from the slot that ff has.    *)
(* The slots alone are compared, not the slices.                           *)
LocalLut(d, net, ff) ==
  /\ IsCell(net.driver) /\ IsLut(d, net.driver[2]) /\ InSlice(d, net.driver[2])
  /\ SlotIn(d, net.driver[2]) = SlotIn(d, ff)

(* Mutant: every sink in the slice counts as local. *)
HasRoutedSink_Outside(d, k, lut) ==
  \E i \in DOMAIN d.nets : Drives(d.nets[i], lut) /\ \E s \in SinksOf(d.nets[i]) :
    ~(IsCell(s) /\ ClusterOf(d, s[2]) = k)

(* lut_has_routed_sink: some sink of the LUT is not the D of the           *)
(* flip-flop of its own slot.                                              *)
HasRoutedSink(d, k, lut) ==
  \E i \in DOMAIN d.nets : Drives(d.nets[i], lut) /\ \E s \in SinksOf(d.nets[i]) :
    ~(/\ IsCell(s) /\ ClusterOf(d, s[2]) = k
      /\ IsSequential(d, s[2]) /\ s[3] = <<"D">> /\ SlotIn(d, s[2]) = SlotIn(d, lut))

(* physical_lut_function_name: the function kept from an earlier document, *)
(* or the sum of the terms of the truth table; LUTs have four inputs at    *)
(* most.                                                                   *)
LutFunction(cell) ==
  IF cell.function # None THEN [raw |-> cell.function]
  ELSE IF cell.inputs > 4 THEN Off
  ELSE [inputs |-> cell.inputs, table |-> cell.table]

NetAt(d, c, pins) == FirstNet(d, LAMBDA net : \E pin \in pins : <<"cell", c, pin>> \in SinksOf(net))

KeptProp(cell, key, default) == IF cell.props[key] \in {None, Off} THEN default ELSE cell.props[key]

(* Mutant: the data mux of a flip-flop always selects the LUT. *)
DataMux_Lut(d, ff) == "1"

(* ff_uses_site_bypass: the data mux selects the LUT of the same slot of   *)
(* the same slice, or nothing; "0" is the bypass.                          *)
DataMux(d, ff) ==
  LET net == NetIntoPin(d, ff, <<"D">>)
      paired == /\ LocalLut(d, net, ff)
                /\ ClusterOf(d, net.driver[2]) = ClusterOf(d, ff)
  IN IF net # None /\ ~paired THEN "0" ELSE "1"

RegisterInit(cell) == IF cell.props.init # None THEN cell.props.init ELSE cell.initType

(* build_slice_configs.  The flip-flops of a slice share their clock,      *)
(* enable and reset (packing), so that any of them stands for the last one *)
(* written.                                                                *)
SliceConfigs(d, k) ==
  LET members == ToSet(d.clusters[k].members)
      In(slot, type) == {c \in members : Type(d, c) = type /\ SlotIn(d, c) = slot}
      The(set) == CHOOSE c \in set : TRUE
      ByFF(P(_)) == [s \in 0..1 |-> IF In(s, "ff") = {} THEN Off ELSE P(The(In(s, "ff")))]
      FFs  == {c \in members : IsSequential(d, c)}
      ff   == d.cells[The(FFs)]
      Shared(key, default) ==
        IF FFs = {} THEN Off ELSE IF ff.props[key] \in {None, Off} THEN default ELSE ff.props[key]
  IN [lut   |-> [s \in 0..1 |-> IF In(s, "lut") = {} THEN Off ELSE LutFunction(d.cells[The(In(s, "lut"))])],
      used  |-> [s \in 0..1 |-> IF In(s, "lut") # {} /\ HasRoutedSink(d, k, The(In(s, "lut"))) THEN "0" ELSE Off],
      ff    |-> [s \in 0..1 |-> In(s, "ff") # {}],
      init  |-> ByFF(LAMBDA c : IF RegisterInit(d.cells[c]) = None THEN 0 ELSE RegisterInit(d.cells[c])),
      data  |-> ByFF(LAMBDA c : DataMux(d, c)),
      SYNC_ATTR |-> Shared("SYNC_ATTR", "ASYNC"),
      CKINV     |-> Shared("CKINV", IF ff.inverted /\ ff.props.CKINV = None THEN "1" ELSE Off),
      CEMUX     |-> Shared("CEMUX", IF \E c \in FFs : NetAt(d, c, ClockEnablePins) # None THEN "CE" ELSE Off),
      SRMUX     |-> Shared("SRMUX", Off),
      SRFFMUX   |-> Shared("SRFFMUX", Off)]

(* build_port_bindings.  The clock buffers are numbered by port in the     *)
(* code, named by port here.                                               *)
IsClockPin(d, c, pin) ==
  CASE Type(d, c) = "ff"  -> pin \in ClockPins
    [] Type(d, c) = "ram" -> IsRamClock(pin)
    [] OTHER -> FALSE

IsDriver(net, p) == net.driver = <<"port", p>>

ClockInput(d, p) ==
  \E i \in DOMAIN d.nets : IsDriver(d.nets[i], p) /\
    \E s \in SinksOf(d.nets[i]) : IsCell(s) /\ IsClockPin(d, s[2], s[3])

PadOf(d, env, p) ==
  LET pin == IF d.ports[p].pin # None THEN d.ports[p].pin
             ELSE IF p \in DOMAIN env.pins THEN env.pins[p] ELSE None
  IN IF pin \in DOMAIN env.pads THEN env.pads[pin] ELSE None

(* Without a pad a clock port is taken to have a clock pad. *)
PadModule(d, env, p) ==
  CASE PadOf(d, env, p) # None -> PadOf(d, env, p).kind
    [] PadOf(d, env, p) = None /\ ClockInput(d, p) -> "gclkiob"
    [] OTHER -> "iob"

PadAt(d, env, p) == IF PadOf(d, env, p) # None THEN PadOf(d, env, p).at ELSE d.ports[p].at
Buffered(d, env, p) == ClockInput(d, p) /\ PadModule(d, env, p) = "gclkiob"

(* gclk_input_pips: the pip from the pad to its buffer, written apart from *)
(* the pips of the net.                                                    *)
IsHelperPip(d, env, p, pip) ==
  /\ PadOf(d, env, p) # None
  /\ pip.at = <<PadAt(d, env, p)[1], PadAt(d, env, p)[2]>>
  /\ pip.from = <<"clkpad", PadAt(d, env, p)[3]>>
  /\ pip.to = <<"gclkbuf", PadAt(d, env, p)[3], "IN">>

HelperPips(d, env, p, pips) == {pip \in pips : IsHelperPip(d, env, p, pip)}

(* physical_driver_endpoint, physical_sink_endpoints: a sequence of        *)
(* references, empty for an endpoint that takes no pin.                    *)
DriverRefs(d, env, net) ==
  LET c == net.driver[2]
  IN CASE net.driver = None -> <<>>
       [] net.driver # None /\ net.driver[1] = "port" ->
            IF Buffered(d, env, net.driver[2]) THEN <<<<<<"iGclk", net.driver[2]>>, <<"OUT">>>>>>
            ELSE <<<<<<net.driver[2]>>, <<"IN">>>>>>
       [] IsCell(net.driver) /\ InSlice(d, c) ->
            <<<<InstanceOf(d, c), <<IF IsSequential(d, c) THEN RegOutPin(SlotIn(d, c)) ELSE OutPin(SlotIn(d, c))>>>>>>
       [] IsCell(net.driver) /\ Type(d, c) = "ram" /\ RamPin(net.driver[3]) # None ->
            <<<<InstanceOf(d, c), PhysicalRamPin(net.driver[3])>>>>
       [] OTHER -> <<>>

(* pin_map_indices: in ascending order. *)
MappedPins(cell, i) == IF i \in DOMAIN cell.map THEN Ascending(cell.map[i]) ELSE <<i>>

FFSinkPin(d, net, ff, pin) ==
  CASE RegisterRole(pin) = "clock"    -> <<<<"CLK">>>>
    [] RegisterRole(pin) = "enable"   -> <<<<"CE">>>>
    [] RegisterRole(pin) = "setreset" -> <<<<"SR">>>>
    [] RegisterRole(pin) = "data" /\ ~LocalLut(d, net, ff) -> <<<<BypassPin(SlotIn(d, ff))>>>>
    [] OTHER -> <<>>

SinkRefs(d, env, net, sink) ==
  LET c == sink[2]
      At(pins) == [i \in DOMAIN pins |-> <<InstanceOf(d, c), pins[i]>>]
  IN CASE sink[1] = "port" -> <<<<<<c>>, <<"OUT">>>>>>
       [] IsCell(sink) /\ InSlice(d, c) /\ IsLut(d, c) ->
            At([i \in DOMAIN MappedPins(d.cells[c], sink[3][2]) |->
                  <<LutPin(SlotIn(d, c)), MappedPins(d.cells[c], sink[3][2])[i]>>])
       [] IsCell(sink) /\ InSlice(d, c) /\ IsSequential(d, c) -> At(FFSinkPin(d, net, c, sink[3]))
       [] IsCell(sink) /\ Type(d, c) = "ram" /\ RamPin(sink[3]) # None -> At(<<PhysicalRamPin(sink[3])>>)
       [] OTHER -> <<>>

(* push_unique_endpoint: only the first of equal elements is kept. *)
Unique(seq) == FoldLeft(LAMBDA kept, x : IF Contains(kept, x) THEN kept ELSE Append(kept, x), <<>>, seq)

NetRefs(d, env, net) ==
  Unique(DriverRefs(d, env, net) \o FlattenSeq([i \in DOMAIN net.sinks |-> SinkRefs(d, env, net, net.sinks[i])]))

PortsOf(net) == SelectSeq(net.sinks, LAMBDA s : s[1] = "port")

PhysicalName(d, env, net) ==
  CASE net.driver # None /\ net.driver[1] = "port" ->
         IF Buffered(d, env, net.driver[2]) THEN <<"net_IBuf-clkpad", net.driver[2]>>
         ELSE <<"net_Buf-pad", net.driver[2]>>
    [] ~(net.driver # None /\ net.driver[1] = "port") /\ PortsOf(net) # <<>> ->
         <<"net_Buf-pad", PortsOf(net)[1][2]>>
    [] OTHER -> net.name

(* internal_net_pips: a buffered clock net leaves its helper pip out. *)
PhysicalPips(d, env, net) ==
  IF net.driver # None /\ net.driver[1] = "port" /\ Buffered(d, env, net.driver[2])
  THEN net.pips \ HelperPips(d, env, net.driver[2], net.pips)
  ELSE net.pips

(* build_internal_physical_net: nets of fewer than two pins disappear. *)
InternalNets(d, env) ==
  LET kept == SelectSeq(d.nets, LAMBDA net : Len(NetRefs(d, env, net)) > 1)
  IN [i \in DOMAIN kept |-> [name |-> PhysicalName(d, env, kept[i]), refs |-> NetRefs(d, env, kept[i]),
                             pips |-> PhysicalPips(d, env, kept[i])]]

(* port_physical_nets_for_binding. *)
PortNets(d, env, p) ==
  LET driven == \E i \in DOMAIN d.nets : IsDriver(d.nets[i], p)
      sunk   == \E i \in DOMAIN d.nets : <<"port", p>> \in SinksOf(d.nets[i])
      named  == FirstNet(d, LAMBDA net : net.name = <<p>>)
      pad(refs) == [name |-> <<p>>, refs |-> refs, pips |-> {}]
  IN (IF driven THEN <<pad(<<<<None, <<p>>>>, <<<<p>>, <<"PAD">>>>>>)>> ELSE <<>>)
     \o (IF driven /\ Buffered(d, env, p)
         THEN <<[name |-> <<"net_Buf-pad", p>>,
                 refs |-> <<<<<<p>>, <<"GCLKOUT">>>>, <<<<"iGclk", p>>, <<"IN">>>>>>,
                 pips |-> IF d.stage = "routed" /\ named # None THEN HelperPips(d, env, p, named.pips) ELSE {}]>>
         ELSE <<>>)
     \o (IF sunk THEN <<pad(<<<<<<p>>, <<"PAD">>>>, <<None, <<p>>>>>>)>> ELSE <<>>)

(* The slices by cluster, the block RAMs, the pads and the clock buffers.  *)
SliceInstances(d) ==
  LET ks == ClustersOf(d, "logic")
  IN [i \in DOMAIN ks |-> [name |-> <<"iSlice", ks[i]>>, module |-> "slice",
                           at |-> PositionIn(d, d.clusters[ks[i]].at), configs |-> SliceConfigs(d, ks[i])]]

RamInstances(d) ==
  LET ks == ClustersOf(d, "ram")
  IN [i \in DOMAIN ks |-> [name |-> <<"iBram", i>>, module |-> "blockram",
                           at |-> PositionIn(d, d.clusters[ks[i]].at),
                           configs |-> d.cells[d.clusters[ks[i]].members[1]].props]]

PortInstances(d, env) ==
  LET ports == Listed(DOMAIN d.ports)
      pads == [i \in DOMAIN ports |-> [name |-> <<ports[i]>>, module |-> PadModule(d, env, ports[i]),
                                       at |-> PositionIn(d, PadAt(d, env, ports[i])), configs |-> <<>>]]
      buffered == SelectSeq(ports, LAMBDA p : Buffered(d, env, p))
      gclks == [i \in DOMAIN buffered |-> [name |-> <<"iGclk", buffered[i]>>, module |-> "gclk",
                                           at |-> PositionIn(d, PadAt(d, env, buffered[i])), configs |-> <<>>]]
  IN pads \o gclks

Export(d, env) ==
  LET ports == Listed(DOMAIN d.ports)
  IN [ports     |-> [p \in DOMAIN d.ports |-> [dir |-> d.ports[p].dir, pin |-> d.ports[p].pin]],
      instances |-> SliceInstances(d) \o RamInstances(d) \o PortInstances(d, env),
      nets      |-> InternalNets(d, env)
                    \o FlattenSeq([i \in DOMAIN ports |-> PortNets(d, env, ports[i])])]
(***************************************************************************)
(* Import.                                                                 *)
(***************************************************************************)
InstanceNamed(x, name) ==
  LET of == SelectSeq(x.instances, LAMBDA inst : inst.name = name)
  IN IF of = <<>> THEN None ELSE of[1]

ModuleOf(x, name) == IF InstanceNamed(x, name) = None THEN None ELSE InstanceNamed(x, name).module

OfModule(x, module) == SelectSeq(x.instances, LAMBDA inst : inst.module = module)

ImportedLut(inst, slot) == <<inst.name, "lut", slot>>
ImportedFF(inst, slot)  == <<inst.name, "ff", slot>>
HasLut(inst, slot) == inst.configs.lut[slot] # Off
HasFF(inst, slot)  == inst.configs.ff[slot]

(* build_slice_lut_cell: a kept constant function has four inputs.         *)
LutCell(function) ==
  IF "raw" \in DOMAIN function
  THEN [type |-> "lut", inputs |-> 4, table |-> [i \in 0..15 |-> function.raw],
        function |-> function.raw, map |-> <<>>]
  ELSE [type |-> "lut", inputs |-> function.inputs, table |-> function.table,
        function |-> None, map |-> <<>>]

(* build_slice_ff_cell: always of a type without defaults.                 *)
FFCell(inst, slot) ==
  [type |-> "ff", initType |-> None, inverted |-> FALSE,
   props |-> [init |-> IF inst.configs.init[slot] = Off THEN None ELSE inst.configs.init[slot],
              CKINV |-> inst.configs.CKINV, CEMUX |-> inst.configs.CEMUX,
              SYNC_ATTR |-> inst.configs.SYNC_ATTR,
              SRMUX |-> inst.configs.SRMUX, SRFFMUX |-> inst.configs.SRFFMUX]]

(* infer_block_ram_kind, block_ram_properties. *)
RamCell(inst) ==
  [type |-> "ram", dual |-> inst.configs.PORTB_ATTR \notin {None, Off}, props |-> inst.configs]

(* clock_buffer_ports: the port of a clock buffer is in the name of the    *)
(* net into the buffer.                                                    *)
BufferPort(x, name) ==
  LET into == SelectSeq(x.nets, LAMBDA net : /\ net.name[1] = "net_Buf-pad" /\ net.name[2] \in DOMAIN x.ports
                                             /\ <<name, <<"IN">>>> \in ToSet(net.refs))
  IN IF into = <<>> \/ ModuleOf(x, name) # "gclk" THEN None ELSE into[1].name[2]

BufferedPorts(x) == {BufferPort(x, inst.name) : inst \in ToSet(OfModule(x, "gclk"))} \ {None}

(* slice_logical_endpoints, and the wires of the other sites: a sequence   *)
(* of <<endpoint, TRUE for a driver>>.                                     *)
FFEndpoints(inst, pin) ==
  LET sink(s, logical) == <<<<<<"cell", ImportedFF(inst, s), logical>>, FALSE>>>>
      each(P(_), logical) == (IF HasFF(inst, 0) /\ P(0) THEN sink(0, logical) ELSE <<>>)
                             \o (IF HasFF(inst, 1) /\ P(1) THEN sink(1, logical) ELSE <<>>)
  IN CASE pin = "CLK" -> each(LAMBDA s : TRUE, IF inst.configs.CKINV = "1" THEN <<"CKN">> ELSE <<"CK">>)
       [] pin = "CE"  -> each(LAMBDA s : inst.configs.CEMUX = "CE", <<"E">>)
       [] pin = "SR"  -> each(LAMBDA s : TRUE, <<"RN">>)
       [] pin \in {"BX", "BY"} -> each(LAMBDA s : BypassPin(s) = pin /\ inst.configs.data[s] # "1", <<"D">>)

SliceEndpoints(inst, pin) ==
  LET slot == IF pin[1] \in {"X", "XQ", "F"} THEN 0 ELSE 1
      lut  == ImportedLut(inst, slot)
  IN CASE pin[1] \in {"X", "Y"} ->
            IF HasLut(inst, slot) THEN <<<<<<"cell", lut, <<"O">>>>, TRUE>>>> ELSE <<>>
       [] pin[1] \in {"XQ", "YQ"} ->
            IF HasFF(inst, slot) THEN <<<<<<"cell", ImportedFF(inst, slot), <<"Q">>>>, TRUE>>>> ELSE <<>>
       [] pin[1] \in {"F", "G"} ->
            IF HasLut(inst, slot) THEN <<<<<<"cell", lut, <<"ADR", pin[2]>>>>, FALSE>>>> ELSE <<>>
       [] OTHER -> FFEndpoints(inst, pin[1])

PadEndpoints(x, p, pin) ==
  CASE pin = <<"IN">> /\ x.ports[p].dir \in {"in", "inout"}   -> <<<<<<"port", p>>, TRUE>>>>
    [] pin = <<"OUT">> /\ x.ports[p].dir \in {"out", "inout"} -> <<<<<<"port", p>>, FALSE>>>>
    [] OTHER -> <<>>

(* physical_logical_endpoints: pads of clocks have none. *)
Endpoints(x, ref) ==
  LET inst == InstanceNamed(x, ref[1])
      ram  == ImportedRamPin(ref[2])
  IN CASE inst = None -> <<>>
       [] inst # None /\ inst.module = "slice" -> SliceEndpoints(inst, ref[2])
       [] inst # None /\ inst.module = "blockram" ->
            IF ram = None THEN <<>> ELSE <<<<<<"cell", inst.name, ram>>, IsRamOutput(ram)>>>>
       [] inst # None /\ inst.module = "iob" -> PadEndpoints(x, inst.name[1], ref[2])
       [] inst # None /\ inst.module = "gclk" ->
            IF ref[2] = <<"OUT">> /\ BufferPort(x, inst.name) # None
            THEN <<<<<<"port", BufferPort(x, inst.name)>>, TRUE>>>> ELSE <<>>
       [] OTHER -> <<>>

(* The nets of a pad, of a clock buffer's input and of no endpoint vanish. *)
IsImported(x, net) ==
  /\ ~(Len(net.name) = 1 /\ net.name[1] \in DOMAIN x.ports)
  /\ ~(net.name[1] = "net_Buf-pad" /\ net.name[2] \in BufferedPorts(x))
  /\ \E i \in DOMAIN net.refs : Endpoints(x, net.refs[i]) # <<>>

LogicalName(x, name) ==
  IF name[1] \in {"net_IBuf-clkpad", "net_Buf-pad"} /\ name[2] \in DOMAIN x.ports THEN <<name[2]>> ELSE name

(* clock_bridge_route_pips: merged into the net of the port.               *)
BridgePips(x, name) ==
  UNION {x.nets[i].pips : i \in {j \in DOMAIN x.nets :
    /\ x.nets[j].name[1] = "net_Buf-pad" /\ x.nets[j].name[2] \in BufferedPorts(x)
    /\ name = <<x.nets[j].name[2]>>}}

(* Mutant: the pips of clock bridges are lost. *)
ImportedNet_NoBridge(x, net) ==
  LET ends  == FlattenSeq([i \in DOMAIN net.refs |-> Endpoints(x, net.refs[i])])
      drivers == SelectSeq(ends, LAMBDA end : end[2])
      sinks   == SelectSeq(ends, LAMBDA end : ~end[2])
  IN [name |-> LogicalName(x, net.name), driver |-> IF drivers = <<>> THEN None ELSE drivers[1][1],
      sinks |-> Unique([i \in DOMAIN sinks |-> sinks[i][1]]), pips |-> net.pips]

(* import_physical_net: the first driver counts. *)
ImportedNet(x, net) ==
  LET ends  == FlattenSeq([i \in DOMAIN net.refs |-> Endpoints(x, net.refs[i])])
      drivers == SelectSeq(ends, LAMBDA end : end[2])
      sinks   == SelectSeq(ends, LAMBDA end : ~end[2])
      name    == LogicalName(x, net.name)
  IN [name |-> name, driver |-> IF drivers = <<>> THEN None ELSE drivers[1][1],
      sinks |-> Unique([i \in DOMAIN sinks |-> sinks[i][1]]),
      pips |-> net.pips \union BridgePips(x, name)]

(* inject_local_lut_ff_nets: the flip-flops fed inside their slice become  *)
(* sinks of the net of their LUT, or of a new one.                         *)
LocalPairs(x) ==
  FlattenSeq([i \in DOMAIN OfModule(x, "slice") |->
    LET inst == OfModule(x, "slice")[i]
    IN SelectSeq(<<<<inst, 0>>, <<inst, 1>>>>,
         LAMBDA pair : HasLut(inst, pair[2]) /\ HasFF(inst, pair[2]) /\ inst.configs.data[pair[2]] \in {"1", None})])

WithLocalNets(x, nets) ==
  LET pairs == LocalPairs(x)
      out(pair)  == <<"cell", ImportedLut(pair[1], pair[2]), <<"O">>>>
      sink(pair) == <<"cell", ImportedFF(pair[1], pair[2]), <<"D">>>>
      fed(net) == SelectSeq(pairs, LAMBDA pair : out(pair) = net.driver)
      FirstOf(i) == \A j \in 1..(i - 1) : nets[j].driver # nets[i].driver
      extra == SelectSeq(pairs, LAMBDA pair : \A i \in DOMAIN nets : nets[i].driver # out(pair))
  IN [i \in DOMAIN nets |->
        IF nets[i].driver # None /\ FirstOf(i)
        THEN [nets[i] EXCEPT !.sinks = Unique(@ \o [j \in DOMAIN fed(nets[i]) |-> sink(fed(nets[i])[j])])]
        ELSE nets[i]]
     \o [i \in DOMAIN extra |-> [name |-> <<"lut2ff", extra[i][1].name, extra[i][2]>>, driver |-> out(extra[i]),
                                 sinks |-> <<sink(extra[i])>>, pips |-> {}]]

(* build_slice_cluster: the LUT and the flip-flop of slot 0, then slot 1's. *)
SliceMembers(inst) ==
  (IF HasLut(inst, 0) THEN <<ImportedLut(inst, 0)>> ELSE <<>>)
  \o (IF HasFF(inst, 0) THEN <<ImportedFF(inst, 0)>> ELSE <<>>)
  \o (IF HasLut(inst, 1) THEN <<ImportedLut(inst, 1)>> ELSE <<>>)
  \o (IF HasFF(inst, 1) THEN <<ImportedFF(inst, 1)>> ELSE <<>>)

ImportedClusters(x) ==
  LET slices == SelectSeq(OfModule(x, "slice"), LAMBDA inst : SliceMembers(inst) # <<>>)
      rams   == OfModule(x, "blockram")
  IN [i \in DOMAIN slices |-> [kind |-> "logic", members |-> SliceMembers(slices[i]), at |-> slices[i].at]]
     \o [i \in DOMAIN rams |-> [kind |-> "ram", members |-> <<rams[i].name>>, at |-> rams[i].at]]

SliceCells(x) ==
  {<<inst, s>> : inst \in ToSet(OfModule(x, "slice")), s \in 0..1}

ImportedCells(x) ==
  LET luts == {ImportedLut(u[1], u[2]) : u \in {v \in SliceCells(x) : HasLut(v[1], v[2])}}
      ffs  == {ImportedFF(u[1], u[2]) : u \in {v \in SliceCells(x) : HasFF(v[1], v[2])}}
      rams == {inst.name : inst \in ToSet(OfModule(x, "blockram"))}
  IN [c \in luts \union ffs \union rams |->
        CASE c \in luts -> LutCell(InstanceNamed(x, c[1]).configs.lut[c[3]])
          [] c \in ffs  -> FFCell(InstanceNamed(x, c[1]), c[3])
          [] c \in rams -> RamCell(InstanceNamed(x, c))]

(* with_slice_binding. *)
ImportedBinding(x, c) == IF Len(c) = 3 THEN [slot |-> c[3], kind |-> c[2]] ELSE None

(* apply_port_positions. *)
ImportedPorts(x) ==
  [p \in DOMAIN x.ports |-> [dir |-> x.ports[p].dir, pin |-> x.ports[p].pin,
     at |-> IF ModuleOf(x, <<p>>) \in {"iob", "gclkiob"} THEN InstanceNamed(x, <<p>>).at ELSE None]]

(* infer_physical_stage. *)
ImportedStage(x, nets) ==
  CASE \E i \in DOMAIN nets : nets[i].pips # {} -> "routed"
    [] /\ \A i \in DOMAIN nets : nets[i].pips = {}
       /\ \E i \in DOMAIN x.instances : x.instances[i].at # None -> "placed"
    [] OTHER -> "packed"

Import(x) ==
  LET kept == SelectSeq(x.nets, LAMBDA net : IsImported(x, net))
      nets == WithLocalNets(x, [i \in DOMAIN kept |-> ImportedNet(x, kept[i])])
  IN [stage |-> ImportedStage(x, nets), ports |-> ImportedPorts(x), cells |-> ImportedCells(x),
      clusters |-> ImportedClusters(x), nets |-> nets,
      bound |-> [c \in DOMAIN ImportedCells(x) |-> ImportedBinding(x, c)]]
=============================================================================
