---------------------------- MODULE MapRewrite ----------------------------
(***************************************************************************)
(* From the EDIF netlist to the mapped design: infra/edif/builder.rs       *)
(* decides which end of a net drives it and gives the cells their pins,    *)
(* stages/map/rewrite.rs then rewrites the design in passes: canonical     *)
(* truth tables, canonical block RAM pins, merged LUT inputs, constants as *)
(* LUTs, a LUT with the clock in front of every register, and unused nets  *)
(* dropped.                                                                *)
(*                                                                         *)
(* A connection is kept twice, as a pin of the cell (net name) and as an   *)
(* end of the net (cell name and pin); the passes change one side and have *)
(* to bring the other one up to date.                                      *)
(*                                                                         *)
(* A truth table is the set of the addresses at which the LUT is 1.        *)
(***************************************************************************)
EXTENDS Naturals, Sequences, FiniteSets, FiniteSetsExt, SequencesExt, Functions, TLC

CONSTANTS Netlists,  \* what an EDIF file may hold: cells, input ports, net ends
          LutSize,   \* MapOptions.lut_size
          NoDriver,  \* driver: None
          NoInit     \* neither "lut_init" nor "init" is given

VARIABLES pc,        \* the pass about to run
          pending,   \* the gates the gating pass has still to insert
          ports,     \* names of the input ports
          netEnds,   \* pending_nets of the builder
          cells,     \* name -> kind, width, init, renames, pinMap, ins, outs
          nets,      \* name -> driver and sinks
          imported   \* the design as it left the builder

vars == <<pc, pending, ports, netEnds, cells, nets, imported>>

----------------------------------------------------------------------------
(* Cells and pins *)

LutIndex == [ADR0 |-> 0, ADR1 |-> 1, ADR2 |-> 2, ADR3 |-> 3]

LutPin(index) == CHOOSE pin \in DOMAIN LutIndex : LutIndex[pin] = index

LutOutputPins == {"O", "Y", "OUT", "Q"}

IsLut(cell) == cell.kind = "lut"

IsSequential(cell) == cell.kind \in {"ff", "latch"}

ConstantValue == [zero |-> 0, one |-> 1]

IsConstant(cell) == cell.kind \in DOMAIN ConstantValue

(* A constant drives with every pin, another cell with pins named so. *)
IsOutputPin(cell, pin) ==
  \/ IsConstant(cell)
  \/ pin \in LutOutputPins \cup {"P", "G"}
  \/ cell.kind = "bram" /\ pin = "DO0"

CellEnd(name, pin) == [kind |-> "cell", name |-> name, pin |-> pin]

NetsAtPin(cell, pin) == {p.net : p \in {q \in cell.ins : q.pin = pin}}

----------------------------------------------------------------------------
(* The builder *)

(* The first cell output drives a net, or else the first input port; a net *)
(* with no source is said to be driven by the first of its sinks.          *)
DriverOf(ends) ==
  LET IsSource(e) == IF e.kind = "port" THEN e.name \in ports
                                        ELSE IsOutputPin(cells[e.name], e.pin)
      sources     == SelectSeq(ends, IsSource)
      cellSources == SelectSeq(sources, LAMBDA e : e.kind = "cell")
      ranked      == cellSources \o sources \o ends
  IN  IF ends = <<>> THEN NoDriver ELSE ranked[1]

SplitEndpoints(ends) ==
  LET driver == DriverOf(ends)
  IN  [driver |-> driver, sinks |-> ToSet(ends) \ {driver}]

(* Both sides of the connections of a cell: its ends among the nets. *)
SinkPins(name, theNets) ==
  UNION {{[pin |-> e.pin, net |-> n] :
            e \in {s \in theNets[n].sinks : s.kind = "cell" /\ s.name = name}} :
         n \in DOMAIN theNets}

HasCellDriver(net) == net.driver # NoDriver /\ net.driver.kind = "cell"

DriverPins(name, theNets) ==
  {[pin |-> theNets[n].driver.pin, net |-> n] :
     n \in {m \in DOMAIN theNets : HasCellDriver(theNets[m]) /\ theNets[m].driver.name = name}}

Import ==
  /\ pc = "import"
  /\ nets' = [n \in DOMAIN netEnds |-> SplitEndpoints(netEnds[n])]
  /\ cells' = [c \in DOMAIN cells |-> [cells[c] EXCEPT !.ins  = SinkPins(c, nets'),
                                                       !.outs = DriverPins(c, nets')]]
  /\ imported' = [cells |-> cells', nets |-> nets']
  /\ pc' = "inits"
  /\ UNCHANGED <<pending, ports, netEnds>>

----------------------------------------------------------------------------
(* Truth tables *)

Addresses(width) == 0..(2^width - 1)

(* A LUT for which no table is given is the conjunction of its inputs. *)
CanonicalInit(cell) ==
  IF cell.init = NoInit THEN {2^cell.width - 1} ELSE cell.init \cap Addresses(cell.width)

CanonicalizeInits ==
  /\ pc = "inits"
  /\ cells' = [c \in DOMAIN cells |->
                 IF IsLut(cells[c]) THEN [cells[c] EXCEPT !.init = CanonicalInit(cells[c])]
                                    ELSE cells[c]]
  /\ pc' = "bram"
  /\ UNCHANGED <<pending, ports, netEnds, nets, imported>>

----------------------------------------------------------------------------
(* Block RAM pins: renamed all at once, so that a new name may be an old one *)

Renamed(cell, pin) == IF pin \in DOMAIN cell.renames THEN cell.renames[pin] ELSE pin

RenamedEnd(end) ==
  IF end # NoDriver /\ end.kind = "cell"
    THEN [end EXCEPT !.pin = Renamed(cells[end.name], end.pin)] ELSE end

NormalizeBlockRams ==
  /\ pc = "bram"
  /\ LET RenamedPins(c, pins) == {[p EXCEPT !.pin = Renamed(cells[c], p.pin)] : p \in pins}
     IN  cells' = [c \in DOMAIN cells |->
                     [cells[c] EXCEPT !.ins  = RenamedPins(c, cells[c].ins),
                                      !.outs = RenamedPins(c, cells[c].outs)]]
  /\ nets' = [n \in DOMAIN nets |->
                [driver |-> RenamedEnd(nets[n].driver),
                 sinks  |-> {RenamedEnd(s) : s \in nets[n].sinks}]]
  /\ pc' = "generic"
  /\ UNCHANGED <<pending, ports, netEnds, imported>>

RejectGenericCells ==
  /\ pc = "generic"
  /\ pc' = IF \E c \in DOMAIN cells : cells[c].kind = "generic" THEN "failed" ELSE "luts"
  /\ UNCHANGED <<pending, ports, netEnds, cells, nets, imported>>

----------------------------------------------------------------------------
(* LUT inputs *)

(* The pins that carry a data input, by index, with their net. *)
IndexedInputs(cell) ==
  {p \in cell.ins : p.pin \in DOMAIN LutIndex /\ LutIndex[p.pin] < cell.width}

(* The indices at which a net enters a LUT, and the distinct nets in the *)
(* order of the first one.                                               *)
OldIndices(cell, net) ==
  {LutIndex[p.pin] : p \in {q \in IndexedInputs(cell) : q.net = net}}

UniqueNets(cell) ==
  SetToSortSeq({p.net : p \in IndexedInputs(cell)},
               LAMBDA m, n : Min(OldIndices(cell, m)) < Min(OldIndices(cell, n)))

Bit(address, index) == (address \div 2^index) % 2

(* Mutant: a net that entered twice is read at its first input only. *)
OldAddress_FirstOnly(cell, address) ==
  MapThenSumSet(LAMBDA k : 2^Min(OldIndices(cell, UniqueNets(cell)[k])),
                {k \in DOMAIN UniqueNets(cell) : Bit(address, k - 1) = 1})

(* The old inputs that see a net that is 1 at a new address; an input that *)
(* is not connected reads 0.                                               *)
OldAddress(cell, address) ==
  LET ones == {k \in DOMAIN UniqueNets(cell) : Bit(address, k - 1) = 1}
      old  == UNION {OldIndices(cell, UniqueNets(cell)[k]) : k \in ones}
  IN  MapThenSumSet(LAMBDA i : 2^i, old)

NewWidth(cell) == IF UniqueNets(cell) = <<>> THEN 1 ELSE Len(UniqueNets(cell))

NeedsNormalizing(cell) ==
  /\ IsLut(cell)
  /\ Len(UniqueNets(cell)) < Cardinality(cell.ins) \/ NewWidth(cell) # cell.width

NormalizedLut(cell) ==
  LET unique == UniqueNets(cell)
  IN  [cell EXCEPT
         !.ins    = {[pin |-> LutPin(k - 1), net |-> unique[k]] : k \in DOMAIN unique},
         !.width  = NewWidth(cell),
         !.init   = {a \in Addresses(NewWidth(cell)) : OldAddress(cell, a) \in cell.init},
         !.pinMap = [i \in DOMAIN @ |->
                       IF i < Len(unique) /\ OldIndices(cell, unique[i + 1]) # {i}
                         THEN OldIndices(cell, unique[i + 1]) ELSE @[i]]]

(* Mutant: the ends of pins that are gone stay on the nets. *)
SyncedSinks_OnlyAdded(theCells, theNets) ==
  [n \in DOMAIN theNets |->
     [theNets[n] EXCEPT
        !.sinks = @ \cup
                  UNION {{CellEnd(c, p.pin) : p \in {q \in theCells[c].ins : q.net = n}} :
                         c \in DOMAIN theCells}]]

(* sync_cell_input_sinks: the cell ends of a net are those of the pins. *)
SyncedSinks(theCells, theNets) ==
  [n \in DOMAIN theNets |->
     [theNets[n] EXCEPT
        !.sinks = {s \in @ : s.kind # "cell"} \cup
                  UNION {{CellEnd(c, p.pin) : p \in {q \in theCells[c].ins : q.net = n}} :
                         c \in DOMAIN theCells}]]

NormalizeLuts ==
  /\ pc = "luts"
  /\ cells' = [c \in DOMAIN cells |-> IF NeedsNormalizing(cells[c])
                                        THEN NormalizedLut(cells[c]) ELSE cells[c]]
  /\ nets' = IF cells' = cells THEN nets ELSE SyncedSinks(cells', nets)
  /\ pc' = "constants"
  /\ UNCHANGED <<pending, ports, netEnds, imported>>

----------------------------------------------------------------------------
(* Constants *)

Lowered == {c \in DOMAIN cells : IsConstant(cells[c]) /\ cells[c].outs # {}}

ConstantLut(cell) ==
  [cell EXCEPT !.kind  = "lut",
               !.width = LutSize,
               !.ins   = {},
               !.outs  = {[p EXCEPT !.pin = "O"] : p \in @},
               !.init  = IF ConstantValue[cell.kind] = 1 THEN Addresses(LutSize) ELSE {}]

LoweredDriver(net) ==
  IF HasCellDriver(net) /\ net.driver.name \in Lowered
    THEN [net EXCEPT !.driver.pin = "O"] ELSE net

LowerConstants ==
  /\ pc = "constants"
  /\ cells' = [c \in DOMAIN cells |-> IF c \in Lowered THEN ConstantLut(cells[c]) ELSE cells[c]]
  /\ nets' = [n \in DOMAIN nets |-> LoweredDriver(nets[n])]
  /\ pc' = "gates"
  /\ UNCHANGED <<pending, ports, netEnds, imported>>

----------------------------------------------------------------------------
(* Gates: all are decided on the design as it is, then inserted one by one *)

(* Mutant: a LUT that reads the clock of any register will do. *)
ReadsClock_OfAny(net, clock) ==
  /\ HasCellDriver(nets[net])
  /\ LET driver == cells[nets[net].driver.name]
         clocks == UNION {NetsAtPin(cells[c], "CK") : c \in DOMAIN cells}
     IN  IsLut(driver) /\ \E p \in driver.ins : p.net \in clocks

(* The driver of a net is a LUT that reads the clock. *)
ReadsClock(net, clock) ==
  /\ HasCellDriver(nets[net])
  /\ LET driver == cells[nets[net].driver.name]
     IN  IsLut(driver) /\ \E p \in driver.ins : p.net = clock

Gates ==
  {g \in [ff : DOMAIN cells, source : DOMAIN nets, clock : DOMAIN nets] :
     /\ IsSequential(cells[g.ff])
     /\ g.source \in NetsAtPin(cells[g.ff], "D")
     /\ g.clock \in NetsAtPin(cells[g.ff], "CK")
     /\ ~ReadsClock(g.source, g.clock)}

FindGates ==
  /\ pc = "gates"
  /\ pending' = Gates
  /\ pc' = IF Gates = {} THEN "prune" ELSE "gating"
  /\ UNCHANGED <<ports, netEnds, cells, nets, imported>>

UniqueName(used, base) ==
  LET Candidate(k) == base \o "_" \o ToString(k)
      fresh        == {k \in 0..Cardinality(used) : Candidate(k) \notin used}
  IN  IF base \notin used THEN base ELSE Candidate(Min(fresh))

(* The table of a LUT2 that copies ADR0, whatever ADR1 is. *)
GateInit == {1, 3}

GateLut(gate, output) ==
  [kind    |-> "lut",
   width   |-> 2,
   init    |-> GateInit,
   renames |-> <<>>,
   pinMap  |-> [i \in Range(LutIndex) |-> {i}],
   ins     |-> {[pin |-> "ADR0", net |-> gate.source], [pin |-> "ADR1", net |-> gate.clock]},
   outs    |-> {[pin |-> "O", net |-> output]}]

InsertGate(gate) ==
  LET used  == DOMAIN cells \cup DOMAIN nets
      lut   == UniqueName(used, gate.ff \o "__d_gate_lut")
      gated == UniqueName(used \cup {lut}, gate.ff \o "__d_gate_net")
      ff    == [cells[gate.ff] EXCEPT
                  !.ins = {IF p.pin = "D" THEN [p EXCEPT !.net = gated] ELSE p : p \in @}]
  IN  /\ pc = "gating"
      /\ cells' = (gate.ff :> ff) @@ (lut :> GateLut(gate, gated)) @@ cells
      /\ nets' = (gated :> [driver |-> CellEnd(lut, "O"), sinks |-> {}]) @@ nets
      /\ pending' = pending \ {gate}
      /\ UNCHANGED <<pc, ports, netEnds, imported>>

GatesInserted ==
  /\ pc = "gating" /\ pending = {}
  /\ nets' = SyncedSinks(cells, nets)
  /\ pc' = "prune"
  /\ UNCHANGED <<pending, ports, netEnds, cells, imported>>

----------------------------------------------------------------------------
(* prune_disconnected_nets *)

Prune ==
  /\ pc = "prune"
  /\ nets' = Restrict(nets, {n \in DOMAIN nets : nets[n].driver # NoDriver \/ nets[n].sinks # {}})
  /\ pc' = "done"
  /\ UNCHANGED <<pending, ports, netEnds, cells, imported>>

----------------------------------------------------------------------------

Init ==
  /\ pc = "import"
  /\ pending = {}
  /\ \E netlist \in Netlists :
       /\ ports = netlist.ports
       /\ netEnds = netlist.nets
       /\ cells = netlist.cells
  /\ nets = <<>>
  /\ imported = <<>>

Next ==
  \/ Import
  \/ CanonicalizeInits
  \/ NormalizeBlockRams
  \/ RejectGenericCells
  \/ NormalizeLuts
  \/ LowerConstants
  \/ FindGates
  \/ \E gate \in pending : InsertGate(gate)
  \/ GatesInserted
  \/ Prune

Spec == Init /\ [][Next]_vars

----------------------------------------------------------------------------
(* What the design computes: a value for every net obeys a set of cells if *)
(* every LUT and constant gives its value to the nets it drives.           *)

LutOutput(cell, value) ==
  LET ones == {LutIndex[p.pin] : p \in {q \in IndexedInputs(cell) : value[q.net] = 1}}
  IN  IF MapThenSumSet(LAMBDA i : 2^i, ones) \in CanonicalInit(cell) THEN 1 ELSE 0

Obeys(value, theCells) ==
  \A c \in DOMAIN theCells : \A p \in theCells[c].outs :
    /\ IsConstant(theCells[c]) => value[p.net] = ConstantValue[theCells[c].kind]
    /\ IsLut(theCells[c]) /\ p.pin \in LutOutputPins =>
         value[p.net] = LutOutput(theCells[c], value)

DataValues(theCells, value) ==
  [c \in {d \in DOMAIN imported.cells : IsSequential(imported.cells[d])} |->
     {value[n] : n \in NetsAtPin(theCells[c], "D")}]

(* Mapping keeps the function: the values the imported nets may have       *)
(* together are the same before and after, and with each of them every     *)
(* register is handed the same data (rewrite.rs 118-198, 292-430).         *)
FunctionKept ==
  pc = "done" =>
    \A value \in [DOMAIN imported.nets -> {0, 1}] :
      LET added == [n \in DOMAIN nets \ DOMAIN value |->
                      LutOutput(cells[nets[n].driver.name], value)]
          now   == value @@ added
      IN  /\ Obeys(value, imported.cells) <=> Obeys(now, cells)
          /\ Obeys(now, cells) =>
               DataValues(imported.cells, value) = DataValues(cells, now)

(* Between passes the pins of the cells and the ends of the nets are the   *)
(* same connections, whichever side a pass has changed (rewrite.rs 200).   *)
BothSidesAgree ==
  pc \notin {"import", "gating"} =>
    \A c \in DOMAIN cells : /\ cells[c].ins = SinkPins(c, nets)
                            /\ cells[c].outs = DriverPins(c, nets)

(* Every register data input is driven by a LUT that has the clock of that *)
(* very register among its inputs (rewrite.rs 340-346), also when two      *)
(* registers share the data and not the clock.                             *)
RegistersGated ==
  pc = "done" =>
    \A c \in {d \in DOMAIN cells : IsSequential(cells[d])} :
      \A data \in NetsAtPin(cells[c], "D"), clock \in NetsAtPin(cells[c], "CK") :
        \E l \in DOMAIN cells :
          /\ IsLut(cells[l])
          /\ \E p \in cells[l].outs : p.net = data
          /\ \E q \in cells[l].ins : q.net = clock

(* The rewriting passes (rewrite.rs) keep cells and nets in step and leave *)
(* the function of the design as it was, gated registers included.         *)
MappingSound == FunctionKept /\ BothSidesAgree /\ RegistersGated
=============================================================================
