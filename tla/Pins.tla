-------------------------------- MODULE Pins --------------------------------
(***************************************************************************)
(* The names of pins and wires (core/domain): what a pin of a LUT, a       *)
(* flip-flop or a block RAM is for, the wires and XML pins of a slice, and *)
(* the three spellings of a block RAM pin, on the cell, in the physical    *)
(* XML and at the wires of the RAM's column.                               *)
(***************************************************************************)
EXTENDS Integers, Sequences

CONSTANT None

(***************************************************************************)
(* PinRole::classify_for_primitive.  Pins of LUTs are <<"ADR", i>> and     *)
(* <<"O">>.                                                                *)
(***************************************************************************)
ClockPins       == {<<"C">>, <<"CK">>, <<"CLK">>, <<"CKN">>, <<"CLKN">>}
InvertedPins    == {<<"CKN">>, <<"CLKN">>}
ClockEnablePins == {<<"CE">>, <<"E">>}
SetResetPins    == {<<"R">>, <<"S">>, <<"RN">>, <<"SN">>, <<"SR">>, <<"RST">>,
                    <<"RESET">>, <<"SET">>, <<"CLR">>, <<"CLEAR">>}

RegisterRole(pin) ==
  CASE pin = <<"Q">> -> "output"
    [] pin \in ClockPins -> "clock"
    [] pin \in ClockEnablePins -> "enable"
    [] pin \in SetResetPins -> "setreset"
    [] pin = <<"D">> -> "data"
    [] OTHER -> None

(***************************************************************************)
(* SliceSlot: the pins of a slice in the XML and its wires, by slot.       *)
(***************************************************************************)
Half == [X |-> 0, Y |-> 1]
OutPin(slot)    == <<"X", "Y">>[slot + 1]
RegOutPin(slot) == <<"XQ", "YQ">>[slot + 1]
BypassPin(slot) == <<"BX", "BY">>[slot + 1]
LutPin(slot)    == <<"F", "G">>[slot + 1]

SliceWire(site, pin) == <<"slice", site>> \o pin

LutOutWire(site, slot) == SliceWire(site, <<OutPin(slot)>>)
RegOutWire(site, slot) == SliceWire(site, <<RegOutPin(slot)>>)
LutInWire(site, slot, i) == SliceWire(site, <<LutPin(slot), i + 1>>)
ControlWire(site, role) ==
  SliceWire(site, <<[clock |-> "CLK_B", enable |-> "CE_B", setreset |-> "SR_B"][role]>>)
DataWire(site, slot) == SliceWire(site, <<BypassPin(slot), "B">>)

(***************************************************************************)
(* BlockRamPin.                                                            *)
(***************************************************************************)
Sides == {"A", "B"}
Signals == {"clock", "write", "reset", "enable"}

(* BlockRamPin::parse of the controls: all the spellings it accepts. *)
ControlNames ==
  [CLK |-> <<"clock", "A">>,  CKA  |-> <<"clock", "A">>,  CLKA |-> <<"clock", "A">>,
   WE  |-> <<"write", "A">>,  AWE  |-> <<"write", "A">>,  WEA  |-> <<"write", "A">>,
   RST |-> <<"reset", "A">>,  RSTA |-> <<"reset", "A">>,
   EN  |-> <<"enable", "A">>, ENA  |-> <<"enable", "A">>, AEN  |-> <<"enable", "A">>,
   SELA |-> <<"enable", "A">>,
   CKB |-> <<"clock", "B">>,  CLKB |-> <<"clock", "B">>,
   BWE |-> <<"write", "B">>,  WEB  |-> <<"write", "B">>,
   RSTB |-> <<"reset", "B">>,
   BEN |-> <<"enable", "B">>, ENB  |-> <<"enable", "B">>, SELB |-> <<"enable", "B">>]

(* ... and of the buses, which may stand without an index for bit 0. *)
BusNames ==
  [DI   |-> <<"in", "A">>,   DIA   |-> <<"in", "A">>,   DIB   |-> <<"in", "B">>,
   DO   |-> <<"out", "A">>,  DOA   |-> <<"out", "A">>,  DOB   |-> <<"out", "B">>,
   ADDR |-> <<"addr", "A">>, ADDRA |-> <<"addr", "A">>, ADDRB |-> <<"addr", "B">>]

RamPin(name) ==
  CASE name[1] \in DOMAIN ControlNames /\ Len(name) = 1 -> ControlNames[name[1]]
    [] name[1] \in DOMAIN BusNames /\ Len(name) = 2 -> Append(BusNames[name[1]], name[2])
    [] /\ name[1] \in DOMAIN BusNames /\ Len(name) = 1
       /\ BusNames[name[1]][1] # "addr" -> Append(BusNames[name[1]], 0)
    [] OTHER -> None

IsRamOutput(name) == RamPin(name) # None /\ RamPin(name)[1] = "out"
IsRamClock(name)  == RamPin(name) # None /\ RamPin(name)[1] = "clock"

(* BlockRamPin::physical_port_name. *)
PhysicalControl == [A |-> [clock |-> "CKA", write |-> "AWE", reset |-> "RSTA", enable |-> "AEN"],
                    B |-> [clock |-> "CKB", write |-> "BWE", reset |-> "RSTB", enable |-> "BEN"]]
PhysicalBus == [A |-> [in |-> "DINA", out |-> "DOUTA", addr |-> "ADDRA_"],
                B |-> [in |-> "DINB", out |-> "DOUTB", addr |-> "ADDRB_"]]

PhysicalRamPin(name) ==
  LET pin == RamPin(name)
  IN CASE pin = None -> None
       [] pin # None /\ pin[1] \in Signals -> <<PhysicalControl[pin[2]][pin[1]]>>
       [] OTHER -> <<PhysicalBus[pin[2]][pin[1]], pin[3]>>

(* BlockRamPin::normalized_cell_pin_name: separators dropped, DIN and DOUT *)
(* shortened, and the name kept only if it is that of a pin.               *)
Shortened == [DINA |-> "DIA", DINB |-> "DIB", DOUTA |-> "DOA", DOUTB |-> "DOB",
              ADDRA_ |-> "ADDRA", ADDRB_ |-> "ADDRB"]

(* Mutant: the bits of the B side come back on side A. *)
ImportedRamPin_OneSide(name) ==
  LET short == IF name[1] \in {"DINB", "DOUTB"}
               THEN <<[DINB |-> "DIA", DOUTB |-> "DOA"][name[1]]>> \o Tail(name)
               ELSE IF name[1] \in DOMAIN Shortened THEN <<Shortened[name[1]]>> \o Tail(name) ELSE name
  IN IF RamPin(short) = None THEN None ELSE short

ImportedRamPin(name) ==
  LET short == IF name[1] \in DOMAIN Shortened THEN <<Shortened[name[1]]>> \o Tail(name) ELSE name
  IN IF RamPin(short) = None THEN None ELSE short

(* BlockRamPin::route_target: the wire, with the address bits in reverse,  *)
(* and the row of the RAM's column, relative to its tile, that has it.     *)
RouteControl == [A |-> [clock |-> "CLKA", write |-> "WEA", reset |-> "RSTA", enable |-> "SELA"],
                 B |-> [clock |-> "CLKB", write |-> "WEB", reset |-> "RSTB", enable |-> "SELB"]]
RouteBus == [A |-> [in |-> "DIA", out |-> "DOA", addr |-> "ADDRA"],
             B |-> [in |-> "DIB", out |-> "DOB", addr |-> "ADDRB"]]
DataInRow(i) == CASE i \in {0, 2, 8, 10} -> -3
                  [] i \in {1, 3, 9, 11} -> -2
                  [] i \in {4, 5, 12, 13} -> -1
                  [] i \in {6, 7, 14, 15} -> 0
                  [] OTHER -> None
RoutedAddr(i) == 11 - i

RamTarget(name) ==
  LET pin == RamPin(name)
      at(wire, row) == [wire |-> <<"bram">> \o wire, row |-> row]
  IN CASE pin = None -> None
       [] pin # None /\ pin[1] \in Signals ->
            at(<<RouteControl[pin[2]][pin[1]]>>, IF pin[2] = "A" THEN -2 ELSE -1)
       [] pin # None /\ pin[1] = "addr" ->
            IF pin[3] > 11 THEN None
            ELSE at(<<RouteBus[pin[2]].addr, RoutedAddr(pin[3])>>, (RoutedAddr(pin[3]) \div 4) - 2)
       [] pin # None /\ pin[1] = "out" -> at(<<RouteBus[pin[2]].out, pin[3]>>, (pin[3] % 4) - 3)
       [] OTHER -> IF DataInRow(pin[3]) = None THEN None
                   ELSE at(<<RouteBus[pin[2]].in, pin[3]>>, DataInRow(pin[3]))
=============================================================================
