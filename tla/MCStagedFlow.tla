---------------------------- MODULE MCStagedFlow ----------------------------
(* Packed designs put together from a few parts: a register behind a LUT   *)
(* or a port, a second lane in its slice, enable and reset, a LUT with two *)
(* uses, a block RAM and a clock pad of either kind.                       *)
EXTENDS StagedFlow

U(n) == <<"u", n>>
N(n) == <<"n", n>>
Cell(c, pin) == <<"cell", c, pin>>
Port(p) == <<"port", p>>

MCLogicSites == <<<<2, 2, 0>>, <<2, 2, 1>>, <<2, 3, 0>>, <<2, 3, 1>>>>
MCRamSites   == <<<<5, 7, 0>>>>

LutOf(n, table) == [type |-> "lut", inputs |-> n, table |-> table, function |-> None, map |-> <<>>]
Inverter == LutOf(1, [i \in 0..1 |-> 1 - i])
AndOf    == LutOf(2, [i \in 0..3 |-> IF i = 3 THEN 1 ELSE 0])
(* A LUT of three inputs, compacted to two: the first is on two pins. *)
Widened  == [LutOf(3, [i \in 0..7 |-> i % 2]) EXCEPT !.map = (0 :> {0, 2} @@ 1 :> {1})]

FFOf(init) ==
  [type |-> "ff", initType |-> init, inverted |-> FALSE,
   props |-> [k \in {"init", "CKINV", "CEMUX", "SYNC_ATTR", "SRMUX", "SRFFMUX"} |-> None]]
RamOf(dual) ==
  [type |-> "ram", dual |-> dual,
   props |-> (IF dual THEN "PORTA_ATTR" :> "256X16" @@ "PORTB_ATTR" :> "256X16"
              ELSE "PORT_ATTR" :> "512X8" @@ "PORTB_ATTR" :> None)
             @@ "INIT_00" :> "A5"]

(* A part: cells, clusters (their members), and what each pin hangs on.    *)
Part(cells, clusters, rams, drives, sinks) ==
  [cells |-> cells, clusters |-> clusters, rams |-> rams, drives |-> drives, sinks |-> sinks]

(* The first lane, and the second one of its slice. *)
First ==
  [port |-> Part((U("ff1") :> FFOf(None)), <<<<U("ff1")>>>>, <<>>,
                 (N("q1") :> Cell(U("ff1"), <<"Q">>)),
                 {<<<<"a">>, Cell(U("ff1"), <<"D">>)>>}),
   lut  |-> Part((U("ff1") :> FFOf(1) @@ U("lut1") :> Inverter), <<<<U("lut1"), U("ff1")>>>>, <<>>,
                 (N("q1") :> Cell(U("ff1"), <<"Q">>) @@ N("d1") :> Cell(U("lut1"), <<"O">>)),
                 {<<<<"a">>, Cell(U("lut1"), <<"ADR", 0>>)>>, <<N("d1"), Cell(U("ff1"), <<"D">>)>>}),
   used |-> Part((U("ff1") :> FFOf(0) @@ U("lut1") :> Widened), <<<<U("lut1"), U("ff1")>>>>, <<>>,
                 (N("q1") :> Cell(U("ff1"), <<"Q">>) @@ N("d1") :> Cell(U("lut1"), <<"O">>)),
                 {<<<<"a">>, Cell(U("lut1"), <<"ADR", 0>>)>>, <<<<"b">>, Cell(U("lut1"), <<"ADR", 1>>)>>,
                  <<N("d1"), Cell(U("ff1"), <<"D">>)>>, <<N("d1"), Port("y")>>})]

Second ==
  [none  |-> Part(<<>>, <<<<>>>>, <<>>, <<>>, {}),
   ff    |-> Part((U("ff2") :> FFOf(1)), <<<<U("ff2")>>>>, <<>>,
                  (N("q2") :> Cell(U("ff2"), <<"Q">>)),
                  {<<N("q1"), Cell(U("ff2"), <<"D">>)>>, <<N("q2"), Port("z")>>}),
   lutff |-> Part((U("ff2") :> FFOf(None) @@ U("lut2") :> AndOf), <<<<U("lut2"), U("ff2")>>>>, <<>>,
                  (N("q2") :> Cell(U("ff2"), <<"Q">>) @@ N("d2") :> Cell(U("lut2"), <<"O">>)),
                  {<<N("q1"), Cell(U("lut2"), <<"ADR", 0>>)>>, <<<<"b">>, Cell(U("lut2"), <<"ADR", 1>>)>>,
                   <<N("d2"), Cell(U("ff2"), <<"D">>)>>, <<N("q2"), Port("z")>>})]

(* A third register in a slice of its own on the data of the first or the  *)
(* second, and LUTs in a slice of their own.                               *)
Apart(net) ==
  Part((U("ff3") :> FFOf(0)), <<<<U("ff3")>>>>, <<>>,
       (N("q3") :> Cell(U("ff3"), <<"Q">>)),
       {<<net, Cell(U("ff3"), <<"D">>)>>, <<N("q3"), Port("w")>>})
Luts ==
  Part((U("lut3") :> Inverter @@ U("lut4") :> AndOf), <<<<U("lut4"), U("lut3")>>>>, <<>>,
       (N("o3") :> Cell(U("lut3"), <<"O">>) @@ N("o4") :> Cell(U("lut4"), <<"O">>)),
       {<<N("q1"), Cell(U("lut3"), <<"ADR", 0>>)>>, <<N("o3"), Cell(U("lut4"), <<"ADR", 1>>)>>,
        <<<<"b">>, Cell(U("lut4"), <<"ADR", 0>>)>>, <<N("o4"), Port("io")>>, <<<<"io">>, Cell(U("lut3"), <<"ADR", 0>>)>>})
Nothing == Part(<<>>, <<<<>>>>, <<>>, <<>>, {})

Ram(dual) ==
  Part((U("ram") :> RamOf(dual)), <<<<>>>>, <<U("ram")>>,
       (N("do") :> Cell(U("ram"), IF dual THEN <<"DOB", 5>> ELSE <<"DO">>)),
       {<<<<"b">>, Cell(U("ram"), IF dual THEN <<"DIA", 3>> ELSE <<"DI", 3>>)>>,
        <<N("q1"), Cell(U("ram"), IF dual THEN <<"ADDRB", 1>> ELSE <<"ADDR", 1>>)>>,
        <<<<"en">>, Cell(U("ram"), IF dual THEN <<"SELB">> ELSE <<"EN">>)>>,
        <<<<"clk">>, Cell(U("ram"), IF dual THEN <<"CLKA">> ELSE <<"CLK">>)>>, <<N("do"), Port("r")>>}
       \union (IF dual THEN {<<<<"clk">>, Cell(U("ram"), <<"CLKB">>)>>} ELSE {}))

(* Every register has the same clock and the same enable and reset. *)
Controls(ffs, controls) ==
  {<<<<"clk">>, Cell(c, IF "sr" \in controls THEN <<"C">> ELSE <<"CK">>)>> : c \in ffs}
  \union (IF "ce" \in controls THEN {<<<<"en">>, Cell(c, <<"E">>)>> : c \in ffs} ELSE {})
  \union (IF "sr" \in controls THEN {<<<<"rst">>, Cell(c, <<"RN">>)>> : c \in ffs} ELSE {})

In  == {"a", "b", "clk", "en", "rst"}
Out == {"q", "y", "z", "w", "r"}

DesignOf(first, second, apart, ram, controls) ==
  LET cells  == first.cells @@ second.cells @@ apart.cells @@ ram.cells
      ffs    == {c \in DOMAIN cells : cells[c].type = "ff"}
      drives == first.drives @@ second.drives @@ apart.drives @@ ram.drives
      sinks  == first.sinks \union second.sinks \union apart.sinks \union ram.sinks
                \union Controls(ffs, controls) \union {<<N("q1"), Port("q")>>}
      slices == SelectSeq(<<first.clusters[1] \o second.clusters[1], apart.clusters[1]>>, LAMBDA m : m # <<>>)
      ports  == In \union {s[2][2] : s \in {t \in sinks : t[2][1] = "port"}}
      names  == {s[1] : s \in sinks}
      Driver(n) == IF Len(n) = 1 THEN Port(n[1]) ELSE drives[n]
      order  == Listed(names)
  IN [stage    |-> "packed",
      ports    |-> [p \in ports |-> [dir |-> CASE p \in In -> "in" [] p \in Out -> "out" [] OTHER -> "inout",
                                     pin |-> None, at |-> None]],
      cells    |-> cells,
      clusters |-> [k \in DOMAIN slices |-> [kind |-> "logic", members |-> slices[k], at |-> None]]
                   \o [k \in DOMAIN ram.rams |-> [kind |-> "ram", members |-> <<ram.rams[k]>>, at |-> None]],
      nets     |-> [i \in DOMAIN order |->
                      [name |-> order[i], driver |-> Driver(order[i]), pips |-> {},
                       sinks |-> Listed({s[2] : s \in {t \in sinks : t[1] = order[i]}})]],
      bound    |-> [c \in DOMAIN cells |-> None]]

(* The pads: one for each port, another for the clock, and what is         *)
(* constrained.                                                            *)
AllPorts == In \union Out \union {"io"}
PadPin(p) == <<"pin", p>>
ClockPin == <<"pin", "global">>
Pads ==
  [pin \in {PadPin(p) : p \in AllPorts} \union {ClockPin} |->
     IF pin = ClockPin THEN [kind |-> "gclkiob", at |-> <<0, 0, 1>>]
     ELSE [kind |-> "iob",
           at   |-> <<1, CHOOSE i \in 1..Cardinality(AllPorts) : Listed(AllPorts)[i] = pin[2], 0>>]]

EnvOf(clock) ==
  [pads |-> Pads, pins |-> IF clock = None THEN <<>> ELSE ("clk" :> clock @@ "q" :> PadPin("q")),
   fallback |-> [p \in AllPorts |-> PadPin(p)]]

Clocks == {ClockPin, PadPin("clk"), None}

Project(design, clock) == [design |-> design, env |-> EnvOf(clock)]

MCProjects ==
  {Project(DesignOf(First[f], Second[s], Nothing, Nothing, {"ce", "sr"}), ClockPin) :
     f \in DOMAIN First, s \in DOMAIN Second}
  \union
  {Project(DesignOf(First[f], Second[s], Luts, Ram(f = "lut"), {}), clock) :
     f \in DOMAIN First, s \in {"none", "lutff"}, clock \in Clocks}
  \union
  {Project(DesignOf(First[f], Second["lutff"], Apart(N("d2")), Nothing, {"sr"}), clock) :
     f \in DOMAIN First, clock \in {ClockPin, None}}

(* A register in the first slot of another slice, on the data of a LUT in  *)
(* the first slot of the first.                                            *)
MCFanout == {Project(DesignOf(First["used"], Second["none"], Apart(N("d1")), Nothing, {}), ClockPin)}
=============================================================================
