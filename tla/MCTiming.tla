------------------------------ MODULE MCTiming ------------------------------
(***************************************************************************)
(* The two halves of the timing analysis, of which one moves.              *)
(*                                                                         *)
(* Passes: every design of three cells with at most two inputs each:       *)
(* forward, against the order of the cells, reconvergent and looped.       *)
(*                                                                         *)
(* Constraints: two flip-flops and a block RAM with one or both ports      *)
(* connected, one of the flip-flops behind a buffer, a gate, a ring of     *)
(* buffers or another clock; clocks in either file, both or none, with     *)
(* delays for the data input, the output or the clock.                     *)
(***************************************************************************)
EXTENDS StaTiming, TimingConstraints, TLC

VARIABLE part

\* An analysis that has ended with a loop.
PassesIdle ==
  /\ phase = "loop" /\ inputs = [c \in Cells |-> {c}]
  /\ arrival = [n \in Nodes |-> 0] /\ required = arrival
  /\ pass = 1 /\ cell = 1 /\ changed = FALSE

ConstraintsIdle ==
  /\ project = <<>> /\ stage = "idle" /\ clocks = <<>> /\ next_cell = 0
  /\ register_inputs = <<>> /\ endpoint_requirements = <<>> /\ used_clocks = {}
  /\ constraint_status = "NOT ANALYZED"

PassesStep == part = "passes" /\ Next /\ UNCHANGED <<part, constraintVars>>

TimingNext ==
  \/ PassesStep
  \/ part = "constraints" /\ ConstraintsNext /\ UNCHANGED <<part, vars>>

TimingSpec ==
  /\ \/ part = "passes" /\ Init /\ ConstraintsIdle
     \/ part = "constraints" /\ PassesIdle /\ ConstraintsInit
  /\ [][TimingNext]_<<part, vars, constraintVars>>
  /\ WF_vars(PassesStep)

-----------------------------------------------------------------------------

Register == 11
Port == 12
Data == 21
Output == 22
MCStarts == {Register, Port}
MCEnds == {Data, Output}
MCLaunch == [s \in MCStarts |-> IF s = Register THEN 1 ELSE 3]
MCEndDriver == [e \in MCEnds |-> IF e = Data THEN 3 ELSE 2]
MCCellDelay == <<1, 2, 1>>
MCNetDelay(s, n) == IF s = Register THEN 2 ELSE IF n = 1 THEN 3 ELSE 1
MCRequirement == [e \in {Data} |-> 6]
MCDesigns == [1 .. 3 -> {S \in SUBSET (1 .. 3 \union MCStarts) : Cardinality(S) <= 2}]

Domain(clock, captures, launches) == [clock |-> clock, captures |-> captures, launches |-> launches]

FlipFlop(clock, d, q) == [kind |-> "flip_flop", input |-> NoNet, domains |-> {Domain(clock, {d}, {q})}]

Ram(sideB) ==
  [kind |-> "block_ram", input |-> NoNet,
   domains |-> {Domain("clk_n", {"ram_a"}, {}), Domain(sideB, {"ram_b"}, {"ram_q"})}]

Simple(kind, net) == [kind |-> kind, input |-> net, domains |-> {}]

\* What clocks the second flip-flop: its kind of driver, and where that leads.
Drivers == {<<"buffer", "clk_n">>, <<"buffer", "ck2_n">>, <<"lut", "clk_n">>,
            <<"buffer", "ring_n">>, <<"latch", "clk_n">>}

DesignOf(driver, second, ram, modeled) ==
  [ports |-> ("clk" :> "input") @@ ("ck2" :> "input") @@ ("din" :> "input")
             @@ ("dout" :> IF second = "ck2_n" THEN "inout" ELSE "output"),
   drivers |-> ("clk_n" :> "clk") @@ ("ck2_n" :> "ck2") @@ ("via_n" :> "via") @@ ("ring_n" :> "via"),
   cells |-> ("r1" :> FlipFlop("clk_n", "r1_d", "r1_q")) @@ ("r2" :> FlipFlop(second, "r2_d", "r2_q"))
             @@ ("ram" :> ram) @@ ("via" :> Simple(driver[1], driver[2])),
   order |-> <<"r1", "ram", "r2">> \o IF driver[1] = "latch" THEN <<"via">> ELSE <<>>,
   feeds |-> ("r1_d" :> [start |-> "din", delay |-> 1]) @@ ("r2_d" :> [start |-> "r1_q", delay |-> 3])
             @@ ("ram_a" :> [start |-> "r2_q", delay |-> 1]) @@ ("dout" :> [start |-> "ram_q", delay |-> 1]),
   launch |-> [q \in {"r1_q", "r2_q", "ram_q"} |-> 1],
   setup |-> 1, ram_setup |-> IF modeled THEN 2 ELSE 0, ram_timing |-> modeled]

DesignsWithRam ==
  {DesignOf(d, s, Ram(b), m) :
     d \in Drivers, s \in {"clk_n", "via_n", "ck2_n"}, b \in {"clk_n", NoNet}, m \in BOOLEAN}

Clock(name, port, period) == [name |-> name, port |-> port, period |-> period]
Delay(port) == [port |-> port, clock |-> "c1", delay |-> 1]

XmlClocks == {<<>>, <<Clock("c1", "clk", 6)>>, <<Clock("c2", "ck2", 7)>>}
SdcClocks == {<<>>, <<Clock("c1", "clk", 6)>>, <<Clock("c1", "clk", 8)>>,
              <<Clock("c1", "clk", 4), Clock("c2", "ck2", 8)>>, <<Clock("c3", "dout", 6)>>}
InputDelays == {<<>>, <<Delay("din")>>, <<Delay("clk")>>, <<Delay("din"), Delay("ck2")>>,
                <<Delay("din"), Delay("din")>>, <<Delay("din"), Delay("ck2"), Delay("dout")>>}
OutputDelays == {<<>>, <<Delay("dout")>>}
Uncertainties == {<<>>, <<[clock |-> "c1", setup |-> 1]>>}

MCTimedProjects ==
  {D @@ [xml |-> x, sdc |-> [clocks |-> k, inputs |-> i, outputs |-> o, uncertainties |-> u]] :
     D \in DesignsWithRam, x \in XmlClocks, k \in SdcClocks, i \in InputDelays,
     o \in OutputDelays, u \in Uncertainties}
=============================================================================
