--------------------------- MODULE MCMapRewrite ---------------------------
(* A LUT with repeated, missing and clock inputs, a second LUT that has the *)
(* name a gate would get, two registers that may share data and differ in   *)
(* their clocks, a constant, a block RAM whose new pin names are old ones.  *)
EXTENDS LutSite

Identity == [i \in 0..3 |-> {i}]

PlainCell(kind, width, init, renames) ==
  [kind |-> kind, width |-> width, init |-> init, renames |-> renames,
   pinMap |-> Identity, ins |-> {}, outs |-> {}]

CellChoices ==
  {[lut  |-> PlainCell("lut", 3, table, <<>>),
    ff1__d_gate_lut |-> PlainCell("lut", 2, {1, 2}, <<>>),
    ff1  |-> PlainCell("ff", 0, {}, <<>>),
    ff2  |-> PlainCell("ff", 0, {}, <<>>),
    tie  |-> PlainCell(tie, 0, {}, <<>>),
    ram  |-> PlainCell("bram", 0, {}, [ADDR0 |-> "ADDR1", ADDR1 |-> "ADDR2"])] :
     table \in {NoInit, {1, 2, 4, 7}}, tie \in {"zero", "one", "generic"}}

PortEnd(name) == [kind |-> "port", name |-> name, pin |-> name]

(* All ends in the order of the file, and the nets they may be on. *)
Ends ==
  << PortEnd("q"), CellEnd("ff1", "D"), CellEnd("ff1", "CK"), CellEnd("ff2", "D"),
     CellEnd("ff2", "CK"), CellEnd("lut", "ADR0"), CellEnd("lut", "ADR1"),
     CellEnd("lut", "ADR2"), CellEnd("ff1__d_gate_lut", "ADR0"),
     CellEnd("ff1__d_gate_lut", "ADR1"), CellEnd("ram", "ADDR0"), CellEnd("ram", "ADDR1"),
     CellEnd("lut", "O"), CellEnd("ff1__d_gate_lut", "O"), CellEnd("tie", "P"),
     CellEnd("ff1", "Q"), PortEnd("a"), PortEnd("b"), PortEnd("clk") >>

Open == "open"

Attachments ==
  {<<"q", d1, "clk", d2, c2, l0, l1, l2, g0, g1, "a", "b", "y", "z", "k", "q", "a", "b", "clk">> :
     d1 \in {"y", "z"}, d2 \in {"z", "k", "u"}, c2 \in {"clk", "b", Open},
     l0 \in {"a", "u"}, l1 \in {"a", "clk"}, l2 \in {"b", "a", Open},
     g0 \in {"y", "u"}, g1 \in {"clk", "b", "k"}}

NetNames == {"a", "b", "clk", "u", "y", "z", "k", "q"}

EndsOn(net, attachment) ==
  LET on == SelectSeq([i \in DOMAIN Ends |-> i], LAMBDA i : attachment[i] = net)
  IN  [j \in DOMAIN on |-> Ends[on[j]]]

SmallNetlists ==
  {[ports |-> {"a", "b", "clk"}, cells |-> cellChoice,
    nets |-> [n \in NetNames |-> EndsOn(n, attachment)]] :
     cellChoice \in CellChoices, attachment \in Attachments}
=============================================================================
