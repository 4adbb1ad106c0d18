--------------------------- MODULE SiteProgramming ---------------------------
(***************************************************************************)
(* What bit generation asks of every site (bitgen/programming): the cells  *)
(* of a device are gathered by site, each site is given a program by its   *)
(* kind (derive.rs), and the program becomes requests for configuration    *)
(* elements (emit.rs).  A request is <<element, value>>; the requests of a *)
(* site are a set, of one value for each element.                          *)
(***************************************************************************)
EXTENDS DeviceLowering

CellsAt(dev, site) == {c \in DOMAIN dev.cells : <<dev.cells[c].at, dev.cells[c].site>> = site}

(* derive_site_programs: constant sources are on no site. *)
Sites(dev) == {<<dev.cells[c].at, dev.cells[c].site>> : c \in DOMAIN dev.cells} \ {<<<<0, 0, 0>>, "const">>}

(* endpoint_matches_cell_pin, over the nets. *)
SinkPins(dev, c) ==
  {s[3] : s \in {t \in UNION {ToSet(net.sinks) : net \in ToSet(dev.nets)} : IsCell(t) /\ t[2] = c}}
NetsFrom(dev, c, pin) == {net \in ToSet(dev.nets) : net.driver = <<"cell", c, pin>>}

(***************************************************************************)
(* derive_slice_program.                                                   *)
(***************************************************************************)
InSite(dev, c, d) ==
  /\ dev.cells[c].site = "slice" /\ dev.cells[d].site = "slice"
  /\ dev.cells[c].at = dev.cells[d].at
  /\ dev.cells[c].slot = dev.cells[d].slot

(* is_paired_ff_d_sink. *)
IsPairedSink(dev, lut, sink) ==
  /\ IsCell(sink) /\ sink[3] = <<"D">>
  /\ InSite(dev, sink[2], lut) /\ dev.cells[sink[2]].of.type = "ff"

(* slice_lut_output_usage. *)
RoutedOutput(dev, lut) ==
  \E net \in NetsFrom(dev, lut, <<"O">>) :
    \E s \in ToSet(net.sinks) : ~IsPairedSink(dev, lut, s)

(* slice_ff_data_path: data without a driver counts as local. *)
LocalPath(dev, ff) ==
  LET nets == SelectSeq(dev.nets, LAMBDA net : <<"cell", ff, <<"D">>>> \in ToSet(net.sinks))
  IN \/ nets = <<>>
     \/ nets[1].driver = None
     \/ /\ IsCell(nets[1].driver)
        /\ InSite(dev, nets[1].driver[2], ff)
        /\ dev.cells[nets[1].driver[2]].of.type = "lut"

UsesRole(dev, ff, role) == \E pin \in SinkPins(dev, ff) : RegisterRole(pin) = role

(* normalized_site_lut_truth_table_bits: the table over and over. *)
SiteTable(cell) == [i \in 0..15 |-> cell.table[i % Cardinality(DOMAIN cell.table)]]

InitValue(cell) ==
  CASE cell.props.init # None -> cell.props.init
    [] cell.props.init = None /\ cell.initType # None -> cell.initType
    [] OTHER -> 0

(***************************************************************************)
(* emit_slice_requests.  Elements are named <<name>>, those of a slot      *)
(* <<name, slot>>.                                                         *)
(***************************************************************************)
LutRequests(dev, lut, slot) ==
  {<<<<"lut", slot>>, SiteTable(dev.cells[lut].of)>>, <<<<"lutMux", slot>>, "lut">>}
  \union (IF RoutedOutput(dev, lut) THEN {<<<<"used", slot>>, "0">>} ELSE {})

RegisterRequests(dev, ff, slot) ==
  {<<<<"ff", slot>>, "#FF">>, <<<<"init", slot>>, InitValue(dev.cells[ff].of)>>}
  \union (IF LocalPath(dev, ff) THEN {<<<<"data", slot>>, "1">>}
          ELSE {<<<<"data", slot>>, "0">>, <<<<"bypass", slot>>, "B">>})

(* The elements of the flip-flops' shared clock, enable and reset. *)
SharedRequests(dev, ffs) ==
  IF ffs = {} THEN {}
  ELSE {<<<<"CKINV">>, "1">>, <<<<"SYNC_ATTR">>, "ASYNC">>}
       \union (IF \E c \in ffs : UsesRole(dev, c, "enable") THEN {<<<<"CEMUX">>, "CE">>} ELSE {})
       \union (IF \E c \in ffs : UsesRole(dev, c, "setreset")
               THEN {<<<<"SRMUX">>, "SR_B">>, <<<<"SRFFMUX">>, "0">>} ELSE {})

SliceRequests(dev, cells) ==
  LET OfType(type) == {c \in cells : dev.cells[c].of.type = type}
  IN UNION {LutRequests(dev, c, dev.cells[c].slot) : c \in OfType("lut")}
     \union UNION {RegisterRequests(dev, c, dev.cells[c].slot) : c \in OfType("ff")}
     \union SharedRequests(dev, OfType("ff"))

(***************************************************************************)
(* derive_block_ram_program, emit_block_ram_requests.                      *)
(***************************************************************************)
Given(cell, key) == key \in DOMAIN cell.props /\ cell.props[key] # None

(* port_attr_value. *)
PortAttr(cell, side) ==
  LET key == IF side = "A" THEN "PORTA_ATTR" ELSE "PORTB_ATTR"
  IN CASE side = "B" /\ ~cell.dual -> None
       [] (side = "A" \/ cell.dual) /\ Given(cell, key) -> cell.props[key]
       [] side = "A" /\ ~cell.dual /\ ~Given(cell, key) /\ Given(cell, "PORT_ATTR") -> cell.props.PORT_ATTR
       [] OTHER -> None

RamMux == [clock |-> "CLKMUX", write |-> "WEMUX", reset |-> "RSTMUX", enable |-> "ENMUX"]

IsInitKey(key) == key \notin {"PORTA_ATTR", "PORTB_ATTR", "PORT_ATTR"}

(* block_ram_init_words. *)
InitWords(cell) == {<<<<key>>, cell.props[key]>> : key \in {k \in DOMAIN cell.props : IsInitKey(k)}}

RamRequests(dev, c) ==
  LET cell == dev.cells[c].of
      attrs == {side \in Sides : PortAttr(cell, side) # None}
      used  == {ctl \in Signals \X Sides :
                  /\ ctl[2] = "A" \/ cell.dual
                  /\ \E pin \in SinkPins(dev, c) : RamPin(pin) = ctl}
  IN {<<<<"attr", side>>, PortAttr(cell, side)>> : side \in attrs}
     \union {<<<<RamMux[ctl[1]], ctl[2]>>, "signal">> : ctl \in used}
     \union InitWords(cell)

(***************************************************************************)
(* derive_iob_program, emit_iob_requests, and the clock sites.             *)
(***************************************************************************)
IobRequests(dev, c) ==
  {<<<<"IOATTRBOX">>, "LVTTL">>}
  \union (IF NetsFrom(dev, c, <<"IN">>) # {} THEN {<<<<"IMUX">>, "1">>} ELSE {})
  \union (IF <<"OUT">> \in SinkPins(dev, c)
          THEN {<<<<"OMUX">>, "O">>, <<<<"OUTMUX">>, "1">>, <<<<"DRIVEATTRBOX">>, "12">>, <<<<"SLEW">>, "SLOW">>} ELSE {})

SiteRequests(dev, site) ==
  LET cells == CellsAt(dev, site)
      one   == CHOOSE c \in cells : TRUE
  IN CASE site[2] = "slice" -> SliceRequests(dev, cells)
       [] site[2] = "bram" -> RamRequests(dev, one)
       [] site[2] = "iob" -> IobRequests(dev, one)
       [] site[2] = "gclk" -> {<<<<"CEMUX">>, "1">>, <<<<"DISABLE_ATTR">>, "LOW">>}
       [] site[2] = "gclkiob" -> {<<<<"IOATTRBOX">>, "LVTTL">>}

(* build_programming_image: sites, memories and the routes of the design. *)
ProgrammingImage(dev, pips) ==
  [sites    |-> [site \in {s \in Sites(dev) : SiteRequests(dev, s) # {}} |-> SiteRequests(dev, site)],
   memories |-> {<<dev.cells[c].at, InitWords(dev.cells[c].of)>> :
                   c \in {r \in DOMAIN dev.cells : dev.cells[r].site = "bram" /\ InitWords(dev.cells[r].of) # {}}},
   routes   |-> pips]

(* prepare_bitgen: the design is lowered again, without constraints, and   *)
(* its own pips are the routes.                                            *)
Bitgen(d, env) == ProgrammingImage(Lower(d, [env EXCEPT !.pins = <<>>]), DesignPips(d))
=============================================================================
