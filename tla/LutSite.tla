------------------------------ MODULE LutSite ------------------------------
(***************************************************************************)
(* What becomes of a mapped LUT on its site.  The router brings the net of *)
(* an input to the site inputs that the pin map of the cell names          *)
(* (route/mapping/slice.rs); bitgen repeats the truth table of the cell    *)
(* over the addresses of the site (bitgen/literal.rs).                     *)
(*                                                                         *)
(* A table given as an `init` text is programmed by a convention of its    *)
(* own (parse_compact_hex_digit_literal); such LUTs are left out.          *)
(***************************************************************************)
EXTENDS MapRewrite

CONSTANT SiteInputs   \* LOGIC_SLICE_SITE_INPUTS

(* slice_sink_nets: the site inputs an input pin is routed to. *)
RoutedInputs(cell, pin) == cell.pinMap[LutIndex[pin]]

(* widen_truth_table_bits *)
SiteTable(cell) == {a \in Addresses(SiteInputs) : a % 2^cell.width \in cell.init}

(* The addresses a site may see; inputs that are not routed may be anything. *)
SiteAddresses(cell, value) ==
  {a \in Addresses(SiteInputs) :
     \A p \in IndexedInputs(cell) : \A i \in RoutedInputs(cell, p.pin) :
       Bit(a, i) = value[p.net]}

(* preferred_lut_truth_table_bits finds no `init`. *)
WithoutRawInit ==
  {c \in DOMAIN cells : /\ IsLut(cells[c])
                        /\ c \in DOMAIN imported.cells /\ IsLut(imported.cells[c]) =>
                             imported.cells[c].init = NoInit}

(* A pin map names the site inputs of a LUT input (core/domain/routing.rs   *)
(* 295): with the nets of a LUT on the inputs its pin map names, the site   *)
(* gives what the cell gives for these nets.                                *)
SitesComputeTheirLuts ==
  pc = "done" =>
    \A c \in WithoutRawInit :
      \A value \in [{p.net : p \in cells[c].ins} -> {0, 1}] :
        \A a \in SiteAddresses(cells[c], value) :
          a \in SiteTable(cells[c]) <=> LutOutput(cells[c], value) = 1
=============================================================================
