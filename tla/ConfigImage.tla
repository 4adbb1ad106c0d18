----------------------------- MODULE ConfigImage -----------------------------
(***************************************************************************)
(* From the programmed sites and routes to the bits of every tile          *)
(* (bitgen/config_image and bitgen/frame_bitstream/layout).                *)
(*                                                                         *)
(* First each request of a site, then each routed pip, is resolved to bits *)
(* of the tile it is on or of the tile that owns them: the config image.   *)
(* Then every tile of the chip gets its fill, the defaults of its sites    *)
(* and of its transmissions, and the bits of the config image on top.  The *)
(* owner of a bit is worked out in both passes, by two functions.          *)
(*                                                                         *)
(* Tiles are points of a line and the places of a tile its SRAM cells, row *)
(* after row.  A basic cell and an SRAM name are one name here.            *)
(***************************************************************************)
EXTENDS Integers, Sequences, SequencesExt, FiniteSets, FiniteSetsExt

CONSTANTS
  Chips,     \* the tile type at each point, the types, the site definitions
             \* and the default bits of each kind of transmission
  Programs,  \* programmed sites and pips, in order
  None

VARIABLES
  phase,     \* "sites", "routes", "defaults", "bits", "done" or "panic"
  chip, program,
  next,      \* index of the next site or pip, or the next tile
  image,     \* the config image: an assignment for <<tile, place>>
  frames,    \* the SRAM cells of every tile that has a definition
  notes      \* what has been noted

vars == <<phase, chip, program, next, image, frames, notes>>

Tiles == DOMAIN chip.typeAt
KnownTiles == {t \in Tiles : chip.typeAt[t] \in DOMAIN chip.types}
Def(t) == chip.types[chip.typeAt[t]]
Places(t) == 0 .. Def(t).places - 1
SitesOfType(type) == type.clusters \o type.transmissions
SitesOf(t) == SitesOfType(Def(t))

(* iter().find(): the first element of a sequence that passes, or None. *)
FirstOf(s, Passes(_)) ==
  IF \E i \in DOMAIN s : Passes(s[i])
  THEN s[Min({i \in DOMAIN s : Passes(s[i])})]
  ELSE None

NamedSite(sites, name) == FirstOf(sites, LAMBDA s : s.name = name)

(* find_tile_sram and find_route_sram. *)
SramOf(site, name) == FirstOf(site.srams, LAMBDA m : m.name = name)

(***************************************************************************)
(* resolve_site_config: the function of that name, else the first one that *)
(* computes its bits from a literal, else from an equation.                *)
(***************************************************************************)
Digit(value, i) == (value \div 2^i) % 2

AddressedValue(function, sram, value) ==
  IF sram.address = None THEN sram.content
  ELSE IF function.how = "equation" /\ value \in {0, 1} THEN value
  ELSE Digit(value, sram.address)

HasAddress(function) == \E i \in DOMAIN function.srams : function.srams[i].address # None

Expands(function, request) ==
  \/ function.how = "naming"
  \/ request.value # None /\ HasAddress(function)

Expanded(function, request) ==
  [i \in DOMAIN function.srams |->
     [name  |-> function.srams[i].name,
      value |-> IF function.how = "naming"
                THEN function.srams[i].content
                ELSE AddressedValue(function, function.srams[i], request.value)]]

(* The functions that are tried, in order; one that does not exist is None. *)
Tried(element, request) ==
  <<FirstOf(element.functions, LAMBDA f : f.name = request.function),
    FirstOf(element.functions, LAMBDA f : f.how = "srambit"),
    FirstOf(element.functions, LAMBDA f : f.how = "equation")>>

(* The bits a request stands for, or None if it is unmatched. *)
Resolved(elements, request) ==
  LET element  == FirstOf(elements, LAMBDA e : e.name = request.cfg)
      function == FirstOf(Tried(element, request),
                          LAMBDA f : f # None /\ Expands(f, request))
  IN  IF element = None \/ function = None THEN None ELSE Expanded(function, request)

(***************************************************************************)
(* resolve_target_assignment: the tile that a configured bit is kept on in *)
(* the config image.  It is the source tile whenever the owner cannot be   *)
(* determined.                                                             *)
(***************************************************************************)
TargetTile(t, sram) ==
  IF sram.owner # None /\ sram.offset # None /\ t + sram.offset \in Tiles
  THEN t + sram.offset
  ELSE t

TargetNotes(t, sram) ==
  IF sram.owner = None THEN {}
  ELSE IF sram.offset = None THEN {"no offset"}
  ELSE IF t + sram.offset \notin Tiles THEN {"no owner tile"}
  ELSE IF chip.typeAt[t + sram.offset] # sram.owner THEN {"owner type"}
  ELSE {}

(* What one bit of a site, or of a pip, adds to the config image. *)
Assigned(t, site, bit) ==
  LET sram == SramOf(site, bit.name) IN
  IF sram = None \/ sram.place = None THEN <<>>
  ELSE <<[tile |-> TargetTile(t, sram), place |-> sram.place,
          site |-> site.name, name |-> bit.name, value |-> bit.value]>>

AssignedNotes(t, site, bit) ==
  LET sram == SramOf(site, bit.name) IN
  IF sram = None THEN {"no sram"}
  ELSE IF sram.place = None THEN {"no place"}
  ELSE TargetNotes(t, sram)

AssignedAll(t, site, bits) ==
  FlattenSeq([i \in DOMAIN bits |-> Assigned(t, site, bits[i])])

NotesAll(t, site, bits) ==
  UNION {AssignedNotes(t, site, bits[i]) : i \in DOMAIN bits}

(***************************************************************************)
(* encode_programmed_site and encode_route_pip.                            *)
(***************************************************************************)
Requested(elements, request) ==
  LET bits == Resolved(elements, request) IN IF bits = None THEN <<>> ELSE bits

RequestNotes(elements, request) ==
  IF Resolved(elements, request) = None /\ request.function # "#OFF"
  THEN {"unresolved"} ELSE {}

SiteBits(elements, requests) ==
  FlattenSeq([i \in DOMAIN requests |-> Requested(elements, requests[i])])

(* The next programmed site, or pip, and the site of its tile that it sets.  *)
(* A pip brings its bits along, those of a site are resolved.                *)
Known(item) ==
  IF phase = "sites"
  THEN /\ item.tile \in KnownTiles /\ item.kind \in DOMAIN chip.siteDefs
       /\ NamedSite(Def(item.tile).clusters, item.site) # None
  ELSE item.tile \in KnownTiles /\ NamedSite(Def(item.tile).transmissions, item.site) # None

ItemSite(item) ==
  NamedSite(IF phase = "sites" THEN Def(item.tile).clusters ELSE Def(item.tile).transmissions,
            item.site)

ItemBits(item) ==
  IF phase = "sites" THEN SiteBits(chip.siteDefs[item.kind], item.requests) ELSE item.bits

ItemNotes(item) ==
  NotesAll(item.tile, ItemSite(item), ItemBits(item)) \union
  (IF phase = "sites"
   THEN UNION {RequestNotes(chip.siteDefs[item.kind], item.requests[i]) :
                 i \in DOMAIN item.requests}
   ELSE {})

(* Mutant: a later bit replaces an earlier one without a check. *)
Agree_Always(assigned) == TRUE

(* The assertion of TileAccumulator::insert, over all bits of an item. *)
Agree(assigned) ==
  \A i \in DOMAIN assigned :
    LET a == assigned[i] IN
      /\ <<a.tile, a.place>> \in DOMAIN image => image[<<a.tile, a.place>>].value = a.value
      /\ \A j \in DOMAIN assigned :
           (assigned[j].tile = a.tile /\ assigned[j].place = a.place)
             => assigned[j].value = a.value

(* The last assignment of a place is the one that is kept. *)
Inserted(assigned) ==
  LET placeOf(i) == <<assigned[i].tile, assigned[i].place>>
      places == {placeOf(i) : i \in DOMAIN assigned}
  IN  [p \in DOMAIN image \union places |->
         IF p \in places
         THEN assigned[Max({i \in DOMAIN assigned : placeOf(i) = p})]
         ELSE image[p]]

Items == IF phase = "sites" THEN program.sites ELSE program.routes

EncodeUnknown ==
  /\ phase \in {"sites", "routes"} /\ next \in DOMAIN Items
  /\ ~Known(Items[next])
  /\ notes' = notes \union {"no definition"}
  /\ next' = next + 1
  /\ UNCHANGED <<phase, chip, program, image, frames>>

EncodeItem ==
  /\ phase \in {"sites", "routes"} /\ next \in DOMAIN Items
  /\ LET item == Items[next] IN
       /\ Known(item)
       /\ LET assigned == AssignedAll(item.tile, ItemSite(item), ItemBits(item)) IN
            IF Agree(assigned)
            THEN /\ image' = Inserted(assigned)
                 /\ notes' = notes \union ItemNotes(item)
                 /\ next' = next + 1
                 /\ UNCHANGED phase
            ELSE /\ phase' = "panic"
                 /\ UNCHANGED <<next, image, notes>>
  /\ UNCHANGED <<chip, program, frames>>

ItemsDone ==
  /\ phase \in {"sites", "routes"} /\ next \notin DOMAIN Items
  /\ IF phase = "sites"
     THEN phase' = "routes" /\ next' = 1
     ELSE phase' = "defaults" /\ next' = Min(Tiles)
  /\ UNCHANGED <<chip, program, image, frames, notes>>

(***************************************************************************)
(* layout: mapped_tile_target works the owner out again, whether or not    *)
(* the library names its type, and drops a bit that leads off the chip.    *)
(***************************************************************************)
(* Mutant: the offset is not looked at, as in a tile that owns its bits. *)
MappedTile_Source(t, sram) == t

MappedTile(t, sram) ==
  IF sram.offset = None THEN t
  ELSE IF t + sram.offset \in Tiles THEN t + sram.offset ELSE None

MappedWrite(t, sram, value) ==
  IF sram = None \/ sram.place = None \/ MappedTile(t, sram) = None THEN <<>>
  ELSE <<[tile |-> MappedTile(t, sram), place |-> sram.place, value |-> value]>>

MappedNotes(t, sram) ==
  CASE sram = None -> {"no sram"}
    [] sram # None /\ sram.place = None -> {"no place"}
    [] sram # None /\ sram.place # None /\ MappedTile(t, sram) = None -> {"no owner tile"}
    [] OTHER -> {}

(* write_tile_bit. *)
InLayout(w) == w.tile \in KnownTiles /\ w.place \in Places(w.tile)

Written(writes) ==
  [t \in KnownTiles |-> [p \in Places(t) |->
     LET hits == {i \in DOMAIN writes : writes[i].tile = t /\ writes[i].place = p}
     IN  IF hits = {} THEN frames[t][p] ELSE writes[Max(hits)].value % 2]]

OutsideNotes(writes) ==
  IF \E i \in DOMAIN writes : ~InLayout(writes[i]) THEN {"outside"} ELSE {}

BitsOfDefault(elements, element) ==
  LET default == FirstOf(element.functions, LAMBDA f : f.default) IN
  IF default = None THEN <<>>
  ELSE Requested(elements, [cfg |-> element.name, function |-> default.name,
                            value |-> default.value])

(* apply_tile_site_defaults and apply_tile_transmission_defaults. *)
DefaultBits(c, site) ==
  IF site.srams = <<>> THEN <<>>
  ELSE IF site.kind \in DOMAIN c.siteDefs
  THEN LET elements == c.siteDefs[site.kind] IN
       FlattenSeq([i \in DOMAIN elements |-> BitsOfDefault(elements, elements[i])])
  ELSE IF site.kind \in DOMAIN c.pipDefaults THEN c.pipDefaults[site.kind] ELSE <<>>

DefaultWrites(t) ==
  FlattenSeq([i \in DOMAIN SitesOf(t) |->
    LET site == SitesOf(t)[i]  bits == DefaultBits(chip, site) IN
    FlattenSeq([j \in DOMAIN bits |->
      MappedWrite(t, SramOf(site, bits[j].name), bits[j].value)])])

DefaultNotes(t) ==
  UNION {LET site == SitesOf(t)[i]  bits == DefaultBits(chip, site) IN
           UNION {MappedNotes(t, SramOf(site, bits[j].name)) : j \in DOMAIN bits} :
         i \in DOMAIN SitesOf(t)}

(* assignment_mapping: the SRAM that an assignment of the config image names, *)
(* looked up in the type of the tile the assignment is on.                    *)
AssignmentSram(a) ==
  LET site == NamedSite(SitesOf(a.tile), a.site) IN
  IF site = None THEN None ELSE SramOf(site, a.name)

(* The assignments of a tile in the order of their places. *)
Nth(places, n) == CHOOSE p \in places : Cardinality({q \in places : q < p}) = n - 1

AssignmentsOf(t) ==
  LET places == {p[2] : p \in {q \in DOMAIN image : q[1] = t}} IN
  [i \in 1 .. Cardinality(places) |-> image[<<t, Nth(places, i)>>]]

AssignmentWrite(a) ==
  IF AssignmentSram(a) # None
  THEN MappedWrite(a.tile, AssignmentSram(a), a.value)
  ELSE <<[tile |-> a.tile, place |-> a.place, value |-> a.value]>>

AssignmentWrites(t) ==
  LET as == AssignmentsOf(t) IN
  FlattenSeq([i \in DOMAIN as |-> AssignmentWrite(as[i])])

AssignmentNotes(t) ==
  LET as == AssignmentsOf(t) IN
  UNION {IF AssignmentSram(as[i]) = None THEN {}
         ELSE MappedNotes(t, AssignmentSram(as[i])) : i \in DOMAIN as}

Blank == [t \in KnownTiles |-> [p \in Places(t) |-> 1]]

Init ==
  /\ phase = "sites" /\ next = 1
  /\ chip \in Chips
  /\ program \in Programs
  /\ image = <<>> /\ notes = {}
  /\ frames = Blank

(* The tiles of the chip one after the other, in either pass. *)
ApplyTile(pass, writes, more) ==
  /\ phase = pass /\ next \in Tiles
  /\ frames' = Written(writes)
  /\ notes' = notes \union more \union OutsideNotes(writes)
  /\ next' = next + 1
  /\ UNCHANGED <<phase, chip, program, image>>

ApplyDefaults ==
  IF next \in KnownTiles
  THEN ApplyTile("defaults", DefaultWrites(next), DefaultNotes(next))
  ELSE ApplyTile("defaults", <<>>, {"no tile definition"})

ApplyAssignments ==
  IF next \in KnownTiles
  THEN ApplyTile("bits", AssignmentWrites(next), AssignmentNotes(next))
  ELSE ApplyTile("bits", <<>>, IF AssignmentsOf(next) # <<>> THEN {"no layout"} ELSE {})

TilesDone ==
  /\ phase \in {"defaults", "bits"} /\ next \notin Tiles
  /\ IF phase = "defaults"
     THEN phase' = "bits" /\ next' = Min(Tiles)
     ELSE phase' = "done" /\ UNCHANGED next
  /\ UNCHANGED <<chip, program, image, frames, notes>>

Next ==
  \/ EncodeUnknown \/ EncodeItem \/ ItemsDone
  \/ ApplyDefaults \/ ApplyAssignments \/ TilesDone

Spec == Init /\ [][Next]_vars

-----------------------------------------------------------------------------
(***************************************************************************)
(* What the two passes have to amount to.                                  *)
(***************************************************************************)
(* The place a bit of a site has on the chip, by the library alone. *)
Home(t, site, bit) ==
  LET sram == SramOf(site, bit.name) IN
  IF sram = None \/ sram.place = None THEN None
  ELSE LET w == [tile |-> IF sram.offset = None THEN t ELSE t + sram.offset,
                 place |-> sram.place]
       IN  IF InLayout(w) THEN <<w.tile, w.place>> ELSE None

BitSet(t, site, bits) ==
  {[home |-> Home(t, site, bits[i]), value |-> bits[i].value] : i \in DOMAIN bits}

SiteIsKnown(item) ==
  /\ item.tile \in KnownTiles /\ item.kind \in DOMAIN chip.siteDefs
  /\ NamedSite(Def(item.tile).clusters, item.site) # None

PipIsKnown(item) ==
  /\ item.tile \in KnownTiles
  /\ NamedSite(Def(item.tile).transmissions, item.site) # None

SiteProgram ==
  UNION {BitSet(x.tile, NamedSite(Def(x.tile).clusters, x.site),
                SiteBits(chip.siteDefs[x.kind], x.requests)) :
           x \in {y \in ToSet(program.sites) : SiteIsKnown(y)}}

PipProgram ==
  UNION {BitSet(x.tile, NamedSite(Def(x.tile).transmissions, x.site), x.bits) :
           x \in {y \in ToSet(program.routes) : PipIsKnown(y)}}

ProgrammedBits == SiteProgram \union PipProgram

DefaultBitSet ==
  UNION {UNION {BitSet(t, SitesOf(t)[i], DefaultBits(chip, SitesOf(t)[i])) :
                  i \in DOMAIN SitesOf(t)} : t \in KnownTiles}

ValuesAt(bits, home) == {b.value : b \in {x \in bits : x.home = home}}

(***************************************************************************)
(* A chip is a row of tiles, its library and the program are lists.        *)
(***************************************************************************)
IsList(s) == s \in Seq(ToSet(s))

ChipShape(c) ==
  /\ DOMAIN c.typeAt \subseteq Int
  /\ \E first, last \in DOMAIN c.typeAt : DOMAIN c.typeAt = first .. last
  /\ \A k \in DOMAIN c.types :
       /\ c.types[k].places \in Nat
       /\ IsList(c.types[k].clusters) /\ IsList(c.types[k].transmissions)
       /\ \A s \in ToSet(SitesOfType(c.types[k])) :
            /\ IsList(s.srams)
            /\ \A m \in ToSet(s.srams) : m.place \in Nat \union {None}
  /\ \A k \in DOMAIN c.siteDefs :
       /\ IsList(c.siteDefs[k])
       /\ \A e \in ToSet(c.siteDefs[k]) :
            IsList(e.functions) /\ \A f \in ToSet(e.functions) : IsList(f.srams)
  /\ \A k \in DOMAIN c.pipDefaults : IsList(c.pipDefaults[k])

ProgramShape(p) ==
  /\ IsList(p.sites) /\ IsList(p.routes)
  /\ \A s \in ToSet(p.sites) : IsList(s.requests)
  /\ \A r \in ToSet(p.routes) : IsList(r.bits)

ASSUME ShapeAssumption ==
  (\A c \in Chips : ChipShape(c)) /\ (\A p \in Programs : ProgramShape(p))

ASSUME NoneAssumption == None \notin Int /\ None \notin Int \X Int

(***************************************************************************)
(* A library the code can handle (that of the chip is one): the sites of a *)
(* tile have names of their own and defaults that agree, a bit with an     *)
(* owner has an offset and the other way round, two SRAMs of the chip have *)
(* two homes, and the type that a bit moves to has no site of that name    *)
(* with such a bit.  A bit that leads off the chip stays where it was      *)
(* found: there it may only be in the way of a bit that is set after it.   *)
(***************************************************************************)
SitesIn(c, t) == ToSet(SitesOfType(c.types[c.typeAt[t]]))

SramsAt(c) ==
  UNION {UNION {{<<t, s, i>> : i \in DOMAIN s.srams} : s \in SitesIn(c, t)} :
           t \in {u \in DOMAIN c.typeAt : c.typeAt[u] \in DOMAIN c.types}}

HomeIn(x) ==
  LET sram == x[2].srams[x[3]] IN
  IF sram.place = None THEN <<x>>
  ELSE <<IF sram.offset = None THEN x[1] ELSE x[1] + sram.offset, sram.place>>

LeadsOff(c, x) ==
  LET sram == x[2].srams[x[3]] IN sram.offset # None /\ x[1] + sram.offset \notin DOMAIN c.typeAt

ChipAssumption(c) ==
  /\ \A k \in DOMAIN c.types :
       LET sites == SitesOfType(c.types[k]) IN
       /\ \A i, j \in DOMAIN sites : sites[i].name = sites[j].name => i = j
       /\ \A s \in ToSet(sites) : \A i, j \in DOMAIN DefaultBits(c, s) :
            DefaultBits(c, s)[i].name = DefaultBits(c, s)[j].name
              => DefaultBits(c, s)[i].value = DefaultBits(c, s)[j].value
  /\ \A x \in SramsAt(c) : (x[2].srams[x[3]].owner = None) <=> (x[2].srams[x[3]].offset = None)
  /\ \A x, y \in SramsAt(c) : HomeIn(x) = HomeIn(y) => x = y
  /\ \A x, y \in SramsAt(c) :
       LET sram == x[2].srams[x[3]] IN
       (sram.offset # None /\ y[1] = x[1] + sram.offset /\ y[2].name = x[2].name)
         => y[2].srams[y[3]].name # sram.name
  /\ \A x, y \in SramsAt(c) :
       LET sram == x[2].srams[x[3]] IN
       (/\ LeadsOff(c, x) /\ ~LeadsOff(c, y)
        /\ sram.place # None /\ HomeIn(y) = <<x[1], sram.place>>)
         => /\ x[2] \in ToSet(c.types[c.typeAt[x[1]]].clusters)
            /\ y[2] \in ToSet(c.types[c.typeAt[y[1]]].transmissions)

ASSUME LibraryAssumption == \A c \in Chips : ChipAssumption(c)

(***************************************************************************)
(* Every cell of the chip ends with the value that the last pass is for:   *)
(* that of the bit programmed there, else that of the default there, else  *)
(* the fill, however often its owner has been worked out.                  *)
(***************************************************************************)
FramesHoldProgram ==
  phase = "done" =>
    \A t \in KnownTiles : \A p \in Places(t) :
      LET programmed == ValuesAt(ProgrammedBits, <<t, p>>)
          defaults   == ValuesAt(DefaultBitSet, <<t, p>>)
      IN  {frames[t][p]} = IF programmed # {} THEN {v % 2 : v \in programmed}
                           ELSE IF defaults # {} THEN {v % 2 : v \in defaults} ELSE {1}

(***************************************************************************)
(* Two requests that want different values in one cell never go through:   *)
(* the process ends.  A bit that has no cell never goes missing without a  *)
(* note.                                                                   *)
(***************************************************************************)
ConflictsAndLossesShow ==
  phase = "done" =>
    /\ \A b, c \in ProgrammedBits : (b.home = c.home /\ b.home # None) => b.value = c.value
    /\ (\E b \in ProgrammedBits : b.home = None) => notes # {}

(***************************************************************************)
(* The image is that of the program and nothing else, or its differences   *)
(* are told (accumulator.rs, mod.rs): no cell is written twice, moved      *)
(* twice, or lost in silence.                                              *)
(***************************************************************************)
ImageFaithful == FramesHoldProgram /\ ConflictsAndLossesShow
=============================================================================
