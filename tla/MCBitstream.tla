----------------------------- MODULE MCBitstream -----------------------------
(***************************************************************************)
(* The two halves of bitstream generation, in one run that does not        *)
(* interleave them.                                                        *)
(*                                                                         *)
(* The config image: a row of four tiles, two that own their bits, one of  *)
(* a RAM whose bits are in the tile before it, one the library does not    *)
(* know, in two orders; in one of them the RAM is at the edge and its      *)
(* owner is missing.  Sites with named, addressed and computed functions,  *)
(* two elements that share a cell, a cell without a place and one the tile *)
(* does not map.                                                           *)
(*                                                                         *)
(* The frames: two columns of tiles with block RAMs whose names and        *)
(* positions order them differently.  Words of five bits; frames of six    *)
(* bits and of two, groups of one, three and four bits; majors in either   *)
(* order; streams with dummy words, unknown and repeated commands.  Every  *)
(* content of the first column for the plain chip, opcodes and headers     *)
(* among the payloads; single bits and single holes for the others.        *)
(***************************************************************************)
EXTENDS ConfigImage

CONSTANTS
  WordBits, FAR, FDRI, MemoryBase, MemoryUnit, Devices, FrameDesigns(_), InitWords

VARIABLES framePhase, device, design, step, majors, chunks, stream, remarks

frame_vars == <<framePhase, device, design, step, majors, chunks, stream, remarks>>

Frames == INSTANCE FrameBitstream WITH
  phase <- framePhase, next <- step, notes <- remarks, Designs <- FrameDesigns

ImageIdle ==
  /\ phase = "idle" /\ next = 0
  /\ chip = None /\ program = None
  /\ image = <<>> /\ frames = <<>> /\ notes = {}

FramesIdle ==
  /\ framePhase = "idle" /\ step = 0
  /\ device = None /\ design = None
  /\ majors = <<>> /\ chunks = <<>> /\ stream = <<>> /\ remarks = <<>>

PartsInit == (Init /\ FramesIdle) \/ (ImageIdle /\ Frames!Init)

(* The two halves return, or bitgen has ended with an error or a panic. *)
Stopped ==
  /\ phase \in {"done", "panic"} \/ framePhase \in {"done", "error"}
  /\ UNCHANGED <<vars, frame_vars>>

PartsNext ==
  \/ framePhase = "idle" /\ Next /\ UNCHANGED frame_vars
  \/ phase = "idle" /\ Frames!Next /\ UNCHANGED vars
  \/ Stopped

PartsSpec == PartsInit /\ [][PartsNext]_<<vars, frame_vars>>

\* What encode.rs and emit.rs promise their decoder, and what memory.rs
\* promises a block RAM (see FrameBitstream).
StreamFaithful == Frames!DecodesToFrames /\ Frames!ContentsReachTheirRam

-----------------------------------------------------------------------------

Own(name, place) == [name |-> name, place |-> place, owner |-> None, offset |-> None]
Owned(name, place) == [name |-> name, place |-> place, owner |-> "owner", offset |-> -1]

SramBit(name, content, address) == [name |-> name, content |-> content, address |-> address]
Function(name, how, default, value, srams) ==
  [name |-> name, how |-> how, default |-> default, value |-> value, srams |-> srams]
Element(name, functions) == [name |-> name, functions |-> functions]

MCSiteDefs ==
  [slice |->
     << Element("lut", <<Function("table", "srambit", FALSE, None,
                                  <<SramBit("l0", 0, 0), SramBit("l1", 0, 1)>>)>>),
        Element("inv", <<Function("0", "naming", TRUE, 0, <<SramBit("i", 1, None)>>),
                         Function("1", "naming", FALSE, 1, <<SramBit("i", 0, None)>>)>>),
        Element("alt", <<Function("on", "naming", FALSE, None,
                                  <<SramBit("i", 0, None), SramBit("x", 1, None)>>),
                         Function("off", "naming", FALSE, None, <<SramBit("p", 1, None)>>)>>) >>,
   ram |->
     << Element("mode", <<Function("#OFF", "naming", TRUE, None, <<SramBit("m", 0, None)>>),
                          Function("any", "equation", FALSE, None,
                                   <<SramBit("m", 1, 0), SramBit("n", 0, 1)>>)>>) >>]

Site(name, kind, srams) == [name |-> name, kind |-> kind, srams |-> srams]

MCTypes ==
  [logic |-> [places |-> 4,
      clusters |-> <<Site("s", "slice", <<Own("l0", 0), Own("l1", 1), Own("i", 2), Own("p", None)>>)>>,
      transmissions |-> <<Site("t", "pips", <<Own("a", 3), Own("b", 9)>>)>>],
   owner |-> [places |-> 3,
      clusters |-> <<Site("r", "ram", <<>>), Site("s", "slice", <<Own("l0", 2)>>)>>,
      transmissions |-> <<>>],
   ram |-> [places |-> 2,
      clusters |-> <<Site("r", "ram", <<Owned("m", 0), Owned("n", 1)>>)>>,
      transmissions |-> <<Site("t", "pips", <<Own("a", 0), Own("b", 1)>>)>>]]

Row(types) ==
  [typeAt |-> [t \in 0 .. 3 |-> types[t + 1]], types |-> MCTypes, siteDefs |-> MCSiteDefs,
   pipDefaults |-> [pips |-> <<[name |-> "a", value |-> 0], [name |-> "b", value |-> 0]>>]]

MCChips == {Row(<<"logic", "owner", "ram", "new">>), Row(<<"ram", "new", "logic", "owner">>)}

Request(cfg, function, value) == [cfg |-> cfg, function |-> function, value |-> value]

SliceRequests ==
  UNION {[1 .. n -> {Request("lut", "2", 2), Request("lut", "1'b1", 1), Request("inv", "1", 1),
                     Request("alt", "on", None), Request("alt", "off", None),
                     Request("alt", "?", None)}] : n \in {1, 2}}

RamRequests ==
  {<<Request("mode", f[1], f[2])>> : f \in {<<"1", 1>>, <<"2", 2>>, <<"?", None>>, <<"#OFF", None>>}}

SiteChoices ==
  {[tile |-> t, site |-> "s", kind |-> "slice", requests |-> r] :
     t \in {0, 2}, r \in SliceRequests}
  \union {[tile |-> t, site |-> "r", kind |-> "ram", requests |-> r] :
            t \in 0 .. 2, r \in RamRequests}

Pip(t, bits) == [tile |-> t, site |-> "t", bits |-> bits]

MCPrograms ==
  {[sites |-> s, routes |-> r] :
     s \in {<<x, y>> : x \in SiteChoices, y \in {z \in SiteChoices : z.site = "r" \/ (z.tile = 0 /\ Len(z.requests) = 1)}},
     r \in {<<>>,
            <<Pip(2, <<[name |-> "a", value |-> 1], [name |-> "b", value |-> 1]>>),
              Pip(0, <<[name |-> "a", value |-> 1], [name |-> "c", value |-> 1]>>)>>}}

FrameTile(x, y, rows, cols, ram) == [x |-> x, y |-> y, rows |-> rows, cols |-> cols, ram |-> ram]

MCTiles ==
  <<FrameTile(1, 0, 2, 2, FALSE), FrameTile(0, 0, 3, 2, FALSE), FrameTile(0, 1, 2, 2, TRUE),
    FrameTile(1, 0, 1, 3, TRUE)>>

Major(address, column, count) == [address |-> address, column |-> column, frames |-> count]

Command(kind) == [kind |-> kind, words |-> <<>>]
Emit(words) == [kind |-> "words", words |-> words]

PlainCommands == <<Emit(<<FAR, 0>>), Command("writeNomalTiles"), Command("writeMem")>>

OddCommands ==
  {<<Command("writeMem"), Emit(<<FAR, 0>>), Command("writeNomalTiles"), Emit(<<7>>)>>,
   <<Command("writeNomalTiles"), Command("cmd"), Command("writeMem")>>,
   <<Command("writeNomalTiles"), Command("writeNomalTiles")>>,
   <<Command("writeMem"), Emit(<<>>), Command("writeNomalTiles")>>}

Device(list, group, fill, commands, shift, memAmount, extra) ==
  [tiles |-> MCTiles, majors |-> list, group |-> group, fill |-> fill,
   commands |-> commands, majorShift |-> shift, memAmount |-> memAmount, memWords |-> 4,
   extraWords |-> extra, fillBlank |-> extra]

PlainDevice == Device(<<Major(0, 0, 2), Major(1, 1, 2)>>, 4, 1, PlainCommands, 1, 2, 0)

MCDevices ==
  {PlainDevice}
  \union {Device(<<Major(1, 1, 1), Major(0, 0, 2)>>, group, fill, commands, 2, amount, 1) :
            group \in {1, 3, 4}, fill \in {0, 1}, commands \in OddCommands, amount \in {1, 2}}
  \union {Device(<<m>>, 4, 1, PlainCommands, 2, 2, 0) :
            m \in {Major(0, 0, 3), Major(0, 2, 1), Major(8, 1, 2)}}

Cells(t) == (1 .. MCTiles[t].rows) \X (1 .. MCTiles[t].cols)
AllCells == UNION {{<<t, c>> : c \in Cells(t)} : t \in DOMAIN MCTiles}

BitsWithOnes(ones) ==
  [t \in DOMAIN MCTiles |-> [c \in Cells(t) |-> IF <<t, c>> \in ones THEN 1 ELSE 0]]

FirstColumn == {x \in AllCells : x[1] # 3 /\ x[2][2] <= 2}

Sparse == {BitsWithOnes({x}) : x \in AllCells} \union {BitsWithOnes(AllCells \ {x}) : x \in AllCells}

Contents(index, literal) == [index |-> index, literal |-> literal]
Ram(tile, params) == [tile |-> tile, params |-> params]

MCMemories ==
  {<<>>,
   <<Ram(4, <<Contents(0, <<9, 8>>), Contents(None, <<3>>)>>), Ram(3, <<Contents(1, <<6>>), Contents(0, <<>>)>>)>>,
   <<Ram(3, <<Contents(1, <<FAR, 4>>), Contents(1, <<FDRI, FAR>>)>>)>>,
   <<Ram(1, <<>>)>>, <<Ram(3, <<Contents(2, <<1>>)>>)>>, <<Ram(4, <<Contents(0, <<1, 2, 3>>)>>)>>}

MCDesigns(d) ==
  IF d = PlainDevice
  THEN {[bits |-> BitsWithOnes(ones), memories |-> <<>>] : ones \in SUBSET FirstColumn}
  ELSE {[bits |-> b, memories |-> m] : b \in Sparse, m \in MCMemories}
=============================================================================
