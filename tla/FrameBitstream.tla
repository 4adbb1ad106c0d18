--------------------------- MODULE FrameBitstream ---------------------------
(***************************************************************************)
(* From the bits of the tiles to the words of the bitstream                *)
(* (bitgen/frame_bitstream: encode, encode/memory, emit), with the         *)
(* reference decoder of its tests (decode).                                *)
(*                                                                         *)
(* A major is the frames of one column of tiles: frame f is column f of    *)
(* the SRAM of every tile, groups of bits reversed, padded to whole words. *)
(* Block RAM contents follow in chunks of their own.  The commands of the  *)
(* chip say in which order blocks and other words are emitted.             *)
(*                                                                         *)
(* A word has WordBits bits; a block is written to an address register     *)
(* (opcode FAR), followed by opcode FDRI and a count that is marked by the *)
(* top bit of its word.                                                    *)
(***************************************************************************)
EXTENDS Integers, Sequences, SequencesExt, FiniteSets, FiniteSetsExt, Folds, Functions

CONSTANTS
  WordBits, FAR, FDRI,
  MemoryBase, MemoryUnit,  \* addresses of the block RAM chunks
  Devices,      \* majors, tiles, parameters and commands of a chip
  Designs(_),   \* bits of the tiles and contents of block RAMs, for a chip
  InitWords,    \* words of one INIT parameter
  None

VARIABLES
  phase,     \* "majors", "memories", "commands", "done" or "error"
  device, design,
  next,      \* index of the next major, memory or command
  majors,    \* the payloads of the majors
  chunks,    \* the contents of the block RAM chunks
  stream,    \* the words emitted
  notes

vars == <<phase, device, design, next, majors, chunks, stream, notes>>

(***************************************************************************)
(* TileColumns: the tiles of a column by their bit position.  Tiles are    *)
(* numbered in the order of their names.                                   *)
(***************************************************************************)
Tiles == DOMAIN device.tiles

Before(t, u) ==
  \/ device.tiles[t].x < device.tiles[u].x
  \/ device.tiles[t].x = device.tiles[u].x /\ t < u

Column(y) == SetToSortSeq({t \in Tiles : device.tiles[t].y = y}, Before)

(***************************************************************************)
(* encode.rs.                                                              *)
(***************************************************************************)
FrameBits(column, frame) ==
  FlattenSeq([i \in DOMAIN column |->
    [row \in 1 .. device.tiles[column[i]].rows |-> design.bits[column[i]][<<row, frame>>]]])

(* reverse_groups: only complete groups are reversed. *)
ReversedGroups(bits, size) ==
  [i \in DOMAIN bits |->
    LET first == ((i - 1) \div size) * size
        last  == first + size
    IN  IF last > Len(bits) THEN bits[i] ELSE bits[first + 1 + last - i]]

(* bits_to_words: the most significant bit first, the last word filled up. *)
WordCount(n) == (n + WordBits - 1) \div WordBits

Padded(bits, fill) ==
  [i \in 1 .. WordCount(Len(bits)) * WordBits |-> IF i \in DOMAIN bits THEN bits[i] ELSE fill]

WordOf(bits) == FoldLeft(LAMBDA word, bit : 2 * word + bit, 0, bits)

Words(bits) ==
  [w \in 1 .. Len(bits) \div WordBits |->
     WordOf(SubSeq(bits, (w - 1) * WordBits + 1, w * WordBits))]

(* Mutant: the bits are padded first, so that the padding may complete a group. *)
EncodedFrame_PadFirst(column, frame) ==
  Words(ReversedGroups(Padded(FrameBits(column, frame), device.fill), device.group))

EncodedFrame(column, frame) ==
  Words(Padded(ReversedGroups(FrameBits(column, frame), device.group), device.fill))

(* The tiles that have no such frame. *)
TooNarrow(column, frames) == \E i \in DOMAIN column : device.tiles[column[i]].cols < frames

Fail(note) ==
  /\ phase' = "error"
  /\ notes' = Append(notes, note)
  /\ UNCHANGED <<device, design, next, majors, chunks, stream>>

EncodeMajor ==
  /\ phase = "majors" /\ next \in DOMAIN device.majors
  /\ LET major  == device.majors[next]
         column == Column(major.column)
     IN  IF column = <<>> THEN Fail("missing column")
         ELSE IF TooNarrow(column, major.frames) THEN Fail("too few frames")
         ELSE /\ majors' = Append(majors,
                   [address |-> major.address,
                    words   |-> FlattenSeq([f \in 1 .. major.frames |-> EncodedFrame(column, f)])])
              /\ next' = next + 1
              /\ UNCHANGED <<phase, device, design, chunks, stream, notes>>

MajorsDone ==
  /\ phase = "majors" /\ next \notin DOMAIN device.majors
  /\ phase' = "memories" /\ next' = 1
  /\ chunks' = [c \in 1 .. device.memAmount |-> [w \in 1 .. device.memWords |-> 0]]
  /\ UNCHANGED <<device, design, majors, stream, notes>>

(***************************************************************************)
(* encode/memory.rs: the block RAM tiles by their bit position; an INIT    *)
(* literal is written with its most significant word first and stored      *)
(* with its least significant one first.                                   *)
(***************************************************************************)
ColumnBefore(t, u) ==
  \/ device.tiles[t].y < device.tiles[u].y
  \/ device.tiles[t].y = device.tiles[u].y /\ Before(t, u)

MemoryTiles == SetToSortSeq({t \in Tiles : device.tiles[t].ram}, ColumnBefore)

(* Mutant: the chunks are numbered in the order of the names of the tiles. *)
ChunkOf_ByName(t) ==
  IF device.tiles[t].ram THEN Cardinality({u \in 1 .. t : device.tiles[u].ram}) ELSE None

ChunkOf(t) ==
  IF \E c \in DOMAIN MemoryTiles : MemoryTiles[c] = t
  THEN CHOOSE c \in DOMAIN MemoryTiles : MemoryTiles[c] = t
  ELSE None

StoredWords(literal) ==
  [w \in 1 .. InitWords |-> IF w <= Len(literal) THEN literal[Len(literal) + 1 - w] ELSE 0]

Stored(chunk, init) ==
  [w \in DOMAIN chunk |->
     IF w - 1 >= init.index * InitWords /\ w - 1 < (init.index + 1) * InitWords
     THEN StoredWords(init.literal)[w - init.index * InitWords]
     ELSE chunk[w]]

(* The parameters of a memory that are contents; any other one is skipped. *)
Inits(memory) == SelectSeq(memory.params, LAMBDA p : p.index # None)

InitFails(init) ==
  (init.index + 1) * InitWords > device.memWords \/ Len(init.literal) > InitWords

EncodeMemory ==
  /\ phase = "memories" /\ next \in DOMAIN design.memories
  /\ LET memory == design.memories[next]
         chunk  == ChunkOf(memory.tile)
         inits  == Inits(memory)
     IN  IF chunk = None THEN Fail("no chunk for this tile")
         ELSE IF chunk \notin DOMAIN chunks THEN Fail("beyond mem_amount")
         ELSE IF \E i \in DOMAIN inits : InitFails(inits[i]) THEN Fail("bad contents")
         ELSE /\ chunks' = [chunks EXCEPT ![chunk] = FoldLeft(Stored, @, inits)]
              /\ next' = next + 1
              /\ UNCHANGED <<phase, device, design, majors, stream, notes>>

MemoriesDone ==
  /\ phase = "memories" /\ next \notin DOMAIN design.memories
  /\ phase' = "commands" /\ next' = 1
  /\ UNCHANGED <<device, design, majors, chunks, stream, notes>>

(***************************************************************************)
(* emit.rs.                                                                *)
(***************************************************************************)
CountMark == 2^(WordBits - 1)

Block(address, payload, extra, fillblank) ==
  <<FAR, address, FDRI, CountMark + Len(payload) + extra>> \o payload
    \o [i \in 1 .. fillblank |-> 0]

MajorAddress(major) == major.address * 2^device.majorShift

MajorBlocks == FlattenSeq([m \in DOMAIN majors |->
  Block(MajorAddress(majors[m]), majors[m].words, 0, 0)])

MemoryAddress(c) == MemoryBase + c * MemoryUnit

MemoryBlocks == FlattenSeq([c \in DOMAIN chunks |->
  Block(MemoryAddress(c), chunks[c], device.extraWords, device.fillBlank)])

AddressOverflows == \E m \in DOMAIN majors : MajorAddress(majors[m]) >= 2^WordBits

Emitted(command) ==
  CASE command.kind = "writeNomalTiles" -> MajorBlocks
    [] command.kind = "writeMem" -> MemoryBlocks
    [] command.kind = "words" -> command.words
    [] OTHER -> <<>>

EmitCommand ==
  /\ phase = "commands" /\ next \in DOMAIN device.commands
  /\ LET command == device.commands[next] IN
     IF command.kind = "writeNomalTiles" /\ AddressOverflows THEN Fail("address overflows")
     ELSE IF command.kind = "words" /\ command.words = <<>> THEN Fail("missing parameter")
     ELSE /\ stream' = stream \o Emitted(command)
          /\ notes' = IF command.kind \notin {"writeNomalTiles", "writeMem", "words"} THEN Append(notes, "unsupported") ELSE notes
          /\ next' = next + 1
          /\ UNCHANGED <<phase, device, design, majors, chunks>>

CommandsOf(kind) == Cardinality({i \in DOMAIN device.commands : device.commands[i].kind = kind})

CommandsDone ==
  /\ phase = "commands" /\ next \notin DOMAIN device.commands
  /\ phase' = "done"
  /\ notes' = notes
       \o (IF CommandsOf("writeNomalTiles") # 1 /\ majors # <<>> THEN <<"majors">> ELSE <<>>)
       \o (IF CommandsOf("writeMem") # 1 /\ chunks # <<>> THEN <<"memories">> ELSE <<>>)
  /\ UNCHANGED <<device, design, next, majors, chunks, stream>>

Init ==
  /\ phase = "majors" /\ next = 1
  /\ device \in Devices
  /\ design \in Designs(device)
  /\ majors = <<>> /\ chunks = <<>> /\ stream = <<>> /\ notes = <<>>

Next ==
  \/ EncodeMajor \/ MajorsDone \/ EncodeMemory \/ MemoriesDone
  \/ EmitCommand \/ CommandsDone

Spec == Init /\ [][Next]_vars

-----------------------------------------------------------------------------
(***************************************************************************)
(* decode.rs: blocks are looked for anywhere in the stream.                *)
(***************************************************************************)
IsHeader(words, i) ==
  /\ i + 3 <= Len(words)
  /\ words[i] = FAR /\ words[i + 2] = FDRI /\ words[i + 3] >= CountMark

Blocks(words) ==
  LET scan[i \in 1 .. Len(words) + 1] ==
        IF i + 3 > Len(words) THEN <<>>
        ELSE IF ~IsHeader(words, i) THEN scan[i + 1]
        ELSE LET end == i + 4 + words[i + 3] - CountMark IN
             IF end > Len(words) + 1 THEN <<[address |-> None, payload |-> <<>>]>>
             ELSE <<[address |-> words[i + 1], payload |-> SubSeq(words, i + 4, end - 1)]>>
                  \o scan[end]
  IN  scan[1]

(* The payloads written to one address, in order. *)
PayloadsAt(words, address) ==
  LET found == SelectSeq(Blocks(words), LAMBDA b : b.address = address)
  IN  [i \in DOMAIN found |-> found[i].payload]

BitsOf(words) ==
  [i \in 1 .. Len(words) * WordBits |->
     (words[((i - 1) \div WordBits) + 1] \div 2^(WordBits - 1 - ((i - 1) % WordBits))) % 2]

DecodedFrame(payload, frame, bitCount) ==
  LET size == WordCount(bitCount)
      bits == SubSeq(BitsOf(SubSeq(payload, (frame - 1) * size + 1, frame * size)), 1, bitCount)
  IN  ReversedGroups(bits, device.group)

-----------------------------------------------------------------------------
RowsOf(ts) == FoldSet(LAMBDA t, sum : device.tiles[t].rows + sum, 0, ts)

(* The rows of a column that come before those of a tile. *)
Offset(t) == RowsOf({u \in Tiles : device.tiles[u].y = device.tiles[t].y /\ Before(u, t)})

ColumnRows(y) == RowsOf({t \in Tiles : device.tiles[t].y = y})

(***************************************************************************)
(* Whatever the payloads look like, opcodes included, the decoder finds    *)
(* one block of every major in the stream, and in it every bit of every    *)
(* tile of its column where the position of the tile says.                 *)
(***************************************************************************)
DecodesToFrames ==
  (phase = "done" /\ notes = <<>>) =>
    \A m \in DOMAIN device.majors :
      LET major    == device.majors[m]
          payloads == PayloadsAt(stream, MajorAddress(major))
      IN  /\ Len(payloads) = 1
          /\ \A t \in Tiles, f \in 1 .. major.frames :
               device.tiles[t].y = major.column =>
                 \A row \in 1 .. device.tiles[t].rows :
                   DecodedFrame(payloads[1], f, ColumnRows(major.column))[Offset(t) + row]
                     = design.bits[t][<<row, f>>]

(* The value of one word of a block RAM that its parameters ask for: the last *)
(* one that covers it counts.                                                 *)
ContentsOf(memory, w) ==
  LET inits == Inits(memory)
      covers == {i \in DOMAIN inits : (w - 1) \div InitWords = inits[i].index}
      k == (w - 1) % InitWords
      literal == inits[Max(covers)].literal
  IN  IF covers = {} \/ Len(literal) <= k THEN 0 ELSE literal[Len(literal) - k]

(***************************************************************************)
(* The contents of every block RAM end up in the block that the position   *)
(* of its tile among all block RAMs selects, word by word, and nothing     *)
(* ends up in the block of a block RAM that the design does not use.       *)
(***************************************************************************)
ContentsReachTheirRam ==
  (phase = "done" /\ notes = <<>>) =>
    \A c \in 1 .. device.memAmount :
      LET block == PayloadsAt(stream, MemoryAddress(c))
          users == {i \in DOMAIN design.memories :
                      1 + Cardinality({u \in Tiles : device.tiles[u].ram
                            /\ ColumnBefore(u, design.memories[i].tile)}) = c}
      IN  /\ Len(block) = 1
          /\ \A w \in 1 .. device.memWords :
               block[1][w] = IF users = {} THEN 0
                             ELSE ContentsOf(design.memories[Max(users)], w)
=============================================================================
