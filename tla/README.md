# mpeg2ts in TLA+

A verification project for the C++ library `mpeg2ts` (a demultiplexer of MPEG-2
transport streams with a few applications): TLA+ modules translated from the
source, TLC runs over small instances of them, and theorems that TLAPS proves
for all instances. Line numbers below are those of `src/`. The correspondence of
every definition to its lines is in `PROJECT.json` under `map`.

    tlc -config Demux.cfg MCTsDemuxing     # one run; the runs are listed below
    tlapm PesReception_proofs.tla          # one proof module

## 1. The system

A *transport stream* is a sequence of packets of 188 bytes. Every packet has a
PID; the packets of one PID carry *units* one after the other: *sections* (the
tables PAT and PMT) or *PES packets* (video, audio). A packet in which a unit
starts says so (`payload_unit_start_indicator`); it may have an *adaptation
field* before its payload, or an adaptation field and no payload.

The library is single-threaded and works by callbacks. What makes it hard is not
concurrency of threads but that of streams and of callbacks:

* the packets of several PIDs are interleaved, and one parser object, one bit
  reader and one set of statistics serve all of them;
* units are spread over packets, and packets can be lost, repeated or empty;
* callbacks register further callbacks while `demux` is under way;
* the parsers throw out of the middle of `demux` when a bit reader runs out;
* objects are used again for a second stream.

| Component | Source | State | Operations | Talks to |
|---|---|---|---|---|
| Bit reader `GetBits` | `libs/common/src/GetBits.cc` | byte index, bit store, number of stored bits, buffer | `resetBits`, `getBits`, `skipBits`, `skipBytes`, `getByteInx` | base class of every parser |
| TS packet header and adaptation field | `TsParser.cc` 43-219 | none but the bit reader | `parseTsPacketInfo`, `parseAdaptationFieldData` | called by `demux` and the applications |
| Section collection | `TsParser.cc` 222-265 | four maps by PID: buffer, bytes read, section length, table id; `mOrigins` | `collectTable`, `parsePsiTable` | called by `demux`; writes statistics |
| PES collection | `TsParser.cc` 268-347, 495-585 | map by PID of the PES packet under collection; `mOrigins` | `collectPes`, `parsePesPacket` | called by `demux`; writes statistics |
| PAT and PMT contents | `TsParser.cc` 349-492 | none but the bit reader | `parsePatPacket`, `parsePmtPacket`, descriptors | called by `demux` and by the callbacks of the applications |
| Statistics | `TsStatistics.cc` | by PID: counter, errors, three histograms | `checkCCError`, `checkTsDiscontinuity`, three `build...Histogram` | member of the parser |
| Demultiplexer | `TsDemuxer.cc` | three maps of callbacks and one of handlers by PID, packet counters | `demux`, `addTsPid`, `addPsiPid`, `addPesPid`, `setOrigin`, getters | owns the parser, calls the application back |
| High-level API | `TsUtilities.cc` | demultiplexer, last PAT, PMTs, lists of PIDs, stored PES packets | `parseTransportFile`, `parseTransportStreamData`, `initParse`, `PATCallback`, `PMTCallback`, `PESCallback` | a client of the demultiplexer that registers from inside callbacks |
| Command line `tsparser` | `apps/tsparser/src/main.cc` | the same lists as globals, a file for each PID of `-w` | a synchronisation loop, four callbacks, registrations after each packet | client of the demultiplexer, gives PES packets to the codec parsers |
| WebAssembly | `apps/WebAssembly/src/main.cc` | the same globals, which outlive a call, and a JSON text | `webAsmEntryPoint`, called once for each file; three callbacks | client of the demultiplexer, sets and reads origins |
| Codec parsers | `EsParser.h`, `libs/mpeg2codec`, `libs/h264codec`, `apps/h264parser` | a list of NAL units or video headers | start code search, header parsing | fed with PES payloads through the video callback |
| The rest | `PsiTables.cc`, `PesPacket.cc`, `JsonSettings.cc`, samples, benchmarks | - | printing, comparison, settings | - |

What makes each component correct:

* *Bit reader*: a request is answered with the bits that follow the last ones,
  whatever the byte boundaries, or refused; the cursor stays truthful after a
  refusal, because `demux` catches nothing and goes on with the same object.
* *Collectors*: on a faultless stream each unit comes out whole, in order and
  once, however the PIDs are interleaved. On a damaged one, the damage stays with
  the units it touches; what is kept about a unit (its length, its table id, its
  origin) is about *that* unit.
* *Statistics*: they count what arrived or was delivered, in order and once.
* *Demultiplexer*: a callback gets the units that start from its registration
  on, and no other; a packet is counted once whatever happens in the middle.
* *Packet header*: what an intact packet says is read back; lengths that lie are
  noticed or do no harm.
* *PAT and PMT contents*: what an intact table lists is read back; of a damaged one
  nothing behind its contents is taken for an entry.
* *Clients* (the high-level API and the two applications): what the tables announce is
  found and kept, in order and once, over repeated and changed tables, over packets
  that `demux` gives up, and over several streams.
* *Reading loops*: every packet of the input is given to `demux`, once; the loop
  ends.

`PROJECT.json` lists the hazards, each at its line and with the properties that
cover it.

## 2. Modules

    BitReader                      UnitDelivery          abstract specifications
       ^ implemented by               ^        ^ implemented by
    GetBits                      PesReception  PsiReception       closed systems
                                   |    \        /    |
                            PesCollector TsChannel PsiCollector
                                   |   \    |     /   |
                                   |    TsSender      |
                                   +-- TsParser ------+   TsStatistics

    TsDemuxer = PsiCollector + PesCollector + registrations + stages of demux
    TsDemuxing = TsDemuxer + TsSender + an application
    TsClient = TsDemuxer + TsSender + what the three clients have in common
    Clients = TsClient + one of TsUtilities, Tsparser, WebAssembly
    PacketReaders                  the four loops that cut an input into packets
    TsParsing = TsReader + PacketInfo + TableParser
                                   the three walks over bytes of TsParser
    VideoParsing = EsParser + Mpeg2VideoParser + H264Parser + an application

`MC...` modules hold the constants of the runs, `..._proofs` modules the theorems.

| Module | Models | State and actions |
|---|---|---|
| `GetBits` | the whole class | `mNumStoredBits`, `mBitStore`, `mSrcInx`, `mSize`, `mSrcBytes` are the members. `op`, `a_requestedBits`, `ret`, `a_skipBits`, `words` are locals of a running call, because each loop iteration is a step (`TakeBits`, `SkipWord`). The exceptions are `RefuseGetBits`, `OutOfBounds` and branches of `SkipWord` and `SkipBytes`. |
| `BitReader` | what its users rely on | a cursor and three operations |
| `TsParser` | `parseTsPacketInfo`, the copying of packet bytes, `mOrigins` | operators, one variable |
| `TsStatistics` | the class | operators from the record of a PID to its new value, chained in the order of the calls |
| `PesCollector` | `collectPes`, `parsePesPacket` | `mPesPacket`; `pesOut` is what the call returned. `StartPes`, `IgnorePes`, `AppendPes` are its three paths |
| `PsiCollector` | `collectTable`, `parsePsiTable` | the four maps; `psiOut` is the table id returned, or `Throws`. `StartTable`, `SplitHeader` (the exception half-way), `AppendTable` |
| `TsSender`, `TsChannel` | external: the multiplexer (ISO/IEC 13818-1) and the faults on the way | `units`, `cc`; loss, repetition, packets without payload |
| `PesReception`, `PsiReception` | a collector at the end of a channel, as `demux` calls it | one step carries one packet: `SendStart`, `SendMore`, `RepeatPacket`, `SendAdaptation` |
| `UnitDelivery` | what the documentation of `addPsiPid` and `addPesPid` promises | units sent, units delivered, and the PIDs that came to harm, of which nothing more is promised |
| `TsDemuxer` | `demux`, the registrations, origins, counters | `demux` goes through stages (`TsStage`, `PsiStage`, `PesStage`, `EndStage`); between two stages `callback` is the callback under way, in which the API can be used |
| `TsDemuxing` | a demultiplexer with an application | `FeedStart`, `FeedMore`, `FeedNull`; `Register` at any moment the API allows; `GiveOrigin` |
| `TsClient` | what the three clients share: the last PAT, the PMTs, the lists of PIDs, what is kept of each PID, and the stream that is fed to them | `prevPat` is `mPrevPat` and `g_prevPat`, and so on; `Feed` gives `demux` the next packet, `NewStream` is the part of a new parse they share, `Throw` is an exception out of a callback |
| `TsUtilities` | `initParse`, `parseTransportStreamData`, the callbacks and their registrations | what the three programs each have begins with the name of the program, as `TsUtilities_PATCallback`; `TsUtilities_Callback` runs the callback under way as one step, and callbacks are registered inside it |
| `Tsparser` | `main` of `tsparser` and its four callbacks | `Start` registers what `-w` asks for; `tsparser_ReadPacket`, `tsparser_Callback`; `tsparser_AddPids` is the code after each `demux`. `kept[p]` is the file of PID `p` |
| `WebAssembly` | `webAsmEntryPoint` and its three callbacks | the call clears the globals it clears; `Locate` sets the origin; `webAsm_AddPids` as above. `kept[p]` is the JSON array of PID `p` |
| `Clients` | one of the three at a time | `program` says which; the stages of `demux` run between their steps |
| `TsReader` | what the walks over bytes share | `mSrcBytes`, `mSrcInx` and `phase`, the part that is read next |
| `PacketInfo` | `parseTsPacketInfo` byte by byte | `info`, `flags`, `ofsAfterAF`; one step per optional part of the adaptation field. `Refuse` is the return with `isError`, phase `thrown` the exception |
| `TableParser` | `parsePatPacket`, `parsePmtPacket`, `parsePsiTable` byte by byte | the fields and lists read so far, `readSize`; one step per field group, program, first descriptor, stream. `Throw` is the bit reader running out |
| `TsParsing` | a call of any of the three on any buffer | a behaviour is one call: each starts with `resetBits` and keeps nothing |
| `EsParser` | the loop of the two `parse` methods and `findStartCodes` | the piece under analysis and those to come, `ret`, and `phase`, what is read next |
| `Mpeg2VideoParser`, `H264Parser` | the two `analyze` methods and what they call, on the bits of a piece | the three members that carry parameter set data to slices; a parameter set is read in parts that end where one of them is assigned (`ReadProfile`, `ReadChroma`, `ReadDepth`, `ReadFrameNum`, `ReadSize`, `ReadFrame`, and `ReadMatrix` for each row of scaling lists), so that a part that throws leaves what the parts before it set |
| `VideoParsing` | calls of `parse` as the applications make them | `Call` on a new or on the same object, on a buffer or on what `h264parser` reads of a file (`readFile`); `End` by return or by exception |
| `PacketReaders` | the loops of `tsparser`, `parseTransportFile`, `parseTransportStreamData`, WebAssembly | `pos` is the position in the input, `packets` what `demux` was given |

### Abstractions

* *Cells.* A packet is a row of `TsPacketSize` cells, a cell being a run of bytes
  that is never split. A payload cell says which unit of which PID it belongs to
  and which place it has there; so a buffer shows where each of its bytes came
  from. The fields of headers are beside the cells in the packet record. A PES
  header is in the first packet of its PES packet; a *section* header may be split
  over packets, since `collectTable` has a path (an exception) for it.
* *Bits* in `GetBits` are known by their number in the buffer, so a value read is
  a sequence of bit numbers. Values above 64 bits cannot be asked for; there
  is no arithmetic on values in the class that could overflow.
* The *continuity counter* has `CCModulus` values; runs use 3 or 4 where the
  wrap-around matters.
* *Parsing of a table* in `demux` is one choice: a buffer that holds a whole section
  is parsed, another one may make the bit reader throw or not. Likewise in
  `PsiReception` (`CallBack`).
* In `TsDemuxer` a callback does not register again the PID and kind it was itself called for
  (that would destroy the running `std::function`).
* In `TsClient` tables fit one packet, PES packets take any number of them, and the head of a table in the packet
  record is what its parser decodes. Whether the video parsers can read a PES packet
  is a field of its head (`readable`); that they throw when they cannot is what
  `VideoParsing` shows. The video callback of `TsUtilities` is taken as set and does
  not throw. The files of `tsparser` are sequences of what was written to them, and
  a JSON text is the entries with their offsets and PIDs.
* In `TsParsing` the input is real bytes, since the cursor moves by lengths read
  from them; what follows tag and length of the first descriptor is left out. A clock
  is kept as the four numbers it is computed from, since it has 42 bits. A call that throws
  ends there: its result is lost and the next call resets the bit reader.
* In the video parsers the input is real bytes, written by an encoder in `MCVideoParsing`
  that follows the standards (Exp-Golomb codes, alignment, emulation prevention). A
  row of syntax elements is read as one step that reaches to its end or throws; where
  it ends is what `After` and `Optional` compute. The first byte of an empty piece, which the
  code reads out of bounds, is any of the codes told apart, or a crash (`AnalyzeEmpty`).
* In `PacketReaders` a byte is either a sync byte or not. A byte that was not read from the
  input is `Stray`: what is in the local array after a short read is not defined.
* Variables called *history* are not in the program. They record what a
  property compares with (units damaged, callbacks given, clocks seen) and no
  guard of a modelled operation reads them.

## 3. Runs

Each property is stated in a comment at its definition. Every property of a
passing run has a mutant in `PROJECT.json`: a plausible mistake in one modelled
definition with which TLC finds the property violated under the same
configuration.

| Run | Bounds | What it shows |
|---|---|---|
| `GetBits` | buffers of 0, 1, 2, 10, 18 bytes; requests of 0, 1, 3, 8, 13, 64, 65 bits; skips of 65, 72, 130 bits and 0 to 2 bytes | Types, `StoreIsTail`, `InBuffer`; `getByteInx` (payload offsets are computed from it) is the byte of the cursor; `GetBits` implements `BitReader`; a long skip from a byte boundary is exact; every call returns |
| `Pes` | 1 PID, 3 PES packets, of 2 and 4 cells and of unknown length, any split into TS packets of up to 2 cells, 2 faults of 3 kinds, counter modulo 3, adaptation fields with a clock and a discontinuity | `PesReception` implements `UnitDelivery`; harm is contained, buffers begin with a header, cells in order and never twice; which origin the callback sees; continuity errors, histograms, clock statistics |
| `Psi` | 1 PID, 3 sections (2 PMT sizes, a foreign table), with and without stuffing, 1 fault of 3 kinds, counter modulo 3, split headers and tails | `PsiReception` implements `UnitDelivery`; harm is contained, and every callback is put down to the packet that led to it; the length, the table id and the byte count in the maps are those of the buffer |
| `Demux` | a PSI, a PES and the null PID, 4 packets, sections and PES packets in one TS packet and in two, each packet with its error indicator set, 3 registrations at any moment | all packets accounted for though `demux` throws; a late callback gets the units that start from then on; the origin in a PSI callback; each callback is given the handler registered last on its PID, of whatever kind |
| `Clients` | 5 packets; `TsUtilities` with 1 or 2 parses, `tsparser` with 3 command lines (write modes TS, PES, ES), WebAssembly with 1 or 2 calls; 3 PATs (two programs and a network PID, one program, empty), 3 PMTs (one of them changed), 2 elementary streams, PES packets in one and in two packets, with and without optional header, that the video parsers can and cannot read | PES packets of announced streams are kept; in order, once, whole or in the part the mode asks for; each given once to the video parsers; the offsets in the JSON text |
| `Parsers` | PATs of up to 3 programs, PMTs of up to 2 descriptors of 5 shapes and 2 streams, with and without bytes after the section; each again with one byte that lies (7 values, 8 places) or cut short; packets of 188 bytes with every combination of optional parts and 3 amounts of stuffing, and with each length in turn lying by 27 values | what is intact is read back; in damaged tables the cursor is where the lengths say and nothing begins in the CRC; a packet whose lengths lie is marked or its payload is where the field ends |
| `Readers` | every input of up to 10 bytes and clean streams of up to 6 packets (packets of 3 bytes) | which packets each loop finds; none twice; the loops end |
| `Video` | MPEG-2 streams of up to 3 units of 4 kinds; parameter sets of profiles 66, 100 and 244 (4:4:4, with and without colour planes) with every combination of optional parts, scaling lists of both counts and sizes among them; PPS of both entropy coding modes; `frame_num` of 4 to 260 bits; streams given as a buffer and as a file; two sets with slices of either, in one call or two, on one object or two, the first one cut at every byte; slices without a set; units cut at every byte; short start codes | units are found once and in order, and only harmed ones end a call; their headers, and those of the slices that depend on a set before them, are read back |
| `Pes_adaptation_doc`, `Psi_tail_doc`, `Utilities_pmt_doc`, `Video_timing_doc` | as above, smaller | the four divergences of section 5; each is expected to be violated |

Why the bounds are enough: a unit is at most spread over as many packets as it has
cells, so 2 to 4 cells with 2 to 4 cells of room give units in one packet, units that end with
a packet, units that end inside one and units over three packets. Three units
of a PID let the middle one have a neighbour on both sides, one of them damaged.
The collectors keep state only by PID; that PIDs are not mixed up is for `Demux` (sections and PES
packets interleaved; the error indicator is only counted, so that of every packet can be set) and `Clients` (two PMT PIDs, two PES PIDs). Faults:
two of them reach a second damage to what the first left; the maps of a PID
depend on nothing before the last unit start but the stale length and id, which
`Psi` reaches with three sections. `GetBits` only looks at the cursor
modulo 8 and at its distance to the end. In `Clients`, 5 packets are a PAT, a PMT and a PES packet
of two packets with one packet to spare, which may be any other: a second PAT, a changed PMT, the start of the next PES
packet, or the PAT of a second parse. `Parsers` has an empty, a single and a repeated
entry in each list, every kind of first descriptor, and lies that make each length longer, shorter,
0 and with control bits; in packets they are just within and just beyond the packet at every place. In `Readers`, 10 bytes are three packets and
a byte, with every pattern of sync bytes.

Bounds in guards: `MaxUnits`, `MaxFaults`, `MaxUnbounded` (cells of a PES packet
without length), `MaxPackets`, `MaxParses`, `MaxStray`, `MaxOverrun` (each
refused `skipBits` moves the index on by 8, without end).
`CHECK_DEADLOCK FALSE` is in the runs over bounded streams: the stream ends.

Fairness: `WF_vars(Loops)` in `GetBits` and `WF_vars(Next)` in `PacketReaders`. Both are
loops of synchronous code that wait for nothing, so the only thing fairness
says is that the processor goes on. No other run has a liveness property: a
unit is delivered in the very step (call of `demux`) that completes it, and
that is stated as safety (`DamageIsContained`, `UnitDelivery!Deliver`).

Some properties have a side condition that is a fact about the code:

* `LateJoinIsClean`, `JoinsAtNextUnit` leave out PID 0 and PIDs with a split section header.
  The maps default to length 0 and table id 0, and table id 0 is that of a PAT, so
  a PID 0 callback registered in mid-section is given its rest (`TsParser.cc`
  264); after a split header the length and id in the maps are those of the section before (`TsParser.cc` 254).
* `JoinsAtNextUnit` counts what is due (`IsDue`): a section of a kind `demux` calls back for (`TsDemuxer.cc` 82, 96),
  and a PES packet that is complete, but one that fits its first TS packet only once the next one
  starts (`TsParser.cc` 282-303). The count begins with the first PSI or PES registration of the PID;
  another one changes the handler only.
* `AnnouncedAreKept` promises what the program follows: the PATs it registers PMT PIDs of
  (`Followed`), the first PMT of a PID, and not the last PES packet of a PID if it fits
  one TS packet (`Due`). In `tsparser` a packet that the video parsers cannot read is not
  written (`IsKept`).
* `OffsetsPointAtUnits`: a PES packet that fits one TS packet has the offset of the
  next one (`apps/WebAssembly/src/main.cc` 336, `TsParser.cc` 309).
* `VideoOncePerFrame` is about one parse with one PAT: after a PAT change `mPmtPids`
  lists PIDs twice (section 5).
* `LyingLengthsAreContained` takes the length of the whole field at its word, as the code does:
  with more than 183 the offset is beyond the packet, modulo 256.
* The encoder of `MCVideoParsing` follows ITU-T H.264, the parser does not everywhere, so the properties say which units it
  gets out of step with (`IsOutOfStep`): those in which the encoder had to put an emulation prevention byte
  (`escaped`), those that lose a byte to `>>`, and 4:4:4 sets without colour planes (`shifted`), whose flag of one bit
  is read as a code. `IsHarmed` adds those that are cut, and scaling lists with codes other than 0 (`signed`): they
  are signed and read as unsigned, so a list that ends early is read on.
* `UnitsAreFound` covers all of them: each gives its one info, or ends the call, which nothing else may do but a slice
  that has no set it can be read by. Only files in which a lost byte makes a new start code are left out (`IsFramed`).
* `HeadersAreRead` leaves out what is harmed and SEI units, and expects the entropy coding mode of a PPS to be the other one.
* `SlicesAreRead` is about slices whose set was the last the object was given, whole, or that need what
  a new object has without one (`IsKnown`). A set before may have been cut short, even if that ended the call;
  one that was read out of step may not, since it can leave a colour plane flag behind that no
  set without one clears. Slices with colour planes are left out (the code takes a flag of 1 for 0 and does not skip
  `colour_plane_id`), and widths the bit reader refuses or, above 255, those with a field behind them (`IsInReach`).
* `Finishes` leaves out `tsparser` on a file whose last byte is 0x47: the step
  back over the next sync byte (`apps/tsparser/src/main.cc` 646) goes back over
  that byte again and again, and the loop does not end.

## 4. Proofs

TLAPS proves the following for every value of the constants that satisfies the
named assumptions of the modules (sizes are positive, headers fit, a counter has
more than two values, a registration is of one of the three kinds and fits what its PID carries, the
header of a section fits in a packet and its table_id is one of those told apart, the bound on faults is a
number and faults are of the three kinds). Of the streams of the three programs it is assumed
(`ClientHeadsAssumption`) that tables fit one packet, that their programs and streams are lists, that what a PAT says is a
PMT is one, and that PIDs of PES packets carry no tables. Nothing else is assumed.

`GetBits_proofs`:

* `Invariance`: `IInv == TypeOK /\ StoreIsTail /\ GatheredIsGap /\ InBuffer /\
  SkipIsMarked` is inductive. `GatheredIsGap` alone is not: an iteration appends
  bits of the store, and that these continue what was gathered is `StoreIsTail`;
  that the number of stored bits stays below 8 is in `TypeOK`; and the word loop of `skipBits`,
  which does not gather, is told apart by `SkipIsMarked`.
* `AlwaysTyped`, `StoreIsAlwaysTail`, `GatheredIsAlwaysGap`, `LoadsAreInBuffer`, `ByteInxIsAlwaysCursorByte` follow from it.
* `Refinement`: each step of `GetBits` is a step of `BitReader` or leaves it
  alone, as long as the call is not a skip of more than 64 bits. An iteration of a loop leaves
  the abstract cursor where the call began; the last one moves it.

* `AlignedSkipIsAlwaysExact`: what `Refinement` leaves out, skips of any length, are exact from
  a byte boundary. `SkipInv` says why: from there the store is empty, so that a
  word of the loop moves the cursor by 64 bits, and the cursor, the words to come
  and the bits after them always add up.

`TsSender_proofs` has the lemmas about packets and counters: a payload is where the parser looks
for it, whatever the size of the adaptation field (`PayloadIsFound`), a packet without
payload is taken whole (`NoPayloadIsWholePacket`), and a counter that has gone on
by `n` is in sequence exactly when `n` is 0 or 1 modulo its size (`CounterTells`). It also has what the
three proofs about streams share: a unit that begins or goes on changes no other one, the
cells of a unit up to `n` and those after it are the cells of it, and what the
collectors copy from a payload is the payload. And it has what is proved of the positions `SentBefore` adds
up with `FoldFunctionOnSet`: for a finite set there is a function from its subsets that gives 0 for none and
for every other one adds an element to what it gives without it (`FoldExists`, by
the well-foundedness of the order on cardinalities), so the position of a packet is a number (`CellsAreCounted`).

`PesReception_proofs`, for any number of PIDs, PES packets and faults of all three kinds:

* `AlwaysBeginsWithHeader`. The inductive invariant `HeadInv` says of the
  PES packets under collection *and* delivered *and* of the packet that may be
  repeated that they begin with the first cell of some unit sent and carry its length. The
  repeated packet is needed because a repeated unit start begins a PES packet
  anew; the delivered ones, because the list of units they refer to grows.
* `CCErrorsAreAlwaysGaps`. `CCInv` says that the last counter the receiver saw, plus the packets
  lost since, is the counter of the last packet sent, modulo its size; so `checkCCError` sees a gap
  exactly when the gap is not 0 or a multiple.
* `AlwaysDeliversUnits`: `collectPes` implements `UnitDelivery`. `OrderInv` says of a
  PID that no fault has touched that what was delivered are its units, whole, and that either all
  were delivered and nothing is under collection (`AtRest`), or all but the last, and that
  one is in the buffer as far as it was sent (`UnderWay`). Two things are needed besides: when
  nothing is under collection the packet that may be repeated is no unit start (it would
  begin the delivered one anew), and a unit is never sent beyond its size (so the length test
  of `collectPes` cannot be stepped over). `StepOf` is what each action does to one PID; `StepIsServed`
  maps it to `Begin`, `Grow`, `Harm` or a stutter of the service.
* `DamageIsAlwaysContained`: on a PID that faults have touched, every unit that was not harmed is still
  delivered whole and once, and every other callback begins with a harmed one. `ContainedInv`
  holds that unit by unit, and for the last one has three cases: it was delivered by its length (`Rests`),
  all of it that was sent is in the buffer and no callback begins with it (`IsOpen`), or it came to harm, and
  then so did the unit the buffer begins with (`IsHurt`), which need not be the same one: a
  lost unit start leaves the unit before it open. What a repeated unit start begins anew is the last unit
  sent (`LastStart`), so that it cannot be delivered a second time unharmed.

* `OriginIsAlwaysOfTheSetter`: `OriginsInv` holds for the buffer that `mOrigins` is the origin of the
  packet with its first cell, and for every callback what the property says. It rests on
  `ContainedInv`: a PES packet that no fault touched is under collection only as long as it
  is the last one sent (`OpenIsLast`), so that the start that ends it is that of its successor. A position in
  the stream is what a fold computes; all that is needed of it is that a unit that
  has started stays where it did (`PositionsStay`).
* `LossNeverDisorders`: `CellsInv` says of every buffer, called back or under collection, that its
  cells were sent and ascend, and that buffers follow one another. A packet that arrives is
  then `Fresh`: its payload comes after all that was sent before. A repeated packet is
  not, so the property is about streams with losses only.

* `AlwaysTyped`: `TypeInv` adds to `TypeOK` what a step needs of the state before it: that the packet that may be
  repeated is a packet, and that what a callback was given is of cells.
* `StatisticsAreAlwaysOfArrivals`. `StatisticsOfArrivals` says what the statistics are of a whole list of
  time stamps or clock references, `TsStatistics` what one more does to them. The
  proof is that the two agree: the list of those that are present grows at its end (`PickedOfAppended`), so the
  differences it has are those it had and the one from its last element (`OneMoreDifference`), and the
  histogram has one more of that size (`TrackGrows`, `ClockGrows`). `StatisticsInv` needs besides only
  that the statistics are of PIDs in `Pids` and that a packet that may be repeated has an adaptation field as the sender writes them.

`StartMeans`, `MoreMeans` and `StillMeans` are what the actions do to a PID, in terms the
invariants of these theorems are about.

`PsiReception_proofs`: for any number of PIDs, sections, layouts and faults,
`ReadLengthIsAlwaysBufferLength` (on every path of `collectTable`, the one that
throws included, the byte count of a PID is the length of its buffer) and
`LengthIsAlwaysOfHead` (the section length and the table id in the maps are those of the
section the buffer starts with, as long as no section header of the PID is split). The inductive
invariant `TablesInv` adds what both need: no section is sent beyond its size
(so the tail in front of a start, and with it `pointer_field`, is not negative), and the
packet that may be repeated holds the start of a section that was sent, header
whole, where `pointer_field` says. The proof covers a case no run reaches within
its bounds, a split header that is lost and then repeated. On top of it:

* `DamageIsAlwaysContained`: what a fault or the tail of a section does to one section it does to
  no other. The packets of an unharmed one lead to exactly one callback, and that is given it whole. It may be
  called back again, since `collectTable` appends whatever comes after it, but only by a packet that is repeated or
  put in, or by one of a later section whose start was lost. `ContainedInv` is about one PID: the buffer holds a section as far as it was sent, or what
  remains of a harmed one; every callback is one of the two kinds the property allows; and every section
  that is over and unharmed was called back for.
  It is more than for PES packets because a section may start in the packet in which
  another ends, so that one step is about two sections (and the one that ends is
  harmed: `collectTable` drops the tail). The proof found that the property was false for PID 0: there
  a packet without payload that arrives when nothing is under collection is taken for the middle of
  a PAT, because the table_id a new PID has in the maps is that of a PAT; so it is an
  exception of the property now.
  That there is one callback and no second is `CausesInv`, on top of it: it says which packet each callback is put down
  to (`causes`), a section that is not over has caused none, and one that is over and unharmed has caused the one
  that was given it whole. A step can add a callback only for the section that was sent last,
  and only when that one was not over before or has come to harm (`IsAbout`, `CauseIsKept`); that an unharmed
  section is not over while more of it arrives is `GrownWasNotOver`.
* `AlwaysDeliversTables`: `collectTable` implements `UnitDelivery`, without the exceptions, on the PIDs no fault has touched.
  `ExactInv` says that every section that is over was called back for, whole, in order and
  once; what the buffer holds of the section under way is `ContainedInv`.

`TsParsing_proofs`: `LyingLengthsAreAlwaysContained`, for every 188 bytes. The inductive
invariant `PacketWalk` says for each part of the adaptation field where the cursor is before
it (6 before the clocks, 6 to 19 before the private data, at most 188 before the extension),
that `ofsAfterAF` is where the first length puts the payload, and that private data accepted so far
ends in the packet. It is also what keeps the bytes that are read inside the packet: the
two refusals and the exception are the only ways out, and each is a case of the proof.

And `AlwaysTyped`, `CursorAlwaysFollowsLengths` and
`AlwaysBeginsBeforeCRC`, for every set of buffers. The inductive invariant `Walk` ties the
cursor to the phase (8 bytes after the header, 12 after the program info, 4 more
for each program) and each entry to the loop condition under which it was read; the arithmetic that
could be wrong is that of the first descriptor, where what was read and what the
skip takes off must cancel out for each tag. The walk over a packet, which shares the
reader, leaves it alone (`PacketKeeps`).

`TsDemuxing_proofs`: `AlwaysTheLastHandler` and `EveryPacketIsAccounted`, for any stream and any order
of registrations, those from inside callbacks included. `HandlersInv` says that a PID
in one of the three maps of callbacks has the handler of its last registration; what a
stage of `demux` calls is in its map. `CountsInv` adds to the three ways a packet
is accounted for the one that is in flight between two stages, and that no callback runs
while none is.

* `LateJoinIsAlwaysClean` and `OriginIsAlwaysOfTheTable`: wherever in a stream a PID is
  registered, what a callback is given starts with the start of a unit of its PID, and inside a
  PSI callback `getOrigin` is the origin of the packet with that start. The inductive invariant is
  `StartsInv`. The packet that is in flight between two stages is part of it (`FlightInv`:
  what it carries starts with the unit that started last, or with no start at all), since
  a registration inside a callback makes the rest of `demux` see it. A section buffer that starts
  with a start has that of the section `mOrigins` is about, and one whose
  table_id is that of a PMT, on a PID without a split header, starts so
  (`CollectorsInv`); a new PID has the table_id of a PAT before it has a buffer,
  which is why PID 0 is left out. While a callback runs, what it was given is still
  in the collector (`CallbackInv`).
* `AlwaysJoinsAtNextUnit`: the callback of a PID, whenever it was registered, has been called once for every
  unit that started from then on and is due, and for no other. The inductive invariant `CallsInv` says for each PID
  that there is a list of units its collector has *seen* (`Joins`): all that were sent, or, while a packet of
  the PID is on its way through the stages, all that were sent before that packet (`Ahead`, `Brings`: it
  is the cells that are missing). Of the units seen since the registration, as many as are due were called
  back (`DueOf`), and the collector holds the cells of the last one (`Holds`), or, if none
  started since, what a new PID has (`Untouched`). The step of a collector is then a lemma about that list
  (`CollectsTables`, `StartsCollectPes`, `MoreCollectsPes`), that of the application is that it
  starts to count where the list ends (`StartedAreSeen`), whichever stage
  `demux` is in, and all other steps leave the list, the count and the collector alone. Nothing is
  said of the order of PIDs, which is how packets of other PIDs, and the exceptions
  of their split headers, come to be harmless (`OthersJoin`). The invariant showed that
  the property was wrong in three ways no run had reached: it did not know of PES packets in one TS packet, of
  sections that are not called back for, and of a PID that is registered twice.

`PacketReaders_proofs`: `NeverAByteTwice` and `AlwaysCoversEverySync`, for every input and
every packet size. The inductive invariant `Reads` says that the bytes given to `demux` are behind the
reader (`Behind`), and for `tsparser` that each sync byte behind the reader was given
(`Covered`). `tsparser` steps back over the next sync byte, so at the last byte of the input
the reader is before a byte it has given; that is the exception `SteppedOver`. That
a loop finds the *first* sync byte rests on sets of numbers having a least
element (`MinOf`, from the well-foundedness of the order on numbers).

* `AlwaysFindsEveryPacket`: `InStep` says where each loop is in a stream of `n` whole packets after
  `lead` other bytes: how many packets it gave, that these are the first ones, and that
  it stands where the next one begins. `tsparser` has an end of its own, the last byte of the input, which
  it may read over and over. The loop of WebAssembly stands `lead - j` bytes short of a packet after
  `j` skips; that no packet begins there is arithmetic modulo the packet size (`OutOfStep`), and that no
  byte there looks like a sync byte is the hypothesis `IsClean`.
* `AlwaysTyped`: that a loop stops at the latest one packet past what it looks at. For the file loop this needs that only
  the read that sets the end-of-file flag goes past the end (`Bounded`).

`Clients_proofs`: `KeptIsAlwaysInOrder`, `OffsetsAlwaysPointAtUnits` and
`AnnouncedAreAlwaysKept`, for any number of PIDs, tables, PES packets, PATs and parses of
the three programs. The first section says what each of their steps does in the words of `TsClient`
(`NextIsSteps`): nine kinds of steps, with a condition on `program` where the programs differ. All that follows is about these nine.

* `KeptIsAlwaysInOrder`: what is kept of a PID is in the order of the stream and there once, over all
  parses; a file of TS packets holds all that was sent on its PID. The inductive invariant has six parts.
  `StreamInv` says of the units of a PID that all but the last, and one cut by the end of a parse, are
  whole; `UnderWayInv`, that the packet `demux` has in its hands carries the last cells sent, and which
  they are (`Carries`); `RegisteredInv`, that no PID of PES packets has a table callback, which is
  what the assumption on PATs comes to; `CallbackInv`, whom the callback under way is for. `PesInv`
  is the core: what a PID has under collection is the last unit its collector has *seen*, as far
  as it has seen it (`HeldInv`); a callback is given a whole unit, or in `TsUtilities` one that the end of
  a file has cut (`PendingInv`, `Keepable`); and what was kept ascends and comes before the unit that is
  next (`KeptInv`, `NextUnit`), which is the one called back, or under collection, or not begun. The collectors of
  `TsUtilities` and `tsparser` outlive a parse and those of WebAssembly do not, which is where
  `Keepable` tells them apart. `FilesInv` says the same of single cells: those in the file are those sent, but
  for the packet that is under way and not yet written (`WrittenOn`), and places in the file are
  ordered as cells are.
* `OffsetsAlwaysPointAtUnits`: `OriginInv` adds, for the entry point, that the positions of the units of this call are
  known (`StartsInv`), that `demux` was told the position of the packet under way, and that a packet in
  the middle of a unit belongs to one of several packets (`ToldInv`). The origin of a
  PID is that of the unit under collection, unless it was called back by the start of its successor, when it is
  already that of the latter (`OriginOn`); and only a unit that fits one packet can be waiting, whole,
  for its successor. Tables are called back in their packet and have their own PIDs (`ApartInv`): a PID that
  a PMT listed as a stream and a PAT as a table would have one origin for both. `PlacedInv` is
  the property, unit by unit, with the position of the successor being known when the entry is made.

* `AnnouncedAreAlwaysKept`: a PES packet of a PID that a followed PMT lists is kept, from that PMT on.
  On the way from the table to the file are four collections that change at different times: what the stream
  has *announced*, the lists of PIDs still to register, the maps of callbacks, and what was kept. `FollowInv`
  ties them together. It is not claimed of a program that has ended, nor of the mode that writes TS packets.
  `TablesInv` is about the tables: the PATs handled so far are those before the one in
  the hands of `demux`, and the PIDs of those that are followed are registered, or wait
  (`PatsInv`, `NotYet`); nothing waits when the next packet is given (`SettledInv`, which needs the
  phase of the loop: `main` registers only once `demux` is back); what a PMT adds is registered or
  waits (`PmtsInv`); and so is what is announced, but for the time in which its first PMT is itself in
  hand (`AnnouncedInv`, `Coming`). So a PID that is announced is registered before its next unit starts.
  `DeliveryInv` is about the units: one seen since the PID was announced is called back, under collection
  or kept (`NoneIsLost`), and a unit that is whole and yet under collection is one that fits one packet
  (`HeldShort`), which is why only such a unit may wait for its successor in the property. Both rest on `PesInv`, and
  `NoneIsLost` on the entries of `kept` never going away.

Only model-checked: liveness and anything with `ENABLED`; `VideoOncePerFrame` of
`Clients`; `VideoParsing`; `IntactIsReadBack`. The last two are about what the encoders of
`MCVideoParsing` and `MCTsParsing` compute; `VideoOncePerFrame` counts on PMTs that do not share streams, as those of the run.

## 5. What does not agree

Four runs are expected to fail; each checks what a comment of the code says.

1. `Pes_adaptation_doc`: a packet with an adaptation field only is appended to
   the PES packet from offset 0 (`TsParser.cc` 329, never asks `hasPayload`),
   though `mpeg2ts.h` 377 promises a complete PES packet.
2. `Psi_tail_doc`: the end of a section that shares a packet with the start of the next one is
   dropped and the section never called back (`TsParser.cc` 238).
3. `Utilities_pmt_doc`: PMT PIDs are registered once in a parse, so the PMT of
   a program a later PAT adds is not in the map that `TsUtilities.h` 203 calls
   that of all PMT tables (`TsUtilities.cc` 163).
4. `Video_timing_doc`: `H264Parser.cc` 601 says that there is a bug nobody found and the timing
   comes out wrong. The parser never removes the emulation prevention bytes of ITU-T H.264 7.4.1 from
   the unit, and `num_units_in_tick` and `time_scale`, 32 bits wide and mostly zero, nearly
   always make the encoder put some in.

Noticed on the way, part of the models, without a run of their own:

* `skipBits` of more than 64 bits from the middle of a byte lands elsewhere than
  `GetBits.h` 62 says: the word loop drops the bits of the store.
* The test for an incomplete PES packet compares the buffer, header included, with
  `PES_packet_length`, which does not count 6 bytes of it (`TsParser.cc` 287-291).
* One handler per PID serves all three kinds of callbacks (`TsDemuxer.cc` 127): each is
  given the handler of the last registration.
* Nothing checks `adaptation_field_length` against the packet; beyond 183 the payload offset is
  outside it, modulo 256 (`TsParser.cc` 148, 73).
* Private data that fills the packet, with the extension flag set, makes `parseTsPacketInfo` throw
  before `demux` has counted anything (`TsParser.cc` 184).
* `getPidStatistics` (`mpeg2ts.h` 392) covers only PIDs with a PSI or PES callback.
* After a PAT change `mPmtPids` lists PIDs twice and the video callback is called as often
  (`TsUtilities.cc` 299); a PMT that changes is taken for the same (363).
* `webAsmEntryPoint` declares a local `g_prevPat` that hides the global one
  (`apps/WebAssembly/src/main.cc` 533): a second file with the PAT of the first shows nothing.
* In `tsparser` an exception of a video parser leaves the PES callback before the file is
  written (`apps/tsparser/src/main.cc` 358), and in mode ES a PES packet without optional
  header is written whole, header included.
* The offset in the JSON text of a PES packet in one TS packet is that of the next one.
* `h264parser` reads its file with `>>` (`apps/h264parser/src/main.cc` 170), which drops the bytes 9
  to 13 and 32, and catches no exception; an access unit delimiter is a byte 9.
* Scaling list codes are signed and read as unsigned, and lists other than the first of a
  size are written past the end of the array that holds them (`H264Parser.cc` 374).
* The WebAssembly loop loses as many packets as there are bytes before the first, and
  always the last one.
* `parseTransportFile` tests `eof()` before the read that finds the end, and
  demultiplexes once more what is then left in its array (`TsUtilities.cc` 201).
* The type of an SEI unit is taken from the byte after it, its size (`H264Parser.cc` 139-143).
* `separate_colour_plane_flag` is one bit and is read as an Exp-Golomb code (`H264Parser.cc` 449). A flag of 0 takes
  bits of what follows with it: of a legal 4:4:4 set all the rest is read wrong, and `parse` may run out of bits and
  throw, which loses the infos of the call. A flag of 1 comes out as 0, so `colour_plane_id` of the
  slices is taken for their `frame_num`. Only by being misread can it become 1.
* `entropy_coding_mode_flag` is one bit, too, and read as a code (`H264Parser.cc` 662-670): CAVLC is reported
  as CABAC and CABAC as CAVLC.
* `log2_max_frame_num_minus4` is not bounded: `frame_num` of more than 64 bits makes `parse` throw, and above 255 the
  width wraps (`H264Parser.cc` 327).
* `separate_colour_plane_flag` outlives parameter sets that do not mention it, and the applications make a new
  parser for every PES packet, so slices are often read without their parameter set (`tsparser/src/main.cc` 357).
* H.264 start codes of three bytes are not looked for: such a unit is taken for the end of the one before.
* One unit that is cut short makes `parse` throw and loses the infos of all the others.
* The last PES packet of a PID that fits one TS packet is delivered when the
  next one starts, and never at the end of the stream.

## 6. Not modelled, and the plan

Not modelled:

* formatting: `PsiTables.cc`, `PesPacket.cc` and `TsPacketInfo.cc` print and compare; the one
  comparison that decides anything, of two PATs, is `SamePat`. The wording of the
  JSON text and of what the applications print, `payloadSize` and the random access
  flag, which nothing reads;
* the parsing of command lines, settings, logging, samples, benchmarks, tests, build;
* code that never runs: `parseTransportUdpStream` (empty), the code for `-w` and `-p`
  in WebAssembly;
* Exp-Golomb codes of 31 and 32 zeros, whose value does not fit the `int` they are
  computed in; what `h264parser` does with an exception (it ends);
* in `TsClient`, tables of several packets (they are in `Psi` and `Demux`) and a user
  callback that throws.

Where a model could go on:

1. `VideoOncePerFrame` in `Clients`, proved on top of `PesInv` and `TablesInv` for PATs that list no PID twice and
   PMTs that share no stream: it needs an invariant that relates `videoFrames` to `kept` entry by entry, and lemmas by
   induction on the length of what `Picked` and `SelectSeq` leave of a list.
