# A TLA+ verification of the deduplicating LZW encoder

The program receives a file over UDP, splits it into content-defined chunks, removes duplicate
chunks by SHA-256 digest, compresses the others with LZW (in software on the ARM host, or with a
kernel that Vitis HLS makes of the same loop) and appends one record per chunk to an output file. A
separate decoder turns that file back into the original. This directory holds TLA+ models of those
stages, TLC runs, and proofs checked by TLAPS. Line numbers refer to the files under `src/`.

The programs that `Makefile` builds are the host of the accelerated encoder (`hls/host.cpp`), the
software encoder (`Server/encoder.cpp`) and the decoder (`Decoder_cpp/Decoder.cpp`); the models
follow them and the functions of `Server/` they call.

## 1. Inventory

| Component | State | Operations | Interacts with | Hard about it |
|---|---|---|---|---|
| LZW dictionary, `Server/lzw.cpp:6-165` | hash table of one entry per bucket; associative memory of three key memories and 64 values; `fill` | `lookup`, `insert` | called for every byte by the compressor | bits set for two keys may meet in a third; shift of an `int` by up to 63; refuses when full |
| LZW compressor, `lzw.cpp:239-327` and kernel `:375-480` | `prefix_code`, `next_code`, codes emitted | loop, early return, 12-bit packing | dictionary; record loop; decoder | flush of the last prefix, byte read behind the chunk, early return without output, sign of `char` |
| Decoder, `Decoder.cpp:18-123` | bit position, `Code_table`, list of chunks | `Read_code`, `Decompress`, record loop | reads what the encoders wrote | the code about to be defined; framing; numbering of chunks |
| Deduplication, `encoder.cpp:195-217`, `host.cpp:250-272` | `dup_flag`, `dup_index` | two nested loops | reads digests, read by the record loops | chains, first match, break |
| Digest stage, `encoder.cpp:170-193`, `Server/sha.cpp` | run-length buffer; SHA context | `rle_compress`, `sha256_init`, `sha256_update`, `sha256_final` | chunks in, digests out | buffer of 2048 bytes cuts the form; padding into a second block; what the call before left in the context |
| Record loop in software, `encoder.cpp:249-285` | `temp_out_buffer` and its size, `out_buffer` | one append per chunk | table of duplicates, compressor | the buffer is reused: an early return appends the record before |
| Record loop on the accelerator, `host.cpp:90-109, 294-358` | mapped buffers, device buffers, queue, events | fill, enqueue three commands, finish, append | the device runs concurrently | buffers under a command, stale bytes, a chunk longer than the buffers |
| Receiving loop and server, `encoder.cpp:71-150`, `server.cpp:47-72` | ring of `NUM_PACKETS` buffers, `writer`, `done`, file | `get_packet`, decode the header, append, chunk | client over UDP, chunker | loss, copies, reordering, a failing `recvfrom` whose buffer is used anyway, cut datagrams |
| Rabin chunker, `cdc.cpp:3-37` | rolling hash, start of the open chunk, chunks | one call per packet | receiving loop; digest stage | wrapping arithmetic, off-by-one at both ends, short packets |
| Gear chunker, `cdc.cpp:39-74` | gear hash, size and start of the open chunk | one call per packet | called by `encoder_opt.cpp` and `host_v1.cpp` in the Rabin chunker's place | masks by size, a largest chunk, a hash that goes on over the cut, a rest in no chunk |

Everything runs in one thread but the OpenCL device; the stages hand one another arrays that are
complete before the next stage starts. The concurrency is therefore between client, network and
receiving loop, and between host and device. Nothing is persisted but the output file, which is
written once at the end: there is no crash recovery to model.

Not modelled: `sha256_transform` and `my_hash` (pure functions: the models hold for any), the encoders
and stages kept beside the built ones (`encoder_opt.cpp`, `encoder_final.cpp`, `host_v1.cpp`, `_lzw.cpp`,
`sha_NEON.cpp`, `chunk.c` and others), test drivers, timers, device look-up, command lines, and Vitis's
output, which is most of the repository's text: `lzw_co/` and `final/` hold what the tools generated from `lzw.cpp`, and `lzw.cpp` itself is what is modelled. What a write past the
end of an array does (the 2048 bytes of a record and of `lzw_s1`, the 4096 chunks, the 70,000,000 bytes
of the file) has no description in the code and none here; the properties named under the hazards
bound what those arrays would have to hold.

## 2. Modules

| Module | Models | Correspondence |
|---|---|---|
| `CodeMap` | what the dictionary promises | abstract: a map from keys to codes with `Recall`, `Learn`, `Refuse` |
| `LzwDict` | `lookup` and `insert` | `hash_table`, `key_mem` (upper, middle and lower memory), `value`, `fill` are the arrays; `Probe(k)` is one lookup and, on a miss, one insert, as in the loop's body |
| `LzwCodec` | compressor, packing, decoder for one chunk | instance `Dict` of `LzwDict`; `Extend`, `Emit`, `Return` are the three ways through the loop body; `Pack` the packing; `DecodeFirst`, `DecodeNext`, `DecodeEnd`, `DecodeUndefined` are `Decompress` |
| `Dedup` | nested deduplication loops | `Enter` is the outer loop's entry, `Differ`, `Match`, `Exhaust` the inner loop's iterations; `Note` writes an entry, `Break` ends the search |
| `RecordLoop` | the software record loop | abstract for `Offload`, a component of `Archive` |
| `Archive` | chunks to file and back | extends `Dedup`, with `RecordLoop` as instance `W`, by the decoder's main loop: `ReadText`, `ReadDuplicate`, `ReadEnd` |
| `Offload` | the accelerated record loop | host: `Fill`, `FillOverruns` (after which nothing is modelled), `EnqueueCommand`, `Finish`; device: `MigrateIn`, `lzw_compress_hw`, `MigrateOut` |
| `Receiver` | the receiving loop | `Receive`, `ReceiveError` are one iteration each; `Send`, `Lose`, `Copy`, `Reorder` are assumed of client and network |
| `Chunking` | what a chunking function promises | abstract: `Cut` takes the next bytes of a payload, `Leave` goes on to the next payload; the sizes and the ends that may be left are parameters |
| `ChunkedPackets` | what both chunkers work on | `packets`, one payload per call, the open chunk (`start` to `i`) and the chunks cut, which are ranges of a payload |
| `Chunker` | `rabin_fingerprint_cdc` | `ReturnShort`, `Enter`, `Cut`, `Continue`, `Return` |
| `GearChunker` | `gear_based_fastcdc` | the same five actions, whose names have the prefix `Gear`; hashes are functions from bits, masks sets of bits |
| `DigestStage` | the loop over chunks, `calculate_sha256` | composes the next two (instances `R` and `S`): each of its actions is a call or an iteration of theirs |
| `Powers` | | powers of a number, for the widths and weights of the others |
| `RunLength` | `rle_compress` | `WriteRun` is one outer iteration |
| `ShaPadding` | `sha256_init`, `sha256_update`, `sha256_final` | `Update` is one byte; `data` outlives the call, as the stack does |

The modules named `*_proofs` hold the proofs of the module in their name (`Archive_proofs` also those of `Dedup`,
`Chunkers_proofs` those of `Chunker` and `GearChunker`),
`RecursionTheorems` lemmas that several of them use; the `MC*` modules define the
constants of the runs. Operators whose comment says "Mutant" are altered copies of the definition below
them, a dropped guard or a wrong order; substituting one for it makes a property fail, which is how the
properties were tested. They are used nowhere.

Widths (12-bit codes, 8-bit bytes, 64 slots, 32-bit shift, windows of 16 bytes, blocks of 64) are
constants, so that a small run reaches the places where they end, and the proofs hold for all.

Two behaviours the language leaves open or the compiler decides are constants or choices.
`1 << fill` (lzw.cpp:99) with `fill` of 32 or more: `Shifted` chooses between the AArch64 outcome (modulo
the width) and that of the synthesised kernel (no bit). `char` (lzw.cpp:271, 404): `CharSigned`; it is
unsigned in the AArch64 encoders and signed in the kernel (`lzw_compress_hw.v:804` declares
`reg  signed [7:0] next_char_reg_5860`).

## 3. Runs

| Run | Bounds | Shows |
|---|---|---|
| `dict` | 7 keys of three one-bit fields, 2 buckets, 3 slots, shift of 2, 3 codes before they wrap | `DistinctCodes`, `KeepsCodes`, `FollowsMap` |
| `dict_slots` | the same keys, with one code more | **violation**: a key in a slot past the shift is lost |
| `codec` | 2-bit bytes, 3-bit codes, 3 slots, shift of 2; chunks of up to 8 bytes of two values, of up to 5 of three | `LosslessUpToTail`, `DecoderMirrorsDict`, `EmittedSpellsInput`, `StaysInFrame`, `OneCodePerString`, `RecordIsBounded` |
| `codec_width` | 8-bit bytes, 64 slots, the decoder's 13 bits | **violation**: codes read are not those packed |
| `digest` | no chunks, or 2 of up to 6 bytes, room for 5 runs of up to 3; blocks of 6 bytes, 2 for the length | `EqualDigestsEqualPrefixes`, `DigestTellsForms`, `DigestsPaddedMessage`, `FormSpellsPrefix` |
| `archive` | up to 5 chunks of 5 contents, 2 with one digest, one that overflows the dictionary | `FirstMatch`, `VerdictsFinal`, `RecordsFollowChunks`, `ListIsShifted`, `RestoredWhenUnshifted` |
| `archive_index` | up to 4 chunks | **violation**: a duplicate is decoded to another chunk |
| `receiver` | 2 buffers, transfers of 5 and 4 packets, 2 faults, 2 errors, any header in each buffer | `FileFollowsHistory`, `FileIsWhatWasSent`, `EndsOnLastPacket`, `Ends` |
| `chunker` | 2 packets of up to 6 bytes of two values, window of 3 | `ChunksTilePackets`, `HashIsOfWindow`, `CutsAreContentDefined`, `FewChunks`, `ImplementsChunking` |
| `chunker_size` | one payload of zeros, BLOCKSIZE and MAX_CHUNK_SIZE scaled down by 128, the code's other constants | **violation**: a chunk larger than MAX_CHUNK_SIZE |
| `gear` | packets of up to 8 and 4 bytes, words of 3 bits, chunks of 2 to 5 bytes, average 4 | `CutsAreFirst`, `GearImplementsChunking` |
| `offload` | buffers of 3 bytes, up to 3 chunks of 1 to 4 bytes, one that overflows | `BuffersSettled`, `TailIsStale`, `ImplementsLoop`, `Completes` |

Why the bounds are enough:

- `dict`: any two fields are shared by some two keys, so bits set for two slots meet in keys never
  stored; the last slot is past the shift, as the shipped 64 of 32 bits are; the keys outnumber buckets and slots, so
  `insert` fails.
- `codec`: chunks run past the last slot (`Return`), past the shift, and past the last code (values
  wrap); a string is decoded while its code is about to be defined; an odd and an even number of
  codes are packed. A third byte value is one a signed `char` makes negative: chunks with it reach
  `DecodeUndefined`, where the decoder reads its table past the end.
- `archive`: with five chunks a duplicate can precede the original of another, a duplicate can
  follow it, and two contents can share a digest.
- `receiver`: the ring wraps twice, so a buffer has been written before it is read after an error;
  two faults make any loss with any copy or reordering; headers that malloc left are read after an error
  in the first lap.
- `chunker`: a window of 3 in 6 bytes rolls three times; 16 as the word makes the hash wrap.
- `gear`: chunks end at either mask, at the maximum, at the end of the packet, and a rest is left; a
  hash loses bits over its top.
- `digest`: some runs and some forms are cut; forms, of two to ten bytes, end at every even place of a
  block of six, of which the last two hold the length, in the first block and in the second.
- `offload`: a shorter chunk follows a longer one, an early return follows a record, and a chunk of 4 bytes is
  longer than the buffer.

`MaxChunks`, `MaxCode`, `MaxFaults`, `MaxErrors` bound runs, not code; so does `MaxLength` of `Receiver`, the most
that a header can say. `MaxCode` is only how far keys are enumerated. Deadlock is not checked: every one of these programs ends.

### What the properties say where the code goes wrong

Some properties describe a defect instead of denying it, so that they hold of the code as it is:

- `LosslessUpToTail`: when the last lookup of a chunk hits, the decoded chunk has one byte more, the
  one stored behind it (lzw.cpp:271 reads `s1[i + 1]` for the last `i`). `TailIsStale` says which byte it
  is on the accelerator: the last longer chunk's. `InRange` exempts chunks that outgrow the shift or
  the codes, or have bytes that a signed `char` makes negative.
- `RecordsFollowChunks`: when a dictionary overflows, `WriteStale` appends the record of
  the chunk before once more (lzw.cpp:280 returns without setting the size). The property says, whatever
  overflows, what the file then holds: no record before the first one that was made, and from there one for every chunk, that
  of the last chunk up to it that had one made. `ImplementsLoop` says the same of the accelerated loop by `RecordLoop`,
  which has `WriteStale` too. While none overflows every record is its chunk's own (`RecordsMatchChunks`, theorem `RecordsMatch`). No property denies the lost record, as nothing in the code prevents it.
- `FollowsMap`: in the insertion that passes the shift and after it, answers may be wrong, but known keys stay known,
  codes are counted one by one and a key is refused only when more than `Slots` have been learnt. `DistinctCodes`, `KeepsCodes`
  and `ProbedLearned` are about what lies before (`Reachable`), and `StoresAllSlots` is violated by what lies past it.
- `ReadsRecord`, `CodesCounted`, `ShiftsFirstCode` (of which no run but theorems speak, section 4) say what holds of the shipped 13 bits against 12: the decoder stops
  within a code of its record's end, codes and strings are counted as ever, and the first byte of a chunk comes back doubled.
- `EqualDigestsEqualPrefixes`: chunks that differ behind the 1023 runs there is room for share a digest
  and are deduplicated (sha.cpp:123). With `DigestTellsForms` this is all that `Dedup` and `Archive` take of a digest: equal
  chunks have equal digests, wherever they come in the transfer.
- `ChunksTilePackets` is about packets not shorter than the window; shorter ones are in no chunk (cdc.cpp:17),
  while the file that `Receiver` models has them. `FewChunks` bounds the chunks of one packet; what `estimated_chunks` has room for
  (4096, in host.cpp 961) is for all packets and not shown to suffice: one packet of 8192 bytes may make 8177.
- `GearImplementsChunking` leaves a rest of fewer than `FASTCDC_MIN_CHUNK` bytes of any packet in no
  chunk (cdc.cpp:62).
- `RecordIsBounded` allows a record of three bytes for two of its chunk. The buffer it is built in has
  2048 (encoder.cpp:253), too few from chunks of 1363 bytes on that do not repeat themselves.
- `FileFollowsHistory`: a failed `recvfrom` appends the packet of one lap before again, and what is cut
  off a long datagram is replaced by what the buffer was allocated with.
- `EndsOnLastPacket`: a done bit that a packet left in the ring ends nothing, as the loop ends at the first; the one that
  `malloc` left in a buffer does, when the call that was to fill it fails.
- `ListIsShifted`: the decoder finds a chunk under its number less the duplicates before it.

The four violations are disagreements between the code and what its own comments or messages say:
the 64 pairs of `lzw.h:24`, the 12-bit values of `lzw.cpp:34` against the decoder's `CODE_LENGTH (13)`, the
chunk that `encoder.cpp:215` reports as the original, and the largest chunk that `host.cpp:282` assumes.
`codec` gives the decoder a `CodeLength` equal to what is packed, to show that it is right but for that
constant.

### Fairness

`Receiver`: `WF(Send)` and `WF(Receive)`: the client sends on, and the one thread, which does nothing
else, returns from `recvfrom` when a datagram waits. Nothing is assumed of losses, so `Ends` is
`done`, or the last packet sent and every copy of it lost (`LastLost`): other losses, copies, reorderings and errors do not
excuse the loop. `Offload`: `WF(Host)`, one thread that only waits in `q.finish()`, and `WF(Device)`, a
device that completes a command that may run. `Completes` is that the loop takes every chunk, or comes to
one longer than `lzw_s1`, which is copied past the buffer's end (`FillOverruns`); the model says nothing of what follows. The other modules are sequential, their properties are of safety.

## 4. Proofs

All are for every value of the constants under the named assumptions of each module.

- `LzwDict_proofs`. Assumes `SizeAssumption` and `FieldAssumption` (the three fields determine a key).
  `IInv` is `TypeOK`, `Counted` (each used slot and bucket has a code), `CodesGiven` (codes stored are
  below `next_code` and distinct), `BelowFill` (only bits of used slots are set) and, while `fill` is within
  the shift, `OneWord` and `OneSlot`: a slot's bit is set at one address of each memory, and no key
  matches two slots. Without the last two `DistinctCodes` is not inductive: bits of two slots could
  meet in a third key. From it: `TypeCorrect`, `CodesDistinct`, `CodesKept`, `ProbedLearned`,
  `RefusalJustified` (every slot taken, the key's bucket another's, past the shift as well) and
  `DictImplementsMap`. Its first half is `FollowsMap`, for any `Slots`, the shipped 64 of a shift of 32 included: every step maps to one of
  `CodeMap` or a stutter up to the one that passes the shift. Its second half, that a dictionary without such slots implements
  `CodeMap` for ever, is about one the code does not have.
- `Archive_proofs`, first half, about `Dedup`. `IInv` adds to `TypeOK` and `FirstMatch` that no chunk before `j` has the digest of `i` while it is
  searched. From it: `DedupCorrect`, `OneStepToText`, `VerdictsAreFinal`, `DedupTypes`.
- `Archive_proofs`, second half, about `Archive`. `ArchiveInv`: nothing is written before the table is done, and then the records match. From
  it `RecordsMatch`, which needs nothing of `Dedup` but that the table no longer changes. `FollowInv` adds that the buffer holds
  the last record made, which is what an early return appends; from it `RecordsFollow`, whatever overflows.
  `ArchiveDeduplicates` says that a behaviour of the archive is one of `Dedup`, so that what is proved there
  holds here; `ReadInv` adds what the decoder has read: each record's text is in its list at the number of
  unduplicated chunks before it, which needs a count over the table (`CountedBefore`). From it and from
  `FirstMatch` of `Dedup`: `ListShifted`, `Restored`. `ArchiveTypes` needs the table to be complete when it
  is written from (`TypeInv`), and holds whatever overflows.
- `LzwCodec_proofs`. Assumes `WidthAssumption` (a byte is two halves) and `DictAssumption` (keys are enumerated as far as
  chunks reach, and the three fields hold a key). From these the assumptions of `LzwDict` are proved, so that the
  theorems of `LzwDict_proofs` hold of the compressor's dictionary (instance `D`). The invariants, each resting
  on those before it:
  - `LoopInv`: `IInv` of the dictionary; the codes emitted are counted by the strings learnt, and one more once the
    last lookup hit; a record is the packing of the codes. From it: `RecordBounded`.
  - `DecoderTypes`: what is read are numbers of the code's width, what is built strings of bytes. `TypeCorrect`
    follows, `DecodeUndefined` included.
  - `PositionInv`: the decoder's position is `CodeLength` times the codes read, whatever the widths; `FrameInv`, for one width: there is more to read exactly before
    the last code (`MoreIs`): the half byte that pads an odd number of codes is no code. From them: `FrameKept`,
    `OneCodeForEach`.
  - `SpellInv`, for chunks `InRange`: the codes emitted and the pending prefix spell the bytes read, where the strings
    are those of the lookups (`Strings`), a recursion on codes that is sound because a key's prefix is below its
    code (`Ordered`). It also says which string is learnt with which code: that of the nth code and the first byte
    of the next (`Spelt`). From it: `CodesSpellInput`.
  - `MirrorInv`: the decoder's table holds the dictionary's strings under the same codes, its output is what the codes
    read spell, and it does not reach `undefined`. That the bits read are the code packed is proved from the
    weights of bits over two or three bytes; the code about to be defined is the case where the string is the last one
    and its own first byte. From it: `DecoderMirrors`, `Lossless`.

  - `FirstInv` and `ShiftInv`: the first code packed is the first byte of the chunk, and what the decoder reads for it when it reads
    a bit more (`ReadWide`, from `BitsOfCode`). From them the halves of `DecoderMirrors` and `Lossless` about the shipped pair.

  Four theorems say what holds by the widths. For any two, the shipped included: `ReadsRecord` and `CodesCounted`. For
  `ShippedWidth` (`CodeLength = 3 * H + 1`, H bits being half a byte: 13 bits read, 12 packed): `ShiftsFirstCode`, and that no chunk
  beginning with a byte from 1 to 254 is restored (`NeverRestores`). For `SameWidth` (`CodeLength = 3 * H`), which the shipped programs do not satisfy
  and the instance of `codec` does: `StaysInFrame`, `OneCodePerString`, `DecoderMirrorsDict`, `LosslessUpToTail`, so that nothing but
  that constant keeps the decoder from reading what was packed.
- `RecursionTheorems`: what the proofs need of definitions by recursion, and of numbers. Induction is on sets of numbers
  (`Induct`), from the well-foundedness of their order; `Recursion` gives a function its recursive equation,
  `PowerIs`, `PowerSum` the laws of `Power` (module `Powers`, which the models use for `2^n`), `FlattenIs` and
  `FlattenAppend` those of the community modules' `FlattenSeq`, `Division` and `Congruence` those of `\div` and `%`, `TimesNext` that of a product and the next, `MaxIs` that of a
  greatest number. `UniformSpread` says that sequences of one length, concatenated, are read back by dividing the
  place by that length, and `UniformTold` that the whole tells the parts; `DigitsTell` that the digits of a number below
  `Power(b)[n]` tell the number.
- `Chunkers_proofs`. The theorems are about each chunker by itself; the module extends both, so that they stand under the
  assumptions of both, which are about different constants but for `Byte` and `Packets` and hold together, for instance
  for the constants of the code.
  Of `Chunker`: `IInv` has `Typed`, `Open` (where the open chunk may start, relative to `i` and the end of the
  packet), `Placed` chunks, `ChunksTilePackets`, and `Spaced` (chunks of a packet start at different
  places, all but its first after a window), which `FewChunks` needs. From it: `ChunksTile`, `ChunksFew`
  and `RabinImplementsChunking`. `HashInv` is that the hash is the one of its window, below `Word`: kept because
  taking the first byte's term from a weighted sum, multiplying by the base and adding the next byte gives the sum
  of the next window, modulo `Word` whatever wraps. From it: `HashOfWindow`, `TypeCorrect`. `CutInv` says of the bytes
  the loop has passed that those marked by their window are those where a chunk starts, the open one included;
  from it `CutsDependOnContent`.
  Of `GearChunker`: `GearIInv` is `GearTypeOK`, in which an open chunk is at least two bytes short of the maximum, and
  `GearOpen`: it reaches from `start` to `i`, and is too short to cut when the packet ends. From it:
  `GearTypeCorrect`, `GearKeepsContract`. `FirstInv` adds that a bit of the hash is the parity of the table's bits that
  the last `HashBits` bytes have shifted there (`HashKept`), and that the open chunk was nowhere allowed to end
  (`NotYet`); from it `ChunksEndFirst`.
- `Offload_proofs`. `HostInv`: `Protocol` lists, for each place the host can be at, what may be left in the queue and
  what is complete; the chunk the host is at is `Loaded` in its buffers; the device's output is, but for the
  byte behind the chunk, the last record before the kernel has run and the chunk's `Answer` after. Without
  the part before the kernel has run, the early return could not be shown to repeat the last record. From
  it: `Settled`, `TypeCorrect` and `OffloadImplementsLoop`, whatever the interleaving and for chunks of any length; liveness is not
  used. Chunks longer than the buffer are not assumed away: `HostInv` is kept when the host comes to one, as the model ends there.
  `TailInv` says at which place the buffer holds which of the chunks handed over (`Left`: the last that
  is long enough), so that `Stale` follows one chunk at a time.
- `Receiver_proofs`. Assumes `RingAssumption`: a ring of at least a buffer, a first buffer in it, lengths that a header can
  say. `RingInv`: `slot` is the number of the iteration modulo the ring, each buffer used in the last lap holds the packet
  read into it last, and no buffer was ever written past `blocksize`. It is what makes `FileFollowsHistory`
  inductive: the file alone does not tell what a failed call will append. `FileInv` says what the calls so far
  make of the file, `EndInv` that the loop has ended exactly when the last call found the done bit, which a buffer has if the packet
  it holds does, and `OrderInv` that over a network that behaved the nth call returns packet n. From them: `TypeCorrect`,
  `FileFollows`, `FileIsSent`, `EndsThere`. A failed call looks in its buffer as far back as there was a successful one, any
  number of laps (`WritesLap`).
- `DigestStage_proofs`. Assumes `DigestAssumption`: sizes that are not zero, a block longer than the length in it, and a length
  field that can count the bits of what the buffer holds (8 * 2048 against 256^8). `IInv` follows one chunk from its bytes to
  its digest: `Spells`, the form is of pairs, is shorter than the buffer and expands to the first `i` bytes of the chunk, which are
  all of them or the buffer is full (`Whole`) once the form is digested; `ShaInv`, the blocks folded in and the first
  `datalen` bytes of `data` are the bytes read, whatever is behind them; `Digested`, after `sha256_final` the blocks are
  the message padded; and `Stored`, the same of every chunk before. `FormsSpell` needs that a run appended to a form appends
  its bytes to what is spelt (`FormAppend`). `DigestsPadded` needs the padded message place by place (`PaddedIs`) and that the
  number of zeros is what sha256_final's two cases make it (`ZerosAre`, `FinalOne`, `FinalTwo`). `DigestsTell` has two
  directions. Equal blocks are equal padded messages (all blocks have one size); those have one length, since
  the last `LengthSize` bytes are the digits of the number of bits, and so one message (`PaddedTells`), which is cut
  into pairs (`MessageIs`). Equal chunks have equal forms because a form is told by its chunk: `IsTraced` says of
  each pair that it was written when bytes and room were left, for the longest run there was, so that two traces of
  one chunk agree as far as both go (`TracesAgree`) and stop at the same place (`TracesEnd`, `TracesTell`). Without the trace
  in `IInv` a form could spell the chunk in shorter runs. `EqualDigests` then follows from `Spells` and `Whole`.

Only model-checked: liveness (`Ends`, `Completes`), which needs fairness and `ENABLED`, and what is found violated, which a
proof cannot say. Every other property of a passing run is a theorem. Only proved: `ReadsRecord`, `CodesCounted`,
`ShiftsFirstCode` and `NeverRestores` about the shipped decoder, `LearnsProbed` and `RefusesOnlyWhenFull` of the dictionary, `NoChains`, `RecordsMatchChunks`.

## 5. Plan

Order followed: dictionary, codec, deduplication, archive, receiver, Rabin chunker, digest stage, offload,
gear chunker, the contract that both chunkers implement, and the proofs, those of the digest stage last. What could follow:

1. The chunks of a whole transfer against the 4096 (961 in host.cpp) entries there are.
2. `encoder_final.cpp` and `sha_NEON.cpp`, if a program is built of them.
