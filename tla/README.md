# TLA+ models of the manual QPACK encoder

These modules model `src/research/qpack_manual.py`. That file builds QPACK
(RFC 9204) encoder-stream instructions. It also keeps a tracker that mirrors
the dynamic table the receiving server computes from those instructions.
`src/research/qpack_static_table.py` is the 99-row static table it reads.

## Inventory

| Component | Source | State | Operations |
|---|---|---|---|
| Integer codec | `encode_integer`, `decode_integer` (l. 23-81) | none | encode with a 1..8-bit prefix, decode (raises on truncation) |
| String codec | `encode_string` (l. 89-99) | none | 7-bit length prefix with the Huffman flag, then the bytes. Requesting Huffman raises NotSupported |
| Instruction builder | l. 107-164 | none | Set Capacity (`001`, 5-bit), Insert With Name Reference (`1S`, 6-bit), Insert With Literal Name (`01H`, 5-bit name length), Duplicate (`000`, 5-bit) |
| Static table | `qpack_static_table.py` (l. 7-112) | constant | read by index (`STATIC_TABLE[index][0]`), `STATIC_TABLE_SIZE` |
| Dynamic table tracker | `DynamicTableTracker` (l. 184-226) | `entries` (newest first), `capacity`, `insert_count` | `set_capacity` (then `_evict`), `insert` (raises EntryTooLarge, evicts from the tail, prepends, counts), `duplicate` (raises IndexOutOfRange, re-inserts), `current_size` |
| Encoder | `ManualQpackEncoder` (l. 234-342) | the tracker, `_max_table_capacity` | `set_capacity`, `insert_name_ref`, `insert_literal`, `duplicate`, the `max_table_capacity` setter |

How they interact: the caller invokes an Encoder method. The method validates
against the tracker, calls a builder for the bytes, mutates the tracker and
returns the bytes. The harness writes the bytes to the encoder stream, an
ordered and reliable QUIC stream. The server reads them at its own pace and
updates its own table. Nothing in the code runs concurrently. What is hard is
keeping two copies of the table in step:

- The encoder's copy runs ahead of the server's, and relative indices
  (0 = newest) shift with every insertion.
- Eviction order, exact-fit entries and emptying the table must match the
  receiver byte for byte.
- Names and entries are read before the eviction that may remove them.
- Bytes are built before the mutation, and a failure must leave everything
  unchanged.
- The wire format has prefix boundaries, such as a value of exactly
  2^prefix - 1, and opcode bits ORed into the integer's first byte.

The properties that make each part correct:

- **Codec**: decoding an encoding gives back the value, and the first byte fits
  the prefix. On any input, decoding agrees with the RFC's definition, including
  truncation and offsets past the end.
- **Builders**: an RFC reader reads every instruction back exactly.
- **Tracker**: its size stays within the capacity, and it behaves like the RFC
  table (oldest-first eviction, relative indexing, `insert_count`, atomic
  failure).
- **Encoder**: the receiver accepts every instruction it writes, the receiver's
  table equals the tracker's once it has caught up. Read back, the stream is exactly the instructions of the
  successful calls, in order.

PROJECT.json lists the hazards, each at the line where it applies.

## Modules

- `QpackCodec`: the primitives and builders as pure operators, named as in the
  source. It also has `ParseInstruction`, which reads one instruction from the
  head of a stream the way RFC 9204 section 4.3 says. That reader is not
  repository code; it is the yardstick.
- `QpackStaticTable`: the 99 rows of the static table, as their names (the
  code never reads a row's value), and `STATIC_TABLE_SIZE` as the length.
  `StaticNames` gives `STATIC_TABLE[index][0]` as the encoder stores it. A
  static name never goes on the wire, because the instruction carries the
  index. So its bytes are modelled by their number (the entry size) and by
  which name they spell (each byte is the first row with that name).
- `MCQpackCodec`: one state per codec call over bounded inputs. Every
  invariant is checked on every input.
- `DynamicTable`: the abstract specification. It is the receiver's table of
  RFC 9204 section 3.2, a function from absolute index to entry. Eviction is
  stated declaratively (`Newest`: drop the fewest oldest entries so that the
  rest fits). `call` records the request each step carries out or rejects, so
  a duplicate cannot pass for an arbitrary insert.
- `DynamicTableTracker`: the tracker. The Python loops are recursive operators
  (`Evict`, `PopUntilFits`), and a raised error is the `outcome` of a call that
  leaves the table alone. `AbsTable` maps list position `i` to absolute index
  `insert_count - 1 - i`. The property `TrackerImplementsTable` is
  `DynamicTable!Spec` under that mapping.
- `ManualQpackEncoder`: composes the encoder with the tracker (`T!`), the
  builders (`W!`) and a receiver that is an instance of `DynamicTable` (`R!`)
  over its own variables.
  - Each method is one action: validation failures (`Fail`), then build plus
    mutate (`Emit`), in the code's order. The bytes reach `stream` only if the
    tracker call did not raise.
  - `Receive` parses the head of `stream` with `ParseInstruction`. An
    instruction RFC 9204 makes a connection error is refused (`rerror`), and
    any other is applied.
  - The receiver may lag by up to `MaxPending` instructions.
  - The static table is `QpackStaticTable`'s, passed in by the MC module.
  - `LiveSpec` adds weak fairness for `Receive` alone (see below).
  - `Instructions[s]` is the list of instructions an RFC reader gets from the
    bytes `s`, in order. An unreadable remainder appears as a last element of
    kind `incomplete` or `huffman`. It is a recursive function rather than a
    recursive operator because TLC then evaluates it under a prime with the
    parser's LET values cached.
- `InstructionChannel`: the abstract specification of the encoder stream, a
  FIFO of instructions (`queue`). `Write` appends the instruction that a
  successful call of a writing method denotes, given its arguments.
  `NoWrite` leaves the queue alone when a call raises or when the
  `max_table_capacity` setter runs. `Read` takes from the front.
  `ManualQpackEncoder` instantiates it as `Chan`, with `queue` mapped to
  `Instructions[stream]`.

## Runs

| Run | Expect | What it shows |
|---|---|---|
| `codec` | pass | `IntegerCodecSound`: round trip, first byte inside the prefix and bytes in 0..255, for every prefix 1..8 and values on each side of 2^p-1, 2^p-1+128 and 2^p-1+128^2. `InstructionRoundTrip`: every builder's output is read back as the same instruction, followed by another instruction, for indices around 31/63, capacities around 31/159, values of 126/127 bytes and literal names up to 30 bytes. |
| `codec` (decode) | pass | `DecodeMatchesReference`: `decode_integer` equals `RefDecode`, a declarative reading of RFC 7541 section 5.1. It is checked on every string of up to 3 bytes drawn from 0, 31, 63, 127, 128 and 255, at offsets 0..3 and every prefix width. |
| `codec_long_literal_name` | violation | With a 31-byte literal name, `InstructionRoundTrip` fails. The name length is encoded with a 7-bit prefix where the instruction has a 5-bit one (finding in PROJECT.json). |
| `tracker` | pass | Names `x` and `:path`, values `""` and `y` (entry sizes 33-38), capacities 0, 33, 40, 70, 100, relative indices -1..3, up to 5 insertions. The cases covered include an exact fit, eviction of 1 to 3 entries, emptying by a capacity change, and duplicating the oldest entry into a full table. `TrackerImplementsTable` checks that the tracker refines `DynamicTable`. |
| `tracker_direct_capacity` | violation | `SizeWithinCapacity` fails when `encoder.table.set_capacity(-1)` is called directly: the tracker has no negative check (finding). |
| `encoder_receiver` | pass | Static names `:authority` (index 0) and `:status` (index 63, the first that needs a second byte after the 6-bit prefix); -1 and 99 are out of range. Literal name `x`, capacities -1, 0, 40, 160 (three bytes on the wire) and 201, ceilings 40 and 200, server limit 200, up to 4 insertions, and up to 2 instructions unread. Every error path of every method is reached (886k states, about 95 s). |
| `encoder_live` | pass | `StreamDrains`: under `LiveSpec`, a stream holding `MaxPending` unread instructions is always drained by one. Every instruction the encoder writes is whole on the stream. Same bounds as `encoder_receiver` but with 3 insertions (132k states, about 45 s). |
| `encoder_channel` | pass | `StreamImplementsChannel`: the byte stream refines `InstructionChannel`. After every step the bytes are read back as the instructions of the successful calls not yet received, oldest first, each carrying its call's own arguments. A raising call writes nothing, and consecutive instructions never run into each other. Same bounds as `encoder_live` (132k states, about 55 s). |
| `encoder_long_literal_name` | violation | With a 31-byte literal name `StreamDrains` fails. Every trace has the same shape: `set_capacity(160)` makes room, the literal insert follows, and one more successful call fills the stream. The other calls and their order vary from run to run. The receiver reads a name length of 151 and waits forever, and the stream stays full (finding). |

Each property of a passing run has a mutant in PROJECT.json that TLC must
catch:

- the `<=` boundary in `encode_integer`;
- a `decode_integer` that keeps the flag bits above the prefix;
- an inverted S bit;
- an uncounted insert;
- an eviction loop that ignores the new entry's size;
- `duplicate` counting from the oldest entry;
- eviction before the size check;
- a `set_capacity` without the ceiling check;
- a name reference always sent as static;
- a `set_capacity` without `_evict`;
- for `StreamDrains`, the `<=` boundary in `encode_integer` again: index 63 is then sent without its continuation byte.

The bounds are enough because:

- The entry sizes and capacities make every eviction count from 0 to 3 occur,
  including exact fits and full emptying.
- The integers straddle every prefix and continuation boundary.
- A lag of 2 lets an instruction refer to the table as it will be after
  another unread instruction.

Fairness is assumed only for the receiver, which is the environment and not
code of this repository. A server must keep reading its encoder stream for
the connection to progress (RFC 9204 section 2.1.2). `LiveSpec` states this as
`WF_vars(Receive)`, written out with `CanReceive` for `ENABLED Receive`.
`CanReceive` holds when the receiver has not failed and the head of the stream
is a whole instruction; the receiver then applies or refuses it. Writing it out
keeps TLC from evaluating the parser inside `ENABLED`, which it does very
slowly. The encoder and its caller get no fairness: the code is synchronous,
its loops end by construction, and a caller may stop at any time. Only the
encoder's output decides `StreamDrains`, and the 31-byte-name run shows an
output that breaks it.

Checking `WF_vars(Receive)` natively takes TLC far too long. Even with the
parser behind a recursive function it managed about 10 distinct states a
minute, because `ENABLED` re-evaluates `Apply` through the `R!` instance. The
written-out form checks the same formula. A fairness condition on the
abstract channel (`WF(Read)`) was not added for three reasons:

- TLC would have to evaluate `ENABLED` through the non-variable substitution
  for `queue`, which is not sound in general.
- It took over 2 minutes for 728 states.
- Under the mapping it says no more than `StreamDrains`.

## Not modelled

- The values of the static table's rows, which the code never reads, and the
  names' actual bytes, which never reach the stream.
- The decoder stream (acknowledgements), which the code never reads.
- The harness and QUIC framing.
- The `max_table_capacity` setter is an action, but no property relates the
  stored capacity to a ceiling lowered afterwards. Neither the code nor RFC
  9204 says it should stay below such a ceiling. The setter mirrors
  SETTINGS_QPACK_MAX_TABLE_CAPACITY, which does not change within a
  connection.

## Plan

Done:

1. Codec and builders with an RFC reader (`QpackCodec`).
2. The tracker refining the RFC table (`DynamicTableTracker`, `DynamicTable`).
3. The encoder plus a lagging receiver (`ManualQpackEncoder`).
4. Violation runs for the literal-name encoding.
5. (Sitting 2) The following additions:
   - `decode_integer` checked against the RFC definition on arbitrary input.
   - The Huffman branch of `encode_string`.
   - The tracker called directly with a negative capacity (violation run).
   - Composition bounds with multi-byte static indices and capacities.
6. (Sitting 3) The following additions:
   - The static table from the source (`QpackStaticTable`) used by the
     composition.
   - The liveness property `StreamDrains` under receiver fairness.
   - The 31-byte-name stall as a violation run.
7. (Sitting 4) The following addition:
   - The encoder stream refining a FIFO of instructions (`InstructionChannel`,
     `StreamImplementsChannel`).

Next:

8. A refinement of the whole encoder+receiver composition to `DynamicTable`.
   This needs a mapping of encoder calls, whose failures are not all table
   rejections, to abstract requests.
9. The last static row (98) in the composition, if a faster run allows it:
   with it the run takes about 3 minutes.
