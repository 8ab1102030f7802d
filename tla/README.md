# OpenPython firmware: TLA+ specifications

OpenPython runs MicroPython on an emulated Cortex-M0 inside the Minecraft mod
OpenComputers. This repository is the firmware: the port of MicroPython, the
modules through which Python programs reach the computer, the MessagePack
codec that carries values across the boundary, and the two small Python
programs that boot it. The machine that executes it, called the *host* below,
is another program; the firmware talks to it by system calls only
(`syscall_arch.h`), and the host may break into the firmware by
`Call_Handler`.

The directory holds one TLA+ module per component, the TLC configurations
that check it on small instances, and proofs for every instance (`*Proofs`),
checked by TLAPS. All paths below are under `src/`.

Run `tlc -config X.cfg M` for the pairs in the table of runs, and
`tlapm M.tla` for the modules `DelayProofs`, `ImportProofs`, `BootProofs`,
`PythonProofs` (of `Machine`, `UValue` and `MpackWriter`), `MpackTreeProofs`,
`MpackReaderProofs`, `MpackExpectProofs` (which stands on it, and takes a quarter
of an hour) and `MpackNodeProofs`.

## 1. Inventory

There is one processor and one thread. What makes the firmware hard is that
control is handed back and forth between C and Python in the middle of almost
everything: a sleep calls a Python hook, the decoder of a reply calls a Python
hook, printing an exception may run a Python `__repr__`, a pending callback
runs between two lines of a loop, the host may call in at any instruction, and
every one of them may raise an exception, which is a `longjmp`. Below the
system calls is a world that changes by itself: disks are unplugged, files
grow, power fails, an answer is short or an error.

| Component | State | Operations | Hard behaviour | What makes it correct |
|---|---|---|---|---|
| Control (`main.c`, `machine.c`, `moducode.c`) | C stack, chain of nlr buffers, globals and locals, whether the machine has crashed | start, call and return, raise, catch, `repl_compile`, `repl_call`, `Call_Handler`, fatal error | exceptions through C frames, the host on top of anything, exceptions while printing an exception | a long jump lands in a live frame; name spaces are put back; no exception crosses `Call_Handler` |
| Delays (`mphalport.c`, `modmachine.c`) | tick counter of the host, signal hook, `start` and `elapsed` of each delay on the C stack | `sleep_ms`, `sleep_us`, `hook_signal` | 32 bit counter wraps, hooks and callbacks that sleep, a hook that is removed or raises | a sleep lasts as long as asked, not a wrap longer, and ends |
| MessagePack writer (`lib/mpack/mpack-writer.c`, `msgpack.c`) | buffer, cursor, sticky error, flush function, blocks of the heap | init, writes of two kinds, destroy; abandoned when the encoder raises | growth in the middle of a write, the cursor that tells three kinds of flush apart, failing allocations | no store outside the buffer; the message is exact; its block has one owner |
| Codec (`msgpack.c`, `lib/mpack/mpack-reader.c`, `syscall.c`) | reader position and error | `dumps`, `loads`, `wrap_result`, unpacking in `invoke` | widths of integers, truncated messages, errors that become nil or a null pointer | what was encoded is decoded; what is damaged loses parts but changes none; a failure is raised |
| Buffered reader (`lib/mpack/mpack-reader.c`) | buffer, `data`, `end`, fill and skip functions, sticky error | read tags, strings, blobs, ext, time stamps; skip, discard | a source that delivers any pieces or fails; reads that straddle the buffer or are longer; an error handler that may jump away | the bytes come in order, once; the handler is called once and no block is lost |
| Expectations (`lib/mpack/mpack-expect.c`) | the keys found so far | read an element of a type, in a range, of a length, out of a list | limits of every type, elements in another form, a key that comes twice | what is not refused is what was asked for, and what is refused is not |
| Tree parser (`lib/mpack/mpack-node.c`) | data, stack of levels, pages of nodes, bytes spoken for, sticky error | parse a message, or as much of it as has arrived; destroy | pausing in the middle of a node, a buffer that moves, announcements that nothing follows, failing allocations | the tree is what the message means; nodes are bounded by bytes; each block is freed once; parsing ends |
| Nodes (`lib/mpack/mpack-node.c`) | the tree and its sticky error | read a node as a type, copy it, look a key up | numbers and keys in a signed or unsigned form, room for the terminator, one error at the end | an answer without an error is what the node means; an error has its cause |
| Host values (`moduvalue.c`) | handles the host has handed out, `UValue` objects, object hook, replies half decoded | decode, hook, `invoke`, `call`, `apply`, `unapply`, `dispose`, collection | Python code and nested replies in the middle of a reply, a full heap, `dispose` that fails, or whose answer does | no value used after it was given back, none given back twice, none forgotten |
| Source reader (`vfs_reader.c`) | 4096 byte buffer, `len`, `pos`, file object | open, `readbyte`, close | exact multiples of the buffer, short reads, errors, look-ahead past the end | the lexer gets the file, in order, up to its end |
| File objects (`openpython_vfs.c`) | descriptor, or -1 | open, read, write, seek, flush, close | failing close, descriptors used again, objects dropped while open | no operation on a closed or foreign descriptor, no leak |
| Boot programs (`modules/bios.py`, `eeprom.py`) | data of the EEPROM, list of disks, address at hand, handle, buffer | find, check, remember, load, run | components that come and go between any two calls, power cuts between two writes of the EEPROM | what runs is whole and is what is remembered; a computer that can boot does |
| Hooks of stdio (`mphalport.c`, `modmachine.c`) | stdin, stdout, stderr hooks | set, print, read | hooks that print or replace themselves | text reaches the hook in force |
| System call tables (`moducomponent.c`, `moducomputer.c`, `modutime.c`, `modumsgpack.c`, `moduimp.c`, `moduos.c`) | none of their own | encode the arguments, one system call, decode the reply | an error reply becomes an exception | that of the codec |
| Collector entry (`gccollect.c`, `gchelper_m0.s`) | none | mark from the registers and the C stack | objects that only a C frame refers to | nothing in use is collected |
| Start-up, linking, configuration, stubs, build scripts | none at run time | | | |

How they interact:

- Python calls a module function; it encodes its arguments with the writer,
  makes a system call and decodes the reply (`wrap_result`); an error reply is
  raised as `SystemError`.
- The decoder makes a `UValue` of each value of the host and calls the object
  hook, which may itself call the host.
- `import` opens a file object, and the source reader feeds the lexer from it.
- Delays call the signal hook to give the host time, and run callbacks that
  were scheduled.
- Exceptions leave every one of these functions by a long jump to the newest
  nlr buffer: of a Python frame, of `repl_compile` or `repl_call`, of
  `Call_Handler`, of `main`. With none left the machine stops.
- The firmware itself decodes from memory only. The buffered reader, the
  expectations and the trees of `lib/mpack` are built into it
  (`mpack-config.h`: `MPACK_READER`, `MPACK_EXPECT`, `MPACK_NODE` and
  `MPACK_WRITER` are 1, `MPACK_STDIO` and `MPACK_DEBUG` are 0, `MPACK_MALLOC`
  is `gc_alloc`, and `MPACK_REALLOC` is `gc_realloc`, which may move a block),
  and are modelled as any C code of it may use them.

`PROJECT.json` lists every component with its state of modelling, every
hazard found in the code at its line, and the properties that cover it.

## 2. Modules

### Delay

`frames` are the delays on the C stack, the innermost last, each with the
variables of the C function (`start`, `elapsed`, the argument `wait`) and the
place where it is: `test` (line 45 or 58), `pending` (46, 59), `callback`
(inside `mp_handle_pending`), `yield` (47-50), `hook` (51). `clock` is true
time for the two counters; the code only sees `Ticks`, which is `clock` modulo
`Wrap` (2^32). `entered` and `seen` are history: true time at the call and at
the last reading. `mp_uint_t` subtraction is `%`. `CallDelay` may happen
wherever Python code runs, so delays nest through hooks and callbacks. A
callback cannot nest in a callback: MicroPython locks its scheduler, and
catches what a callback raises (`mpconfigport.h:94`). Nothing in the port
leaves an exception pending, so `mp_handle_pending` runs callbacks and never
raises. A zero delay returns at once and is not an
input.

Properties: `ElapsedIsTrue` (what a suspended delay holds never exceeds the
true time), `SleepsLongEnough` (action property), `OversleepBounded`,
`SleepEnds` (liveness; a machine that stops because a callback took the hook
away counts as an end: the code means to stop then, so nothing forbids it).

### MessageLog, MpackWriter

`MessageLog` is the abstract promise of a writer: a log of bytes that grows,
or is doomed once and for all; a doomed log is never delivered, a delivered
one is whole. `MpackWriter` is the code. A byte is named by its place in the
message, so the contents of the buffer are right iff place `i` holds `i`;
`mem` is what was stored, `heap` the live blocks. The operators `Put`,
`FlagError`, `NewSizes`, `Grown`, `FlushUnchecked`, `FlushExtra`,
`EnsureThenPut` and `Straddle` follow the functions of `mpack-writer.c`; those
whose allocation may fail return the set of possible results. The three kinds
of call of the intrusive flush function are told apart as the code does, by
the cursor. `WriteEncoded` is a write of at most `MinBuffer` bytes through
`mpack_writer_ensure` (tags, scalars, short strings), `WriteNative` one of any
length through `mpack_write_native` (payloads). Every sequence of the two is
allowed, which includes all that `msgpack_dump` and `msgpack_args_dumps`
produce. `Abandon` is the `TypeError` of `msgpack_dump` on a value it cannot
encode: the writer is then left to the collector, and so is its buffer.
The errors `too_big` and `io` are in the model so that it can be shown that
they never occur (`OnlyOutOfMemory`).

### SourceReader

The names of this module that VfsFile has too begin with `Reader` (`ReaderInit`,
`ReaderNext`, `ReaderSpec`), since `Import` extends both.
`reader` is `mp_reader_vfs_t` (`len`, `pos`, `buf`); `file` is the file on the
host. Bytes are named by their place in the file. The actions are the paths
through `readbyte`: a byte of the buffer, the end after a short buffer, a
refill, the end (or an error, which the code takes for it: line 60) after a
full one. `len` and `pos` change exactly as in the code, also on the path
where `len` becomes 0 and `pos` stays. `cut` records that a read failed or
returned less than there was; the code cannot tell that from the end of the
file, so `WholeUnlessCut` claims no more than it can.

### OpenFiles, VfsFile

`OpenFiles` is what file objects promise: each has a file and a cursor of its
own until it is closed, and answers "closed" ever after. `VfsFile` is the code:
`fd` is the field of each object (`None` for -1), `table` the descriptors of
the host, and an operation is one system call on `fd[o]`, so it moves whatever
cursor that number leads to. `Open` takes any free number, which is how numbers
of closed files come back. `Fail` is an error of any call: raised as `OSError`,
or, in `readbyte`, taken for the end. `importing` is the object that an import
reads from: no Python code runs while a module is parsed, so its steps do not
mix with those of others (but the collector's do). `ReaderRaises` stands for
the three ways in which the file of an import is left open: the first read
fails (`vfs_reader.c:84`), the close fails (`:74`), the parser runs out of
memory. `Collect` forgets an object without closing it, since
`mp_vfs_openpython_file_open` allocates no finaliser; `lost` records its
descriptor. That the host leaves a descriptor alone when a call on it fails is
an assumption about the host. Contents of files are not in the model; what the
reader makes of them is in `SourceReader`.

### Import, MCImport

The composition of the two: the reader of one import is followed byte by byte,
and each call it makes is the operation of `VfsFile` on the object that
`mp_vfs_open` gave it. `ImportOpens` is both opens in one step, `ImportStarts`
and `ImportRefills` conjoin a read of the reader with a `Transfer` of exactly
as many bytes by its object (`ByTransfer`), or with a `Fail`; `ImportCloses`
is both closes. A reader that raises leaves its object to the collector.
`Meanwhile` is everything else: while nothing is followed, any step of
`VfsFile` (Python code, and other imports); while a module is parsed, the
collector, which may run at any allocation of the lexer. `ReaderSpec` and the
`Spec` of `VfsFile` are both implied, which is proved, and the properties of
each are checked here together. New is `OwnPlace`: the object of the import
is on the heap although only a C frame knows it, and its descriptor stands
where the reader is. `MCImport` adds the symmetry of objects, files and
descriptors.

### Boot

One step per call to a component of `bios.py` and `eeprom.py`, named by what it
asks. Between any two steps `World` may plug or unplug a disk, write or delete
an `/init.py`, or swap the EEPROM, and `PowerCut` may switch the machine off;
`stored` is all that survives. A call to a component that is gone raises
`SystemError` (`wrap_result`), which nobody catches, so `main.c` reports it and
stops (`Raise`). `Screen` is the beep and the binding of the graphics card;
what can go wrong there is that one of the two is unplugged after it was
listed. Components of the host are addressed by their disk; two disks never
share an address. `steady` is history: the disks that could have been booted
at every moment since the listing.

### Machine

`stack` is the C stack, a frame for each function that matters to control:
`main`, `py` (a Python function in the interpreter), `c` (a function of the
port that calls a hook: stdio, delay, decoder), `compile` and `call`
(`repl_compile`, `repl_call`), `host` (`Call_Handler`). `chain` is the list of
nlr buffers, each by the index of its frame. `Jump` is `nlr_raise`: the stack
is cut at the frame of the newest buffer and the buffer leaves the chain;
without one, `nlr_jump_fail`. When it lands in `main` the code arms a second
buffer before it prints. `context` is the pair of globals and locals. A Python
frame is external code, modelled by what it does: it arms a buffer, sets the
globals of its module, and restores its caller's on both ways out. In this
configuration (`MICROPY_STACKLESS`, `MICROPY_ENABLE_PYSTACK`,
`mpconfigport.h:13, 60`) a Python function that Python calls directly shares
the C frame and the buffer of its caller; a frame `py` of the model is one run
of the interpreter, the kind that C functions start.
`ChainIsLive` says that the chain leads, in order, through exactly the frames
whose buffer is armed (`Guarded`).

### UValue, MCUValue

`table` is the host's table of handles. `value` maps the objects `UValue` on
the heap to their handle, or to `None` after `dispose`. `decodes` are the
replies being decoded: handles that are still in the buffer, objects that are
already in the tuple, whether the hook is running, and the object whose
`dispose()` the reply answers, if it does (`of`). A hook may do anything
Python code may, including calls with replies of their own, so decodes nest.
`RaiseThrough` is any exception through the decoder: of the hook, of a full
heap, of a malformed reply or an unknown status. `Decoded` hands the objects
over, as a result or in a `SystemError`. `Collect` takes everything that
neither Python code (`held`) nor a C frame (`Made`, `Disposing`) can reach, at
any step.

`Dispose` has the four things that can come of line 15: the host lets go and
answers nothing; it lets go and answers something, which is decoded, hooks
included, before line 16 clears the object (`Answer`); it refuses, with or
without values in the exception; or no message is sent. In the second case the
host and the object disagree for as long as the reply is decoded, and for good
if an exception comes out of it; and a hook in it may dispose of the same object
again. `doubtful` collects the handles to which that happened. `NoStaleValue`
is about all the others, and about the objects that are not being disposed of
(`Owners`): it says that this window is the only way to a stale value. The host hands
out free handles, and may hand out again one that was disposed of: a stale
object would then silently refer to another value. `MCUValue` adds symmetry
of handles and objects, which no property or action tells apart.

### Codec, MCCodec

The codec has no state between calls; what is checked is a function and its
inverse, so the state machine is the life of one message: it is written by the
firmware (`Dumps`) or by the host (`HostDumps`, which may take any tag that is
wide enough), possibly `Cut` or `Extend`ed, read by one of the three kinds of
function that decode (`ReadBuffer` is `umsgpack.loads`, `ReadReply` is
`wrap_result`, `ReadResults` adds the unpacking of `invoke`). `Dump` and `Load` are `msgpack_dump` and
`msgpack_load`, recursive as in the code; `WriteInt` and the `Start` operators
are the choice of a tag by `mpack_write_i64` and `mpack_start_*`; `ReadTag`,
`ReadBytes`, `ReadUtf8` are the reader, with a position and the sticky error.
`LoadInt` and `LoadUint` are the narrowing to 32 bits, the comparison and the
choice of a constructor for a number (`msgpack.c:31-56`); the four constructors
are external, and each keeps what its C type does.
Bytes are to scale: 8 values instead of 256, so a 32 bit integer is 4 digits of
base 8 and all thresholds that are powers of 256 are powers of 8. The limits
that are part of a tag (31 for strings, 15 for arrays and maps) are constants of
their own. A Python value is a record with one field named for its type.

`junk` is what comes of a null pointer that the reader returned: the code gives
it to `mp_obj_new_str`, `mp_obj_new_bytes` or `msgpack_loads`, which read from
address 0. No memory of the linker script is there, so the outcome (any
object, an exception, a fault) is that of the host, and the model leaves it
open. The order of the entries of a dictionary is that of the message; Python's
own order depends on hashes and no property looks at it. Recursion puts this
module out of the prover's reach.

Properties: `RoundTrip`, `AnyWidth`, `Smallest` (the promise of
`mpack-writer.h:492`), `NothingInvented`, `FailureIsRaised`. `NothingInvented`
is worth reading: a message that is cut, and a reply with a string that is not UTF-8, are not refused by `loads`,
because `mpack_reader_remaining` is 0 after an error and nobody looks at the
error itself. What holds is that such a message only loses parts,
and that one with something after it is refused.

### Format

What the reader, the expectations, the trees and `Codec` share: the tags with
the widths of the number that follows them, loading and storing digits, the
limits of C's integer types, what a whole tag says, and time stamps. All of it
is to the scale of `Codec`: a byte has `Base` = 8 values. `Number` is by cases
of the four widths, as `mpack_load_u8` to `_u64` are, so that what uses it can
be proved about.

### Floats

What the expectations and the nodes share of floating point: which types
each function accepts, and the conversions `(float)` and `(double)` of a whole
number (`Converted`), which round to nearest, to even between two
(`Rounded`, C's). A float keeps 24 bits of a number, which are three bytes to
scale, and a double 53, an eighth of seven bytes. What the bytes of a float or
double *mean* is left to IEEE 754: the model knows such a number by its bytes,
and says of one that is narrowed from double to float that it was. `SaysNumber`
is what a program may rely on: the nearest number there is, and the number
itself where it has digits enough. `Ulps` are the powers of two; they are a
constant because the proofs need no more of them than that each but 1 is twice
another.

### MpackReader, MpackExpect, MCMpackExpect

`rd` is `mpack_reader_t`, with the buffer as a sequence of bytes, of which
those behind `end` are old; `drawn` counts what the source has delivered,
`told` what the error handler was called with, and whether a block was held
then. Operators follow the functions of `mpack-reader.c`, and yield the set of
what a call can lead to, because a fill function may deliver any number of
bytes or fail, a skip function may stop short, and `malloc` may have nothing.
`FillRange`, `Compacted`, `ReadNative`, `Rest`, `SkipBytes`, `Seek` and
`SkipUsingFill` are the ways through a buffer, `BytesAlloc` the read into a new
block with its order of error and release. `DiscardOne` is one turn of
`mpack_discard`, whose recursion is the count `pending`. `pos`, `left` and
`asked` are where the program is in the message, which is how "in order" is
said. The programs are those that read what they were told is there:
`Elements` says of a stream that elements follow each other, the last perhaps
cut off, and `ReaderSpec` is the program that only reads. A stream in which
something else than an element begins is one of `Codec`.

`MpackExpect` adds a function of `mpack-expect.c` to each operator, on the
same reader, with its limits as arguments, and `found`, the keys that are
marked. The elements it is tried on are given (`Expected`): each type, both
sides of each limit, elements in another form, cut short, twice. Nothing in it
is recursive: a string that is matched is looked at a byte at a time
(`MatchByte`), and the elements of a value that is no key are discarded one by
one (`Ignored`, then `Discard` while any is `pending`), as the loop of
`mpack_expect_str_match` and the recursion of `mpack_discard` do; the program
can do nothing else in between. `Wants`, `Answers` and `Caused` say per
function what it takes, what it answers and which errors it may end with, from
the element and its bytes alone (and the flags of the keys). An error counts as
caused only for a reason of its own: "invalid" of a time stamp, for instance, if
its length is none of three or its nanoseconds are too many (`Stamped`), and of
a key if its flag is set (`Again`); "eof" and "io" if bytes of the
element were not delivered (`Short`). `Keyed` calls are the two that are given
the flags; that a mark is set for the key that is answered, and for no other, is
part of `FlaggedForCause`, so a mark behind the array would be seen.

`Wants` is what the code takes. Three functions do not do what the header says
of them (section 5): the ext functions take a time stamp, `bin_buf` takes no
string, and a key in a signed form is unknown to `key_uint`. The properties say
of these what the code does, and their comments that the header says otherwise.
Ranges of floats are left out.
`MCMpackExpect` holds the messages and the readers (in memory, through
buffers, with and without a skip function).

### MpackTree, MCMpackTree

A call of `mpack_tree_parse` or `_try_parse` is a first step (`TryParse`,
`Parse`: the checks, the clean-up of the message before, the first page) and
one `Continue` for each node, so that the source, the allocator and a pause
can have their turn between any two. `tree` holds the fields of
`mpack_tree_t` and its parser: `data`, `size`, `possible`
(`possible_nodes_left`), `reserved` (`current_node_reserved`), the stack of
levels with the children that are `left`; `nodes` are the contents of pages,
by page and slot, with the bytes of a string by their offset. `heap` is the
set of live blocks. `Fill` is `mpack_tree_reserve_fill`: the sum that may wrap
(`:86`), the capacity that doubles, a read that gives less than asked, nothing
or an error. `ReadNumber` has the pointer of line 362: when `Reserve` moved
the buffer, the digits are read from the old block, so the number is any of
`Garbage`, and `stale` says so. `buffer` tells whether `tree->buffer` is
there. `Coming` are the children still to come at every level of the stack, and
`Pending` their number. `Place` is where children go: the rest of a
page, a new page, a page of their own, or the pool. `MCMpackTree` denotes a
message directly, by recursion on its bytes, and compares: `ParsedUnlessMoved`
is that comparison, of the tree and of every refusal, for all trees but the
stale ones. Without that exception TLC finds it violated: a stream that pauses
in the middle of a number while the buffer grows gives another number.

### MpackNode, MCMpackNode

`at` is the node a program holds. Every function is an operator on the node
and an action that first looks at the sticky error; with an error, every
answer is the neutral one of that function. `IsKey` compares as lines
1652-1712 do, with the casts. `AnswersAreTrue` and `ErrorsHaveCause` say from
the node alone what each function means, without a default case: `Takes` lists
the types that a function takes, `Means` what its answer is of such a node (a
tag that counts what is there, a string of the form asked for, the element at
the place, the only pair with the key), and `Caused` which error it may flag and
for what. Of `nil` and `missing`, which answer nothing, the type is all there is
to say. The trees are given; that the parser makes the right ones is
`ParsedUnlessMoved`.

## 3. Runs

| Run | Module, configuration | What it shows |
|---|---|---|
| `delay_nested` | `Delay`, `Delay_nested.cfg` | two delays on the stack, counter of 4, up to 6 ticks: `ElapsedIsTrue`, `SleepsLongEnough` |
| `delay_ends` | `Delay`, `Delay_ends.cfg` | one delay, counter of 8, two wraps and more: `OversleepBounded`, `SleepEnds` |
| `mpack_writer` | `MpackWriter`, `MpackWriter.cfg` | every sequence of writes, failing allocations: `NoOverrun`, `OneOwner`, refinement `LogSpec` |
| `import` | `MCImport`, `Import.cfg` | an import among other files and collections: `InOrder`, `WholeUnlessCut`, `EndIsFinal` of the reader; `OwnDescriptor`, `OnlyCollectionLoses`, refinement `PromiseKept` of the file objects; `OwnPlace` of both |
| `boot` | `Boot`, `Boot.cfg` | disks that come and go, power cuts: `RunsWhatIsStored`, `NoFalseAlarm`, `KeepsChoice`, liveness `BootsInTheEnd` |
| `machine` | `Machine`, `Machine.cfg` | exceptions and calls of the host anywhere: `ChainIsLive`, `ContextIsOwn`, `LastResort`, `HostIsIsolated` |
| `uvalue` | `MCUValue`, `UValue.cfg` | replies inside replies, `dispose` that is refused, answered or cut, collection: `NothingDangles`, `NoStaleValue`, `NothingForgotten` |
| `uvalue_asked` | `MCUValue`, `UValue_asked.cfg` | finding: `AskedIsSent` is violated |
| `codec` | `MCCodec`, `Codec.cfg` | values at every boundary, messages cut and extended: `RoundTrip`, `AnyWidth`, `Smallest`, `NothingInvented`, `FailureIsRaised` |
| `mpack_expect` | `MCMpackExpect`, `MpackExpect.cfg` | the buffered reader and the expectations: `InOrder`, `ErrorToldOnce`, `ExpectedOrFlagged`, `FlaggedForCause` |
| `mpack_tree` | `MCMpackTree`, `MpackTree.cfg` | twelve streams in any pieces, failing allocations, pauses: `ParsedUnlessMoved`, `NodesWithinBytes`, `StorageIsOwn`, liveness `ParsedInTheEnd` |
| `mpack_node` | `MCMpackNode`, `MpackNode.cfg` | every function on nodes at every limit: `AnswersAreTrue`, `ErrorsHaveCause` |

Each property of a passing run has a mutant in `PROJECT.json`: a plausible bug
in one operator (defined just before it, `Name_what`) under which TLC finds
the property violated by the same configuration.

Deadlock is checked for `UValue`, `Import` and `MpackNode`. It is not for the
others, where the system really stops: a crashed or finished machine, a closed
message, a message that was read, a tree that was destroyed, or the end of the
time that is explored.

### Bounds, and why they are enough

- `Delay`: `Wrap` 4 (or 8) stands for 2^32. With requests 1 and 3 and six
  ticks, both delays start before a wrap, wake after it, and each can be
  suspended for longer than a whole turn of the counter (`MaxLag` 5).
  `delay_ends` takes one delay with steps at most `MaxLag` = 1 apart: the
  statement is about a loop that is executed, not about a machine that sleeps
  for a whole wrap between two of its lines. `MaxClock` ends the clock; a
  delay that could not end before it is not started.
- `MpackWriter`: a first buffer of 4 bytes with `MinBuffer` 3 keeps the
  relation of the real sizes (the longest fixed write fits the first buffer),
  and 18 bytes is four times the buffer, so growth by one, two and three
  doublings occurs, as do straddling writes that fit after the first doubling
  and those that do not. Every allocation may fail. `MaxSize` 63 is beyond
  twice what a message of 18 can need.
- `Import`: a buffer of 2 and sources up to 4: empty files, short last buffers,
  one and two full ones, growth at the end. Two objects, files and descriptors:
  two objects that meet on a number that was closed, of which one may be that of
  the import; both numbers in use makes the host refuse. All properties of this
  run are proved for any number of objects, any buffer and any file.
- `Codec`: the integers on both sides of every boundary of a tag, up to 64 bits
  and both signs; strings, bytes, tuples, maps and ext bodies of every length at
  which a header changes, up to the first that needs 32 bits (64 items); each
  message is cut at every byte. Nesting of two and three is what tells a header
  from its contents; the host's encodings are all combinations of tags.
- `Boot`: two disks are what the search, its order and its wrong choice need; two pieces
  are a file of more than one read; three changes and two cuts allow a disk to
  go, come back and go again within one boot, or a cut inside the recovery from
  a cut.
- `Machine`: six frames are a host call above a hook above a `repl_call` in a
  Python frame of main, with one to spare. Two name spaces suffice to tell
  a restored one from one that is not.
- `UValue`: two handles, three objects, two replies one inside the other: a hook
  that has a reply decoded while a value waits, an object that is disposed of
  while its handle is handed out again to a second and, after that is disposed
  of, to a third; the heap of three is full at times. TLC compares states by
  `View`, without the last request and without telling `collected` from
  `undelivered`, which no guard reads and no property of this run tells apart.
- `MpackExpect`: for the sequences of the reader, buffers of 3 (refused: the
  smallest allowed is 4) and 4 against strings of 3, 4 and 7 bytes, which
  fit, fill and exceed it; with no first bytes in the buffer, some, or all of
  it; skips by seeking and by filling. For the expected elements a buffer of 10
  holds any head, and the strings of 11 are longer. `Maxima` 0, 2 and 11
  are below, at and above the lengths. A program goes on after an error only
  with a message in memory, and only after one kind of error, because the
  answers are neutral then and the reader no longer changes; behind the head of
  an expected element it only skips. Some whole numbers have more digits than
  a double keeps, and are read as float and as double.
- `MpackTree`: a first buffer of 2 doubles three times up to the limit of 16;
  streams are shorter than the limit, as long, and longer; `SizeMax` 4095 is
  where a sum wraps, and two streams announce nearly as much. Pages of 8 nodes
  and a stack of 2 make the streams need a second page, one of their own, and
  more levels. Seven nodes in the pool are enough for some and not for others.
  `Garbage` is a number that was in the old block and one that was not.
- `MpackNode`: numbers on both sides of each limit of the eight types in both
  signs, and between two floats; strings of 0 to 2 bytes and buffers of 0 to 2; maps in which a key
  occurs once in either form, twice in the same, twice in different forms, and
  as -1 and the largest unsigned number.

### Fairness

- `Delay!FairSpec`: weak fairness of the steps of the loop (`LoopStep`: the
  processor executes it), of time, and of the return of a hook. That a hook
  returns is an assumption about Python code; a hook that does not return keeps
  the machine, in the model as in the code. A callback is not assumed to come.
- `Boot!FairSpec`: weak fairness of the next call of the boot program and of
  the switching on after a stop. Nothing is assumed of the world but that its
  changes are finite in number; `BootsInTheEnd` requires them to leave an
  EEPROM and a bootable disk in the end. That the EEPROM *holds* the boot
  program is taken for granted: nothing in it ever writes that part.
- `MpackTree!FairSpec`: weak fairness of the program that tries again and of a
  call that was begun; strong fairness of a read that delivers something, which
  is what a source promises by saying "nothing for now". Neither an allocation
  nor a read has to fail. `ParsedInTheEnd` speaks of messages that are whole in
  the source.

## 4. Theorems

The eight modules `*Proofs` prove, for every value of the constants allowed by
the named assumptions, what the runs check on small ones. Each has, for every
module it is about, an inductive invariant, lemmas in the usual form (it holds initially, every action
preserves it, it implies the properties), and theorems that combine them.

| Module | Theorem | States |
|---|---|---|
| `DelayProofs` | `TypeCorrect`, `ElapsedNeverAhead`, `NoEarlyReturn` | `[]TypeOK`, `[]ElapsedIsTrue`, `SleepsLongEnough` |
| `DelayProofs` | `LateByATurn` | `[]OversleepBounded`, of delays one at a time and clear of a whole wrap (`Alone`) |
| `PythonProofs` | `WriterTypeCorrect`, `MemorySafe`, `MessageExact`, `OnlyMemoryFails`, `BlockHasOneOwner` | `[]WriterTypeOK`, `[]NoOverrun`, `[]ContentsExact`, `[]OnlyOutOfMemory`, `[]OneOwner` |
| `PythonProofs` | `ImplementsLog` | `WriterSpec => LogSpec`: the writer refines `MessageLog` |
| `ImportProofs` | `ReaderTypeCorrect`, `BytesInOrder`, `SourceWhole`, `EndSticks` | of `ReaderSpec`: `[]ReaderTypeOK`, `[]InOrder`, `[]WholeUnlessCut`, `EndIsFinal` |
| `ImportProofs` | `TypeCorrect`, `NoSharing`, `LossAccounted` | of the file objects: `[]TypeOK`, `[]OwnDescriptor`, `[]OnlyCollectionLoses` |
| `ImportProofs` | `ImplementsPromise` | `Spec => PromiseKept`: file objects refine `OpenFiles` |
| `ImportProofs` | `PlaceIsOwn` | `[]OwnPlace` |
| `ImportProofs` | `ImplementsReader`, `ImplementsFiles`, `PromiseInImport` | `ImportSpec => ReaderSpec`, `ImportSpec => Spec`, `ImportSpec => PromiseKept` |
| `BootProofs` | `TypeCorrect`, `RunsWholeProgram`, `AlarmIsTrue`, `ChoiceIsKept` | `[]TypeOK`, `[]RunsWhatIsStored`, `[]NoFalseAlarm`, `KeepsChoice` |
| `PythonProofs` | `ObjectsStay`, `ValuesAreFresh`, `ValuesAreKept` | `[]NothingDangles`, `[]NoStaleValue`, `[]NothingForgotten` |
| `PythonProofs` | `ChainLive`, `ContextKept`, `HandlerLeft` | `[]ChainIsLive`, `[]ContextIsOwn`, `[]LastResort` |
| `PythonProofs` | `HostIsolated` | `HostIsIsolated` |
| `MpackTreeProofs` | `BlocksAccounted`, `NodesBounded` | `[]StorageIsOwn`, `[]NodesWithinBytes` |
| `MpackReaderProofs` | `ToldOnce`, `ReadInOrder` | `ReaderSpec => []ErrorToldOnce`, `ReaderSpec => []InOrder` |
| `MpackExpectProofs` | `ExpectToldOnce`, `ExpectInOrder`, `AnswersExpected` | `ExpectSpec => []ErrorToldOnce`, `ExpectSpec => []InOrder`, `ExpectSpec => []ExpectedOrFlagged` |
| `MpackExpectProofs` | `ErrorsJustified` | `ExpectSpec => FlaggedForCause` |
| `MpackNodeProofs` | `AnswersTrue`, `ErrorsCaused` | `[]AnswersAreTrue`, `ErrorsHaveCause` |

The arguments:

- *Delay.* A reading of the counter minus an earlier one, modulo `Wrap`, is at
  most the true time between them: the difference of the true times modulo
  `Wrap` cannot exceed the difference itself. So `elapsed` never runs ahead,
  whatever happened above the frame in between, and the loop cannot stop early.
  The invariant ties `start` and `entered` for every frame on the stack, because
  an inner delay's return makes an outer one the top again. The proof needs
  `Wrap > 0` and requests below `Wrap`; it does not bound the nesting or the
  clock.
  `LateByATurn` is about the other side: a delay must not take a late reading
  for an early one, and so wait on. That is only true of delays which, with two
  turns of the loop more, do not reach a whole wrap (`Alone`, as in
  `Delay_ends.cfg`): for them every difference of readings is the true time,
  and the invariant `Paced` bounds how far the clock has come since the last
  one. A delay whose hook sleeps, or runs for a whole wrap, is late by more,
  in the model as in the code.
- *MpackWriter.* The invariant says that without an error the cursor equals
  the bytes asked for and place `i` holds `i`, that the buffer is at least
  `MinBuffer` long and its block the one on the heap, and that after an error
  the cursor is still inside. The key lemma is about growing: every size in
  `NewSizes` holds what is needed and doubles at least, so after a flush there
  is room for an encoded write, and errors other than `memory` are never
  flagged. Assumed: `0 < MinBuffer <= Capacity`. Refinement follows step by
  step: a write extends the log by the bytes asked for or dooms it, `Destroy`
  delivers or fails it.
- *SourceReader.* The invariant says that the bytes of the buffer between `pos`
  and `len` are the next ones of the file, that the bytes got so far are those
  before them, and that a reader which has reported the end has `pos >= len`
  and `len < BufSize`, so that every later call takes the first exit again.
- *VfsFile.* No one of its invariants is inductive alone: that a number handed
  out is in no object follows from the account of all numbers in use
  (`OnlyCollectionLoses`), and the account survives a close because no two
  objects share a number (`OwnDescriptor`). `ReaderOpen` says that nobody but
  its reader closes the file of an import. The refinement maps each open object
  to the entry of its descriptor (`Shown`); four lemmas say what opening,
  moving, closing and collecting do to that map, and sharing would break the
  second and third.
- *Import.* Every step of the composition is a step or a stutter of the reader
  (`ReaderStep`), which needs no invariant, and one of the file objects
  (`FilesStep`), which needs the invariant of those to know that the import's
  object has a descriptor. So all that is proved of each part holds of both
  together. `OwnPlace` rests on `Attached`: while an import is followed its
  descriptor is at the reader's place. A collection keeps that because the
  object is among the roots, a transfer because both sides moved by the same
  count, and the rest because no Python code runs meanwhile. Assumed: a file
  that is followed is no longer than cursors go.
- *Boot.* `Loading` follows the disk at hand: from `screen` on it is the one
  that is stored, a handle is always its, and every piece read so far came from
  it, so what runs cannot be pieced together from two disks. `Honest` follows the
  disks that stay bootable: they are all in the list while it is searched (a
  listing names every disk: a pigeonhole argument, lemma `Listing`), none of
  them is among those the search has passed, and the disk that is remembered
  when the data are erased is none of them. Nothing the world does disturbs
  either, because it touches none of the programs' variables (`WorldOnly`) but
  handles, which it can only remove. Assumed: finitely many disks. No bound on
  changes or power cuts is used.

- *UValue.* The three properties are inductive together, once it is said that
  the handles still to come in two replies, one decoded in a hook of the other,
  are different ones, those in `doubtful` apart (`Apart`). A hook of the inner
  reply may dispose of whatever Python code holds, but what the outer one still
  has to decode no object has, so nothing that is disposed of can be in it, or
  it is doubtful (`LetGoOfOwn`). An object that is being disposed of is out of
  the account (`Owners`) while the reply is decoded: the host may hand its
  handle out again meanwhile. When the reply has been decoded the object is
  cleared, and if an exception comes out instead it returns to the account with
  a handle that is doubtful from then on. A stack of replies is
  only changed at its top; `OnTop` and its companions say what that does to the
  handles and objects that are in all of them. No bound on the nesting, the
  handles or the objects is used.
- *Machine.* `Shape` says how frames lie on each other: main below, each frame
  entered with the context of the one below it, and one without a buffer (`c`)
  only on one that has one. `Linked` is `ChainIsLive`. A jump cuts the stack at
  the newest buffer; since only `c` frames lack one, and lie on a guarded
  frame, it passes at most one frame on the way, and lands in a frame that
  restores its own context. The order of the chain and what it contains follow
  because both are cut at the same place. For `HostIsIsolated` it is enough that
  the frame `host` is guarded while it runs.
- *MpackTree, storage.* Every operator of the parser leaves the blocks of the
  heap those that the tree can name (`Owns`), with or without an error: `Keeps`
  is proved of each, from the bottom up. The stack of a parse that was not begun
  is not owned. A new page has a number that no page has; that there is one is
  a pigeonhole argument.
- *MpackTree, nodes.* Bytes of the data are of parsed nodes, or spoken for by
  nodes to come, or still free (`size`, `Pending`, `possible`). In the middle of a
  step some are reserved for the node at hand and in none of the three, so the
  lemmas about `Reserve`, `PushStack` and the contents of a node carry that
  amount, and the end of the step puts it where it belongs. Popping empty levels
  leaves `Coming` alone. Since a container reserves a byte for each element it
  announces before a page is made, pages cannot be larger than the data allows
  but for the rest of a page and the eighth that `mpack_tree_parse_children`
  may leave unused in each. Addresses of children lie in allocated room.
  Assumed of the streams: the number in the first byte of a tag other than a
  fixint is not negative.
- *MpackReader, errors.* `Kept` says what any call does to a reader: an error that
  is there stays, one that is new is told if there is a handler, and nothing
  else touches the handler and the block. It is proved of every operator. Only
  `BytesAlloc` holds a block, and puts the handler away while it does, so what
  goes wrong meanwhile is told afterwards, with the block released.
- *MpackReader, order.* `Stands(r, p)`: behind `p` bytes of the stream, the reader
  `r` has the next ones in its buffer between `data` and `end`, and the source
  delivers those behind them. `Ensure` and the compaction of the buffer keep
  `p`; `ReadNative`, in its three ways (from the buffer, through it, past it),
  yields the next bytes and moves `p` by their number (`Got`); skipping moves it
  without yielding (`Passed`); a tag is what its bytes are, wherever they lie
  (`SameTag`). The invariant `Ordered` adds that an element begins behind what is
  left of the one at hand, which is why the program may read a tag there.
  Assumed: the least buffer is not empty, streams are `Elements`, and a buffer
  that is given has room for what is in it. Nothing is assumed of the fractions
  at which the reader changes from one way to another.

- *MpackExpect.* The first two theorems carry `Kept` and `Stands` through every
  function, and to programs that expect (`ExpectSpec`). `AnswersExpected` needs
  three things more. What a tag says is a number in the limits of its width
  (`0 .. Power(4) - 1` for a length), for every `Base`: `NumberWithin` and
  `ElemNumber`, which are nonlinear and put together from products of two
  digits (`Joined`); of a number read as float or double, that the conversion
  yields the nearest (`SaysNumber`). What a function did when it
  ends without an error: it has read the head of the element at hand
  (`HeadRead`), or all of it (`WholeRead`), and its answer is what `Wants` and
  `Answers` ask. And the invariant `EInv`: since `ExpectedOrFlagged` is about the
  last call and the bytes behind a head are skipped, matched or discarded in
  later steps, `Answered` says what stays true while they are. What of a name is
  matched so far are the first bytes of the string; `left` is never more than the
  contents; `from` still begins an element. Assumed: limits are natural numbers
  and names are sequences of bytes.
- *MpackExpect, causes.* `ErrorsJustified` is about the calls that fail. Of the
  reader, `Lacks` and `TooBig` say why a read comes back with nothing: the
  source failed, the message is at its end, or the buffer cannot hold what is
  wanted (`EnsureBad`, `RestBad`, `SkipBytesBad`, ...); in each case, and in each
  call of `FlagError`, `end` is put back to `data` (`Halted`). Of every function
  of expectations, a lemma `...Bad` says which of these it passes on
  (`Unreadable`) and what it refuses itself (`Fault`), for each way through it.
  A type is only refused when `Wants` is false of the element: to know that, one
  has to follow an integer through nine forms and the limits of eight functions,
  and that no number of a message is beyond 64 bits (`NamedFits`), which are
  again products of digits. That the source failed is not enough: `Short` wants
  bytes of the element among those it did not deliver, so the lemmas count
  what was drawn. A time stamp is refused only for its length or its nanoseconds
  (`Stamped`), a key only if its flag is set (`Again`, `Twice`).
  What a function flagged is about the element it
  began with, although it may have read part of it, so the causes are stated of
  the element and not of the cursor. A name that does not match is only known
  several steps after its head was read; there `Answered` says that the head
  was a string and which bytes were equal. The invariant `CInv` is `EInv`, and
  that a reader with an error is `Halted`: then every function leaves it as it is
  (`...Idle`), since what it would read first is not there, and that is the second
  part of the property. The third, that a key is answered once and that one flag
  is set for it, is `Marking`.
- *MpackNode.* The invariant is small (the program holds a node of the tree, or
  a neutral one), the functions are the work. A call is right (`Right`) if every
  outcome of it is a true answer or an error with its cause. Numbers of bytes
  have one sign and one size: `Digits` and `Number` are inverse for every width
  and every `Base`, and so a time stamp of four, eight or twelve bytes is split
  where it was joined. Keys are compared as the code does, through casts, and
  as the numbers they are by `IsKey`; both agree in the limits of 64 bits. A
  search that meets the key twice is an error, and the pair it answers is the
  only one with the key. Assumed: nodes are parsed, which is what their bytes and
  items are, sizes are natural numbers, and names are bytes. `AnswersTrue` and
  `ErrorsCaused` have a step for each function: its type (`Takes`), and then its
  answer (`Means`) or its cause (`Unfit` and the cases of `Caused`). That a
  conversion to float or double is the nearest number (`SaysNumber`) follows from
  `RoundedUp` alone: of a number in the room of `Significand` times `Ulp`, the
  division by `Ulp` leaves less than one, and half of it decides.

Only model-checked: liveness (`SleepEnds`, `BootsInTheEnd`, `ParsedInTheEnd`),
whose fairness is out of the prover's reach; the properties of `Codec` and
`ParsedUnlessMoved`, whose modules are recursive and which relate a whole message
to its meaning, by induction on it.

## 5. Findings

- `apply` and `unapply` of `uvalue` send the number of `call`
  (`moduvalue.c:125`, `:132`), although the table of system calls has numbers
  for both and the stub `uvalue.pyi` documents both. Run `uvalue_asked`.
- `mpack-node.c:362` computes the pointer into the data before
  `mpack_tree_reserve_bytes`, which may reallocate the buffer (`:116`), and
  loads the number through it (`:562` and in every other width) from the block
  that was freed, though "Parsing can pause and resume when more data becomes
  available" (`:737`). `ParsedUnlessMoved` excepts these trees, by name.
- `mpack_expect_ext` "cannot be used to match a timestamp"
  (`mpack-expect.h:1112`) and accepts one (`mpack-expect.c:539`), and so do the
  functions on top of it.
- `mpack_expect_bin_buf` "will accept if the underlying type is string or
  binary" (`mpack-expect.h:1087`) and refuses a string (`mpack-expect.c:523`).
- `mpack_expect_key_uint` discards a key that is written in a signed form as
  unknown (`mpack-expect.c:770`), whatever its number; `mpack-expect.h:1340`
  speaks of its value.
- `dispose()` clears its object only behind `wrap_result` (`moduvalue.c:15`,
  `:16`). If the host let go of the value and then the reply does not come back
  (a status that is unknown, a message that is not one, a full heap, a hook
  that raises), the object keeps a handle that is not its own any more; and the hook can
  call `dispose()` again and give back another's. `NoStaleValue` shows
  that there is no other way to one.
- `UValue` offers `__del__` as another name of `dispose` (`moduvalue.c:40`,
  `uvalue.pyi:8`), but objects are allocated without a finaliser (`:57`,
  although `mpconfigport.h:59` enables them), so a value whose object is
  collected stays in the host's table. `NothingForgotten` shows that this and a
  reply cut short are the only ways to lose one.

Other places where the code of `lib/mpack` and its comments disagree, met while
modelling; the models follow the code:

- `mpack-node.c:86` adds `data_length` and `bytes` in `size_t` ("TODO: check for
  overflow?", `:85`), so an announcement of nearly `SIZE_MAX` elements passes
  the check against `max_size` (`mpack-node.h:316`) and is waited for.
- The same comparison counts bytes of the current node twice if they have
  arrived already, so a message of at most `max_size` bytes may be refused.
- `tree->max_nodes` is set (`mpack-node.c:960`, `:1024`) and never read;
  `mpack-node.h:317` calls it "The maximum number of nodes to allocate."
- When the first page cannot be allocated, `mpack-node.c:850` assigns the error
  itself instead of calling `mpack_tree_flag_error`, so the error handler of
  `mpack-node.h:79` is not called.
- `mpack_tree_size` "is zero if an error occurred during tree parsing"
  (`mpack-node.h:456`); `tree->size` is never reset (`mpack-node.c:726`).
- `mpack_node_copy_cstr` flags `mpack_error_too_big` (`mpack-node.c:1496`) where
  `mpack-node.h:951` says "If the string does not fit, mpack_error_data is
  raised."
- `mpack_read_cstr`: "If an error occurs, the buffer will contain an empty
  string" (`mpack-reader.h:530`); if the source fails in the middle, the
  terminator goes behind `byte_count` bytes (`mpack-reader.c:469`).
- `mpack_expect_ext_max` leaves the type of an ext it refused
  (`mpack-expect.h:1149`), though "The @p type value is zero if an error is
  raised" (`:1131`); and `mpack_expect_ext_alloc` sets the type of an *empty* ext
  to 0 without an error (`mpack-expect.c:698`).

## 6. Not modelled, and why

- MicroPython itself: the interpreter, the collector, the lexer, `readline`,
  the REPL. They are another repository; where the firmware depends on them
  they are external actions (`Machine!Leave`, `UValue!Collect`).
- The parts of mpack that the configuration leaves out: files (`MPACK_STDIO`),
  the printer, and the tracking of opened elements (`MPACK_DEBUG`).
- The ranges of floats and doubles in `mpack-expect.c`, and what the bytes of
  such a number mean: only the conversions of whole numbers are (`Floats`).
  Names of errors and types (`mpack-common.c`) are wording.
- The `*_match` and `*_range` functions of `mpack-expect.h` that only differ in
  their type are one operator each, with three types tried (`WholeNumber`).
- `gchelper_m0.s`, `openpython.ld`, `Reset_Handler`'s assembly, the trap
  instruction of `syscall_arch.h`: below the level of the models.
- The IDE stubs, the build scripts, the benchmark.
- Text: messages of exceptions, `print` methods, the comment around the program
  of the EEPROM.

## 7. Plan

In order; a module is finished when its run, its mutants and its entry in the
map are.

1. Done: `Delay`, `MessageLog`, `MpackWriter`, `SourceReader`, `VfsFile` with
   `OpenFiles`, and `Boot`, with their proofs; `Machine`, `UValue` and `Codec`
   with their runs.
2. Done: `Import`, the composition of `SourceReader` with `VfsFile`, with its
   proofs; and the rest of `lib/mpack`: `Format`, `Floats`, `MpackReader`,
   `MpackExpect`, `MpackTree`, `MpackNode`.
3. `Stdio`: the hooks of stdio with hooks that print, raise and replace
   themselves, and `repl_input`.
4. `Firmware`: `Delay` and the decoder of `UValue` as frames of `Machine`, to
   check that an exception out of a nested delay or reply leaves hooks, stack
   and replies consistent.
5. Done: the proofs of `Machine`, `UValue`, `OversleepBounded`, the storage and
   the nodes of `MpackTree`, the reader, the expectations with the causes of
   their errors, and the functions of nodes.
6. Proofs: the decoded numbers of `Codec` (`Format` is ready for it).
