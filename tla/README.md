# A verification model of the SIL Kit Adapter for QEMU

TLA+ modules, TLC runs and TLAPS proofs for the program in `src/`. The adapter
connects the *socket* back ends of a QEMU virtual machine (`-netdev socket`,
`-chardev socket`) with a Vector SIL Kit simulation; an ICMP echo device comes
with it as a demo. Paths and line numbers below are those of the repository;
`EthSocketToEthControllerAdapter.cpp` and `.hpp` in `src/eth/adapter/` are called
"the adapter's .cpp" and ".hpp", `src/adapter/SilKitAdapterQemu.cpp` is "main".

## 1. The system

| Component | State it keeps | Operations | Talks to |
|---|---|---|---|
| Ethernet adapter, QEMU to SIL Kit (.cpp 47-58, 94, 122-184) | `_frame_size_buffer`, `_frame_data_buffer`, `_socket`, the outstanding `async_read` | two completion handlers, `_onNewFrameHandler`, shutdown | QEMU (TCP or Unix stream), `IEthernetController::SendFrame` |
| Ethernet adapter, SIL Kit to QEMU (.hpp 32-40, .cpp 96-102) | where it is between two blocking writes | the frame handler | SIL Kit's thread, the same `_socket` |
| The process (main 83-183) | the adapters, the sockets provided, the SIL Kit lifecycle, the io_context and its thread, the SIGINT handler | build from the command line, start, wait, stop, destroy | both threads, SIGINT, SIL Kit |
| Command line of the Ethernet adapter (.cpp 186-262) | the set of socket texts, a counter for names, the controllers created | split, check, name, connect | main, SIL Kit |
| Internet checksum and header codecs (`src/eth/Utility`) | `_accumulator`, `_partial`; the offset of a `BufferReader` or `BufferWriter` | `AddBuffer`, `GetChecksum`; read, write, put, skip | the echo device |
| ICMP echo device (`src/eth/demos/IcmpEchoDevice`) | its two addresses; where its process is | `Device::Process`; main's start and end | SIL Kit's frame handler and `SendFrame` |
| Character device adapter | | in the submodule `common`, not in the repository | main |
| CANoe text panels (`src/chardev`, `src/qmp`) | a line buffer of fixed size | value and button events | topics of the character device adapter |
| CANoe temperature node (`src/chardev`) | half a value | value events | a topic of the character device adapter |

Three threads meet in the adapter process. `main` builds and destroys. The
*io_context thread* (main 155) runs all completion handlers of all sockets, one
after the other. *SIL Kit's thread* calls the frame handlers. They share the
sockets, the adapters themselves (handlers capture `this`) and SIGINT, which a
completion handler raises to make main stop everything.

What is hard here, and what makes it correct:

- TCP splits and joins: the frames must be cut out of the stream at the right
  places, whatever the pieces are; a header read out of step would never recover.
- The completion handlers **do not return after they have shut the adapter
  down** (.cpp 147, 162, 173). They go on with what the buffers hold and start
  the next read on a closed socket. What that can and cannot do is the central
  question about this code.
- Two threads use one socket; one may close it while the other is in the middle
  of a frame.
- Connections break inside a header, inside a frame, between them; one broken
  connection has to end the whole process.
- Completion handlers capture `this`: only the order of the steps of main keeps
  them from outliving their adapters. Nothing ever unregisters a frame handler,
  and for those not even that order suffices.
- One socket serves both directions, and both may block: neither may keep the
  other waiting. A blocked write is not woken when the other thread closes the
  socket.
- An exception may leave main at many points, with a thread running or not.
- Headers: fields of odd size in the checksum, carries, buffers that end anywhere.
- The demo's device is destroyed before the participant that calls it.
- The demo nodes get a stream in pieces, too: half a line or several, half a
  value, more than an array holds.

`PROJECT.json` lists these hazards one by one, each with its line and with the
properties that would show it going wrong.

## 2. The modules

| Module | What it is |
|---|---|
| `EthWire` | the format of the stream: a big-endian size of four bytes, the frame; padding |
| `FrameRelay` | the abstract specification of one direction of the adapter |
| `EthSocketReceiver` | QEMU to SIL Kit, implements `FrameRelay` |
| `EthSocketTransmitter` | SIL Kit to QEMU, implements `FrameRelay` without padding |
| `AdapterProcess` | main, the threads and the signal |
| `EthAdapter` | both directions on one socket: `EthSocketReceiver` and `EthSocketTransmitter` composed |
| `ChecksumArithmetic`, `InternetChecksum` | the class, and the sum of RFC 1071 to compare it with |
| `HeaderCodec` | headers written into a buffer and read out of it, field by field |
| `IcmpEchoDevice` | what `Device::Process` makes of one frame |
| `EchoNetwork` | a guest and devices on one network, and the main of the devices |
| `LineBuffer` | a text panel of the CANoe demos |
| `TemperatureSensing` | the decoder of two-byte temperatures |
| `EthSocketReceiverProofs`, `EthSocketTransmitterProofs`, `EthAdapterProofs`, `AdapterProcessProofs`, `HeaderCodecProofs`, `EchoNetworkProofs` | theorems about the module of that name |
| `CanoeNodeProofs` | theorems about `LineBuffer` and `TemperatureSensing` |
| `SequenceLemmas` | what the proofs need of natural numbers, of functions defined by recursion and of sequences |
| `MC...` | the instances the runs use |

### EthWire, FrameRelay

A byte is a number below `ByteBase`, 256 in the program and 4 in the runs, so
that sizes of a few bytes already use more than one byte of the header.
`WriteUintBe` and `DecodeFrameSize` are the encoder and the loop at .cpp 149-153.

`FrameRelay` says what one direction promises: what was written is relayed
frame by frame, in order, padded to the minimum. When the link is lost, at most
one more frame comes out; it has the size of the frame that was under way and
*any content*, since that is what the code does (section 5). Fairness: a frame
that waits is relayed or the link is lost.

### EthSocketReceiver

One action per thing that happens: QEMU writes a frame (`GuestSend`), QEMU goes
(`PeerClose`, which also chooses how much of what is in flight still arrives),
the outstanding read takes some bytes (`ReadSome`), its handler runs
(`OnSizeRead`, `OnBodyRead`), main stops the io_context (`UserStop`). `op` is the
outstanding `asio::async_read`: its buffer, its size, how much it has got.
Starting a read changes `op` only; a read of nothing is complete at once.

A handler is a single step, as nothing else runs on its thread. Both handlers
are modelled with everything they do after an error: `OnSizeRead` decodes the
buffer and starts the body read even after it has shut down once or twice (a
lost peer *and* a large size raise SIGINT twice), `OnBodyRead` forwards and
starts the next read. `starts`, `stream` and `cut` are bookkeeping about QEMU's
side; the adapter does not look at them except through its reads.

asio and QEMU are external: a read fills its buffer front to back, fails when
the peer is gone and everything delivered is read, and no handler runs after
the io_context has been stopped. A handler that has stopped the io_context
finishes first.

### EthSocketTransmitter

The frame handler runs in steps (`OnFrame`, `WriteSome`, `WriteReturns` for the
header and for the frame, `WriteThrows`), since it blocks: the connection holds
`Window` bytes, and a write that finds it full waits in `poll` (`Waits`) until
QEMU has read something or is gone (`Wakes`). The io_context thread may close the
socket at any point (`IoThreadCloses`, .cpp 127). That closes the descriptor only:
on Linux it does not wake a thread that waits in `poll`, and the connection stays
up for as long as one does, so that QEMU sees no end of the stream
(`EndOfStream`). A write that runs on the closed socket throws, one that waits does
so once it is woken. Bytes written after QEMU has gone are accepted and lost, as
TCP does; later the write throws and the exception leaves the handler. QEMU
(external) cuts frames out of the stream again, as its socket back end does.

### EthAdapter

The two components are instances over the same variables: `socketOpen` and
`peerClosed` are shared, every other variable belongs to one of them. A step of
the io_context thread is a step of the receiver; when it shuts the adapter down
it closes the socket, which is the transmitter's `IoThreadCloses`. QEMU goes
away for both at once. The bus and the guest are closed into a loop: the guest
sends back each frame it gets, and QEMU, taken to be as unobliging as it may be,
reads nothing while it has an answer that does not fit into the connection. An
adapter of one thread would hang there; this one must not as long as it reads.
Once the reading has ended, by main's stop or by a shutdown, nobody takes the
answers, and a write that waits then may wait for ever (`WaitsInCircle`).

### AdapterProcess

`pc` walks through main. The arguments are those of a command line, in the
order main goes through the options (`InOrderOfOptions`, made of one
`ArgumentsOf` per option), which is not that of the command line. An argument is rejected (`RejectArgument`) or built
(`BuildChardev`, `BuildEth`): unique first, then well formed, then, for Ethernet,
the controller is named and created, and only then the connection is tried, so
that a failed one leaves its controller behind. An Ethernet argument's last part
is modelled after the two splits of .cpp 194 and 204: its pieces at "=", and
theirs at ":". A name that is empty is generated from a counter; SIL Kit may
accept a name twice or refuse it, and both happen. The initial states are all
command lines of the instance, with each set of sockets at which QEMU listens.
`sigint` says what a SIGINT does: before `promptForExit` has installed its handler
it kills the process. A handler of the io_context thread begins, may find its
socket broken (`IoShutdown`: stop the io_context, raise SIGINT), and ends; a frame
handler begins and ends. `Throw` is an exception that unwinds the adapters: of an
argument, of the start of the lifecycle, or of the constructor of the thread, when
the lifecycle runs already (`SpawnIoThread`). `ServingThrows` is one that meets
the joinable thread, where `std::terminate` ends the process. The last three steps
are the destructors, in the reverse order of the declarations (main 112, 120,
134).

`promptForExit`, `Stop` and `CreateParticipant` are in the missing submodule.
They are modelled by what main relies on: `promptForExit` returns after a SIGINT,
`Stop` stops the io_context, joins its thread and stops the lifecycle, or gives up
waiting for that (`StopGivesUp`) without telling main.

The two kinds of handlers differ in who may call them. A completion handler runs
on the io_context thread only, so main's order of steps protects its adapter:
that is `NoUseAfterDestroy`. A frame handler is called by SIL Kit, which knows
nothing of the adapter's end; the repository does not say that it calls none
outside the running lifecycle (the echo device's demo has no lifecycle at all),
so `SkBegin` may happen whenever a handler is registered. What a frame handler does
with a destroyed adapter is undefined: it may end (`SkEnd`) or crash the process
(`SkCrashes`). Nothing is claimed to prevent it.

### ChecksumArithmetic, InternetChecksum, HeaderCodec

`AddBuffer` keeps a byte that has no partner until the next buffer; `Total` is
what `GetChecksum` folds, and `FoldOnce` folds it once, as line 51 does.
`FoldCarries`, `Accepts` and `WordSum` are the reference definition. The
accumulator of 64 bits is a natural number: it would take 2^48 words to overflow.

`HeaderCodec` has a cursor that goes through a header's format, field by field:
`BufferWriter` and `BufferReader` for IPv4 and ICMP, and the functions that
advance a buffer for the others. Numbers are big-endian; `Fits` is the check
before each access, and an access that fails throws. An address that does not
fit is written as far as it does before the exception. `WriteIp4Header` puts the
checksum into its field last (`Patched`). `Arrive` ends the frame anywhere before
it is read. The formats are those of the five writers of the repository. The
checksum is fed by every cursor, though only IPv4 uses it: what holds then holds
for any order of fields.

`HeadersAssumption` says what a header is: a value fits its field, as an
argument of that type does in C++ (`HasValue`). Of the checksum's field
(`HasChecksumField`) it says what is so in `WriteIp4Header`, lines 105 to 121: it
has two bytes at an even offset, is written as zero first, nothing is skipped
before it, and the header is shorter than 2 * `WordBase` bytes, which are 131 072
where an IPv4 header has 20.

### IcmpEchoDevice, EchoNetwork

A frame is the record of the fields the parsers extract, with `whole` for "does
not end inside a header"; addresses of IPv4 and the data of a ping are real
bytes, since the checksum is over them. The order of the VLAN tags, the checks
of each parser, the odd offset that is taken for a reserved flag and the total
length below the header length that is let through are as in the source.
`IsFrame` and `IsIp4Packet` name the fields: the guest may send anything that has
them. `Throws` is an exception out of `Process`. The buffer of a reply has the size of
the request (`Device.cpp` 44, 85); options of the request are not copied, so
zeros follow, which `padding` counts.

`EchoNetwork` puts a guest and devices on a network where each participant gets
the frames of each other one in order, with no order between senders. The guest
(external) asks for addresses by ARP, pings, and accepts a reply whose two
checksums are right. A device's main joins the simulation at any time
(`DeviceJoins`: frames sent before are none of its business), or fails, or is
told to leave. It never stops its participant: the device is destroyed first and
the frame handler with its reference only after that (`DeviceLeaves`), so that a
frame in between is handled by a destroyed device (`DestroyedProcesses`), with the
outcome left open. After an exception a device may or may not get further
frames: that is SIL Kit's choice, and both happen.

### LineBuffer, TemperatureSensing

Both are nodes that get parts of a stream and keep what is incomplete.

In `LineBuffer` a character is its number in the stream, so "shown", "lost" and
"in order" can be said of characters; an event is any number of characters
with any of them newlines. `strncat`, `strstr_off` and `substr_cpy` belong to CAPL
and are modelled by their documented effect: a string never fills more than its
array with the terminating 0. The observer has two such buffers and the QMP panel
one of 40096 characters, with the same lines of code.

In `TemperatureSensing` the guest's shell function sends two bytes per value, an
event is any number of them, and bytes that come before the node has started are
missed, as are those behind the 50th of an event. The `int` of CAPL is signed and
has 16 bits (`SignedInt`). Its specification is `SensorSpec` and its variables have
names of their own, so that `CanoeNodeProofs` can extend both modules.

## 3. The runs

| Run | Question | Distinct states |
|---|---|---|
| `receiver` | Are the frames cut out of the stream correctly; does any size reach behind the buffer; is at most one frame damaged; is a shutdown ever without a reason? Does the receiver implement `FrameRelay`, liveness included; is every frame relayed and a lost QEMU noticed? | 75 143 |
| `receiver_failed_read` | Is nothing put on the bus once the adapter has reported a failed read and closed its socket? *No* (section 5). | |
| `transmitter` | Does the guest get a gap-free prefix of complete frames; is any byte lost while the link is up? Does this direction implement the relay; does the handler return whenever QEMU reads or goes? | 29 789 |
| `adapter` | With both directions on one socket and a QEMU that does not read while it has to write: is each frame answered, in order; is each direction what it is alone; what can leave SIL Kit's thread in the handler? | 91 644 |
| `process` | Does the process start complete only, report the first mistake, generate a name twice, destroy an adapter under a completion handler, or leave anything behind when it reports success? Does a broken socket, and a SIGINT, end it if frame handlers return? | 20 688 |
| `codec` | Is what is read what was written; is a header that does not fit refused, and only that; is the sum independent of the fields' sizes; does a receiver accept the checksum? | 25 343 |
| `echo_network` | With two devices that come, fail and go, and a frame for each check of the parsers: is every request answered once, by the right device, readably, and does the guest accept it? | 143 082 |
| `echo_carry` | Is a ping always answered? *No* (section 5). | |
| `panel_lines` | Is each line that the buffer takes shown; does moving its rest lose anything; what becomes of a full buffer? | 5 696 |
| `panel_stalls` | Is every line shown? *No* (section 5). | |
| `temperature_decode` | Are values decoded in order and completely, however the bytes are split? | 10 567 |
| `temperature_missed` | Is every temperature shown one that was sent? *No* (section 5). | |

Bounds, and why they are enough:

- Receiver: a buffer of 5 bytes and a minimum size of 2 for 4096 and 60; three
  frames of 0, 1, 3, 5 and 6 bytes. They are the empty one,
  one to be padded, one in between, one that just fits, one that does not.
  Sizes from 4 on need the second byte of the header. Two complete frames and
  an interrupted one are what it takes to leave old bytes in both buffers. The
  bytes of a read are taken in every possible division.
- Transmitter: a window of 6 bytes is smaller than a header and a frame, so the
  handler waits inside each, also when an earlier frame is still unread, and a
  lost connection takes two frames with it; the bytes of one frame look like a size.
- Adapter: frames of one and three bytes with a buffer of two, so that one
  answer is relayed and the other shuts the adapter down; a window of four bytes
  to QEMU, less than a header and a frame, and room for one answer on the way
  back. Three frames are enough for one that is written, one that is owed and
  one that waits, which is what it takes to close a circle.
- Process: two sockets and up to three arguments, so that a third has to repeat
  a socket. Races need two sockets at most: one that breaks, one that works. Two
  generated names, and one given name that equals the first of them.
- Codec: bytes of base 4; the device's formats, and all formats of three fields
  that are odd, even, empty or skipped, with values of zeros, of ones and of
  bytes that differ; a buffer that fits, is one byte short or one too long, and
  a frame that ends at each byte.
- Echo: two devices to tell "answers its own" from "answers all"; a ping that is
  padded, and one other frame: a ping that is not, or one for each check of
  the parsers.
- Panels: a buffer of four characters and events of up to three: an event may
  fill the buffer exactly, overfill it, or bring more newlines than are searched
  for; eight characters are enough to fill it, empty it and fill it again.
- Temperatures: three bytes looked at for 50, so that an event loses an odd or an
  even number; four values, one below 0 °C, one too large for the `int`.

`CHECK_DEADLOCK FALSE` is set everywhere because all these systems stop: the
guest has no more frames, the process has ended.

Each property has a mutant in `PROJECT.json`, a plausible mistake in a
definition translated from the code, under which TLC finds it violated.

### Fairness

- Receiver: the io_context thread runs (`WF(Receive)`). Nothing is assumed of
  QEMU. "Everything that was sent is relayed" holds *or the adapter stops*.
- Transmitter: the handler's thread runs; QEMU reads what is there and notices
  the end of the stream. The last two are assumptions about QEMU, without which
  a blocking write is never released: the other thread's close does not release
  it, and the code has no time limit there.
- Process: main and completion handlers that have begun go on. Two assumptions
  are strong: the handler of a broken socket runs although others become ready
  again and again, since asio queues completed operations first come, first
  served; and main can stop the lifecycle, and destroy the participant, although
  frame handlers begin again and again, since SIL Kit stops between two of them.
  That a frame handler *returns* is not assumed, since nothing in the code grants
  it (`WaitsInCircle`): `BrokenSocketEndsProcess` and `InterruptEndsProcess` have it as
  their hypothesis, `FrameHandlersReturn`. TLC refutes both without it: main
  waits for the handler in `Stop`, or in the participant's destructor when `Stop`
  has given up. Nobody has to break a socket or press a key.
- Adapter: both threads run, and QEMU answers and reads when it can. That QEMU
  reads at all is an assumption; `EveryFrameAnswered` excuses a QEMU that has
  gone and an adapter that has stopped.
- Echo: frames are delivered, and the guest sends what it wants to send. No
  device need join, and any may leave: `PingAnswered` is about one that serves.

## 4. The proofs

All theorems hold for every value of the constants that satisfies the named
assumptions of the modules: sizes and bases are positive numbers, frames are
sequences of bytes whose length four bytes can denote, devices have different
addresses and are not the guest; a header is as `HeadersAssumption` says. Each
inductive invariant was checked by TLC on the small instance first; those of the
header codecs with the functions they quantify over replaced by the one there is.

| Theorem | Property of a run |
|---|---|
| `EthSocketReceiverProofs`: `TypeCorrect`, `BufferSafe`, `InOrder`, `OneDamagedFrame`, `JustifiedShutdown` | `TypeOK`, `NoBufferOverrun`, `RelayedInOrder`, `DamageConfined`, `ShutdownJustified` |
| `EthSocketTransmitterProofs`: `TypeCorrect`, `WholeFramesInOrder`, `NoByteLost` | `TypeOK`, `GuestGetsPrefix`, `BytesConserved` |
| `Refinement` of either | the safety part of `RelaySpec` |
| `EthAdapterProofs`: `Composition`, `AnswersComeInOrder` | `ServesBothDirections`, `AnswersInOrder` |
| `AdapterProcessProofs`: `TypeCorrect`, `NoDanglingHandler`, `CleanSuccess`, `StartsComplete`, `FirstMistakeCounts`, `OnlyGivenNamesClash` | `TypeOK`, `NoUseAfterDestroy`, `SuccessIsClean`, `StartedOnlyComplete`, `ExitCodeOfFirstMistake`, `ClashingNameIsGiven` |
| `HeaderCodecProofs`: `HeaderTypeOK`, `HeaderChunkingIndependent`, `HeaderRefusedWhenShort`, `HeaderFieldsReadBack`, `HeaderAcceptedWithoutSecondCarry` | `TypeOK`, `ChunkingIndependent`, `RefusedWhenShort`, `FieldsReadBack`, `AcceptedWithoutSecondCarry` |
| `EchoNetworkProofs`: `EveryRequestAnsweredOnce`, `RepliesAreReadable`, `ArpCacheIsTruthful` | `OneReplyPerRequest`, `RepliesReadable`, `ArpCacheTruthful` |
| `CanoeNodeProofs`: `TypeCorrect`, `MovingLosesNothing`, `LinesShownWhenStored`, `FullStaysFull` | `TypeOK`, `NothingLostInMoving`, `StoredLinesShown`, `FullForEver` |
| `CanoeNodeProofs`: `EveryByteAccounted`, `TemperaturesShownAsSent` | `BytesAccounted`, `ShownAsSent` |

`DecodeInvertsWrite`: for every byte base, decoding inverts encoding for each
size four bytes can denote. It is a theorem of `EthSocketReceiverProofs`, and a
lemma of `EthSocketTransmitterProofs`, where QEMU decodes.

**The receiver.** The safety properties are not inductive: that frame *i* on the
bus is frame *i* of the guest depends on where in the stream the reader is. `IInv`
(in `EthSocketReceiver`) adds it: `StreamFramed` says that the stream is the
encoded frames end to end, at the offsets `starts`; `ReadInStep` says that
while the socket is open the outstanding read is inside the current frame, at
the place its kind and progress say, and what it has got is what the stream has
there; `LinkState` says that a closed socket goes with a stopped io_context and a
body read that has got nothing. Each action preserves each part; `ReadInStep`
is preserved by `OnSizeRead` by virtue of `DecodeInvertsWrite`. `Refinement`:
reads and QEMU's end are stutters, `OnBodyRead` is `Relay` while the read succeeds
and `LinkLost` with a damaged frame when it fails, `OnSizeRead` with an error and
`UserStop` are `LinkLost` without one.

`BufferSafe` deserves a remark: the code *does* start a read of more bytes than
its buffer has. The proof shows what keeps this harmless: in the same handler
the socket has been closed and the io_context stopped, and neither is undone.

**The transmitter.** That the guest gets whole frames only, in order, depends on
what has been written of the current one. `BytesConserved` is an equation between
sequences of bytes and holds while the link is up; once a write has broken off,
`NothingInvented` says what is left of it: QEMU is sent a prefix of the encodings.
`PartOfNextFrame` says that QEMU holds less than the next frame with its size, so
that a frame is complete at its own last byte and not before. Each step moves
bytes from one part of the equation to the next; `Refinement` maps QEMU's last
byte of a frame to `Relay` and everything else to a write, to `LinkLost` or to a
stutter. The encodings are put together by `FlattenSeq`; that it can be extended
by one frame is proved in `SequenceLemmas` by induction over the length.

**Both on one socket.** `Composition`: every step of the composed adapter is a
step of each component or leaves all of its variables alone, the one step that
both take, closing the socket, included. So what is proved of either component
holds in the whole, and `AnswersComeInOrder` puts it together: the receiver relays
what the guest has written, the guest answers what it has got
(`AnswersFollowFrames`), and it has got a prefix of what was delivered.
`OnlyLastAnswerDamaged` says what holds after the socket is closed, too.

**The process.** The strengthening for `NoDanglingHandler` and `CleanSuccess`
relates each phase of main to the io_context thread: a completion handler runs
on a running thread only; the thread is joined before the destructors of a
process that has served; on every other way to them, a failed argument or a
thread that could not be created, there is no thread. An exception while the
thread is joinable ends the process at once, which is why it destroys nothing
under a handler. The theorem has no hypothesis and is about completion handlers
only. For the command line,
`EveryArgumentOnce` shows that going through it option by option meets every
argument exactly once; `BuildInv` relates the adapters, the sockets and the exit
code to the arguments that main has gone through, and `NameInv` the controllers'
names to the counter. `OnlyGivenNamesClash` has a hypothesis, `NamesDiffer`:
different numbers are written differently. It is what `std::to_string` does;
`ToString` has no definition the provers could use.

**The headers.** Four invariants of the codec, each of which needs the ones
before it:

- `Moved`: the cursor's offset is that of the field it stands at, and its
  checksum object stands for the bytes passed (`Summarises`): the last byte is
  open if their number is odd, and the accumulator is the sum of the others.
  `AddBufferSummarises` is the induction over the bytes of a field; it tells the
  cases of an open byte, an empty field and a last odd byte. With `Moved`,
  `ChunkingIndependent` is a fact about one sequence (`TotalIsWordSum`).
- `Fitted`: while reading, all fields that were passed end inside the frame; an
  exception means that the header does not fit. Offsets never decrease
  (`OffsetsGrow`), so the field that does not fit decides about the header.
- `Stored`: the buffer holds the bytes of the fields at their offsets. What is put
  into one field leaves the others alone (`FieldsApart`), `Patched` leaves all but
  the checksum's, and the end of the frame cuts off only what is not read.
  Reading inverts writing (`RoundTrip`), by induction over the bytes of a number.
- `Summed`: the writer has passed the header with zeros for the checksum, the
  field holds the checksum of these bytes, and the reader passes them with the
  checksum in their place.

What the receiver sums is thus what was summed plus the checksum
(`WordReplaced`; this is where the even offset is needed). That folding the
result gives all ones unless the sum carries twice is `AcceptsComplement`. It
needs the equation of `FoldCarries`, a function that recurs on a smaller number
which is not the one before: `FoldCarriesStep` proves it from a closed form
(`Folded`), since a function defined by an equation is known to satisfy it only
once there is one that does. That the header is shorter than 2 * `WordBase` bytes
bounds the sum (`WordSumBound`), so that it carries no third time.

**The network.** A device's replies are of two kinds, and each passes the
device's own parsers and is in its own name (`ArpAnswer`, `EchoAnswer`); this is
where the lengths of IPv4 are looked at: a header with options is answered by a
shorter one, and the padding makes up for it. A reply asks nobody for anything
(`ReplyIsNoRequest`), so all requests come from the guest. `Balanced` says of each
device that the frames it has sent are as many as the requests it has seen since
it joined; a step changes both by the same number (`DeviceTakes`). The other
frames the guest may send are any that have the fields the parsers extract.

**The panels.** `Accounted` adds to the two properties that every character is
shown, dropped or in the buffer. Cutting a text takes from its end only
(`TextParts`), and the room that the rest is moved to is always enough for it
(`RestFits`), so no gap can arise; a newline that has found room is behind the
old content, where the code searches (`EventShows`).

**The temperatures.** `SensorInv` adds to `BytesAccounted` what the bytes are:
what is on its way is the end of what was sent (`PendingIsRest`), and while none
was missed each temperature is of the value in its place and the half that is
kept is of the next one (`Decoded`). The loop of an event takes as many bytes as
it has rounds, and each round goes on with the byte that `Decoded` asks for; that
is an induction over the bytes of the event (`EventDecoded`). A value that the
int holds comes out as it was sent (`TemperatureOfValue`); the divisor is the
square of the byte base, and need not be 65 536.

Induction over numbers is possible where it is stated with a set
(`SequenceLemmas`, `Induction`): a set that lacks a number lacks a least one. In the
same way, what a function defined by recursion on numbers computes follows from
its existence and uniqueness (`RecursionExists`, `SameValues`).

Only model-checked:

- Liveness, everywhere, and with it the liveness parts of the two refinements:
  the provers have no rules for fairness. `PingAnswered` is liveness, too: that the
  device's checksum is accepted is proved of the header codec only.
- What is expected to fail: the properties of section 5.

All safety properties that hold in the runs are proved.

## 5. What the checks found

1. **A frame relayed from a failed read** (`receiver_failed_read`, .cpp 166-179).
   When QEMU goes away inside a frame the handler of the body read logs "Error
   during socket read. Closing the socket and shutting down the adapter." (line
   169), closes the socket and then forwards `frame_size` bytes of the buffer all
   the same. In the run none of them has been received, and the frame is made of
   the zeros the buffer begins with; the buffer is never cleared, so later it is
   what earlier frames left. `DamageConfined` shows the extent: one frame, the
   last, of the announced size.
2. **A checksum that is wrong by one** (`echo_carry`, `InternetChecksum.hpp` 51).
   The sum is folded once. If adding the halves carries again, as for a sum of
   1FFFF, the checksum is wrong and the guest drops the reply, while
   `src/eth/README.md` line 61 says "The ping requests should all receive
   responses." `AcceptedWithoutSecondCarry` shows that it is right otherwise.

3. **A text panel that stalls** (`panel_stalls`, `InterfaceControl_device.can` 36).
   The buffer is emptied only when a newline is found among what was just added.
   Once it is full without one, `strncat` drops every later newline: `FullForEver`
   shows that it stays so, while `src/chardev/README.md` line 212 says that any text
   "will show up". `StoredLinesShown` shows that searching only for the first
   newline of an event loses no line, since the panel is given the whole buffer.
4. **A temperature nobody sent** (`temperature_missed`, `TemperatureSensing.can` 27).
   Nothing marks the start of a value. After an odd number of missed bytes the
   node pairs halves of different values for ever (`BytesAccounted`), while
   `src/chardev/README.md` line 266 says that the panel "will reflect" what is typed.

Remarks without a run: a generated controller name may equal one that the user
gives to another adapter (`ClashingNameIsGiven` says that there is no other way
to a clash); the demo destroys its device while SIL Kit may still call it, and
the adapter process its Ethernet adapters; the end of the reading, by main's stop
or by a shutdown, can leave SIL Kit's thread in `asio::write`, and with it main
(`HandlerStrandedInCircleOnly` says that nothing else can).

## 6. Not modelled

- The character device adapter and the helpers of `common`: the submodule is
  not in the repository.
- SIL Kit, asio, QEMU, the guest: external, modelled from how the code uses
  them and marked so in the map.
- Text for logs and debug output.
- The buttons of the QMP panel, which send fixed texts, and its login, which types
  the password 150 ms after the user name whatever the guest shows. Whether that
  works depends on the guest alone: a model would have to invent its login;
  `TemperatureControl.can`, which is one assignment.
- An exception of `Stop` after it has joined the thread, and what `Stop` does
  between the join and the end of the lifecycle: both are decided in `common`.
- The data race of two threads on one `asio` socket object: writing to a closed
  socket gives an error in the models, never the descriptor of another connection.
- How long `Stop` waits: `StopGivesUp` may happen at any time.

## 7. Plan

Built, in this order, the most important first: receiver with its proofs,
transmitter, process, checksum, echo device and network, the demo nodes; then
the names and the exceptions of the process, the two directions on one socket,
the header codecs and the life of the demo's device; then the proofs of section
4, those of the header codecs and of the temperatures last. The plan is
complete. What could follow is outside of it: the character device adapter and
the helpers of `common`, once their sources are at hand.
