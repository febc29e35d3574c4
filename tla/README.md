# A TLA+ model of lto-airspy

The repository holds the Airspy host software 1.0.9 (`libairspy`, a driver
library on top of libusb, and the `airspy-*` command line tools), its Debian
packaging, and the script by which an observatory records with it. This
directory holds a formal model of the parts whose correctness depends on
threads, on the order of calls, on failures half-way and on indices and counts.
TLC checks the modules on small instances; TLAPS proves, for every size and
number that a module is parameterised by, that the received samples queue is a
lossy FIFO, that its model implements the coarser one of the threads, and every invariant and action property of the passing runs: of the
stream's threads, of the device's handles and memory, of the settings, of
`airspy_rx`, of the converters and of the tools. Liveness is left to TLC.

Paths: `airspy.c`, `airspy.h` and the converters are in
`src/airspy-host-1.0.9/libairspy/src/`, `airspy_rx.c` and the other tools in
`src/airspy-host-1.0.9/airspy-tools/src/`.

## 1. Inventory

### Parts, their state, their operations

| part | state | operations | what makes it correct |
| --- | --- | --- | --- |
| received samples queue (`airspy.c` 336-535) | ring of 8 buffers, head, tail, count, loss count per slot and running; mutex and condition variable | transfer callback, consumer thread, transfer thread, `kill_io_threads` | blocks reach the client once, in order, intact, with the exact number lost in front of each; nothing accepted is forgotten; a stop returns |
| stream lifecycle (`airspy.c` 124-293, 537-579, 907-930, 1035-1074, 1500-1524, 1754-1797) | `streaming`, `stop_requested`, transfer array, converters, two thread handles | start, stop, set_packing, set_conversion_filter, close | one pair of threads per stream, joined once, nothing freed under them, the device can be started again |
| sample rates (`airspy.c` 762-838, 932-1010, 1465) | list of rates, sample type | read of the list, get_samplerates, set_samplerate, set_sample_type | the rate chosen from the list is the rate set |
| opening and enumeration (581-760, 784-905) | handles, claimed interface | open, open_sn, clean-up of a failed open | what was acquired is released; the right device is opened |
| gains (1526-1747) | AGC switches, three gains in the device | single and composite setters | a composite gain sets the row of its table, with AGC off first |
| registers, GPIO, Si5351C, R820T, board and version (1076-1278, 1375-1463) | in the device | one control transfer each | arguments and lengths |
| SPI flash (1280-1373) | in the device | erase, erase_sector, write, read | limits of address and length |
| conversion of a block (`airspy.c` 319-334, 369-430) | sample type, counts | unpack, convert, announce | the client gets the device's samples in order, as the type they are announced as |
| IQ converters (`iqconverter_*.c`) | FIR queue, delay line, DC average, indices | create, reset, process | indices stay in range, the output is a convolution across blocks, a constant leaves no offset |
| `airspy_rx` | options, output file, `bytes_to_xfer`, `do_exit` | `main`, `rx_callback`, signal handler | the file holds the samples asked for, its header fits, the program ends |
| `airspy_spiflash` | file, address, length | read, erase and write in pages | image complete and inside the flash, whatever failed before |
| `airspy_gpio`, `airspy_gpiodir`, `airspy_r820t`, `airspy_si5351c` | options | option loops over register accesses | what is named is changed, dumps are complete, the loops end |
| `airspy_info`, `airspy_lib_version` | none | print | - |
| `collect_spectrum.sh` | lock file, shared log, directories | one run per cron minute | runs do not disturb each other |
| getopt, CMake, Debian packaging, Windows resources | - | - | not modelled: vendored or not run-time behaviour |

### How they interact

The application calls the library. `airspy_start_rx()` submits 16 transfers and
creates two threads: the *transfer thread* runs libusb's event loop, in which
the *transfer callback* exchanges the buffer of a completed transfer for the
one in the head slot; the *consumer thread* converts the block in the tail slot
and calls the client's callback. A control transfer of the application handles
libusb events as well, so that the transfer callback may also run in the
application's thread. `airspy_stop_rx()` asks both threads to stop, wakes the
consumer and joins them. Callback, threads and application share the flags
`streaming` and `stop_requested` without a lock. `airspy_rx` adds a client
callback that shares the output file and `bytes_to_xfer` with `main()`, and a
signal handler.

### Where it is hard

- interleavings of the callback, two threads and the application, over flags
  that no lock protects;
- the mutex is released while a block is converted: its slot must stay in use;
- a lost wake-up between the consumer's test and its wait;
- transfers that end late, fail or cannot be submitted again;
- calls that fail half-way (start, reallocation, open, composite gains);
- a stream that ends by itself, of which the consumer is never told (below);
- state read several times while others change it: the sample type during a
  block, the loss counts and the filters that a start resets under the consumer,
  store by store;
- programs that overlap: the script's runs, and runs of a tool after a failed one;
- boundaries: ring full, last partial block or chunk, turn of the FIR queue, 8-,
  16-, 32- and 64-bit numbers.

`PROJECT.json` lists each hazard at its line, with the properties that cover it
or the reason why none does.

## 2. Modules

| module | models | built on |
| --- | --- | --- |
| `LossyFifo` | what a client may rely on: a bounded queue that loses blocks when full, never reorders or repeats, and says with each block how many were lost before it | - |
| `SampleQueue` | one streaming session at the grain of single accesses to shared memory | refines `LossyFifo` |
| `SampleQueue_proofs` | theorems about `SampleQueue` | extends it |
| `SampleQueue_refinement` | the theorems that `SampleQueue` implements `LossyFifo`, and `StreamControl` for one stream | extends `SampleQueue_proofs`, takes over `StreamControl_proofs` |
| `StreamControl` | calls, errors and threads over several sessions, with the queue abstracted | - |
| `StreamControl_proofs`, `AirspyRx_proofs`, `DeviceResources_proofs`, `RxSettings_proofs`, `Converters_proofs`, `DeviceTools_proofs` | theorems about the module named | extend it; the second takes over the results of the first |
| `AirspyRx` | `airspy_rx` from the opened device to its exit | composed with `StreamControl` by `INSTANCE` |
| `DeviceResources` | handles, interface, context and memory of a device, from open to close | - |
| `RxOptions` | the command line of `airspy_rx` | - |
| `SampleRates` | rates and sample types, with the firmware's reading of an index | - |
| `GainControl` | stages, AGC switches and composite gains, transfer by transfer | - |
| `RxSettings` | from the command line to the device's settings; clients of the rate and gain functions | composes the three above |
| `BlockConversion` | what the consumer does with a block: count, unpack, convert, announce | - |
| `IqConverter` | FIR queue and delay line of both converters | - |
| `DcRemoval` | the offset filter of the int16 converter, bit for bit | - |
| `Converters` | the three above with the application's calls | composes them |
| `RegisterTools` | a run of `airspy_gpio`, `airspy_gpiodir`, `airspy_r820t` or `airspy_si5351c` | - |
| `SpiFlash` | runs of `airspy_spiflash` on one flash | - |
| `DeviceTools` | both | composes them |
| `CollectSpectrum` | overlapping runs of `collect_spectrum.sh` | - |
| `MC...` | the instance of each for TLC | - |

**SampleQueue.** Variables keep the code's names. `received_samples_queue` maps
slots to buffers and a transfer owns one buffer, so that the exchange of lines
459-461 is an exchange. Reads of the flags that the code does without the lock
are steps of their own (`CallbackTest`, `ConsumerOuter`, `ConsumerInner`,
`TransferLoop`); a critical section whose intermediate states nobody can see is
one step (`Enqueue`, `ConsumerTake`). A block is a number, given by the device,
transfers that have ended wait in the order of libusb. `SpuriousWakeup` and `DeviceFail` are
the environment's. The application may call `start_rx` during the stream, which
clears the loss counters without the mutex (lines 1042-1043) although it then
returns BUSY: `ClearSlot` clears one slot of `uncleared` a step, in any order, as
`memset()` may, then `ResetDropped` the running count, or `ResetOverwritten` when that
store falls between the read and the write of the callback's `dropped_buffers++`.
An `Enqueue` in between may put an old count into a slot that is cleared already.
`disturbed` records such a call; `LossyFifo` has it as `ForgetGap` and `ForgetLost`, one
count at a time, which never change a block or invent a loss.

**StreamControl.** Every call is a sequence of steps (`apc`), one per point at
which it may fail or another thread may notice. A consumer is running, blocked,
working or done. `transfers` is `<<>>` for NULL and otherwise the state of each
transfer, among them `null` and `bare` for the array that a failed allocation
leaves. `derailed` records that a stream failed to start or ended by itself.

**AirspyRx.** Main's position is `pc`; a library call is made by an action of
`StreamControl` joined with main's step, and main goes on when `apc` shows that
it returned. `rx_callback` is five steps (`cb`), so that main may act between
the count of the bytes and the write. `data` is what has been written after the
header; file positions do not count the header's 44 bytes.

**DeviceResources.** Memory is a pool of numbered blocks, `ptr` says which block a
field points to and `live` which are allocated, so that a lost block is live and
nobody's. `allocate_transfers()` works through `todo`, one allocation a step.
Allocations that the code does not test (rates, converters) succeed. `starved`
records the two failures after which the code does lose memory (section 5).

**RxOptions.** One action per option, in any order, then `Validate`: the product
of samples and sample size, and the checks in the code's order (`Checks`).
`BlockAlign` and `ByteRate` are what the header is made of.

**SampleRates.** Rates are real ones. The firmware is external: it takes an
argument below the length of its list as an index and another one as kHz of
real samples.

**GainControl.** A call becomes the list of its transfers (`todo`); each may fail
before or after the device acted, and the rest is then not made. The two tables
are the code's.

**RxSettings.** `main` is the position of `main()` after the options. The actions of
the parts are taken as they are, with the arguments the command line gave;
`wav_sample_per_sec` is what the header will say. Two other clients call the rate
or the gain functions in any order.

**BlockConversion.** A sample is the sequence of the bits of the block that it is
made of, so that `Unpacked` is the code's shifts and masks and the property is that
sample j is bits 12j to 12j+11. `sample_type` is read where the code reads it:
for unpacking, in the switch, for the announcement. `seen` is the set of types
during the block.

**IqConverter.** A sample is its number in the stream with the sign that the
translation by fs/4 gives it, and the taps (`Taps`, the first half of a symmetric
kernel) are any integers: powers of 100 in the run, so that the sum that leaves
the FIR tells which samples it was made from. `SumTo` is the accumulator of a
loop. The loops work on a local index, like the code. A reset has no lock: each of
its stores (`ResetFirIndex`, `ResetDelayIndex`, and piece by piece `ClearDelayLine` and
`ClearFirQueue`) is a step, and may come between any two of the steps of a loop,
which are the accesses to the shared memory: a sample's store, the sum over the
taps, the copy at the turn of the queue, the read and the store in the delay
line. `memset()` clears pieces of `PIECE` entries in any order, so that a sum or a
copy, which reads a stretch of memory in one step, may still see any part of it
cleared. `fir_since` and `delay_since` count the samples since the end of the last
reset, and `midway` says that a block ran during it. Both converters have the same
loops; they differ in what a reset clears and in how the sum is unrolled.

**DcRemoval.** One sample per step, in integers of which there are `RANGE` (2^16 in
the code), with the coefficient `ALPHA/SCALE` (32100/2^15) and the rounding error
`old_e` that the code feeds back. During a block (`within`) the three fields are
copies, which overwrite at its end what a reset clears meanwhile (`Clear`, one field a
step, in any order); `torn` says that a block ran during the last reset.

**Converters.** `stage` separates the filters' structure, which does not look at
values, from `DcRemoval`, which does nothing else. The stores of a `start_rx()` are
`StartRx` in the one and a part of `DcStep` in the other.

**RegisterTools.** An option is obeyed before the next one is read: `access` is the
loop over registers or pins that runs. `asked_number` and `asked_port` are history:
the texts of the last `-n` and `-p`, as they were given, before any cut to a byte.
**SpiFlash.** The steps of one run
between `Start` and `Finish`; programming can only clear bits; `Fail` is any error
and any kill, with a transfer that may have been performed in part. The next run
finds the flash as the last one left it.

**CollectSpectrum.** One step per command of the script that touches something
shared: lock, log, directories, device. Recordings are named after the run
that makes them, and moving one that is still written keeps only a part
(`/run` and `/cache` are taken to be different file systems).

## 3. Runs

| run | states | shows |
| --- | --- | --- |
| `queue_safety` | 8 million | `TypeOK`, `GapAccounting`, `BlockIntact` and the refinement of `LossyFifo` |
| `queue_liveness` | 970 000 | `StopReturns`, `AcceptedIsDelivered` |
| `control` | 230 000 | `TypeOK`, `OneStream`, `Restartable`, `NoFreeInUse`, `StopReturns` |
| `control_no_transfers` | violation | "This shouldn't happen" of line 290 does happen |
| `control_free_in_flight` | violation | set_packing frees transfers that have not ended |
| `rx` | 43 000 | `TypeOK`, `HeaderMatchesFile`, `ExactCount`, `ExitClosesDevice`, `StopsWhenAsked`, `LimitEndsRun` |
| `settings` | 4.6 million | `FormatFitsType`, `LimitFitsType`, `ListedRateIsSet`, `MoreGainIsMore`, `HeaderRateIsDeviceRate`, `GainsAsAsked` |
| `rates_real` | violation | a REAL rate that the list shows is not the one set |
| `resources` | 1.9 million | `OneHandle`, `EachFreedOnce`, `NothingLost`, `BuffersFit` |
| `tools` | 330 000 | `NamedIsWritten`, `SuccessIsComplete`, `ToolEnds`, `WrittenIsThere`, `ReadIsFlash`, `OthersAreKept` |
| `converter` | 2.6 million | `SamplesInOrder`, `BlockAsAnnounced`, `IndicesInRange`, `FirIsConvolution`, `DelayIsHalfKernel`, `HalfRangeFits`, `DcVanishes` |
| `collect_overlap` | violation | a run does not wait for the one that holds the lock |

**Bounds.** The ring has two slots (8 in the code): enough for an empty, a partly
filled and a full ring, and for head and tail to meet either way; two transfers
(16) complete and are submitted again in either order; five blocks wrap the
ring twice and leave room for a loss between two accepted blocks and one after
them. The theorems below hold for all sizes. `StreamControl` has two starts,
the least with which a stream can meet what the one before left, and two
transfers, so that a submission or an allocation can fail at the first or at a
later one. `AirspyRx` runs one session of up to three blocks of two bytes, with
limits of nothing, of half a block, of two blocks exactly and of two and a half,
and sizes modulo 5 so that the header's size wraps. `DeviceResources` has one slot and two
transfers, enough for buffers to change places in both directions, and one block
of memory more than a device ever uses, so that one can be lost; the bus has
another device and Airspies without and with two serial numbers. `RxSettings` reads three
options, enough for a type, another type or a limit in any order, and a file;
64-bit numbers are scaled to 16 bits. `SampleRates` needs no bound: its histories
are finite. One list has two rates, the other a rate with its half, and the
arguments include the indices at both ends, listed, doubled and other rates.
Gain arguments are both ends of the composite range, and 7 and 8, the only two values of
the linearity table that are the same gain; on the command line both ends of a
single gain and a value beyond the composite ones. The register tools have bytes of three bits, two ports of four
pins and four options, enough for a number, a port, a write and a read in any
order. The flash has six bytes of which four are erased, chunks of two and
images that end inside a chunk or cross the erased part; three runs are one that
fails, one that writes, and one that reads. The filters have kernels of 4 and 6
samples and a queue of two kernels (16 and 32 in the code), so that 10 pairs
turn the queue twice, at different places of a block, and outlast a kernel
after the turn; a reset in pieces of four entries has up to three of them in the
queue and meets every position of both loops with any of its stores; one
change of type is the least that separates the three reads. `DcRemoval` has a
`RANGE` of 32 instead of 2^16 and a feedback of 7/8 instead of 32100/2^15: few
enough values for all sequences of seven levels, of any length, with a reset
at any place of them.

**Deadlock** is checked, except for `collect_overlap`, where all runs may have
ended; elsewhere a finished program stutters explicitly (`Finished`), and
`DeviceResources` stutters (`Exhausted`) when the pool of blocks is used up.

**Fairness.** The threads are scheduled, a client callback returns, and a call of
the application runs on; libusb's event loop returns within its timeout of
500 ms. Nothing is assumed of the device (`DeviceFill` is not fair), nor of the
arrival of blocks or of signals. `ToolEnds` assumes that a register tool goes on, and with it that the device
answers, or fails: its control transfers pass a timeout of 0, which means none, and
with a device that does neither the program hangs. The same holds of the control
transfers in `StopReturns` and `StopsWhenAsked`. `DcVanishes` assumes that samples go on coming.

## 4. Proofs

`SampleQueue_proofs` proves, for every number of slots (`RAW_BUFFER_COUNT` a
positive number), every set of transfers and every bound `MaxBlocks`:

- `InductiveInvariant`: `IInv`, which TLC also checked on the small instance;
- `TypeCorrect`: `[]TypeOK`;
- `GapsAreAccounted`: `[]GapAccounting`;
- `BlockStaysIntact`: `[][...]`, no step writes to the buffer that the client is
  working on;
- `NoWakeupIsMissed`: the consumer never waits with a block in the queue, nor after
  `stop_rx()` has signalled it and waits for it to end. No run checks this one: it
  is the safety half of `StopReturns` and `AcceptedIsDelivered`.

None of the first three properties is inductive. `IInv` is the conjunction of

1. `ControlInv`: which program counter holds the mutex, and what its locals are;
2. `RingInv`: head, tail and count agree, the slots from tail on are in use;
3. `OwnerInv`: each buffer has one owner, a slot or a transfer (this is what
   `BlockIntact` rests on: the callback exchanges buffers only with a free slot,
   and the slot being read is counted until `received_buffer_count--`);
4. `UsbInv`: blocks wait in libusb in the order in which the device filled them;
5. `ChainInv`: from the last block handed over, through the slots in use, to the
   block the device fills next, each block's number is the one before plus the
   losses that are recorded in between.

Each conjunct is proved to be preserved action by action, from itself and the
ones above it. `WakeupInv` is the invariant of the last: once `stop_rx()` has set
the request, a consumer that looks again does not go back to sleep, and a block is
queued with a signal under the mutex that the consumer holds from its test to
its wait.

`SampleQueue_refinement` proves `Refinement`: `Spec => ImplementsLossyFifo`. The
abstract queue's places are the slots from the tail on, less the one whose block
the client works on. `Kinds` sorts the steps: all but six kinds change nothing that
the abstract queue shows (`SilentStep`), although the device may write to a
buffer in the meantime (`ContentKept`, from `OwnerInv`). The six are an `Accept`
or a `Lose`, a `Take`, a `Deliver`, a `Release` and, for the stores of a `start_rx()`
during the stream, a `ForgetGap` for one slot (or a step that shows nothing, when the
slot is not in use) and a `ForgetLost`. What such a call does to the counts is
therefore that some are forgotten and others, stored between its stores, are not;
blocks are neither lost nor reordered by it. That a full ring is the abstract
queue's capacity is `Occupancy`. The invariant is `IInv` and `ReleaseInv` (the block
being given back is the last one handed over).

It also proves that the two models of a stream agree (`ThreadsRefinement`): every step
of `SampleQueue` is a step of `StreamControl` with one session or shows nothing in
it. This is what justifies the coarser grain of `StreamControl` and `AirspyRx`, where
the consumer tests the flags and blocks in one step: a consumer at `wait` counts
as blocked already, since the mutex that it holds keeps every signal away. The
mapping needs to know whether the threads have been joined, which the last
states of `SampleQueue` do not tell, so `SessionSpec` adds a history variable that
no step depends on; it numbers the transfers, which are assumed to be finitely
many and at least one. `ThreadInv` says which thread handles libusb's events and
where each thread is when it is joined. `SessionEndsClean` then takes the invariant
of `StreamControl_proofs` over: at the finer grain, too, `OneStream` and `Restartable`
hold. The first attempt at this proof failed, rightly: in `StreamControl` a transfer
ended the stream only while no stop was asked for, but the transfer callback may
see the stream running, be overtaken by the stop and then fail to submit the
transfer (lines 448 and 480). `StreamEnds` allows that now.

`StreamControl_proofs` proves `TypeOK`, `OneStream`, `Restartable` and the action
property `NoFreeInUse`, for every number of transfers and of starts. A stop joins
threads that exist only because of what each step of `start_rx()` created, and a
start meets none only because the earlier ones are gone. So `StreamInv` says, as
long as no stream was derailed, that other sessions have no threads (`OthersGone`),
that outside of a stream and of a stop there is nothing (`NothingLeft`), and which
threads exist at each point of each call (`CallInv`).

`AirspyRx_proofs` proves `HeaderMatchesFile`, `ExactCount` and `ExitClosesDevice` for
every size of a block, limit, modulus of the header's size, and number of blocks
and transfers. That the file does not grow after `main()` took its size rests on
the library: every step of the program is a step of `StreamControl` or leaves its
variables alone (`LibraryStep`), so that the invariant of `StreamControl_proofs` is
taken over for a library with one start, without proving it again. On top of it,
`CallInv` relates the positions of `main()` and of the library, `CountInv` says
that the bytes in the file, on their way to it and still to be counted are those
asked for, `ReasonInv` why `main()` may stop, `FileInv` and `SizeInv` what is in the
file. `TypeOK` takes one invariant more (`ToolInv`): the bytes in the file and
those that `rx_callback()` holds are not more than the blocks handed over.

`DeviceResources_proofs` proves `OneHandle` for every bus (`UsbInv`: what is held at
each point of the search), and `EachFreedOnce` for every pool of memory and every
number of slots and transfers (`MemoryInv`: no two fields share a block,
through exchanges, failures and reallocations).

It also proves `NothingLost` and `BuffersFit`, again for all sizes.
Both depend on the order of `allocate_transfers()`: the queue's buffers and the
output come first, then the array of transfers, then what it points to, and
`free_transfers()` takes the array for the sign that there is something to free.
`PlacesInList` gives each field its place in that order. `FillInv` says that, during
an allocation, the list is filled up to a place and NULL from there on;
`ReadyInv` that a device without the array has nothing behind it either, and that
memory ran out (`starved`); `BufferInv` is the conjunction with `MemoryInv`. A second
allocation that fails before the array does lose blocks, hence `starved` in
`NothingLost`.

`RxSettings_proofs` proves the six properties of `settings`, for every set of
options' values, every list of rates of the firmware and any gain arguments. The
inductive invariant is a conjunction of

1. `LineInv` and `AcceptedInv`: what the options read so far, and the checks passed,
   say about format, type, limit and gains;
2. `RatesInv` and `RequestInv`: what the library's list shows is what the firmware
   has, and the rate set is the one that the firmware makes of the request;
3. `CallInv` and `TotalInv`: what the transfers of a gain call that are done have
   set, and that a completed composite call leaves its table's row in the
   registers;
4. `MainInv` and `MainRateInv`: which calls `main()` has made at each of its
   positions, and that no later one undoes what an earlier one set.

`MoreGainIsMore` compares the rows of the two tables that two calls leave; the
attempt to prove it showed that, as first stated, it was false for the values 7 and
8 of linearity, whose rows have the same gain in all, a pair that the run's
arguments did not have. They have it now. The firmware is outside the repository,
and `RatesAssumption` says what the library relies on: an argument below the length
of the list is an index, and no listed rate is as low as that, in Hz or in kHz.

`Converters_proofs` proves `IndicesInRange` for every even number of taps from 4
on, every size of the queue and of a block: what makes it inductive is that the
kernel, laid on the last index, ends where the queue ends, and that the loop's
own index is in range wherever a reset finds it. It also proves `SamplesInOrder`
and `BlockAsAnnounced` for blocks of any whole number of word groups. The first
follows from what the shifts and masks make of one group of three words; the
invariant of the second (`BlockInv`) says at each point of the callback which
samples, how many and of what type there are, as far as the types read so far
(`seen`) are one.

`DelayIsHalfKernel` and `FirIsConvolution` are proved for every kernel of an even
number of integer taps, every size of the queue, of a block and of the pieces that
`memset()` clears, and for resets whose stores come one by one between any steps of
the loops. Both begin with the end of a reset, or, when a block ran during it
(`midway`), one kernel or half a kernel later. `ControlInv` says that `midway` is set
whenever a loop and a reset meet, and that samples, local index and loop are in step,
which holds because every block has an even number of pairs (`EvenPairs`, from
`BlockInv`). For the delay line, `EntriesInv` says how long ago each entry was
stored, the places being on a circle with the index at the oldest
(`AroundTheCircle`), and that an entry which a reset has come past (`LineCleared`)
stays silent while no block runs. For the FIR, `WindowInv` says that from the
front of the queue (`Latest`) on there are the latest samples, as many as a sum
needs with the next one; the front's turn copies them. `ClearingInv` says that a
reset which no block disturbs clears just those places. `LoopsAgree` then says that
the folded loop and the one of eight, four and two taps sum up what the straight one
does (`SumFolded`, `SumPart`). `SumTo` is a recursive function, and that there is one
(`SumExists`) is proved with the induction theorem of the library for a set of
numbers (`Induction`).

`HalfRangeFits` is proved for every coefficient below 1: `LagInv` says that
SCALE * (old_y - old_x) + old_e, what the filter is behind its input, stays within
the range of earlier inputs, of which it is a weighted mean (`MeanBetween`). So the
output, a difference of two samples of half of the range, fits. `DcInv` adds that
the fields which a reset has cleared stay 0 until it ends, when no block runs, so
that `LagInv` holds again (`SilenceLags`); while it is under way, or when a block ran
during it (`torn`), it may not. `HeldFades` (in that module, no run checks it) is the
safety half of `DcVanishes`: with a constant input no sample takes the output away
from 0 or across it, and one that leaves it as it is brings the rounding error
closer to the next change. After a reset of `old_x` that is so from the second sample on.

`DeviceTools_proofs` proves the safety properties of `DeviceTools`. For the flash
(`WrittenIsThere`, `ReadIsFlash`, `OthersAreKept`) `FlashInv` says that address, bytes done
and bytes left agree, and that byte k of the image is in the flash when it is done and
erased before; a chunk is assumed not to be longer than the part that is erased (256
bytes and 64 KB), so that what wraps at the end of the flash falls into that part
(`Programmed`). For registers (`NamedIsWritten`, `SuccessIsComplete`) `ToolInv` says what an
access has done up to its place; `PortAndPin` is that port and pin can be had back
from the byte they are put into. `NamedIsWritten` is about the texts of `-n` and `-p`, not
about what the program made of them: `AskedInv` says that, up to the first option
that is refused, the numbers stored agree with the texts (`Agrees`), except that
`airspy_si5351c` keeps a byte of its own.

Assumed are the constants' assumptions (`QueueAssumption`, `ControlAssumption`,
`RxAssumption`, `ResourcesAssumption`, `SettingsAssumption`, `ConvertersAssumption`,
`ToolsAssumption`), which TLC evaluates in the runs, and, for `ThreadsRefinement` and
`SessionEndsClean` only, the hypotheses stated in those theorems.

Model-checked only: liveness, which the prover does not treat (`StopReturns`,
`AcceptedIsDelivered`, `StopsWhenAsked`, `LimitEndsRun`, `ToolEnds` and `DcVanishes`,
with `NoWakeupMissed` and `HeldFades` proved as their safety halves), and the runs that
expect a violation.

## 5. What the code does outside the properties

`StreamControl`'s properties hold as long as no stream was *derailed*. That is no
convenience of the model: in the other case the code breaks them, without
contradicting a document, and the following was observed on the model.

- A transfer that does not complete (line 485), or cannot be submitted again
  (480), sets `streaming` to FALSE. Nobody signals the consumer, which stays
  blocked. `kill_io_threads()` tests `streaming` (518) and skips everything, so
  that `airspy_close()` destroys the mutex, condition variable, converters and
  buffers of a live thread.
- If the client starts again before the threads of the ended stream have
  noticed, they see `streaming` set and go on: two consumers take blocks from
  one ring. A stop may then wake the old consumer and wait for the new one.
- If the client callback had asked for a stop before the stream ended,
  `stop_requested` stays set and every later start is BUSY.
- A start that fails after line 545 leaves `streaming` set: a stop then joins
  threads that were never created.
- When memory runs out in `allocate_transfers()` before the array of transfers is
  there, `free_transfers()` later frees nothing, and the next allocation
  overwrites the pointers to what there was; when it runs out in
  `airspy_open()`, everything allocated for the transfers is lost.
  `NothingLost` holds up to such a failure. A second `airspy_set_packing()` with
  the same mode then reports success on a device without transfers.
- A restart soon after a clean stop may find transfers whose cancellation nobody
  has processed, and fails when it submits them.
- A short write makes `rx_callback` end the stream, but `airspy_is_streaming()`
  still returns TRUE and `airspy_rx` waits for a signal.
- When the list of rates cannot be read, the driver assumes 10 and 2.5 MHz and
  sends places in that list as indices into the firmware's own: on a firmware
  with other rates, 2.5 MHz selects the second of them. `ListedRateIsSet` asks
  for the two lists to be equal.
- `airspy_rx -n`: the product of samples, bits and channels is taken modulo 2^64
  before the number of samples is checked against 2^63, so that from 2^58
  samples of 64 bits on fewer are transferred; `LimitFitsType` is about smaller
  numbers. The usage text gives frequencies up to 1900 MHz, which is itself
  refused (line 714).
- The usage text of `airspy_rx` offers sample type 5 (RAW), but `-r` and `-w` both set
  `receive_wav`, and RAW is refused with it: no command line reaches RAW.
- `airspy_rx -a 1000000` is an index for the program (889, `<=`) and a rate for the
  library (968, `>=`): it is refused. `-v`, `-m` and `-l` do not switch the
  automatic gain control off, the composite gains do.
- The man page of `airspy_rx` has -f in Hz and other default gains than the
  program, and gives a WAV header to -w only, where -r writes one, too.
- When `sample_type` changes during a block, the block is announced as another type
  than it was converted to, and a change from RAW after the test of line 373
  converts packed words as samples, a third more of them than the buffer holds.
- The int16 converter clears half of its delay line at a reset: the first
  half kernel of odd samples comes from the stream before, or from fresh memory
  (`DelayIsHalfKernel` begins after it). Its offset filter wraps for jumps of
  more than half of the range (`HalfRangeFits`).
- A `start_rx()` during a stream resets the filters under the consumer, store by
  store and without a lock, before it returns BUSY. The sample just stored may be
  cleared before it is summed, a loop may run over a queue or a delay line of which
  a part is cleared, and the indices and the state of the offset filter are
  overwritten when the loop ends. Until a kernel's length of samples after the reset
  has ended the FIR's output is a convolution of no stream that there was, and that
  of the delay line for half as long; and when some of `old_x`, `old_y` and `old_e` are
  cleared between two blocks and others are not, the offset filter may wrap even for
  samples of half of the range (TLC shows it when `torn` is left out of
  `HalfRangeFits`). No index leaves its memory, and all of this passes. The same call
  clears the loss counters one by one, so that a block may come with a count from
  before it or with none.
- The general FIR of the float converter leaves out the last tap when their
  number is odd; the built-in kernel has 24.
- The header of `airspy_rx` has a wrong dwAvgBytesPerSec: line 1101 multiplies the
  rate with the bytes of one sample and leaves out the channels, so that the
  value is half of what is written per second for both IQ types, the default one
  among them (the comment at line 142 has "Freq Hz sampling x 2"). `FormatFitsType`
  takes the number for the rate of one channel.
- `airspy_si5351c -n` keeps the low byte of any number: `-n 300 -w` writes register 44,
  `-n 256` register 0 and `-n -1` register 255, although the usage text has `-w` write
  the register that the last `-n` specified. `NamedIsWritten` excludes such numbers; the
  other tools refuse them.
- `airspy_gpio`, `airspy_gpiodir` and `airspy_r820t` read their options twice; the second
  pass does not know that `-s` has an argument and ends in the usage text. `-w`
  without `-n` writes register 255, register 0 (`si5351c`) or pin 31 of port 7.
  All of them return 0 after an error. `dump_port()` keeps the result of its last
  pin only (`SuccessIsComplete` counts that one).
- `airspy_spiflash` compares the length with the size of the flash without adding the
  address, and erases the first 64 KB wherever the image goes: beyond them a
  write is reported as done with bits that were not erased (`WrittenIsThere` is
  about the erased part). On an error it exits without closing the device.
- `collect_spectrum.sh`: with two runs at once, each removes the other's lock, moves
  the other's recording while it is written, and takes the last name in the log
  for its own: it may publish a spectrum of part of the other's recording and
  remove it, or find no file and report an empty spectrum. The trap for signals
  removes the lock of whichever run has it.

## 6. Plan

1. Done: the modules of section 2, and the proofs of section 4.
2. Still worth having: an abstract life cycle of a stream (idle, streaming,
   stopping) that `StreamControl` implements while no stream is derailed, and the
   safety halves of `StopsWhenAsked`, `LimitEndsRun` and `ToolEnds`.

## Not modelled

- Floating-point values, the coefficients of the kernels and the scaling of samples:
  TLC has no floating point, and no control depends on them. The offset filter of
  the float converter is one subtraction and one multiplication.
- `airspy_info` and `airspy_lib_version` print what they read; board id, versions and part
  numbers are single reads without state.
- `airspy_spiflash_erase_sector()`, which nothing in the repository calls.
- The getopt replacement (vendored, for Windows), CMake, the Debian packaging and the
  Windows resources.
- The text of messages, libusb's and the firmware's insides beyond what the
  library's use of them shows, the throughput statistics of `rx_callback` (they
  are printed and nothing else), and the plots and the archive of the script.
