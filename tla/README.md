# CLIc in TLA+

CLIc is the C++ library under clEsperanto: arrays in the memory of a GPU, a
catalogue of image operations on them, and three interchangeable backends
(OpenCL, CUDA, Metal) that compile and run kernels. It has no threads of its
own. What makes it hard is elsewhere: commands that run on the device after the
call that issued them has returned, memory shared by several handles and freed by
the last one whatever state the device is in, cache files shared by processes
that know nothing of each other, index arithmetic written three times, once per
backend, and some 330 operations that call each other through destinations the
caller may or may not supply, with nothing but convention to say which array is
read, written, created or returned.

All paths below are relative to `src/`.

## Inventory

| Component | State it keeps | Operations | Talks to | Makes it correct |
|---|---|---|---|---|
| Program cache, `clic/include/cache.hpp`, `clic/src/cache.cpp` | map of key to program and iterator, list of keys by last use | put, get, contains, size, clear | owned by a device, called by buildKernel | map, list and iterators agree; bounded; least recently used goes first |
| Disk cache, same files | files `<device>/<source>.<ext>`, an environment variable | saveBinary, loadBinary, exists, setEnabled | every process of the user; buildKernel, FFT | what is loaded was saved; damage does not spread |
| Kernel build, `buildKernel` of the backends | none of its own | memory, disk, compile, load, cache | both caches, the driver | the kernel asked for, or an error |
| Device, `device.hpp`, `*device.cpp`, `metaldevice.mm` | initialized, waitFinish, context, queue, program cache | initialize, finalize, finish, setWaitToFinish, queries | the driver | pending work is not lost; memory outlives its users |
| Backend memory calls | none | allocate, free, read, write, copy, set | device, driver | the right bytes move |
| Array, `array.hpp`, `array.cpp` | extent, strides, offset, element and memory type, shared pointer to memory | create, view, reshape, shallow_copy, writeFrom, readTo, copyTo, fill, DLPack | backend manager, device | handles that share memory see the same data |
| Backend manager, `backendmanager.cpp` | the backend in use | setBackend, getBackend, availability | everything | arrays meet the backend they were made by |
| Device discovery, `getDevices` and `getDevice` of the backends | list of devices (OpenCL) | listing, choosing by name and type | driver, devices | the device asked for, or a documented fallback |
| Execution, `execution.cpp` | none | execute, native_execute, execute_separable, evaluate | backend, arrays | every pass reads what the one before wrote; what is combined fits |
| Launch geometry, `cudabackend.cpp:345-435` | none | computeBlockSize, computeGridSize | CUDA | every element is covered, hardware limits kept |
| Tier 0, `tier0.cpp`, `utils.hpp` | none | destinations, broadcast shapes, type promotion | tiers | a destination has the shape the operation writes |
| Tiers 1 to 8, `tier1/` to `tier8/` | none | about 330 image operations | execution, arrays, each other | the result depends on all operands, as far away as asked, and on nothing else; only the destination is written |
| Matrix product, `tier1/multiply_matrix.cpp` | none; on the device two tiles per work group | tuning, a chain of launches, the kernel | execution, device limits | launches fit the device and cover the destination; tiles are not overwritten under a reader |
| Statistics, `statistics.cpp` | none | measurements per label and of neighbours | tiers | tables have the column of every label |
| Transforms, `transform.cpp` | none | transforms with or without an image | tiers | what is sampled has been written |
| FFT, `fft.cpp` | plan files in the disk cache directory | fft, ifft, convolution, deconvolution | VkFFT, device, disk cache | the plan outlives its commands |
| Translators, `cudaTranslator.cpp`, `metalTranslator.cpp` | none | translate | CUDA and Metal builds | textual |
| Kernels: as text in eleven files of `tier1/`, `tier2/`, `tier4/` and in `statistics.cpp`; the rest in a git submodule whose directory is empty | none | | launched by execution | work items stay in their arrays and reach as far as they are told |

Hard behaviours, each listed with its line under `hazards` in `PROJECT.json`:
commands that overtake each other between host, device and consumer streams;
finalize and deleters in any order; several writers and readers of one file;
crashes and unreported write errors in the middle of a file; a cache at its
limit; views of views and the recovery of a buffer by division from an offset;
pitches that vanish for one-row buffers; destinations that are created on one path
and checked on another, used a second time, or written before a check; work items
that read what others write; host reads in a type nobody compares; matrices sized
by different measurements of one image.

## Modules

| Module | Models | Composed of |
|---|---|---|
| `LeastRecentlyUsed` | abstract: a bounded map and an order of last use | |
| `ProgramCache` | `ProgramCache` with its list, map and iterators | refines `LeastRecentlyUsed` |
| `ProgramCacheRetention` | the same with history variables, for the promise to the caller | extends `ProgramCache` |
| `KernelBuild` | `buildKernel` of the three backends, both caches, several processes, faults | uses the promise of `LeastRecentlyUsed` for memory |
| `ArrayStore` | abstract: arrays on which every call takes effect at once | |
| `DeviceQueue` | device lifecycle, queue, waits, owners of memory, tensor handover | refines `ArrayStore` |
| `ArrayTransfer` | array layouts and the addresses each transfer touches | |
| `LaunchGeometry` | blocks, grids and rounded ranges, as operators | |
| `MultiplyMatrix` | the tuner, the launches and the work items of the tiled matrix product | extends `LaunchGeometry` |
| `Tier0` | arrays, destinations, broadcasting; launches, copies and reads by what they read and write | |
| `Tier1Pixels`, `Tier1` ... `Tier8` | the operations of each tier | each extends the one before |
| `Statistics`, `NeighborStatistics` | measurements of labels and of their neighbours | between `Tier2`/`Tier3` and `Tier6`/`Tier7` |
| `FFT` | transforms, convolution, deconvolution | extends `Tier8` |
| `ImageCalls` | a caller with three arrays and the shapes of calls | extends `FFT` |
| `ImageOperations` | one disjunct for each operation | extends `ImageCalls` |
| `ImagePromises` | what a caller may rely on, whichever operation it calls | extends `ImageOperations` |
| `*_proofs` | theorems of the module they are named after (`ProgramCache_proofs` those of `ProgramCacheRetention` too) | extend it and `TLAPS`; `ImagePromises_proofs` extends `Tier0_proofs` |
| `MC*` | constants for TLC | extend the module they are named after |

**ProgramCache.** An iterator is the address of a list node; erasing a node
frees its address for the next `push_back`, so a stale iterator can come to point
to another key's node. `Put` is `PutExisting` or `PutNew` (with `Evicted`, the
eviction inside it), `Get` is `GetHit` or `GetMiss`. `contains` and `size` change
nothing. With one address more than the cache has places, every reuse occurs.
`result` is what the last call returned.

**KernelBuild.** `pc` walks a call through its system calls: `lookup` (exists,
open, tellg), `read`, `compile`, `save` (open and truncate), `write` (chunk by
chunk), `module` (driver load and in-memory caching). A file is the set of chunks
it holds, so a hole left by two writers is visible; `FileSize` is the last chunk,
as `tellg` is. The three backends differ where the code differs: the key of the
memory cache, whether a rejected binary falls back to the compiler (OpenCL
only), when a compile error appears (Metal compiles when it loads), and whether
the program is cached before the kernel name is looked up (OpenCL). Faults are a
failed open or write (the exception leaves `buildKernel`), a lost tail (the
stream is flushed by its destructor, where nobody looks) and a crash. All
processes use one device model, hence one directory. Hashes are injective.

**DeviceQueue.** One device, arrays as shared pointers `[at, ctx]` to memory of
the context that allocated it, a queue of fills, copies and kernels, a host that
is ready or waiting, and one consumer of an exported tensor. Blocking calls are
guarded by the empty queue; non-blocking ones append to it; Metal runs fills and
copies on the host. `Deleter` is the code's: OpenCL and Metal release, CUDA frees
if the device is initialized now. `OpenCLFinalize` waits and then releases;
`EarlyFinalize` (CUDA, Metal) clears `initialized` first, so its `finish` does
not wait and the driver may drop what is queued. `Settled` is the memory once
the queue has run; the refinement shows each array as its settled value.

**ArrayTransfer.** An array has extent, strides, offset and memory, as in the
code, and `cells`, the addresses its elements really have, which no action reads
to move data. Each transfer computes the addresses the driver is given, through
`bufferLayout`, the pitches and the dimension tests of the backend, and puts the
pairs it moved next to the pairs it was asked to move in `last`. The element
size is one constant; it matters only where OpenCL takes an element offset for
bytes. Host regions are inside the array: the code does not check, its callers
must. A copy is between different memories.

**Tier0 to Tier8, Statistics, FFT.** An operation of the code is an operator of
the same name from one state of the arrays to the next, and composes the operators
of the operations it calls, in their order: `Then([made \in {step} |-> rest])` is the
statement `made = step; rest`. A state holds handles (extents,
dimension, element type, which memory), the contents of the memories, the value
just returned, whether an exception is on its way (nothing more is queued then), what
went wrong silently, and the queue of commands. An operation decides what it does from
extents, types and values on the host, so its launches, copies, writes and reads are
queued, and `Finished` carries them out in order when the call has returned, as the
in-order queues of the backends do (`DeviceQueue`).
The pixels are abstracted to what the promises tell apart: has every element been
written; from which of the caller's arrays do the values derive; from how many
columns away; is the memory still as the caller left it. `Launch` is a kernel: it
reads some arrays and writes others over a range, and `Progress` notes a read of memory
nothing has written, and a write of an array that other work items read elsewhere
than at their own position. The kind of a kernel (`Elementwise`, `Gather`, `Scatter`,
`Stencil`, `Around`...) is that of its text where the text is in the repository: the
arithmetic on pixels, projections, accumulations, ranges, the matrix product and
`kuwahara_filter` of `tier1/`, `tier2/label_spots.cpp`, `tier4/centroids_of_labels.cpp`
and `statistics.cpp`. The other kernels are in the submodule; their kind follows from how
each operation uses its kernel. A read to the host names the type of the host variable:
`ReadsAs` says in which the bytes of an element are its value. Control that depends on data is a parameter: after how
many `passes` a loop comes to rest and which value a reduction brings to the `host`.
Loops over floating-point steps are bounded the same way. Values that were read to the
host are a memory of their own, `Host`, so that a histogram that is read, turned into a
threshold and compared with the image keeps its origin.

**ImageCalls, ImageOperations, ImagePromises.** The caller holds a source, an
operand and an array of its own, all written. It calls an operation with no
destination, with its own array, or in place; after a call without destination it
may make the same call once more with the result as destination. An action is a
whole call. `ImagePromises` states, once for all operations, what a caller relies
on; an operation that breaks a promise is named there with the reason.

**LaunchGeometry, MultiplyMatrix.** The operators are the code's integer arithmetic.
A launch of the matrix product is `Start` (the driver takes it) or `Fail` (it
throws, at the launch or in a wait), which goes down the chain: fewer rows per item,
then no tiles, then the exception. One work group of a launch, any of them, is run:
`Load`, `Sum`, `Store` are single passes of the loops of single items, `Barrier` lets
an item through when all have arrived. A tile cell holds which element it was loaded
with, a sum the set of its products, so that a wrong tile, a missing product and a
product counted for another element all show.

## Runs

| Run | Question | Bounds, and why they suffice |
|---|---|---|
| `program_cache` | do list, map and iterators stay in step and make an LRU cache | 4 keys for 3 places, 2 programs, 4 addresses: eviction, update, hit in the middle of the list, address reuse |
| `kernel_build` | is the right program served under concurrency and faults; does OpenCL heal | 2 processes, a compilable source asked for 2 kernels it defines and 1 it does not, a source that does not compile, files of 2 chunks, memory of 1 entry, 1 fault: partial reads, two writers, eviction of one kernel by the other, crash in the middle of a file |
| `kernel_build_load` (violation) | is what `loadBinary` returns a saved binary | as above, no fault |
| `device_queue` | is queueing invisible; is memory owned; do waits end | 2 arrays, 2 addresses, 2 values, 2 pending commands, 2 contexts, Metal initialized again |
| `device_owned_memory` (violation) | the same ownership when CUDA is initialized again | as above |
| `device_finalize` (violation) | does finalize wait for the queue | as above, one context |
| `array_transfer` | is every transfer exact | 2 handles, extents 2x1x2, 2x2x1, 2x2x2, 4x1x1 and all windows of windows of them, items of 2 bytes: one and several rows and slices, narrow windows, reshapes between them; handles and memories are symmetric |
| `array_copy` (violation) | does `copyTo` copy everything on CUDA | as above |
| `operations` | are the twelve invariants of `ImagePromises` and its two action properties kept by every operation | 8 triples of arrays: rows, images, volumes, of equal and of broadcast extents, of seven types; radii 0, 1, 2 (no neighbourhood, odd and even steps); loops of 1 and 2 passes (both temporaries of a ping-pong); host values 0 and 2 (nothing found, more than one); every destination; the second call on the result |
| `closing_labels` (violation) | does a closing of radius r erode r times | as above |
| `neighbors_of_neighbors` (violation) | is there a matrix of neighbours of neighbours | as above |
| `matrix_product` | do launches fit and cover, do barriers suffice, is the product complete, does the call end | extents of 2 to 11 that leave a rest in every direction; devices with groups of 1 to 16 and memory for no tile, tiles of 2 or of 4, and a CPU; groups of at most 4 items are run (tiles of 1 and 2, and 4 with four rows per item); larger tiles are left to the proofs |

`CHECK_DEADLOCK FALSE` is set where the system may really stop: a finalized
device, a store of arrays all dropped, a transfer that has been refused and a caller
that has made its second call leave nothing to do under the bounds.

What the passing runs show that is not obvious from the code:

- Concurrent writers of one cache file never leave it damaged once they are done
  (`DamageNeedsAFault`), because each writes all chunks at its own offsets;
  damage takes a crash or a failed write.
- A damaged file never gets a wrong program into memory (`MemoryIsSound`,
  `ServedAsRequested`): CUDA and Metal fail the call instead. OpenCL repairs the
  file on the next build (`OpenCLHeals`); CUDA and Metal do not.
- Skipping the wait after a kernel is invisible to users of arrays
  (`ImplementsArrayStore`) as long as reads and writes block; with a write that
  does not block it is not.
- `bufferLayout` recovers the buffer of any nesting of views (`LayoutExists`),
  although it only sees strides and an offset. A window that was reshaped may be
  refused.
- Transfers are exact (`TransferIsExact`) except in three cases the module names:
  `NarrowRows` (CUDA, windows of buffers one row high with several slices),
  `PackedRegion` (OpenCL, region copies between buffers and images) and
  `SingleRow` (CUDA, buffer to image).

- Whatever is called, no kernel reads unwritten memory, results are complete, and
  reusing a result as destination changes nothing, with the exceptions below.
- The two barriers of the matrix product are both needed and together enough, for
  any tile and any number of rows per item.
- No fallback of the matrix product asks for more than the first configuration, so
  none has to be validated again.

Exceptions to the promises, by the name `ImagePromises` gives them. Some are by
design, some a reader of the code should know of:

| Promise | Exception | Where |
|---|---|---|
| `NothingUnwrittenIsRead` | `ImageWithoutCopy`: an image is created, the copy into it throws, and the fallback samples the image anyway | `transform.cpp:87-106` |
| `ResultIsComplete` | `WritesAPart` without a destination; `NoSlice` | `paste`, `copy_slice` and the like; `reduce_stack` |
| `NothingShowsThrough` | `ReadsItsDestination` | also `write_values_to_positions`, `deconvolve`, `morphological_chan_vese` |
| `ReachesAsFarAsAsked` | `TakesTheWindowForItsHalf`: the kernel is handed `2 * radius + 1`, the size of the window, and reads that far on either side; `tier1.hpp:933` calls the radius the half-size of the window | `kuwahara.cpp:118-120`, loops at 58-63 |
| `OnlyTheDestinationIsWritten` | `RaisesAFlag`, `NormalizationIsCleaned` | wave operations of tier 1; `deconvolve` |
| `RefusedCallWritesNothing` | `WritesBeforeItChecks` | `sato_filter`, `tubeness`, `morphological_chan_vese` |
| `NothingRaces` | `ErodesInPlace` | `closing_labels`, radius 2 and more |
| `ResultIsTheDestination` | `CutOut`, `NothingTouches` | `convolve_fft`, `deconvolve`; `merge_touching_labels` returns its source |
| `OwnResultIsAccepted` | `AlongXOrY` with `keep_dims`, lists of no spots, `NoSlice` | `projections.cpp`, `labelled_spots_to_pointlist` |
| `NothingIsMisread` | `TakesFloatForGranted` | `fft`, `convolve_fft`, `deconvolve`, `pointlist_to_labelled_spots` |
| `ArraysFit` | `NeighborsOfNeighbors`, `NoLabels` | `parametrics_map.cpp`, `statistics.cpp` |

The violation runs are disagreements between the code and its own words; the
`findings` of `PROJECT.json` quote both.

## Fairness

- `KernelBuild`: weak fairness of each process on the steps of a call in
  progress (`Progress`). They are consecutive statements of one function, so the
  operating system's scheduler grants them. Starting a call, faults and
  `SetEnabled` are not fair.
- `DeviceQueue`: weak fairness of `Execute` (a driver works through its queue)
  and of the two returns from a wait (a driver call that waits for an empty queue
  returns when it is empty). No call of the host program is fair.
- `MultiplyMatrix`: weak fairness of taking or refusing a launch, of returning, and
  of the items of a group together: a device runs a group it has started, in any
  order. `Fail` is not fair while a group runs, and a single item is not scheduled
  fairly; the barriers see to it that none is left behind.

## Proofs

All proofs are by TLAPS, for every value of the constants under the named
assumptions of the modules.

- `ProgramCache_proofs`: `TypeOK`, `SizeBounded`, `MapAndListAgree`. The three
  are inductive only together: eviction needs the front of the list to be a key
  of the map, which needs the iterators to be valid, which needs the addresses
  of live nodes to be distinct. `RecentlyUsedIsRetained` and the refinement
  `ImplementsLRU`: the strengthening says that the keys behind a cached key in the
  list are among those used since; the cardinalities then give the bound.
- `KernelBuild_proofs`: `DamageNeedsAFault`, from an invariant that relates the
  cursor of each writer to the chunks its file holds; `MemoryIsSound` and
  `ServedAsRequested`, from one on what a call in its last step has in hand;
  `OpenCLFailsOnlyToSave`, from that one, which says that a hit serves the program of
  the source that was asked for; and `TypeOK`.
- `DeviceQueue_proofs`: `TypeOK`; `LiveMemoryIsOwned` and the refinement
  `ImplementsArrayStore` when no CUDA device is initialized again, the assumption the
  violation run shows to be needed; `HandoverIsComplete` without it. What memory holds
  once the queue has run (`After`) is a recursive function of the queue; what the
  proofs need to know of it - that it holds values, that a command at the end acts on
  the rest, that running the first command changes nothing, that a place no command
  writes keeps its content - is shown by induction over the length. Ownership: what
  anybody points to is in use as long as its context lives, and two who point to one
  place point to the same memory. Handover (`HandoverInv`):
  the commands the consumer waits for leave what it was promised where it reads, and
  none of the later ones writes there. The refinement maps each action to one on
  arrays: executing a command, waiting and synchronizing stutter.
- `ArrayTransfer_proofs`: `LayoutExists`. The strengthening describes an array
  that was not folded as a window of a buffer: its strides are that buffer's, and
  its offset decodes, by a lemma on quotient and remainder, to the window's
  origin.
- `TransferIsExact` and `TypeOK`, in the same module: for buffers and images of any
  extent, windows cut any number of times, any region and any item size, on the three
  backends. `TransferIsExact` relates what moved to the arrays it moved between, which
  a step may make anew, so it needs to know where elements are: `PlacedInv` says that
  the element at a position is found at the array's offset plus the strides times the
  position. A layout that fits seats the array in a buffer with these strides
  (`LayoutSeats`), so that pitches and origins give the same addresses
  (`SeatedCells`); where a backend leaves out a pitch or a dimension, the coordinate it
  would multiply is zero (`DeviceSideExact`); two paths that agree on the addresses of
  both sides move the same pairs in the same order (`PairsInOrder`). The three cases
  `TransferIsExact` excepts, `NarrowRows`, `PackedRegion` and `SingleRow`, are those the
  proof cannot do without.
- `LaunchGeometry_proofs`: the block of any range has 1 to 256 threads, none of them
  beyond the range along an axis (`BlockFits`); the grid covers the range and
  has no block too many (`GridCovers`); so do the rounded ranges of the FFT
  (`ElementsCovered`). All rest on one lemma on division rounded up.
- `MultiplyMatrix_proofs`: `TypeOK`, `EveryLaunchFits`, `EveryElementHasOneItem`,
  `CurrentTileIsRead`, `ProductIsComplete`, for every problem, device and bound.
  None but the second is inductive. The invariant they share: the configuration
  is one of the tuner's, for a tile the device has room for; the items of a group are
  together, no item one barrier ahead of one that is still busy; each item that loads
  has filled the cells it owns up to its step; what an item has summed is the products
  of the tiles before and of the current one up to its step; what is stored is
  complete, and an item that is done has stored all its rows. `CurrentTileIsRead`
  follows because the rows of all items cover a tile (`RowsCover`).
- `Tier0_proofs`: what the device leaves is the queued commands one after the other
  (`FinishedRuns`). `Finished` cuts the queue into stretches, so that TLC does not nest
  one command in the other; the theorem says that this makes no difference, for a queue
  of every length.
- `ImagePromises_proofs`: the promises of `ImagePromises` for the 102 operations that
  are one launch (`Elementary`: expressions of one image or of two that broadcast,
  kernels of the nearest neighbours, neighbourhoods not taken apart into axes), for
  every triple of arrays the caller may hold - any shape, dimension and type - and every
  radius. Ten of the twelve invariants are stated as `[](Launching => P)`, the two action
  properties as `Spec /\ []Launching => P`; `Launching` says which operation was called,
  so nothing is said of the others. The argument follows a call: the destination is
  created, or checked and accepted or refused (`DestinationMade`, and the broadcasting
  of two images); one launch is queued; the device carries it out (`FinishedRuns`); what
  it leaves is a function of the sources, the radius and the destination (`Outcome`).
  The inductive invariant `IInv` says that the machine is untouched, or as one call
  leaves it of arrays that were callable; of a second call, that these are the caller's
  three and the result of the first. It holds after a call whatever the call before
  was, because a second call finds every array written. What it says in terms of the
  call and the machine (`Answers`) was checked with TLC on the instance of run
  `operations` before it was proved. The two action properties compare the outcomes of
  the two calls. How far a launch reads is `HopsOf`: one column, the radius, or, for
  `kuwahara_filter`, `2 * radius + 1`, which is the exception `ReachesAsFarAsAsked` makes
  for it. Of `NothingIsMisread` and `ArraysFit` there is no theorem: an operation that is
  one launch reads nothing to the host and combines no measurements, so for these
  operations they say nothing.

Model-checked only: liveness (`OpenCLHeals`, `HostReturns`, `CallEnds`) and ENABLED,
which are out of the prover's reach; `NothingIsMisread` and `ArraysFit`; and the
promises of `ImagePromises` for the operations that are not in `Elementary`: copies and regions,
whose result has extents of its own, filters over `execute_separable`, chains of several
launches, and loops whose passes depend on data. Each takes a proof of its own chain of
arrays and commands. The induction theorems of the library take an operator and cannot
be used; where a proof needs induction over a length it takes the least element of the
set of lengths that fail.

## Assumptions on what is outside the repository

- OpenCL queues are in order and retain the memory their commands use; blocking
  reads and writes return after all earlier commands.
- CUDA streams of a device are blocking streams, ordered with the legacy stream
  copies and fills run on; `cuMemFree` waits for issued commands; destroying a
  stream or a context may drop them.
- A driver accepts a program text exactly when it is whole, and its compiler
  accepts a fixed set of sources.
- A pitch of zero means tightly packed.
- Destroying a C++ stream flushes it and swallows errors.
- A kernel of the submodule reads and writes the arrays it is given: elementwise ones
  at the work item's position, stencils one element around it, the others as far as
  their radius says. Its text is not there to compare; that of the kernels in the
  repository is, and the model follows it.
- Hosts are little-endian: an unsigned element that is read into a wider variable which
  was zero before keeps its value (`maximum_position`, `minimum_position`).
- VkFFT reads and writes the whole of its arrays, with the extents of the real one.
- Operands of a matrix product have agreeing extents; the code warns and goes on.

An OpenCL device is never initialized again in the model: `finalize` resets
`clResources`, which `initialize` dereferences, so the call has no defined
behaviour from there on.

## Not modelled

- Values of pixels, matrices and statistics; the arithmetic in kernels, defines and
  their translation; driver queries. The branches that depend on them are parameters.
- Backend manager and discovery: a pointer that is replaced, and lists from the
  driver. Calls on memory of a backend that was replaced have no defined behaviour.
- DLPack import and export beyond the lifetime of the memory.
- Plan files of VkFFT and the lifetime of a plan: their content and the wait for the
  queue are VkFFT's. The code ignores the result of reading a plan file and writes to
  a file that may not have opened (`fft.cpp:111-137`), and the key of a file is the
  shape alone.
- Programs of a device that is finalized and initialized again.

Seen while modelling, outside what the modules tell apart:

- `remove_labels_on_edges` asks for the extent where the axis is meant.
- `compute_statistics_per_labels` throws on an image without labels.
- `sum_reduction_x` drops the last block when it is not whole.
- `sub_stack` asks for a width and height of 0, which the array turns into 1.
- `apply_binary_math` launches over the extents of the source.
- Parameters of type `unsigned` and `size_t` are accepted by `marshalParameters`
  and make `arrayDefines` throw (`execution.cpp:143`).
- `fft.hpp:25-29` speaks of powers of two; `next_smooth` gives 2-3-5-7-smooth numbers.

## Plan

1. Proofs about the operations over `execute_separable` (three launches and two
   temporaries), then about chains of two launches and about copies and regions. The
   lemmas on destinations, launches and outcomes of `ImagePromises_proofs` are made
   for one command in the queue; a chain needs them for a queue and for temporaries.
2. A module of a device and its program cache across finalize and initialize.
3. Tensor ownership across `toDLPack` and `fromDLPack`.
