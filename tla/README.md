# Formal models of libbacktrace

This directory holds TLA+ specifications of parts of libbacktrace, the TLC
configurations that model-check them, and TLAPS proofs of some of their
properties. The source they describe is under `../src`:

| file | what it is |
|---|---|
| `src/unnamed/part_002` | `pecoff.c`: the PE/COFF reader |
| `src/unnamed/part_000` | `macho.c`: the Mach-O reader |
| `src/sort.c` | `backtrace_qsort` |
| `src/config.h.cmake` | the configuration defines (lines 1-79), then most of `elf.c`: the ELF reader, its debug-file resolver, the zlib inflater and the XZ/LZMA2 decoder |
| `src/Utils.cmake`, `src/unnamed/part_003`, `src/unnamed/part_001`, `src/redirect-debuginfo.bash` | build helpers, the CMake package config, the allocfail PowerShell test, a launch script |

## 1. The system

libbacktrace turns program counters into function, file and line. A
`backtrace_state` holds two function pointers, filled by the format reader
when the state is first used: `syminfo_fn` (symbol lookup) and `fileline_fn`
(DWARF line lookup). It also holds the list of symbol tables read so far.

* **Container readers.** There is one per object format: `coff_add`, `elf_add`
  and Mach-O's `backtrace_initialize`. Each maps views of the executable's
  headers and sections. The PE/COFF and ELF readers also build a sorted
  symbol table and append it to the state's list; the Mach-O reader reads
  no symbol table. It follows links to separate debug files by calling
  itself on them: `.gnu_debuglink` and `.gnu_debugaltlink` for PE/COFF and
  ELF, build-id for ELF, dSYM bundles for Mach-O. Finally it hands one view
  of the DWARF sections to the DWARF reader, which keeps it forever. Every
  other view must be released, and every descriptor closed exactly once, on
  every path: success, fallback and failure.
* **Debug-file resolvers.** These probe directories for a named file, check
  a CRC, and return a descriptor or -1.
* **Symbol registry.** Symbol tables are appended to a singly linked list,
  with a compare-and-swap loop when the state is threaded. Lookups
  binary-search each table.
* **backtrace_qsort.** A Shell sort that sorts the symbol tables and the DWARF
  address ranges. It does not allocate, so it is safe in signal handlers.
* **Decompressors.** zlib (for `.zdebug` sections) and XZ (for
  `.gnu_debugdata`) decode into buffers the ELF reader then parses.
* **backtrace_initialize.** This drives the reader for the executable and
  then installs `syminfo_fn`. It chooses the reader's symbol lookup if
  symbols were found, and the "no symbols" function if nothing is installed
  yet. It also installs the `fileline_fn` the reader produced.

How they interact: a container reader calls the resolver, itself (on the
debug file), the symbol-table builder, `backtrace_qsort`, the registry and
the DWARF reader. The readers share `*found_sym`, `*found_dwarf` and
`*fileline_fn` with their recursive calls through pointers.
`backtrace_initialize` reads these after the outermost call returns. The
hard behaviours are the recursion on debug files, with its shared flags, and
the cleanup of views and descriptors across several exit paths and failure
points. Concurrency comes in only with a threaded state: registry appends,
`syminfo_fn` stores, and the Windows DLL notification.

## 2. Inventory: what is modelled

| component | module | status |
|---|---|---|
| `coff_add` and `backtrace_initialize` (pecoff.c) | `CoffAdd` | partly: every path of `coff_add`; not the Windows module loop |
| PE/COFF debug-file resolver | `CoffAdd` | partly: by outcome (not found / opened / CRC rejected) |
| PE/COFF symbol table and registry | `CoffAdd`, `CoffRegistry`, `SymbolRegistry` | partly: the threaded CAS append, walk and `syminfo_fn` update; not the table's construction or bsearch |
| `dll_notification` | `CoffRegistry` | modelled |
| `backtrace_qsort` (sort.c) | `BacktraceQsort` | modelled |
| Mach-O reader | `MachoAdd`, `MachoBase` | partly: the dSYM search lifecycle and `macho_get_base`; UUID and section scans by outcome |
| ELF reader and resolver | none | not modelled |
| zlib, XZ, CRC | none | not modelled: pure bit-level algorithms on byte streams |
| build and test scripts | none | not modelled: no run-time state |

`PROJECT.json` lists every component with the reason for its status. It also
lists every hazard found in the code, with the properties that cover it, or a
note saying why none does yet.

## 3. The modules

### CoffAdd (pecoff.c, `coff_add`, lines 905-1373, and `backtrace_initialize`, 1426-1553)

**State.**
- `stack` is the chain of active `coff_add` calls, innermost last. Each frame
  is a record of the locals that decide the cleanup: the `*_view_valid`
  flags, as view numbers (0 = not valid), `descriptor` (`fd`, plus `desc` for
  "not yet set to -1"), whether `debuglink_name` and `debugaltlink_name` are
  set, the view holding this call's filename argument, and the child
  descriptor `d`.
- `views` records every view obtained, in order, with its kind and its
  release count. `fds` records every descriptor opened, with its file and its
  close count.
- `foundSym`, `foundDwarf` and `fileline` are the pointers shared by all
  levels of the recursion.
- `shards` is the list of symbol tables appended to `state->syminfo_data`.
  `dwarfViews` holds the views given to `backtrace_dwarf_add`.
- `syminfoFn` and `phase` are `backtrace_initialize`'s part.

**Files.** A file is a model value. Its description (`FileDesc`) gives what
`coff_add` can tell about it: the PE magic, an optional-header magic, the
symbol table (none, invalid, valid), where `.gnu_debuglink` and
`.gnu_debugaltlink` lead, how the recorded CRC compares, and whether it has
debug sections. The file system is fixed for a behaviour and chosen from
`FileSystems`.

**Actions.** There is one action per stretch of `coff_add` between two
decisions, each covering the view calls, checks and gotos of its lines:
`GetFileHeader`, `GetSections`, `GetSymtab`, `GetDebuglink`,
`GetDebugaltlink`, `AddSyminfo`, `TryDebuglink`/`AfterDebuglink`,
`TryDebugaltlink`/`AfterDebugaltlink`, `GetDebugView`, `DwarfAdd` and
`Fail`. `FinishInitialize` is `backtrace_initialize` after the call.

The recursive call is `Call`: it pushes a frame and records `d` in the
caller, and the callee's clearing of `*found_sym` and `*found_dwarf` happens
in the same step. `Return` pops a frame. The debug-file resolver
appears as three outcomes. `DebugfileNotFound` means no file was found, or an
allocation or open failed. `DebugfileOpened` means the file opened and the
CRC matched or was absent. `DebugfileCrcRejected` means the file opened but
the CRC differed, or `coff_crc32_file` failed; the descriptor is closed.

**Failures.** `Faults` lists the environment failures a run allows: a view,
an allocation, an open, a close, or `backtrace_dwarf_add` failing. Each is
allowed exactly where the code tests for it.

**Abstractions.**
- File contents are reduced to `FileDesc`.
- The section-name matching loop is reduced to whether the sections exist.
- A `.gnu_debuglink` section too short to hold a CRC (view mapped, no name
  set) is not represented.
- Error callbacks and messages are left out.

### BacktraceQsort (sort.c, lines 45-86)

**State.** `arr` holds the array as a function on `0 .. count-1`, as in C.
`dist`, `i` and `cur` are the loop variables; `cur` is an element index that
goes below 0 where the code forms a pointer below `base`. `pc` is the loop
position, and `input` holds the array as given.

**Actions.** `Start` is the `count < 2` return and `dist = count`. `NewPass`
computes `(dist / 8 * 3) | 1`, written with `\div` and an odd/even test.
`NextElement` starts an element. `InnerCompare` breaks, or swaps and moves
the cursor down. `InnerExit` fires when the cursor passes `base`. `EndPass`
is the `while (dist != 1)` test.

**Reference.** `SortedOf(a)` defines the sorted permutation with no
algorithm: position `j` holds the value `v` with fewer than `j+1` elements
below it and at least `j+1` elements at most it.

### CoffRegistry (pecoff.c, `coff_add_syminfo_data` 805-827, `coff_syminfo` 854-899, `dll_notification` 1384-1421, `backtrace_initialize` 1446-1536)

This module covers the threaded state, where several OS threads share one
`backtrace_state`. Its CONSTANTS are three disjoint sets of threads:
- `Inits` run `backtrace_initialize`;
- `Dlls` are loader threads that call `dll_notification`;
- `Readers` run `coff_syminfo`.

`Addrs` is the set of addresses looked up.

**State.**
- `list` is `state->syminfo_data`, oldest table first. Tables are only ever
  linked, never unlinked, so a node is named by its position. A pointer `pp`
  is a position `k`: 0 is `&state->syminfo_data`, and `k` is the `next` field
  of `list[k]`. `Load(k)` is the atomic load of `*pp`: `list[k+1]`, or `NULL`
  past the end.
- `pp[t]` and `pc[t]` are each thread's pointer and program position.
- `syminfoFn` and `registered` are shared: `registered` says
  `LdrRegisterDllNotification` has succeeded.
- `found`, `cover` and `addr` are the inputs, chosen in `Init`:
  - whether an initializer's `coff_add` found symbols;
  - the addresses each table covers (its `bsearch` hits);
  - each reader's address.

**Actions.**
- `AddLoad` is one iteration of the inner walk (813-823).
- `AddCas` is the compare-and-swap at 825. When it fails, the outer loop
  restarts the walk from the head (807-811).
- `Register` is the registration block (1493-1519). Finding the function or
  allocating the context may fail.
- `SetFn` is the threaded `syminfo_fn` update (1529-1536).
- `DllStart` is a loader notification after registration. It either returns
  early (1401-1415) or goes on to the append of its `coff_add` (1417).
- `ReadLoad` is one iteration of `coff_syminfo`'s threaded walk (879-893):
  - the end of the list;
  - a table that covers the address;
  - a miss, which moves on to the next table.

**Abstract specification.** `SymbolRegistry` states what the registry
promises: every append and every lookup is atomic, and a lookup returns the
first table that covers the address (`FirstCover`). `CoffRegistry` maps onto
it by `Abs == INSTANCE SymbolRegistry WITH pc <- AbsPc`, where `AbsPc`
folds `add_load`/`add_cas` into `append` and `r_load` into `lookup`. Each
step is mapped as follows:
- a successful CAS is the atomic append;
- the walk step that ends a lookup is the atomic lookup;
- every other walk step is a stutter.

**Abstractions.**
- A symbol table is the set of addresses it covers.
- Each initializer appends at most one table. The module snapshot loop
  (1454-1491) repeats the same CAS append.
- The early `return 0` when `coff_add` fails (1451) is not represented: an
  initializer that found nothing goes on to registration, which covers the
  same shared-state effects.

### MachoAdd (macho.c, `macho_get_commands` 111-184, `macho_try_dwarf` 319-568, `macho_try_dsym` 571-615, `backtrace_initialize` 618-739)

These are three nested functions with no recursion. Each keeps its locals in
variables of its own: `iCmd`/`iDir`/`iEntry`, `dDir`/`dEntry`/`dRet` and
`wFd`/`wFdValid`/`wCmd`/`wView`/`wRet`. A single `pc` walks through them.

**Resources.** `views`, `fds` and `dirs` number the views, descriptors and
`DIR`s in the order they are obtained, and count their releases and closes.
Descriptor 1 is the executable's, which the caller opened. `badCloses`
counts calls of `backtrace_close(-1)`.

**Environment.** This is fixed per behaviour:
- `exe` says whether the magic is known, whether the image is identified
  (UUID, `__TEXT` and a dyld entry all found), and whether its directory
  opens;
- `bundles` is the directory beside the executable. Each entry is either
  something else or a `*.dSYM` bundle. A bundle has a DWARF directory that
  may fail to open, holding up to `MaxFiles` entries.

A DWARF file (`DwarfFiles`) is described by whether it opens, its magic, its
UUID (`match`, `other` or `none`) and its `__DWARF` sections (`present`,
`truncated` or `none`).

**Actions.** `GetCommands` gives the outcomes of `macho_get_commands`:
- the header view fails;
- the magic is unknown;
- the commands view fails;
- success.

Each of its callers, `InitCommands` and `DwarfCommands`, picks one outcome.
The other actions are one per stretch between the gotos:
- `InitOpenDir`, `InitLoop`, `InitEnd`;
- `DsymOpenDir`, `DsymLoop`, `DsymEnd`;
- `DwarfOpen`, `DwarfUuid`, `DwarfSections`, `DwarfView`, `DwarfAdd`,
  `DwarfEnd`.

A callee's end action also performs its caller's test of the result.
`DwarfOpen` translates the `== 0` test of line 336 as written, so a failed
open yields descriptor -1, marked valid. `DwarfAdd` clears
`dwarf_descriptor_valid` as line 555 does.

**Failures.** `Faults` may contain `view` (any `backtrace_get_view` fails)
and `dwarf` (`backtrace_dwarf_add` fails).

### MachoBase (macho.c, `macho_get_base`, 238-316)

The loop over load commands. It reads at byte offsets with the real struct
sizes: 8 for `load_command`, 56 for `segment_command`, 72 for
`segment_command_64`.

- `HeaderTruncated` and `SegmentTruncated` are the size checks.
- `FoundText` returns the base.
- `Advance` moves `offset` by the command's size.
- `NoText` ends the loop.

`lastRead` is one past the last byte the step read.

The `LC_SEGMENT_64` branch reads through `struct segment_command` (line
296). On a little-endian host this takes the low half of `vmaddr` as
`vmaddr`, and the low half of `vmsize` as `fileoff`, which is what
`BaseRead` computes. Words are `W` bits wide, so `uint64_t` arithmetic is
modulo `2^W`. TLC's integers cannot hold 2^64, so the runs use `W = 8`, and
the bug has the same shape at any even width. Files are in host byte order.

## 4. Runs

| run | cfg | expect | checks |
|---|---|---|---|
| `coffadd_lifecycle` | `MC_CoffAdd.cfg` | pass | `TypeOK`, `DescriptorClosedOnReturn`, `TransientViewsReleased`, `RegisteredDwarfViewLive`, `SuccessSetsFileline` |
| `coffadd_double_close` | `MC_CoffAdd_NoDoubleClose.cfg` | violation | `NoDoubleClose` |
| `coffadd_filename_after_release` | `MC_CoffAdd_FilenameReadable.cfg` | violation | `FilenameReadable` |
| `coffadd_double_release` | `MC_CoffAdd_NoDoubleRelease.cfg` | violation | `NoDoubleRelease` |
| `coffadd_symbols_lost` | `MC_CoffAdd_SymbolsReachable.cfg` | violation | `SymbolsReachable` |
| `qsort_correct` | `MC_BacktraceQsort.cfg` | pass | `TypeOK`, `SortsInput`, `AccessesInBounds`, `Terminates` |
| `registry_lifecycle` | `MC_CoffRegistry.cfg` | pass | `TypeOK`, `ShardsPublished`, `SyminfoMatchesInits`, `Terminates`, `Refines` |
| `registry_symbols_unreachable` | `MC_CoffRegistry_SymbolsReachable.cfg` | violation | `SymbolsReachable` |
| `macho_lifecycle` | `MC_MachoAdd.cfg` | pass | `TypeOK`, `TransientViewsReleased`, `DirsClosed`, `DwarfFromMatchingDsym` |
| `macho_dwarf_view_released` | `MC_MachoAdd_RegisteredDwarfViewLive.cfg` | violation | `RegisteredDwarfViewLive` |
| `macho_base_bounds` | `MC_MachoBase.cfg` | pass | `TypeOK`, `ReadsInBounds` |
| `macho_base_segment64` | `MC_MachoBase_BaseIsVmaddrMinusFileoff.cfg` | violation | `BaseIsVmaddrMinusFileoff` |

**What the passing CoffAdd run shows.** Over every file system of two files
(the executable `P` and a debug file `D`) and every failure kind:
- every descriptor no active call holds has been closed, as the comment at
  line 903 promises;
- a live section-header or symbol view always belongs to an active call;
- the DWARF view is never released;
- a successful `backtrace_initialize` never installs an unset
  `coff_fileline_fn`.

The file systems cover every combination of the `FileDesc` fields for `P`,
with `P`'s links leading to `D` or nowhere, and `D` without links: 2592
initial states and 71,896 reachable states. Two files are enough for every
path of one recursion level: a debug file that succeeds, fails, lacks
symbols or lacks DWARF, behind either link or both. A deeper chain repeats
the same frame logic. Cyclic links are excluded because they make the
recursion unbounded (see the hazards in `PROJECT.json`).

**The four violation runs** use the same file systems with no environment
failure at all. Each finds a real defect reached by an ordinary debug-file
layout; `PROJECT.json` ("findings") states them with their lines:
- **Double close.** When a `.gnu_debuglink` file fails to parse, its
  descriptor is closed by the inner call and again by the caller (line 1234).
- **Use after release.** `debuglink_name` points into a view that is released
  (1213) before the name is passed to the recursive call (1221).
  `debugaltlink_name` is likewise read at 1256 after its view is released at
  1215.
- **Double release.** The debuglink-failed-then-altlink path releases the
  link views a second time (1264-1266).
- **Lost symbols.** The recursive call clears `*found_sym` (949), so
  symbols the outer call registered are lost when the debug file fails to
  parse (TLC's trace) or has no symbols: `coff_nosyms` is installed instead.

**Not checked by a run.**
- A failed `backtrace_close` (1317, 1330) jumps to `fail` with
  `descriptor` still set, so 1371 closes it a second time. The model takes
  this path (the passing run enables close failures, and `fds` counts every
  close), but the passing run checks only that each descriptor is closed at
  least once. `NoDoubleClose` would catch it; it is already violated
  without any failure (the double close above), so it is checked only in
  that fault-free violation run.
- The symbol table linked at 1190 keeps pointers into `str_view`, but
  `str_view_valid` stays set. When a later step fails (the debug view, the
  close at 1330, `backtrace_dwarf_add`), `fail` releases `str_view` (1364)
  while the registered table still points into it. `CoffAdd` records a
  registered table by its file only, not by the view it points into, so no
  property states this yet.

**The sort run** covers every array of up to 9 elements over 3 values:
29,524 inputs and about 1.1 million states. Nine elements give the gap
sequence 3, 1, so a gapped pass precedes the final insertion pass. Smaller
counts start at gap 1. Three values are enough to include equal keys (the
`<= 0` break) and strictly ordered ones.

**The registry run** has two initializers, one DLL notification thread
and one reader, with two addresses: 512 initial states and 242,816
reachable ones. Two initializers are the least that race on the CAS and on
`syminfo_fn`. The DLL thread adds a third appender, which starts only after
registration. The reader then walks a list that grows under it. A second
reader only multiplies the interleavings (the run takes 13 minutes with
two), because readers do not write. The run checks four things:
- no table whose append returned is lost (`ShardsPublished`);
- once every initializer has returned, `syminfo_fn` is `coff_syminfo` if
  any of them found symbols and `coff_nosyms` otherwise
  (`SyminfoMatchesInits`). This is a property of the race between the
  atomic store (1531) and the CAS from `NULL` (1534): a plain store of
  `coff_nosyms` lets a later initializer without symbols hide an earlier
  one's;
- every thread that starts returns (`Terminates`);
- the whole implements `SymbolRegistry` (`Refines`). In particular, a
  lookup that overlaps appends returns what an atomic lookup at some instant
  would return.

**Its violation run.** `dll_notification` appends the DLL's table but
never touches `syminfo_fn`. If the initializers found no symbols, the table
is never searched. In TLC's trace both initializers install `coff_nosyms`,
then the DLL's table is appended.

**Not checked by a run: list order.** New tables are linked at the tail
(825), while spec section 4.8 says writers insert at the head. This only
decides which of two covering tables a lookup returns (the oldest), which
`SymbolRegistry` states as it is.

**The Mach-O run** covers:
- up to two entries beside the executable, each another name or a `*.dSYM`
  bundle;
- up to two entries in each DWARF directory;
- every `DwarfFiles` variant;
- every executable outcome;
- view and registration failures.

That gives 103,064 initial states and 5.6 million reachable ones. Two
entries at each level are the least that show a rejected candidate followed
by an accepted one, in both loops, and the early exit of both loops after a
success. The run checks that:
- every view except a registered DWARF view is released exactly once;
- every directory is closed once;
- at most one DWARF view is registered, and only from a file with a matching
  UUID.

**Its violation run.** Line 555 clears `dwarf_descriptor_valid` where the
comment says the view is meant. So the DWARF view is released (566) while
the DWARF reader still points into it, and the dSYM's descriptor is left
open.

**Not checked by a run: descriptors.** These are two defects the model
reproduces and no kept run checks:
- A dSYM file that fails to open is taken as open, because of the `== 0`
  test at 336 (`backtrace_open` returns -1). The end label then calls
  `backtrace_close(-1)`. An invariant `badCloses = 0` is violated in 8
  steps.
- `backtrace_initialize` never closes the descriptor it was given.
  `CoffAdd` and the ELF reader close theirs, and spec section 3 says
  descriptors are released once the module is built, so this is most likely
  a leak. The caller is not under `src/`.

**The `macho_get_base` run** uses up to two load commands and sizeofcmds
from 4 bytes up to room for two 64-bit segments. This covers both truncation
checks and the "no __TEXT" exit. Every byte read lies inside sizeofcmds. The
violation run finds that a 64-bit `__TEXT` segment yields the wrong base:
the 32-bit struct takes the low half of `vmaddr`, and reads the low half of
`vmsize` as `fileoff`, so a usual executable (`vmaddr` 0x100000000,
`fileoff` 0) gets `0 - vmsize` instead of 0x100000000.

## 5. Fairness

`BacktraceQsort` has `WF_vars(Next)`. The sort runs in its caller's thread,
holds no lock and waits for nothing, so it keeps taking steps until it
returns.

`CoffRegistry` and `SymbolRegistry` have `WF_vars(Step(t))` for each thread
`t`. They are OS threads, and none of them blocks: the walks and the CAS loop
never wait. The fairness is per thread, so a thread whose CAS keeps failing
cannot be excused by other threads' progress. `Terminates` holds because
each failed CAS means another table was appended, and each appender appends
at most once. A DLL thread that was never registered waits forever, which is
why `Terminates` only speaks of threads that have left `wait`.

`CoffAdd`, `MachoAdd` and `MachoBase` check only safety and have no
fairness condition.

Every passing run sets `CHECK_DEADLOCK FALSE`. Their final states are the
functions having returned, or, for the registry, a DLL notification that is
never delivered. In these states nothing remains to happen.

## 6. Proofs

The proofs are checked by TLAPS (`tlapm`), for all values of the constants.

* **`CoffAdd_proofs.TypeCorrect`: `Spec => []TypeOK`.** The assumption is
  `ConstantsAssumption`: `Primary` is a file, `None` is not, the file
  systems are functions to `FileDesc`, and `Faults` are failure kinds.
  `TypeOK` is inductive as it stands, so the proof has one lemma per action,
  each showing that the action keeps `TypeOK`. These rest on lemmas about
  the helpers: replacing the innermost frame, popping it, pushing a new
  frame (`CallStep`), obtaining and releasing views, and opening and closing
  descriptors. The set of reachable states is infinite here: the file set,
  the file systems and the failures are arbitrary.
* **`BacktraceQsort_proofs.BoundsSafe`: `Spec => []AccessesInBounds`.** The
  assumption is `SortAssumption`: values are integers and `MaxCount` is a
  natural number. `AccessesInBounds` alone is not inductive: it is silent
  outside the inner loop, yet the next `NextElement` turns `i` into the
  cursor. The inductive invariant `IInv` adds that, inside the inner loop,
  `i < count` and `cur + dist <= i`. `NextElement` establishes this, the swap
  branch keeps it (the cursor only moves down), and `GapNat` keeps `dist` a
  natural number. `IInv` then implies that both compared indices lie in
  `0 .. count-1`.
* **`BacktraceQsort_sort_proofs`**, from the same assumption:
  - **`TypeCorrect`: `Spec => []TypeOK`.** `TypeOK` is not inductive by
    itself: it bounds `i` and `cur` by `MaxCount` but says nothing that keeps
    them there. The strengthening `TInv` is `TypeOK /\ IInv /\ Bounds`.
    `Bounds` says that a pass's gap is at most `count`, that the outer
    index starts at the gap and never passes `count`, and that inside the
    inner loop the cursor is at most one gap below `base`. `GapRange` shows
    that `(d / 8 * 3) | 1` lies in `1 .. d` for every positive `d`, which
    is the `| 1` of line 76 at work. `SwapType` shows that a swap keeps the
    array over `Vals`.
  - **`SortCorrect`: `Spec => []SortsInput`.** This is the sort's full
    correctness, for every array length and every set of integer values.
    The inductive invariant `SInv` is `TInv /\ Perm /\ InsertInv`.
    `Perm`: for every threshold `v`, `arr` has as many elements below `v`,
    and at or below `v`, as `input`. `SwapCard` and `SwapCounts` show that a
    swap keeps every such count. Their proofs use `FS_RemoveElement` and
    `FS_AddElement` of the library's `FiniteSetTheorems`.
    `InsertInv` covers only the last pass (`dist = 1`), which is an
    insertion sort:
    - between elements, `0 .. i-1` is sorted;
    - in the inner loop (`Inserting`), the other elements of `0 .. i` are
      in order, and the moving element at `cur + 1` is no greater than any
      element above it;
    - once the sort is done, the whole array is sorted.
    `InsertBegin`, `InsertSwap` and `InsertEnd` prove the three inner-loop
    steps on a generic array. The earlier passes need no claim beyond
    `Perm`, because the last pass sorts whatever it is given.
    `SortedIsSortedOf` closes the argument: a sorted array with the
    input's counts equals `SortedOf(input)`, by counting (`FS_Subset`,
    `FS_Interval`). `SInv` was first checked by TLC on the run's constants
    (`MaxCount` 9, 1,096,778 states; `Perm` tested at thresholds 0-4).

* **`CoffRegistry_proofs`.** The assumption is `RegistryAssumption`: the
  three sets of threads are disjoint, and no appender's table is named
  `"NULL"` (a table is a non-NULL pointer, and the model's `Load` returns
  `"NULL"` for the end of the list; without this a table named `"NULL"`
  would end a walk early). The theorems hold for any number of
  threads, addresses and tables. `ShardsPublished` is not inductive, so the
  inductive invariant `IInv` strengthens it with:
  - each thread kind's possible `pc` values;
  - every pointer within the list (`pp[t] <= Len(list)`);
  - for a reader still walking, no table it has passed covers its address.

  The proof has one lemma per action. A generic `WalkStep` lemma covers
  every step that only moves a pointer. The key case is the CAS: it appends
  only when `Load(pp[t])` is `NULL`, that is, when `pp[t]` is the tail, so
  the list only grows. Earlier tables stay where they were, which keeps
  `ShardsPublished` and the readers' "passed" conjunct. The theorems are:
  - **`TypeCorrect`: `Spec => []TypeOK`**, a conjunct of `IInv`.
  - **`NoTableLost`: `Spec => []ShardsPublished`.**
  - **`InitsAgree`: `Spec => []SyminfoMatchesInits`.** The property says
    nothing until the last initializer returns, so it is not inductive: by
    then the earlier initializers' stores must already be accounted for.
    `FnInv` does that for every state: an initializer that returned with
    symbols has left `coff_syminfo`; one that returned at all has left a
    function other than `NULL`; and `coff_syminfo` is there only if some
    initializer returned with symbols. Only `SetFn` writes `syminfo_fn` or
    returns an initializer (lemma `OtherStepFn`). With symbols it stores
    `coff_syminfo`; without, it writes `coff_nosyms` only over `NULL`, so
    each conjunct survives (`SetFnFnInv`). `FnInv` was first checked by TLC
    as an invariant of the `MC_CoffRegistry.cfg` instance.
  - **`Implementation`: `Spec => Abs!SafetySpec`.** Initial states map to
    initial states (`InitRefines`), and every step maps to an abstract step
    or a stutter (`StepRefines`). A walk step that ends a lookup is an
    atomic `Lookup` because of the "passed" conjunct of `IInv`: the table
    found is then the first covering one (`FirstCover`, lemma
    `FirstCoverAt`). A miss, and an `AddLoad`, are stutters under `AbsPc`.

* **`MachoBase_proofs.InBounds`: `Spec => []ReadsInBounds`.** The proof
  uses one part of `BaseAssumption`: sizeofcmds values are natural numbers.
  It holds for every word width, every command sequence and every
  sizeofcmds. `IInv` adds the types of `cmds`, `offset` and `lastRead`,
  which makes `ReadsInBounds` inductive. In each branch the bytes read
  (`Fields32End`, `SegnameEnd`, `LoadCommandSize`) lie within the struct
  size the branch has just checked (lemma `CmdFacts`).
  `TypeOK` is only model-checked for `MachoBase`: the base is a
  difference taken modulo `2^W`, so its range follows from `BaseRead`'s
  `%` whatever the code does, and a proof of it would show nothing about
  `macho_get_base`.
* **`MachoAdd_proofs`.** The assumption is `MachoAssumption`. The theorems
  hold for every number of bundles and files and every set of faults:
  - **`TypeCorrect`: `Spec => []TypeOK`**;
  - **`ViewsReleasedOnReturn`: `Spec => []TransientViewsReleased`**;
  - **`DirsClosedOnReturn`: `Spec => []DirsClosed`**;
  - **`OneMatchingDwarf`: `Spec => []DwarfFromMatchingDsym`**.

  None of them is inductive alone. Each says something about the return,
  and what makes it true there is a fact about every earlier step: which
  local holds which view or directory. The inductive invariant `IInv`
  therefore has eight parts:
  - `TypeInv`: types, with each numbered local within its sequence;
  - `ResetInv`: a local is 0 until its function has obtained its handle;
  - `KindInv`: a commands local names a commands view, and the DWARF local
    names a DWARF view;
  - `CandidateInv`: the file `macho_try_dwarf` works on is a regular entry
    of the current bundle, and it matches once past the UUID test;
  - `DistinctInv`: the handles the running functions hold are distinct;
  - `DirsInv`: a directory is closed once exactly when it is not open
    (`IsOpen`);
  - `ViewsInv`: a view is released once exactly when no local holds it
    (`IsHeld`);
  - `RegisteredInv`: at most one view is registered, it maps a matching
    file, and after registration every function returns success.

  At the return nothing is held or open, so `ViewsInv` and `DirsInv` give
  the two lifecycle properties. `DistinctInv` rules out a double release.
  The proof has one lemma per action, and in each one a step per part.
  Lemmas `DirsKept`, `ViewsKept` and `DwarfStepKept` cover the steps that
  only append a new handle. `IInv` was first checked by TLC as an
  invariant, with two bundles, two files and the view and DWARF faults.

* **`CoffAdd_lifecycle_proofs`.** The assumption is again
  `ConstantsAssumption`. The theorems hold for every set of files, every
  file system (any chain of debuglink and debugaltlink targets, any CRC
  outcome) and every set of environment failures, so for recursions of any
  depth:
  - **`DescriptorsClosed`: `Spec => []DescriptorClosedOnReturn`**;
  - **`TransientViewsFreed`: `Spec => []TransientViewsReleased`**;
  - **`DwarfViewsKept`: `Spec => []RegisteredDwarfViewLive`**;
  - **`FilelineSet`: `Spec => []SuccessSetsFileline`**.

  None of the four is inductive: each speaks of calls that have returned.
  What makes it true is a fact about the frames still on the stack. The
  inductive invariant `IInv` adds these parts to `TypeOK`:
  - `RetFileline`: `ret = 1` implies `fileline` is set. Only the returns
    that set `fileline_fn`, and `AfterDebuglink` passing on a 1 it
    received, return 1.
  - `FdsHeld`: each frame's descriptor has been opened, and is closed once
    the frame clears `descriptor_valid` (the DWARF-failure branch).
  - `LocalsInRange` and `LocalsOrdered`: a frame's view locals name views
    already obtained, and a caller's views are all older than its
    callees'. So a view a callee obtains is never a local of a caller, and
    a callee's fail path cannot release a caller's view.
  - `TransientCleared`: past `AddSyminfo` a frame holds no section or
    symbol view.
  - `SymsUnset` (per frame, `EarlyFrame`): `sects` is 0 before
    `GetSections`, and `syms` is 0 before `GetSymtab`. `syms` stays 0 for a
    file with no symbol table, which is why `AddSyminfo`'s "no symbols"
    branch has only the section view to release.
  - `DwarfUnheld` and `DbgLive`: a registered view is a view that no frame
    names; a frame at `DwarfAdd` holds its live debug view. So the return
    that registers it leaves no frame that could release it.

  Every step changes the stack in one of three ways: it replaces the
  innermost frame, pops it, or pushes a callee (`Call`). For each shape, a
  step hypothesis (`TopStepHyp`, `PopStepHyp`, `PushStepHyp`) lists what
  the step does to the descriptors, the views and the locals, and lemmas
  show that any step meeting it keeps `IInv` (`TopIInv`, `PopIInv`,
  `PushIInv`). The lemma for each action then shows that each branch of
  the action meets the hypothesis of its shape. The lemmas on stack shapes
  cite `SubSeqProperties` from the library's `SequenceTheorems`. `IInv`
  was first checked by TLC as an invariant on the instance of
  `MC_CoffAdd.cfg` (71,896 states).

**Left to TLC.**
- `Terminates` (qsort and registry), and the fairness part of `Refines`,
  because liveness is out of the prover's reach.

## 7. Not modelled, and why

* **The Windows module loop (1454-1491).** Each module it finds goes through
  `coff_add` and the same CAS append as the executable. `CoffRegistry` gives
  each initializer one append. `CoffAdd` covers `coff_add` itself.
* **The unthreaded branches of `coff_add_syminfo_data` and `coff_syminfo`.**
  They are the same walk without atomics. With one thread, the threaded
  model's behaviours include theirs.
* **`coff_initialize_syminfo` and `coff_symbol_search`.** A table is reduced
  to the set of addresses it covers.
* **`macho_get_uuid` and the `__DWARF` section scan (355-520).** These are
  modelled by their outcomes. The scan's size checks are the same as
  `macho_get_base`'s, which `MachoBase` models at byte level. Byte-swapped
  Mach-O files are not modelled.
* **The ELF reader.** It has the same shape as `CoffAdd` (recursion on debug
  files, view and descriptor cleanup), plus build-id and minidebuginfo.
  Modelling it is the largest remaining piece of work.
* **zlib, XZ and CRC.** These are bit-level algorithms on byte streams. Whole
  streams are beyond TLC, so only small kernels (Huffman table construction,
  the dictionary ring buffer) are candidates.
* **The build and test scripts.** They have no run-time state.

## 8. Further work

1. **`ElfAdd`.** The debug-file recursion (build-id, debuglink,
   minidebuginfo) and `phdr_callback`, with the same descriptor and view
   properties as `CoffAdd`.
2. **`CoffSymbols`.** `coff_initialize_syminfo`'s table (function symbols
   only, sorted with `backtrace_qsort`) and `coff_symbol_search`, checked
   against a linear reference.
3. **Proofs.** The invariants `ElfAdd` will check, with an inductive
   invariant of the same shape as `CoffAdd_lifecycle_proofs`' (frames
   ordered by the views they obtained).
