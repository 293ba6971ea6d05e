# A verification project for kittymemory-rs

kittymemory-rs wraps the C++ library KittyMemory for Rust: reading, writing and
patching the memory of the process it runs in, finding symbols and libraries,
listing maps. `wrapper.cpp` gives the library a C interface, `bindings.rs` is
that interface in Rust (`sys`), `src/safe.rs` is the layer programs use, and
`build.rs` fetches and compiles the library. KittyMemory itself is not in the
repository: what the models say of it is what `wrapper.cpp` relies on, and is
marked external in `PROJECT.json`.

## The system

| part | state | operations | source |
|---|---|---|---|
| handle registries (patches, backups, ELF, linker and bridge scanners, iOS file infos) | per family a map `id -> object`, a counter, a mutex; in the caller a struct `{handle, valid, ...}` | create, use, free; copying the struct | `wrapper.cpp:18-51` and every `km_*` on a handle |
| patches | bytes to write, bytes found at creation | with_bytes/hex/asm (and `_lib`), modify, restore, getters, drop | `wrapper.cpp:124-391`, `safe.rs:225-473` |
| backups | bytes found at creation | create, restore, getters, drop | `wrapper.cpp:393-466`, `safe.rs:475-551` |
| raw memory | the process's memory | mem_read, mem_write, protect, dump, syscalls | `wrapper.cpp:55-100`, `safe.rs:7-155` |
| searches | none | find first, find all | `wrapper.cpp:468-554`, `safe.rs:553-704` |
| ELF scanner | what it read of one library | create, find, program, getters, refresh, drop | `wrapper.cpp:557-889`, `safe.rs:706-1098` |
| linker and bridge scanners | what they read of the linker | lists, lookups | `wrapper.cpp:1092-1474`, `safe.rs:1100-1666` |
| process maps | none | all, filtered, by address; predicates | `wrapper.cpp:926-1069`, `safe.rs:1318-1514` |
| iOS file infos | one registry | lookups | `wrapper.cpp:1479-1583`, `safe.rs:1668-1808` |
| pointer validator, IO file | a raw `new`ed object, a struct with its pointer | calls, free | `wrapper.cpp:1585-1617`, `1738-1891` |
| pure functions | none | page rounding, hex, string helpers | `sys.rs`, `safe.rs:1864-2022` |
| build script | `OUT_DIR/KittyMemory` across runs | clone, checkout, submodules, compile, bindgen | `build.rs` |

How they interact. Every patch, backup and scanner lives in the C++ maps; Rust
holds a struct with the identifier. A call tests the struct without the mutex,
then locks the mutex of its family, looks the identifier up, and works on the
object until it returns. Creation builds the object without the mutex (it reads
memory, or the maps) and locks only to register it. Patches, backups and
`mem_write` share one memory and three different locks (two mutexes and none).
Results of unknown length are malloced in C++, copied in Rust and freed.
Libraries come and go under the scanners, by code that knows of none of this.

What is hard: calls of several threads on one family; copies of the raw struct
that outlive a free; creation that reads before it locks; families that share
memory and no lock; what was looked up and has changed since; malloc failing; a
build killed between two git commands. `PROJECT.json` lists each at its line.

What makes each part correct:

- registries: no handle reaches an object it was not issued for; nothing is
  destroyed under a call; nothing stays that nobody can free; every call unlocks
  the mutex;
- patches and backups: calls on overlapping memory are atomic where they share
  a mutex; no byte appears that nobody asked for; restoring undoes modifying
  under stated conditions;
- buffers: given back once, on every path, and never read by the wrong call;
  objects behind raw pointers: alive for as long as their owner can call them;
- scanners: changed by their own refresh only and never met half refreshed; empty,
  or with the maps of one library and the symbols of another, only after an unload;
- conversions: what is accepted is converted exactly, at the edges too;
- build: the tree compiled is the commit the wrapper was written against, with the
  submodules of that commit, also when cargo reuses an earlier build.

## The modules

| module | what it is |
|---|---|
| `HandleTable` | abstract: callers' variables name objects, one is open at a time |
| `HandleRegistry` | the map, counter and mutex of one family, at the granularity of locks |
| `HandleRegistryProofs` | its theorems, and that it implements `HandleTable` |
| `PatchStore` | abstract: a memory whose patches are modified and restored at once |
| `PatchMemory` | two `HandleRegistry` instances (patches `P`, backups `B`) over a memory moved byte by byte, with raw reads and writes |
| `PatchMemoryProofs` | its theorems, on two instances of `HandleRegistryProofs` |
| `PatchAtomicProofs` | that it implements `PatchStore` |
| `PatchDiscipline`, `PatchDisciplineProofs` | `PatchMemory` with a host program that keeps three rules; that they are enough |
| `Scanners`, `ScannersProofs` | one `HandleRegistry` instance (`E`) with what each scanner read, while the linker loads and unloads; theorems |
| `FfiBuffers`, `FfiBuffersProofs` | results that cross to Rust, and objects behind raw pointers, on one heap; theorems |
| `BuildSource`, `BuildSourceProofs` | runs of the build script over one `OUT_DIR`, and builds for which cargo skips it; theorems |
| `PageMath` | page rounding on machine words, with its reference definition |
| `Conversions`, `ConversionsProofs` | hex text to bytes and to patches, addresses to pages, one call at a time; theorems |
| `MC*` | values for TLC |

### HandleRegistry

`table`, `nextId` and `mutex` are `g_patches`, `g_next_patch_id` and
`g_patches_mutex` (or those of another family). `handle[s]` is the struct in a
variable of the host program, `frame[t]` the call a thread is in. A call is cut
where another thread can run:

| code | actions |
|---|---|
| `km_patch_create_bytes`: constructor; lock and `id = g_next++` read; map, struct, counter written, unlock | `BeginCreate`, `CreateLock`, `CreateInsert` |
| `km_patch_modify` and most other accessors: test of the struct; lock and `find`; work; return | `BeginUse`, `UseLock` or `UseMissing`, `UseEnd` |
| `km_native_bridge_scanner_is_valid` and the iOS accessors, which test the handle alone | `BeginLookup`, then the same |
| `km_patch_free`: test of `handle`; lock, erase, clear, unlock | `BeginFree`, `FreeErase` |
| the derived `Copy` of the structs | `CopyHandle` |

`SysCopies` chooses the layer: in `safe.rs` the value owns the struct, and
`MayBorrow`/`MayBorrowMut` are Rust's borrow rules on it; in `sys` the struct may
be copied as well. A caller that overwrites or forgets a struct leaks its own
entry, and is not modelled. A pointer that a sys caller shares between threads
without synchronisation is a data race of that caller, and is not modelled.
`born` and `serial` are history: which registration an entry and a struct come
from. The linker, bridge and ELF structs have no address and size; the rest of
the protocol is the same in all six families. (On Android a `LinkerScanner`
getter tests the struct in C++ only, an `ElfScanner` getter in Rust too: one
test.)

### PatchMemory

A patch operation is a registry call with work on memory inside it: `job[t]`
says which bytes it moves and how many are done. `ReadByte` and `WriteByte` are
the library's memRead and memWrite, one byte per step, so that they interleave
with what does not hold the same mutex. A write may be refused before its first
byte (`Refused`: the protection of the pages could not be changed); that it
stops in the middle is not modelled. `Discard` is a constructor whose object is
not valid (unreadable memory, bad hex, an assembly error or no keystone).
`get_orig_bytes` and `get_patch_bytes` ("look") lock and find but touch no memory.

### PatchDiscipline

What `restore()` undoes depends on the host program. The module restricts
`PatchMemory` to programs that make one call at a time on an address, work on the
youngest of the live patches that overlap, and restore a patch before they drop
it. `Unwinds` fails when any one of the three is left out. `applied` is history: the
identifiers modified and not restored since. Handles may be copied as in `sys`.

### Scanners

`mapped` is the address space, which `Load` and `Unload` (dlopen and dlclose by any
code of the process) change between any two steps of the others. A scan is two
steps: the maps of the process first, the ELF headers and tables in memory after
them.

| code | actions |
|---|---|
| `km_elf_scanner_create` and its like: the maps; the ELF, and the test that the scanner is valid; lock; copy into the map, unlock | `FindMaps`, `FindElf`, `Lock`, `Insert` |
| `km_elf_refresh`: test and lock; `it->second` rewritten in place; unlock | `Call` ("mut"), `Lock`, `RefreshMaps`, `Refresh` |
| the getters and `find_symbol` | `Call` ("shr"), `Lock`, `Get` |
| `km_elf_scanner_free` | `BeginDrop`, `Drop` |
| the derived `Copy` of the struct | `Copy` |

`seen[t]` is what the lookup of thread `t` has read so far, `scan` what each
registered scanner has read. `age` (how often a page was unloaded) and `found` (its
value when the lookup began) are history. Memory that goes while it is read is
taken for a read that fails; how the library reads is outside the repository.
In the safe layer an `ElfScanner` stays in its thread; the model lets C callers use one, or copies of its handle, from several.

### FfiBuffers

One call from the C++ result to what the Rust caller gets. `kind` tells the four
ways a result crosses: a list (pointer and count) and a string come in a malloced
block that Rust copies and gives back; an address comes by value, 0 for none; a
struct is written into a zeroed one of the caller's. The allocator hands a freed
block to any thread, with its old contents, so that a copy taken too late shows.

`object[s]` is a `km_ptr_validator_t` or a `km_io_file_t`: a raw pointer from
`new`, no table behind it. `NewObject`, `UseObject` and `FreeObject` are new, any
setter, open, close or caching query, and delete; `set` is what the owner's calls
left in the object. A variable may be freed again and again: the handle is null
after the first. A copied struct freed twice has no defined outcome and is not
modelled.

### BuildSource

`dest` is `OUT_DIR/KittyMemory`: absent, partial (half a clone), head (cloned, not
checked out) or pinned. `subs` is the commit whose submodules are in it, none when
some are missing; a checkout leaves them where they are. Every git command may fail; a run may be killed at any
step. `cut` is history: some run ended before it had checked out its clone;
`missed` is history too: git could not update the submodules in the last run.
`env` is what the last run was given and `now` what cargo was last called with.
Where nothing changed that the last successful run named to cargo, the script
does not run (`Skip`); what it names differs between a run for docs.rs and any
other. `edited` stands for a change of a named file.

### Conversions

`call` is one call of `hex_to_data`, `with_hex`, `km_page_start_fn` or
`km_page_end_fn` with its outcome. The two hex functions are kept apart as the
code has them: each cleans and checks its text, and the library decodes it.
`Trimmed` says what the library may do to its argument before it checks it. A
text is a sequence of characters told apart only as the code tells them: the
digit 0, `x`, space, NUL, other digits, others. A replacement by the empty text is
`Pick`, the characters at the places that remain.

## What TLC checks

Every property has a mutant: a definition changed the way a plausible bug would
change the code, under which the same run fails.

| run | bounds | shows |
|---|---|---|
| `registry_sys` | 2 threads, 3 variables, 2 objects, 3 creations, copies | types, valid cursors, no aliasing, no orphans, flag and handle agree, entries final; implements `HandleTable` |
| `registry_safe` | 2 threads, 2 variables, 3 creations, fairness | owned values are registered; mutex released; a lone call returns |
| `patch_atomic` | 2 threads, 2 patches of the same 2 bytes | implements `PatchStore`; `get_curr_bytes` is exact |
| `patch_mixed` | 2 threads, a patch of 2 bytes, a backup and raw reads and writes of one of them, a second variable of each kind for copies | work is backed by a live object; no foreign byte |
| `patch_discipline` | 2 threads, 3 creations, overlapping and adjacent patches over 3 bytes, copies | `Unwinds` |
| `ffi_buffers` | 2 threads, 2 blocks, 2 objects, 2 contents | blocks owned once; results own; objects intact |
| `scanners` | 2 threads, 2 scanners, 2 libraries taking turns at 1 page, 2 unloads | a half refreshed scanner is met by nobody; unsound only after an unload; only refresh changes |
| `conversions` | texts of up to 6 of 6 characters; 4 pages, 5 addresses around each boundary | decoded data is whole; the two hex paths agree; pages exact |
| `build_pass` | none: the state is finite | pinned unless cut; submodules follow the tree; links the tree it asks for |
| `build_pin`, `build_ndk`, `build_docs` | none | the three findings |

Why the bounds are enough. Two threads and one mutex give every order of two
calls, and no step involves three. Three creations allow a free, a second
registration and a stale copy together, and an identifier reused would show at
the second. Two bytes are the fewest that can be torn; two libraries at one page
are the fewest between which an address can change meaning. Two blocks let one
thread receive what another gave back while a third party, an object, holds the
other. Six characters hold `00xx` with two digits beside it, the shortest text in
which one pass of cleaning leaves a `0x` that the library may drop. Four pages
have a first, a last and one between others.

Bounds named in guards and constants: `MaxId` (`MaxPatch`, `MaxBackup`)
creations, `MaxAge` unloads, `MaxText` characters. Below `MaxId` the counter does
not wrap: `uintptr_t` would take 2^32 creations at the least.

Deadlock is checked where no bound stops the system (`ffi_buffers`,
`conversions` and the build runs). Elsewhere a bound ends the behaviour, or the
host program may simply stop calling.

Fairness. `FairSpec` gives each thread weak fairness on the steps of a call it
has begun: the operating system runs runnable threads, and none of the steps
waits for anything but the mutex. Nobody is obliged to begin a call, and no
fairness is assumed among threads waiting for a mutex: `std::mutex` has no queue.
So a call is shown to return once the others stay out (`ReturnsWhenAlone`), and
that it may starve is not excluded. The body of a critical section is assumed to
end; it does in the code unless the library loops.

### Findings

- `build_pin` (`build.rs:51-53` against `68-95`). The comment says the clone is
  pinned until the wrapper is updated. Only the run that clones checks out; when
  it is killed or git fails in between, every later run compiles upstream HEAD.
  `PinnedUnlessCut` says that this is the only way.
- `build_ndk` (`build.rs:288` against `README.md:85` and `262`). The NDK is
  listed as needed for Android targets; the script panics without it for every
  target, after compiling the library.
- `build_docs` (`build.rs:10-13` against its comment on line 9). The pre-generated
  bindings are for docs.rs builds. The run that copies them names `bindings.rs`
  to cargo and not `DOCS_RS`, so an ordinary build after it in the same `OUT_DIR`
  skips the script, and has the copied bindings and no library.

Three things the models show beside these. `page_end` adds the page size before it
takes one away: a build with overflow checks panics from the start of the last page
on, at that start although the answer would fit, and a release build gives 0 after
it (`PagesExact`). `with_hex` of an empty text, or at an address that cannot be
read, gives a patch that only `is_valid` tells from a working one (`SameTexts`). A
run in which git cannot update the submodules compiles what is there (the guard of
`SubmodulesFollow`), after the line "with submodules" of `build.rs:67` as well; the
next run in which git can repairs them.

## What is proved

TLAPS proves, for every value of the constants (any threads, variables, objects,
memory, requests, blocks, libraries, word size, and both layers), from the named
assumptions of the modules. `RegistryAssumption`, `ScannerAssumption` and
`BufferAssumption` say that the null values are not among the real ones and that
bounds are naturals; `MemoryAssumption` adds that what callers ask for lies in the
address space and has at least a byte; `WordAssumption` that a word is a whole
number of pages; `ConversionAssumption` that the kinds of characters are distinct.

- `HandleRegistryProofs`: the invariants of the registry (`RegistryTypeOK`,
  `RegistryNoAliasing`, `RegistryNoOrphan`, `RegistryCursorValid`,
  `RegistryValidIffHandle`, `RegistryOwned`) and `RegistryEntriesFinal`. Hardly
  any is inductive. `IInv` adds what the code relies on without saying so: one
  thread at a time is between lock and return and it owns the mutex (`LockInv`);
  every identifier seen anywhere is below the counter and the one being
  registered equals it (`IdInv`); a call that writes a struct has the variable to
  itself (`BorrowInv`); a call works on the entry its own variable names
  (`CursorInv`). A registration keeps `NoAliasing` because of `IdInv`, which
  `LockInv` keeps; an erase keeps `CursorInv` because it waits for the mutex.
  There is one lemma per action. `RegistryImplements` is the refinement: with
  `BirthInv` (a birth number stands for at most one entry, and a struct that shows
  it holds that entry's identifier) every step is a step of `HandleTable` or
  leaves the mapped state alone.
- `PatchMemoryProofs`: `MemoryTypeOK`, `MemoryJobBacked`, `MemoryNoForeignByte`,
  `MemoryInspectExact`. Each step of `PatchMemory` is a step of each registry or
  none (`RegistrySteps`), so their invariants hold and no entry changes
  (`RegistryFacts`). `IInv` adds that what a work carries fits where it works
  (`WorkOK`), that what an object keeps fits where it was read (`Kept`), and that
  a call under its mutex does what the object it found says (`PatchPlace`,
  `BackupPlace`). `NoForeignByte` needs the second: bytes travel from memory
  through captures and objects back to memory. `InspectExact` is proved under
  `PatchesOnly` (no backups, no raw writes), without which it is false.
- `PatchAtomicProofs`: `PatchesImplementStore`, the refinement, for programs of the
  safe layer that write through patches alone (`SafePatches`). A rewrite shows at
  its first byte; `Landed` (the bytes written so far stand) makes its end
  invisible. With copied structs it would be false: one free ends two handles.
- `ScannersProofs`: `ScannersTypeOK`, `ScannersHalfReadAlone`,
  `ScannersUnsoundOnlyAfterUnload`, `ScannersOnlyRefreshChanges`, on one instance of
  the registry's proofs. `ReadInv` says of every scan, finished or not, that while its
  page has not been unloaded since the lookup, its maps show what is there now and
  its headers are of the same library; `FoundInv` that what is being registered was
  read whole and found valid; `HalfInv` that a scanner that is half read is in the
  hands of a refresh. That nobody else is then at it is the registry's `LockInv`.
- `FfiBuffersProofs`: `BuffersTypeOK`, `BuffersOwned`, `BuffersResultIsOwn`,
  `BuffersObjectsIntact`, from where a call's result is at each of its steps and
  that no two holders share a block.
- `BuildSourceProofs`: `BuildTypeOK`, `BuildPinnedUnlessCut`,
  `BuildSubmodulesFollow`, `BuildLinksItsTree`. The third needs `SubsInv`: which tree
  each step finds, and that only the steps before the compiler may find its
  submodules behind it.
- `PatchDisciplineProofs`: `DisciplineUnwinds` and its consequence
  `DisciplinePristine` (no call under way and everything restored: the memory is as
  it was loaded), in both layers, for programs that write through patches alone
  (`PatchesOnly`; a raw write into a patch is not undone). `Unwinds` is not
  inductive: a restore writes what the patch found at its creation, and nothing in
  `Unwinds` says what that was. `DInv` adds `Chain` (a patch found at each address
  what the older applied patches over it put there, or the loaded byte), `Settled`
  (`Unwinds` also inside a call, except for the bytes it has already rewritten),
  `Disjoint` (no two calls on one address) and `Place` (a call stays on the
  youngest patch until it ends, a free on one that is restored, a creation holds
  bytes that are still there). Each rule has its place in the argument: without
  the first a creation may hold bytes that change before it registers, without
  the second a restore would change what a younger patch's `Chain` says, without
  the third a drop would leave its bytes under none.
- `ConversionsProofs`: of the operators `PageStart`, `PageEnd` (exact as far as the
  start of the last page), `PageEndWraps` (0 after it) and `PageEndPanics` (where a
  checked build panics), and `ConversionsPagesExact`; for texts of any length `PickInOrder` and `CleanKeeps` of
  the cleaning, `ConversionsDataWhole` and `ConversionsSameTexts`. A call leaves one
  record, so no strengthening is needed. The weight is in `TrimmedShape` (what the
  library drops makes the text shorter by two, so that the length Rust sized the
  buffer for no longer fits), and in `FlattenPairs`, where the recursive function
  is compared with the fronts of the text at its least difference (`Least`).

Only model-checked: liveness (`MutexReleased`, `ReturnsWhenAlone`), which is out of
the prover's reach, and the runs of the three findings.

## What is not modelled

- The library: search, assembly, ELF parsing, protection of pages, what the
  linker's lists contain, the contents of files, and the functions that take a
  path and keep nothing. A single external call that keeps no state is an input of
  the models where its result is used, and absent where it is not (`km_mem_protect`,
  the syscall variants, the dumps).
- Lookups that keep nothing: the `_lib` constructors, the soinfo lookups and the
  maps answer with an address that a library may leave the moment they return.
  Nothing in the code tests for it and no property could hold.
- The predicates on a map or symbol that a Rust value holds (`contains`,
  `is_valid` and their like): they read the value and nothing else.
- Layout: struct fields, the fixed-size copies of names (`strncpy` may cut them),
  the declarations of the bindings.
- The search for the keystone library beyond its outcome: it switches a feature
  off with a warning, and no later step depends on it.
- A second delete through a copied validator or file struct (undefined).
- The zip functions: `README.md:49` and `378` name ZIP utilities, and
  `wrapper.cpp:1893-1920` are stubs that return nothing and keep no state. No
  behaviour is left to model.
- The examples: callers of one thread that print.
- The second copy of `km_get_all_maps` (`wrapper.cpp:891`), called by nobody.
- A write that the library stops in the middle: `memWrite` either changes the
  protection of the pages first or refuses.

What could be added, were the safe layer to wrap files: `IO file` with its own state.
