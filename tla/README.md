# TLA+ models of simple-init

This directory holds TLA+ models of the parts of simple-init whose source is in
this repository (`src/`), and the TLC configurations that check them.
`PROJECT.json` is the machine-readable index. It lists the components, the runs,
the mutants, the map from each definition to the source lines it translates,
the findings and the hazards.

## 1. The system and its parts

`spec.md` describes simple-init as a UEFI or early-Linux boot/init environment.
Its core is a layered VFS with a driver, volume and volume-info registry. The
repository snapshot in `src/` holds only a small part of that core. Most of the
code present is the "leaf" libraries and sibling subsystems that the spec lists
as collaborators.

| Part | Source | State it changes | Interacts with |
|---|---|---|---|
| libfdisk script object | `src/unnamed/part_001` 340–1730 | It has a refcounted script (headers list, cached label, table pointer). The script holds a refcounted context and a refcounted partition table. The context holds `cxt->script`. | The application, the script reader, the context (`fdisk_set_script`, `fdisk_apply_script`, `fdisk_script_read_context`). |
| libfdisk script reader | `part_001` 996–1598 | Reads a FILE into the script: headers, `force_label`, `nlines`, and table partitions. | The stdio stream (`fgets`, `feof`) and the script object. |
| libfdisk script writer | `part_001` 812–994 | Writes the script to a FILE (sfdisk or JSON text). It calls `script_get_label`, which fills the label cache. | The script object. |
| blkid ZFS probe | `part_001` 1–304 | Has local loop state only (labels, label offsets from the device size, uberblock count, byte order, then the nvlist walk's offset, byte budget and directory depth). It reports through the probe (version, magic, label, uuid). | The blkid probe (`get_buffer`, `is_covered_by_pt`). |
| VFS driver registry globals | `part_001` 1732–1761 | Has the driver, volume and volume-info lists, their three mutexes, and the conditionally compiled `fs_initiator` table. | The driver initiators (assets, socket/posix outside UEFI, zip with libzip). |
| confd client API | `src/include/confd.h` | The daemon's store of typed items under dotted paths, the client's socket, and saved config files. | Every component that reads or writes configuration. |
| Kernel command-line handlers | `part_002` | `runtime.cmdline.dpi`, `dpi_force` and `backlight` in confd. | confd. |
| Linux boot configuration loader | `part_003` | A `linux_config` record filled from confd keys (kernel, initrd, dtb sources, memory regions). | confd, the build's PCDs. |
| UEFI keyboard input | `part_004` | The LVGL input-device record (`state`, `key`). It registers one LVGL driver per keyboard protocol handle. | UEFI SimpleTextInput, LVGL. |
| msgbox API | `src/include/gui/msgbox.h` | Declarations only, with no caller in the repository. | — |
| Build and GUI files | `part_000`, `.inf`, `CMakeLists.txt`, `reboot.xml` | None at run time. | — |

The libfdisk script code is single-threaded. The application makes each API call
as one step. The ZFS probe and the reader are sequential loops. So the hard
behaviours here are the following:

- the **order** of reference operations inside one call;
- **long sequences of legal calls** that reach a bad heap state;
- **caches** that go stale;
- **loop exits** driven by an end-of-file flag or a threshold;
- **byte arithmetic** over on-disk sizes (label offsets, nvpair sizes).

Thread interleavings are not among them. The VFS registry is the only
concurrent part, through its three mutexes. Its operations are not in `src/`.

## 2. Modules and how they correspond to the code

### `FdiskScript` (script, table and context reference counts; header store; label cache)

- **State.** `scr[s]` holds the status, `refcount`, `headers` (a sequence of
  ⟨name, data⟩), `label` (the cache) and `table` of the script object at
  address `s`. `tbl[t]` holds a table's status and `refcount`. `cxt` holds
  `cxt->script`, the current label and the context `refcount`. `held` and
  `heldTbl` count the references the application owns. They are not program
  state. They are the ghost state needed to say what each refcount should be.
- **Functions as operators.** Each C function that changes the heap is a pure
  operator from a heap record to a heap record. These are
  `fdisk_ref_script`, `fdisk_unref_script` (with reset, context unref and
  table unref on zero), `fdisk_unref_table`, `fdisk_set_script`,
  `fdisk_script_set_table` and `fdisk_script_set_header`. A call that runs
  several of them is their composition in code order. For example,
  `ApplyScript` is ref(old), then `fdisk_apply_script_headers`, which includes
  `fdisk_set_script(dp)`, then `fdisk_set_script(old)`, then unref(old).
- **Actions.** Each action is one API call by the application, on objects it
  holds a reference to:
  - `fdisk_new_script`, `RefScript`, `UnrefScript`, `SetHeader`,
    `script_get_label`, `fdisk_script_get_table` and `SetTable`;
  - `fdisk_new_table`, `RefTable` and `UnrefTable`;
  - `SetScript`, `ApplyScript` and `ReadContext`;
  - `fdisk_new_script_from_file`: a new script (`NewScriptH`), then the
    read (`ReadFileH`), then `FromFileResult`, which hands the script to
    the application or, when the read failed, unrefs it. The read is
    summarised by what `FdiskScriptReader` shows its loop can do to a fresh
    script: the first content line allocates the table (`-ENOMEM` when no
    table address is free), header lines set `label` to a known label and
    `unit` to `sectors`, and a later bad line can still fail the read. So a
    failed read can leave a table and headers that the unref must release.
    A failed `fopen` or `calloc` changes nothing and is left out.

  When `Borrowed` is TRUE, the application may also pass the pointer returned
  by `fdisk_get_script(cxt)`, which the API hands out without a reference.
- **Abstractions.**
  - Header names are `"label"` and `"LABEL"`. These exercise the
    case-insensitive `script_get_header`. `"unit"` is written by
    `read_context`.
  - Data values are model strings.
  - `fdisk_create_disklabel` is a nondeterministic choice: it either keeps the
    old label or switches to the requested known label.
  - `fdisk_apply_table` and the grain and table-length headers are left out
    because they touch no reference or cache.
  - Allocation failure is modelled where it changes the outcome: `ReadContext`
    with no free table address drops the headers and does nothing else.

### `FdiskScriptReader` (`fdisk_script_read_file` / `read_line` / `read_buffer`)

- **Input.** A file is a sequence of at most `MaxLines` lines. Each line is
  abstracted to its *kind*:
  - blank;
  - comment;
  - one of the header outcomes of `parse_line_header` (known label, unknown
    label, `unit: sectors`, bad unit, unsupported name, no value);
  - a name=value or comma partition line that does or does not parse;
  - a line too long for the `BUFSIZ` buffer.

  Each line also records whether it ends in a newline.
- **State.** The stream's end-of-file indicator is a variable. Each
  `fdisk_script_read_line` step is one `fgets`, because `read_file`'s loop is
  `while (!feof(f))`. `pc` follows the loop: loop test, inside `read_line`,
  return.
- **Checks.** The result is checked against `Ref`, a RECURSIVE operator. `Ref`
  gives the result that the format documentation and the read_line comment
  ("-ENOTSUP … usually safe to ignore") describe. Token-level parsing of
  partition lines (`next_token`, `parse_start_value`, `parse_size_value`,
  `partno_from_devname`) is abstracted to "parses" or "does not parse".

### `ZfsProbe` and `ZfsNvlist` (`probe_zfs`, `find_uberblocks`, `zfs_extract_guid_name`, `zfs_process_value`)

- **Input.** The device size (`pr->size`), filtered by `zfs_idinfo.minsz`
  (64 MiB) as blkid does before it calls the probe. A disk is four labels. Each label is *covered* (inside a
  partition while probing a whole disk), *unreadable* (`get_buffer` fails), or
  a function from uberblock slots to `none`, `native` or `swapped` magic.
- **Actions.** `ScanLabel` is one iteration of the `for (label_no…)` loop,
  including the early `break` at `ZFS_WANT`. `LoopExit` leaves the loop after
  the last label. `Check` is the code after the loop.
- **Read errors.** A read error returns `errno ? -errno : 1`. errno is not
  under the probe's control, so this is the set {−EIO, 1}.
- **Offsets.** `offset` is in bytes. `LabelOffset` is the `switch` of the
  loop: L0 at 0, L1 at 256 KiB, L2 and L3 at the end less
  `blk_align = size % 256 KiB`. `NvlistOffset` is the rounding and the
  16 KiB step at the top of `zfs_extract_guid_name`.
- **The nvlist walk (`ZfsNvlist`).** On a match, `Check` also runs
  `zfs_extract_guid_name`: either the 4 KiB read fails (`NvUnreadable`, no
  tags), or one of the bounded set `NvLists` is walked. The nvlist is chosen
  when it is read. It lies 16 KiB into the label and the uberblocks from
  128 KiB, and nothing else reads it, so this loses nothing.
  The buffer is bytes, as a set of `<<offset, bytes>>` segments with zeros
  elsewhere. `NvPairStep` is one iteration of the `while` loop, with the
  zero-size terminator, the fit checks, the directory step (`DirSize`) and
  `cont`. `NvWalk` is the loop, a RECURSIVE operator.
  `zfs_process_value` is the else-if chain of `strncmp` keys with its size
  and `directory_level` conditions. The result is the tags set (label,
  `UUID_SUB`, `UUID`, block size as its ashift), plus `hi`, the end of the
  furthest byte read. Values read stay below 2^30, which is larger than
  anything they are compared with. The 64-bit guid is kept as two 32-bit
  halves.
- **Reference.** `EncNvlist` encodes a tree of pairs the way ZFS lays it
  out. `RefTags` reads the tags off the tree: top-level `name`, `guid` and
  `pool_guid`, and `ashift` at any depth.
- **Left out.** The version and magic strings, and `blkid_probe_set_magic`,
  which is outside the repository.

### `FsRegistrySpec` and `FsRegistry` (the VFS driver and volume registries)

The repository has only the globals of `drivers.c`: the three lists, the three
mutexes and the build-dependent `fs_initiator` table. The registry operations
themselves are described in spec.md §4.1–4.3 and §5. They are not in `src/`,
so they are modelled from the spec. `PROJECT.json` marks them `spec_modelled`.

- **`FsRegistrySpec`** is the abstract registry. Every operation is one atomic
  step: register, unregister (refused while a volume uses the driver), mount
  (the name must be free and the driver registered), unmount (Busy, or force
  and invalidate), open and close.
- **`FsRegistry`** is the multi-threaded version. It has the following parts:
  - **Startup.** `RunInitiator` walks `fs_initiator` in order. With
    `UEFI = TRUE` and `LIBZIP = TRUE` the table is ⟨assets, zip⟩. Thread
    operations start after it.
  - **Mount.** `MountLookup` checks the driver under the driver lock. No lock
    is held during `MountCall`, the driver's mount, which may fail. `MountLock`
    takes the volume lock, and `MountInsert` takes the driver lock after it.
    The insert re-checks NameInUse and that the driver is still registered.
  - **Unregister.** `UnregisterLock` takes the volume lock, then
    `UnregisterDriver` takes the driver lock. This matches the spec's lock
    order.
  - **One critical section each.** `Unmount`, `Open` and `Close` each run
    under the volume lock.
  - **Read.** `ReadCheck` and then `ReadCall` run without a lock, because
    handles carry none.
- **Refinement.** The refinement mapping keeps the drivers, maps a volume to
  its driver, and maps a handle to its volume or its state. The property
  `ImplementsRegistrySpec` (`Abs!Spec`) is checked by TLC.

### `ConfdStore` and `ConfdClient` (the confd API and the command-line handlers)

`confd.h` declares the client side of the configuration daemon; the daemon
(`src/confd`) is not in the repository. The store's semantics are fixed from
the header and from how `part_002` and `part_003` use it. spec.md leaves
confd out of scope. So what a set, a delete and a load do to the store
(the tree, `CanSet`, `ConfdSet`, `confd_delete`, `LoadItems`) is an
assumption about the absent daemon, and the map marks those operators
`spec_modelled`. No property is checked about the tree shape, because the
shape would follow from these assumed operators alone:

- an item has one of the four `enum conf_type` types and a path, written as
  the sequence of its dotted parts; `_base` and `_dict` join their
  parts in front of the path (`PathBase`, `PathDict`; `_array` and
  `get_type` have no caller here and are left out);
- the store is a tree: every proper prefix of an item's path is a
  `TYPE_KEY` item;
- a get returns the item's value when it has the requested type, and the
  caller's default when it is absent, of another type, or the daemon cannot
  be reached (`part_003` relies on this with 0, −1 and NULL defaults);
- a set creates the missing ancestors as keys and fails under a non-key
  item or on a key (`CanSet`); a delete removes the whole subtree;
- `confd_load_file` sets the file's items shortest path first, as a client
  would (`LoadItems`, RECURSIVE), skipping the ones that cannot be set.

`ConfdStore` holds these as operators over a store. `ConfdClient` adds
the state: `store`, `daemon` (running), `sock` (connected) and `files`
(the stores saved under each file name). Its actions are `start_confd`,
`open_confd_socket`, `set_confd_socket`, `close_confd_socket`, `confd_quit`
(the store is lost), `confd_save_file`, `confd_load_file`, any other
client's set and delete, and the three command-line handlers:
`cmdline_dpi` and `cmdline_dpi_force` (`parse_int(v, 0)`, the 0..1000
check, a set whose result is ignored) and `cmdline_backlight`.
`parse_int` is a table `ParseInt` from the command-line values to the
number they spell; a value that is not a number gives the default 0.

### `LinuxConfig` (`linux_config_new`, `linux_config_new_from_confd`, `linux_config_free`)

The loader runs in the UEFI boot path, where confd is in-process and
single-threaded, so `linux_config_new_from_confd` is one action. The store
is one of a bounded set of trees (`Stores`), chosen with the PCD flag
`PcdBootCustomLoadAddress` in `Init`.

- `NewFromConfd` is the function's body as a chain of record updates in
  code order: `linux_config_new` (zeroed record, `use_uefi`, dtb ids −1,
  then `get_boot_addresses_pcd`), the command line, the five boot sources
  (`get_from_confd`), the splash region and the memory regions
  (`get_region_confd`, `get_memory_confd`), the eight booleans
  (`load_boolean`, the current value as default), the ids, and last the
  address regions, only when the loaded `load_custom_address` is set
  (`ReadAddresses`).
- `get_memory_confd` takes the order `confd_ls` lists the names in as a
  nondeterministic choice (`SetToSeqs`); the ghost variable `ks` keeps it
  for the properties.
- `AsciiStrCpyS` is modelled by what it does in a release build: a string
  in `LongStrs` (one that does not fit in `sizeof(locate)-1`) makes it fail
  and leave the buffer as it was. A debug build would `ASSERT` instead.
- Allocation failure returns NULL and changes nothing, so it is a stutter.

## 3. Runs

| Run | Config | Expect | What it shows |
|---|---|---|---|
| `script_refcounts` | `MC_FdiskScript.cfg` | pass | The script, table and context refcounts stay exact under every sequence of owned-reference API calls: apply, set, read-context, set-table, header updates, and scripts read from files that fail halfway. No use after free, no leak, and `cxt->script` is never dangling. |
| `script_borrowed_set` | `MC_FdiskScript_borrowed.cfg` | violation | An application does `fdisk_set_script(cxt, fdisk_get_script(cxt))` after dropping its own reference. The script is freed and then written. The trace is 4 steps. |
| `script_label_cache` | `MC_FdiskScript_labelcache.cfg` | violation | The cached label goes stale after `set_header(dp, "label", NULL)` or `set_header(dp, "LABEL", …)`. |
| `reader_newline` | `MC_FdiskScriptReader.cfg` | pass | For every newline-terminated file of up to 3 lines of every kind, the return code and the partitions read are those of `Ref`. |
| `reader_no_final_newline` | `MC_FdiskScriptReader_nonl.cfg` | violation | A last line that is an unsupported header without a newline makes `read_file` return −ENOTSUP. |
| `fs_registry` | `MC_FsRegistry.cfg` | pass | The run uses 2 threads, 1 volume name and 2 handles, with deadlock checking on. The interleavings are: mount with an unregister in the middle, a force unmount, a remount under the same name, and the close of an invalidated handle. In all of them every volume's driver stays registered, every open count stays exact The implementation refines `FsRegistrySpec`. |
| `fs_read_vs_force_unmount` | `MC_FsRegistry_read.cfg` | violation | A force unmount by one thread while another thread is inside a driver read leaves that read running on a released volume. The spec's lock rules do not exclude this, and it is recorded as a `spec_gap`. |
| `confd_store` | `MC_ConfdClient.cfg` | pass | Sets, subtree deletes, saves and loads of a file, daemon quit and restart, socket changes and the three handlers, in any order, keep every item of its type. `TypeOK` bounds integers to what the handlers may store, so it catches a dpi range check without its upper bound. |
| `linux_config` | `MC_LinuxConfig.cfg` | pass | For 26,244 stores and both PCD builds, the loaded config holds each item of the store or `linux_config_new`'s default, and takes the custom boot addresses exactly when the loaded `load_custom_address` is set (`ConfigMatchesStore`). |
| `linux_memory_path` | `MC_LinuxConfig_memory.cfg` | violation | A region configured under `linux.memory.m` is not loaded, because `get_memory_confd` reads `linux.m.*`. |
| `linux_long_locate` | `MC_LinuxConfig_locate.cfg` | violation | A kernel path that does not fit in `locate` leaves the kernel source enabled with an empty location. |
| `zfs_probe` | `MC_ZfsProbe.cfg` | pass | Six things hold for every disk of four labels with two uberblock slots each, on a device whose size is not a whole number of labels, and for seven nvlists. The probe's verdict is what the threshold rule gives. The reported uberblock, byte order and label agree. The matched label was read from a whole label slot inside the device, and the nvlist is read 16 KiB into that slot (`MatchedLabelOnSlot`). The nvlist walk never reads past its 4 KiB, even on malformed pairs (`NvlistReadsInBounds`). On a well-formed nvlist it reports the tags `RefTags` gives, with nested directories in between (`NvlistMatchesReference`). The probe terminates. |

Each property of a passing run has a mutant in `PROJECT.json`. A mutant is a
plausible bug in the mapped code that TLC shows the property catches:

- `fdisk_set_script` forgetting the unref;
- `set_table` unreffing before reffing;
- `fdisk_new_script_from_file` returning NULL after a failed read without unreffing the script;
- `read_buffer` parsing headers after partitions;
- `find_uberblocks` missing the byte-swapped magic;
- L2 and L3 placed without `blk_align`;
- the nvpair fit check without `nvp_size > left`;
- a directory stepped over without its name;
- the label loop without its `break`;
- the dpi range check without its upper bound;
- the custom address regions read whatever `load_custom_address` says;
- `get_from_confd` enabling a source without checking the item exists.

### Bounds and why they are enough

- **`MC_FdiskScript`.** It uses 2 script addresses, 2 table addresses,
  2 labels, `MaxRef = 2` and symmetry over addresses. Two scripts are needed
  for `ApplyScript` to switch between an old and a new script. Two tables are
  needed for `set_table` to replace one table by another, or to share one
  table between two scripts. `MaxRef = 2` allows a script to be held by both
  the application and the context, which is the case every ordering bug needs.
  Symmetry is sound because no action or property distinguishes two
  addresses. The run has 889,276 states and takes about 2 minutes.
- **`MC_FdiskScriptReader`.** It uses 3 lines of all 15 kinds. This covers a
  header after a partition, a skipped line between two content lines, and
  every pair of last line and newline flag. It has 13,132 states.
- **`MC_FsRegistry`.** It uses 2 threads, 1 volume name, 2 handles and 2
  drivers. Each hazard needs at most two threads: one mounting while the other
  unregisters, or one reading while the other unmounts. One name is enough for
  a remount to reuse the name of a force-unmounted volume. Two handles let one
  handle be invalidated while the other is reopened. The run has 2,884
  states.
- **`MC_ZfsProbe`.** It uses `UberblocksCount = 2` and `ZfsWant = 4`. Four
  labels of two slots give 0–8 uberblocks, so the threshold is reached in
  label 1, 2 or 3, or never. The device is 64 MiB + 192 KiB, so
  `blk_align` is not 0 (the aligned case is the same arithmetic with
  `blk_align = 0`). A 384 KiB device is in `DevSizes` and is filtered by
  minsz. There are seven nvlists:
  - four well-formed nvlists: directories two deep, a nested `guid` and
    `name`, an ashift of 40, values of the wrong type, and an empty list;
  - a pair whose size runs past the buffer;
  - a pair that ends 16 bytes before the buffer's end, followed by a header
    whose name does not fit;
  - a pair with a name length of 0.

  These reach every branch of the walk, including the budget running out
  exactly at 4096. The run has 135,837 states and takes about 80 s.

- **`MC_ConfdClient`.** It uses the five paths of the handlers
  (`runtime`, `runtime.cmdline` and its three items), integers {0, 96},
  the strings "96", "abc" and "2000", one file, and the command-line values
  "96", "abc" and "2000". That is enough for an item to be set under a path
  that another client has made a value, for a file saved before a delete
  to be loaded after it, and for each handler branch (valid, out of range,
  not a number). The run has 137,629 states.
- **`MC_LinuxConfig`.** Every store is the tree of a choice of leaves. The
  main set has one source (absent, fitting, too long), `use_uefi`,
  `load_custom_address` (absent, true, false), `dtb_id`, the four splash
  fields and the load address start and size, each field absent, 1 or 2.
  This gives every outcome of `get_region_confd`'s two checks. The memory
  set has two names, `splash` and `m`, with `MemSlots = 1`, so the listing
  order decides which one is loaded, and a name collides with a key of the
  config.

### Fairness

- The reader and the probe are loops in one thread with no fairness and no
  liveness property. The probe's label scan is a C `for` loop over four
  labels, so that it ends is not in question and is not checked.
- `FsRegistry` has no fairness. POSIX and UEFI mutexes are not fair, and
  threads may stop calling at any time. So no liveness property is claimed.
  Deadlock freedom is checked, because the threads never stop by themselves.
- `ConfdClient` and `LinuxConfig` claim no liveness. The daemon and the
  clients may stop at any time, and the loader is one step.
- The script library is called by an application that may stop at any time.
  `FdiskScript` therefore has no fairness and no liveness property, and its
  configurations disable the deadlock check.
- The reader and probe configurations also disable the deadlock check, because
  those functions return: the final `pc = "done"` is the normal end of the
  behaviour, not a deadlock.

## 4. Findings

1. **`fdisk_set_script` use after free** (`part_001:1625`). It unrefs the old
   script before reffing the new one. When the new one *is* the old one and
   holds the only reference, the script is freed and then used.
   `fdisk_apply_script` protects itself by reffing `old` first. An application
   that passes `fdisk_get_script(cxt)` back is not protected.
2. **Stale label cache** (`part_001:581`, `:612`). `fdisk_script_set_header`
   drops `dp->label` only on a set with the exact name `"label"`. Removal
   returns early. Lookup is case-insensitive, so `"LABEL"` updates the same
   header without dropping the cache.
3. **−ENOTSUP from a final header line without newline** (`part_001:1589`).
   `read_file` ignores −ENOTSUP only while the `feof` loop goes on. The last
   line sets end of file, so its −ENOTSUP is returned.
4. **Spec gap: force unmount against an in-flight driver call.** spec.md
   invalidates handles on force unmount and leaves handles unlocked. Nothing
   makes the unmount wait for a driver call that has already passed its handle
   check.

5. **Memory regions read from the wrong path** (`part_003:51`).
   `get_memory_confd` lists the names under `<key>.memory`, but reads each
   region with `get_region_confd(&cfg->memory[i], key, ks[i])`. That reads
   `<key>.<name>.base/size/start/end`. So a region configured under
   `<key>.memory.<name>` is ignored, and a memory item named like another
   key (for example `splash`) loads that key's region.
6. **Source enabled after a failed copy** (`part_003:24`). `get_from_confd`
   ignores `AsciiStrCpyS`'s status. A path that does not fit in `locate`
   leaves `locate` empty, but the source is still enabled as `FROM_LOCATE`.

## 5. Not modelled, and the plan

| Part | Status | Plan |
|---|---|---|
| The VFS volume-info registry, the dispatcher's path resolution, overlay whiteouts, and the template backend | not modelled | These are spec-only, like the rest of the registry. The plan is `resolve` as a longest-prefix operator with a reference check, and overlay lookup with whiteouts against the spec's precedence rule. Deinit is not modelled because the initiators' bodies are not in `src/`. |
| ZFS name matching with the pair's own length (`part_001:76`) | observed, not checked | `strncmp(name, key, namelen)` uses the pair's `namelen`. So a pair with `namelen` 0, or a prefix of a key, matches `"name"`. The malformed nvlist with `namelen` 0 shows it: its string becomes the label. A property against it would fail, and would need a violation run of its own. |
| `start + size` overflow in `get_region_confd` | not modelled | The width of `linux_mem_region`'s fields is in `internal.h`, which is not in the repository. The bounded values never overflow. |
| Keyboard input (`part_004`) | not modelled | `keyboard_read` keeps no state of its own. What an unmapped key does (reported as the previous key) depends on LVGL filling `data->key` with the last key before the callback, and on LVGL's press and release detection. LVGL is not in the repository. |
| `confd_dump`, `confd_set_default_config` | not modelled | `confd_dump` only logs. The effect of the default config path is inside the daemon, and nothing in the repository calls it. |
| Script writers, `fdisk_script_read_file` on a script in use | not modelled | The writers only format text; their one state change, `script_get_label`, is an action. `FdiskScript` composes the read only into `fdisk_new_script_from_file`, where the table is fresh and empty; on a script in use the read's effect depends on the partitions already in its table, which `FdiskScript` does not track (`FdiskScriptReader` does, for one script). |
| msgbox header, build files, GUI XML | not modelled | No behaviour in this repository. `msgbox.h` has neither an implementation nor a caller here, so nothing fixes what the callback's result does. |
