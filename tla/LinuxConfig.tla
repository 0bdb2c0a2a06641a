----------------------------- MODULE LinuxConfig -----------------------------
(***************************************************************************)
(* The Linux boot configuration loader (src/unnamed/part_003):            *)
(* linux_config_new fills a zeroed config with its defaults and the PCD   *)
(* boot addresses, linux_config_new_from_confd then overrides it from the *)
(* confd items under a key, and linux_config_free releases it.  The       *)
(* loader runs in the UEFI boot path, where confd is in-process and       *)
(* nothing else touches the store while it runs; the store is one of a    *)
(* bounded set of trees chosen at the start, and the loader is one step.  *)
(* The locate buffer is modelled by which strings do not fit in it        *)
(* (LongStrs), and AsciiStrCpyS as a release build runs it: on a string   *)
(* that does not fit it returns an error and leaves the buffer alone.     *)
(***************************************************************************)
EXTENDS ConfdStore

CONSTANTS
  Key,          \* the key the config is loaded from (a path)
  LongStrs,     \* the strings that do not fit in from->locate
  MemSlots,     \* ARRAY_SIZE(cfg->memory)
  PcdRegion,    \* PcdRegion[a]: the PCD boot address region a
  Stores        \* the stores the loader may find

ASSUME LongStrs \subseteq Strs /\ MemSlots \in Nat \ {0}

SourceNames == {"abootimg", "kernel", "initrd", "dtbo", "dtb"}
BoolNames == {"use_uefi", "skip_dtb", "skip_dtbo", "skip_initrd",
              "skip_efi_memory_map", "skip_kernel_fdt_memory",
              "skip_kernel_fdt_cmdline", "load_custom_address"}
IdDefault == [dtb_id |-> -1, dtbo_id |-> -1, soc_id |-> 0, soc_rev |-> 0,
              foundry_id |-> 0, variant_major |-> 0, variant_minor |-> 0,
              variant_id |-> 0, subtype_id |-> 0, subtype_ddr |-> 0]
\* The boot address regions and the sub-paths they are read from.
AddrSub == [load |-> <<"address", "load">>, kernel |-> <<"address", "kernel">>,
            initrd |-> <<"address", "initrd">>, fdt |-> <<"address", "dtb">>]
AddrNames == DOMAIN AddrSub

ZeroRegion == [start |-> 0, end |-> 0]
Region == [start : Int, end : Int]
NoSource == [enabled |-> FALSE, locate |-> ""]
Config == [cmdline : Strs \cup {""},
           src : [SourceNames -> [enabled : BOOLEAN, locate : Strs \cup {""}]],
           splash : Region, memory : [1..MemSlots -> Region],
           flags : [BoolNames -> BOOLEAN],
           ids : [DOMAIN IdDefault -> Int], addr : [AddrNames -> Region]]

IntAt(st, key, sub, f) == ConfdGet(st, TRUE, PathDict(key, sub, <<f>>), TYPE_INTEGER, 0)

\* get_region_confd: a region given by exactly one of base/start and
\* exactly one of size/end, all positive; otherwise reg is left alone.
get_region_confd(st, key, sub, reg) ==
  LET base  == IntAt(st, key, sub, "base")
      size  == IntAt(st, key, sub, "size")
      start == IntAt(st, key, sub, "start")
      end   == IntAt(st, key, sub, "end")
      s     == IF start > 0 THEN start ELSE base
  IN  IF \/ (base <= 0 /\ start <= 0) \/ (size <= 0 /\ end <= 0)
         \/ (base > 0 /\ start > 0) \/ (size > 0 /\ end > 0)
      THEN reg
      ELSE [start |-> s, end |-> IF end > 0 THEN end ELSE s + size]

\* Mutant: the source is enabled whether or not the item exists.
GetFromConfdNoCheck(st, key, sub, from) ==
  LET s == ConfdGet(st, TRUE, PathBase(key, <<sub>>), TYPE_STRING, NULL)
  IN  [enabled |-> TRUE, locate |-> IF s \in LongStrs THEN from.locate ELSE s]

\* get_from_confd: a string item enables the source; AsciiStrCpyS copies
\* it into locate, or fails on a string that does not fit and leaves
\* locate as it was, and the source is enabled either way.
get_from_confd(st, key, sub, from) ==
  LET s == ConfdGet(st, TRUE, PathBase(key, <<sub>>), TYPE_STRING, NULL)
  IN  IF s = NULL THEN from
      ELSE [enabled |-> TRUE, locate |-> IF s \in LongStrs THEN from.locate ELSE s]

\* get_memory_confd: one region per name confd_ls lists under
\* key.memory, in the order ks it lists them, at most MemSlots of them;
\* region i is read by get_region_confd(&cfg->memory[i], key, ks[i]).
get_memory_confd(st, key, mem, ks) ==
  [i \in 1..MemSlots |->
     IF i <= Len(ks) THEN get_region_confd(st, key, <<ks[i]>>, mem[i]) ELSE mem[i]]

\* load_boolean: the item, with the current value as the default.
load_boolean(st, key, sub, b) ==
  ConfdGet(st, TRUE, PathBase(key, <<sub>>), TYPE_BOOLEAN, b)

\* get_boot_addresses_pcd: the custom address flag and regions of the build.
get_boot_addresses_pcd(c, pcd) ==
  [c EXCEPT !.flags["load_custom_address"] = pcd, !.addr = PcdRegion]

\* linux_config_new: zeroed (AllocateZeroPool), use_uefi set, no dtb/dtbo
\* id, then the PCD boot addresses.
linux_config_new(pcd) ==
  get_boot_addresses_pcd(
    [cmdline |-> "", src |-> [s \in SourceNames |-> NoSource],
     splash |-> ZeroRegion, memory |-> [i \in 1..MemSlots |-> ZeroRegion],
     flags |-> [b \in BoolNames |-> b = "use_uefi"],
     ids |-> [n \in DOMAIN IdDefault |-> IF n \in {"dtb_id", "dtbo_id"} THEN -1 ELSE 0],
     addr |-> [a \in AddrNames |-> ZeroRegion]], pcd)

\* Mutant: the custom address regions read whatever the flag says.
ReadAddressesAlways(st, key, c) ==
  [c EXCEPT !.addr = [a \in AddrNames |-> get_region_confd(st, key, AddrSub[a], c.addr[a])]]

\* The custom address regions, read only when load_custom_address (as
\* loaded from confd) is set.
ReadAddresses(st, key, c) ==
  IF c.flags["load_custom_address"]
  THEN [c EXCEPT !.addr = [a \in AddrNames |-> get_region_confd(st, key, AddrSub[a], c.addr[a])]]
  ELSE c

\* linux_config_new_from_confd on an allocated config, in code order.
NewFromConfd(st, key, pcd, ks) ==
  LET c0 == linux_config_new(pcd)
      c1 == [c0 EXCEPT !.cmdline =
               ConfdGet(st, TRUE, PathBase(key, <<"cmdline">>), TYPE_STRING, c0.cmdline)]
      c2 == [c1 EXCEPT !.src = [s \in SourceNames |-> get_from_confd(st, key, s, c1.src[s])]]
      c3 == [c2 EXCEPT !.splash = get_region_confd(st, key, <<"splash">>, c2.splash)]
      c4 == [c3 EXCEPT !.memory = get_memory_confd(st, key, c3.memory, ks)]
      c5 == [c4 EXCEPT !.flags = [b \in BoolNames |-> load_boolean(st, key, b, c4.flags[b])]]
      c6 == [c5 EXCEPT !.ids = [n \in DOMAIN IdDefault |->
               ConfdGet(st, TRUE, PathBase(key, <<n>>), TYPE_INTEGER, IdDefault[n])]]
  IN  ReadAddresses(st, key, c6)

VARIABLES
  store,    \* the confd store the loader reads
  pcd,      \* PcdBootCustomLoadAddress of the build
  cfg,      \* the loaded config, or NULL
  ks        \* the order confd_ls listed key.memory in (for the properties)

vars == <<store, pcd, cfg, ks>>

Init ==
  /\ store \in Stores
  /\ pcd \in BOOLEAN
  /\ cfg = NULL
  /\ ks = <<>>

\* linux_config_new_from_confd: the config read from the store.  When the
\* allocation fails it returns NULL and nothing changes (a stutter).
linux_config_new_from_confd ==
  /\ cfg = NULL
  /\ \E order \in SetToSeqs(confd_ls(store, Key \o <<"memory">>)) :
       /\ ks' = order
       /\ cfg' = NewFromConfd(store, Key, pcd, order)
  /\ UNCHANGED <<store, pcd>>

linux_config_free ==
  /\ cfg # NULL
  /\ cfg' = NULL
  /\ UNCHANGED <<store, pcd, ks>>

Next == linux_config_new_from_confd \/ linux_config_free

Spec == Init /\ [][Next]_vars

-----------------------------------------------------------------------------
TypeOK ==
  /\ store \in Store
  /\ pcd \in BOOLEAN
  /\ cfg \in Config \cup {NULL}
  /\ ks \in Seq(STRING)

\* The item of type type at key.n, or d.
Val(n, type, d) == ConfdGet(store, TRUE, Key \o <<n>>, type, d)

\* A loaded config says what the store says under the key, and the
\* defaults of linux_config_new where the store says nothing: every flag
\* is its boolean item or its default (use_uefi true, the PCD custom
\* address flag), every id its integer item or -1/0, a source is enabled
\* exactly when a string item names it, and the boot address regions
\* come from the store exactly when load_custom_address, as loaded from
\* the store over the PCD value, is set.
ConfigMatchesStore ==
  cfg # NULL =>
    LET custom == Val("load_custom_address", TYPE_BOOLEAN, pcd)
    IN  /\ \A b \in BoolNames \ {"load_custom_address"} :
             cfg.flags[b] = Val(b, TYPE_BOOLEAN, b = "use_uefi")
        /\ cfg.flags["load_custom_address"] = custom
        /\ \A n \in DOMAIN IdDefault : cfg.ids[n] = Val(n, TYPE_INTEGER, IdDefault[n])
        /\ \A s \in SourceNames : cfg.src[s].enabled = (Val(s, TYPE_STRING, NULL) # NULL)
        /\ \A a \in AddrNames :
             cfg.addr[a] = IF custom
                           THEN get_region_confd(store, Key, AddrSub[a], PcdRegion[a])
                           ELSE PcdRegion[a]

\* Memory region i of the config is the region described under
\* key.memory.<name>, for the i-th name confd_ls lists under key.memory:
\* the names get_memory_confd lists are the children of key.memory.
MemoryRegionsFromStore ==
  cfg # NULL =>
    \A i \in 1..MemSlots : i <= Len(ks) =>
      cfg.memory[i] = get_region_confd(store, Key, <<"memory", ks[i]>>, ZeroRegion)

\* An enabled boot source (type FROM_LOCATE) locates the file its confd
\* item names: get_from_confd enables a source only with its location.
EnabledSourceHasLocate ==
  cfg # NULL =>
    \A s \in SourceNames : cfg.src[s].enabled => cfg.src[s].locate = Val(s, TYPE_STRING, NULL)

=============================================================================
