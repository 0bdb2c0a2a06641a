------------------------------- MODULE ZfsNvlist -------------------------------
(***************************************************************************)
(* The nvlist walk of blkid's ZFS probe (src/unnamed/part_001,             *)
(* zfs_extract_guid_name and zfs_process_value): the first 4 KiB of the    *)
(* label's nvlist are walked pair by pair, following each pair's own size  *)
(* field, entering and leaving directories, and the top-level "name",      *)
(* "guid" and "pool_guid" and any "ashift" become the probe's tags.        *)
(*                                                                         *)
(* The buffer is modelled byte by byte, as a set of segments              *)
(* <<offset, bytes>>, the bytes outside every segment being zero.  Every   *)
(* read the walk makes is recorded by the end of the bytes it touches      *)
(* (tags.hi), so that a read past the 4096 bytes blkid_probe_get_buffer    *)
(* returned is visible.  Values read stay below 2^30, which exceeds       *)
(* everything the walk compares them with; the 64-bit guid is kept as its *)
(* two 32-bit halves, and the block size as the ashift it is 1 << of.     *)
(***************************************************************************)
EXTENDS Integers, Sequences

DATA_TYPE_UINT64 == 8
DATA_TYPE_STRING == 9
DATA_TYPE_DIRECTORY == 19
NVPAIR_SIZE == 12       \* sizeof(struct nvpair): size, unknown, namelen
NVSTRING_SIZE == 12     \* sizeof(struct nvstring)
NVUINT64_SIZE == 16     \* sizeof(struct nvuint64), packed
NVDIRECTORY_SIZE == 16  \* sizeof(struct nvdirectory)
NVLIST_BYTES == 4096    \* left: the bytes of the nvlist that are read

\* The keys zfs_process_value compares names with, as bytes.
KeyName == <<110, 97, 109, 101>>                               \* "name"
KeyGuid == <<103, 117, 105, 100>>                              \* "guid"
KeyPoolGuid == <<112, 111, 111, 108, 95, 103, 117, 105, 100>>  \* "pool_guid"
KeyAshift == <<97, 115, 104, 105, 102, 116>>                   \* "ashift"

\* A tag: <<>> while unset, <<v>> once set to v.
Unset == <<>>
NoTags == [label |-> Unset, uuid_sub |-> Unset, uuid |-> Unset,
           block_size |-> Unset, hi |-> 0]

Byte(buf, o) ==
  LET in == {sg \in buf : sg[1] <= o /\ o < sg[1] + Len(sg[2])} IN
  IF in = {} THEN 0 ELSE LET sg == CHOOSE sg \in in : TRUE IN sg[2][o - sg[1] + 1]
Be32(buf, o) == ((Byte(buf, o) * 256 + Byte(buf, o + 1)) * 256
                 + Byte(buf, o + 2)) * 256 + Byte(buf, o + 3)
Bytes(buf, o, n) == [i \in 1..n |-> Byte(buf, o + i - 1)]

\* ((uint64_t)nvp_namelen + 3) & ~3
NameSize(n) == ((n + 3) \div 4) * 4

\* A read of n bytes at offset o.
Touch(t, o, n) == [t EXCEPT !.hi = IF o + n > @ THEN o + n ELSE @]

\* strncmp(name, key, namelen) == 0: the first namelen bytes agree with the
\* key and its terminating NUL (a namelen of 0 agrees with every key).
StrnEq(buf, o, key, n) ==
  LET KeyByte(i) == IF i < Len(key) THEN key[i + 1] ELSE 0
      m == IF n < Len(key) + 1 THEN n ELSE Len(key) + 1
  IN  \A i \in 0..m - 1 : Byte(buf, o + i) = KeyByte(i)

\* zfs_process_value: the first key the name matches, with the value big
\* enough (and, but for ashift, at the top level), decides; a value of the
\* wrong type sets nothing.  The value's fields are read before its type
\* is checked.
zfs_process_value(buf, name, namelen, value, max_value_size, directory_level, t) ==
  LET Is(key, sz) == StrnEq(buf, name, key, namelen) /\ sz <= max_value_size
      type == Be32(buf, value)
      strlen == Be32(buf, value + 8)
      u64 == <<Be32(buf, value + 8), Be32(buf, value + 12)>>
      tu == Touch(t, value, NVUINT64_SIZE)
  IN  IF Is(KeyName, NVSTRING_SIZE) /\ directory_level = 0
      THEN IF type = DATA_TYPE_STRING /\ strlen + NVSTRING_SIZE <= max_value_size
           THEN [Touch(t, value, NVSTRING_SIZE + strlen) EXCEPT
                   !.label = <<Bytes(buf, value + NVSTRING_SIZE, strlen)>>]
           ELSE Touch(t, value, NVSTRING_SIZE)
      ELSE IF Is(KeyGuid, NVUINT64_SIZE) /\ directory_level = 0
      THEN IF type = DATA_TYPE_UINT64 THEN [tu EXCEPT !.uuid_sub = <<u64>>] ELSE tu
      ELSE IF Is(KeyPoolGuid, NVUINT64_SIZE) /\ directory_level = 0
      THEN IF type = DATA_TYPE_UINT64 THEN [tu EXCEPT !.uuid = <<u64>>] ELSE tu
      ELSE IF Is(KeyAshift, NVUINT64_SIZE)
      THEN IF type = DATA_TYPE_UINT64 /\ u64[1] = 0 /\ u64[2] < 32
           THEN [tu EXCEPT !.block_size = <<u64[2]>>] ELSE tu
      ELSE t

\* The loop state: the next nvpair's offset, the bytes left,
\* directory_level, the tags so far, and whether the loop broke out.
Break(s, t) == [s EXCEPT !.tags = t, !.stop = TRUE]

\* cont: step over n bytes, unless fewer are left.
Cont(s, n, level, t) ==
  IF n > s.left THEN Break(s, t)
  ELSE [pos |-> s.pos + n, left |-> s.left - n, level |-> level, tags |-> t,
        stop |-> FALSE]

\* Mutant: the pair is only checked to hold its name.
FitsNoLeft(size, namesize, left) == namesize + NVPAIR_SIZE <= size

\* "nvpair fits in buffer and name fits in nvpair?"
PairFits(size, namesize, left) ==
  size <= left /\ namesize + NVPAIR_SIZE <= size

\* Mutant: a directory entry stepped over without its name.
DirSizeNoName(namesize) == NVPAIR_SIZE + NVDIRECTORY_SIZE

\* A directory is entered by stepping over its pair header, name and
\* nvdirectory only.
DirSize(namesize) == NVPAIR_SIZE + namesize + NVDIRECTORY_SIZE

\* One iteration of the while loop of zfs_extract_guid_name.
NvPairStep(buf, s) ==
  LET size == Be32(buf, s.pos)
      namelen == Be32(buf, s.pos + 8)
      namesize == NameSize(namelen)
      t == Touch(s.tags, s.pos, NVPAIR_SIZE)
      max_value_size == size - (namesize + NVPAIR_SIZE)
      value == s.pos + NVPAIR_SIZE + namesize
      td == IF NVDIRECTORY_SIZE <= max_value_size THEN Touch(t, value, 4) ELSE t
  IN  IF size = 0
      THEN IF s.level = 0 THEN Break(s, t) ELSE Cont(s, 8, s.level - 1, t)
      ELSE IF ~PairFits(size, namesize, s.left) THEN Break(s, t)
      ELSE IF NVDIRECTORY_SIZE <= max_value_size /\ Be32(buf, value) = DATA_TYPE_DIRECTORY
      THEN Cont(s, DirSize(namesize), s.level + 1, td)
      ELSE Cont(s, size, s.level,
                zfs_process_value(buf, s.pos + NVPAIR_SIZE, namelen, value,
                                  max_value_size, s.level, td))

RECURSIVE NvWalk(_, _)
NvWalk(buf, s) ==
  IF s.stop \/ s.left <= NVPAIR_SIZE THEN s.tags ELSE NvWalk(buf, NvPairStep(buf, s))

\* zfs_extract_guid_name on the 4 KiB it read: the first pair follows the
\* 12-byte nvlist header.
zfs_extract_guid_name(buf) ==
  NvWalk(buf, [pos |-> 12, left |-> NVLIST_BYTES - 12, level |-> 0,
               tags |-> NoTags, stop |-> FALSE])

-----------------------------------------------------------------------------
(* Reference: an nvlist as a sequence of pairs [kind, name, val], kind     *)
(* "string" (val: bytes), "uint64" (val: <<high, low>>) or "list" (val:    *)
(* the nested pairs), its encoding, and the tags it should give.           *)

U32(v) == <<(v \div 16777216) % 256, (v \div 65536) % 256, (v \div 256) % 256, v % 256>>
Pad4(bs) == bs \o [i \in 1..NameSize(Len(bs)) - Len(bs) |-> 0]

RECURSIVE EncPairs(_)
EncPair(p) ==
  LET value == CASE p.kind = "string" ->
                      U32(DATA_TYPE_STRING) \o U32(1) \o U32(Len(p.val)) \o Pad4(p.val)
                 [] p.kind = "uint64" ->
                      U32(DATA_TYPE_UINT64) \o U32(1) \o U32(p.val[1]) \o U32(p.val[2])
                 [] p.kind = "list" ->
                      U32(DATA_TYPE_DIRECTORY) \o U32(0) \o U32(0) \o U32(0)
                      \o EncPairs(p.val) \o U32(0) \o U32(0)
      body == Pad4(p.name \o <<0>>) \o value
  IN  U32(NVPAIR_SIZE + Len(body)) \o U32(0) \o U32(Len(p.name) + 1) \o body
EncPairs(ps) == IF ps = <<>> THEN <<>> ELSE EncPair(Head(ps)) \o EncPairs(Tail(ps))

\* The bytes of an nvlist: the 12-byte header, the pairs, zeros after.
EncNvlist(ps) ==
  {<<0, U32(0) \o U32(0) \o U32(0) \o EncPairs(ps)>>}

\* The tags of an nvlist: the top-level name string, guid and pool_guid,
\* and an ashift below 32 at any depth; the last of each wins.
RECURSIVE RefTags(_, _, _)
RefTags(ps, level, t) ==
  IF ps = <<>> THEN t
  ELSE LET p == Head(ps)
           top == level = 0
           t2 == CASE p.kind = "list" -> RefTags(p.val, level + 1, t)
                   [] top /\ p.kind = "string" /\ p.name = KeyName ->
                        [t EXCEPT !.label = <<p.val>>]
                   [] top /\ p.kind = "uint64" /\ p.name = KeyGuid ->
                        [t EXCEPT !.uuid_sub = <<p.val>>]
                   [] top /\ p.kind = "uint64" /\ p.name = KeyPoolGuid ->
                        [t EXCEPT !.uuid = <<p.val>>]
                   [] p.kind = "uint64" /\ p.name = KeyAshift /\ p.val[1] = 0 /\ p.val[2] < 32 ->
                        [t EXCEPT !.block_size = <<p.val[2]>>]
                   [] OTHER -> t
       IN  RefTags(Tail(ps), level, t2)

=============================================================================
