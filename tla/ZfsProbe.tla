------------------------------- MODULE ZfsProbe -------------------------------
(***************************************************************************)
(* blkid's ZFS probe (src/unnamed/part_001, probe_zfs and                 *)
(* find_uberblocks): look at the four vdev labels L0..L3, count the        *)
(* uberblocks whose magic is UBERBLOCK_MAGIC in either byte order, stop at *)
(* ZFS_WANT, and report the version and magic of the last uberblock found  *)
(* and the name/guid of the label the loop stopped in.                     *)
(*                                                                         *)
(* A label is abstracted to how the probe sees it: "covered" (inside a     *)
(* partition while probing a whole disk: skipped), "unreadable"            *)
(* (blkid_probe_get_buffer fails) or the magics of its uberblock slots,    *)
(* each "none", "native" or "swapped".  Byte offsets are replaced by the   *)
(* label number and the slot number they stand for; the label offsets    *)
(* are bytes, computed from the device size as the code does.  On a match  *)
(* the probe walks the nvlist of the label it stopped in (ZfsNvlist).  The *)
(* nvlist lies at 16 KiB into the label and the uberblocks from 128 KiB,   *)
(* and nothing else reads it, so it is chosen when it is read.             *)
(***************************************************************************)
EXTENDS Integers, FiniteSets, ZfsNvlist

CONSTANTS
  UberblocksCount,  \* UBERBLOCKS_COUNT (128 in the code)
  ZfsWant,          \* ZFS_WANT (4 in the code)
  DevSizes,         \* the device sizes (pr->size) blkid may probe
  NvLists           \* the nvlists a label may hold: NvLists[i] = [wf, tree, buf]

ASSUME UberblocksCount \in Nat \ {0} /\ ZfsWant \in Nat \ {0}

VDEV_LABEL_SIZE == 262144   \* 256 KiB
VDEV_LABEL_NVPAIR == 16384  \* 16 KiB
\* zfs_idinfo.minsz: blkid only runs probe_zfs on devices this big.
zfs_minsz == 67108864       \* 64 MiB

NoUb == [label |-> -1, slot |-> -1]
LabelNos == 0..3
Slots == 1..UberblocksCount
Magic == {"none", "native", "swapped"}
Blank == [i \in Slots |-> "none"]
Label == [kind : {"covered", "unreadable"}, magic : {Blank}] \cup
         [kind : {"data"}, magic : [Slots -> Magic]]
\* Read error: return errno ? -errno : 1 (errno EIO, or left 0).
EIO == -5
\* The nvlist could not be read (blkid_probe_get_buffer returned NULL).
NvUnreadable == 0

\* Mutant: L2 and L3 placed without rounding the size down to a label.
LabelOffsetNoAlign(n, size) ==
  <<0, VDEV_LABEL_SIZE, size - 2 * VDEV_LABEL_SIZE, size - VDEV_LABEL_SIZE>>[n + 1]

\* The offset probe_zfs jumps to for label n: L0 and L1 at the start, L2
\* and L3 at the end, less blk_align = size % 256 KiB.
LabelOffset(n, size) ==
  LET blk_align == size % VDEV_LABEL_SIZE IN
  <<0, VDEV_LABEL_SIZE, size - 2 * VDEV_LABEL_SIZE - blk_align,
    size - VDEV_LABEL_SIZE - blk_align>>[n + 1]

\* zfs_extract_guid_name's offset: the start of the label offset lies in,
\* plus VDEV_LABEL_NVPAIR.
NvlistOffset(offset) ==
  (offset \div VDEV_LABEL_SIZE) * VDEV_LABEL_SIZE + VDEV_LABEL_NVPAIR

VARIABLES
  disk,       \* disk[n]: label n as the probe sees it
  label_no,   \* loop counter
  found,      \* uberblocks found so far
  ub,         \* the last uberblock found: [label, slot]
  swap,       \* bswap_endian
  offset,     \* the byte offset the loop last jumped to
  result,     \* 0: ZFS, 1: not ZFS, EIO: read error
  pc,
  size,       \* pr->size
  nvlist,     \* the index in NvLists of the nvlist read, or NvUnreadable
  tags        \* the tags zfs_extract_guid_name set

vars == <<disk, label_no, found, ub, swap, offset, result, pc, size, nvlist, tags>>

\* Mutant: find_uberblocks without the byte-swapped magic test.
FindNativeOnly(l) ==
  LET hits == {i \in Slots : l.magic[i] = "native"}
      last == IF hits = {} THEN 0
              ELSE CHOOSE i \in hits : \A j \in hits : j <= i
  IN  [found |-> Cardinality(hits), slot |-> last, swap |-> FALSE]

\* find_uberblocks: the number of slots with the magic in either byte
\* order, and the last such slot with its byte order.
find_uberblocks(l) ==
  LET hits == {i \in Slots : l.magic[i] # "none"}
      last == IF hits = {} THEN 0
              ELSE CHOOSE i \in hits : \A j \in hits : j <= i
  IN  [found |-> Cardinality(hits), slot |-> last,
       swap |-> last # 0 /\ l.magic[last] = "swapped"]

Init ==
  /\ disk \in [LabelNos -> Label]
  /\ label_no = 0
  /\ found = 0
  /\ ub = NoUb
  /\ swap = FALSE
  /\ offset = 0
  /\ result = 1
  /\ pc = "loop"
  /\ size \in {s \in DevSizes : s >= zfs_minsz}
  /\ nvlist = NvUnreadable
  /\ tags = NoTags

\* "continue" past a label that lies within a partition.
SkipCovered ==
  /\ label_no' = label_no + 1
  /\ UNCHANGED <<found, ub, swap, result, pc>>

\* Mutant: the label loop without the break at ZFS_WANT.
FoundNoBreak(l) ==
  LET r == find_uberblocks(l) IN
  /\ found' = found + r.found
  /\ ub' = IF r.found > 0 THEN [label |-> label_no, slot |-> r.slot] ELSE ub
  /\ swap' = IF r.found > 0 THEN r.swap ELSE swap
  /\ label_no' = label_no + 1
  /\ UNCHANGED <<result, pc>>

\* Mutant: ub and ub_offset taken outside "if (found_in_label > 0)".
FoundUbAlways(l) ==
  LET r == find_uberblocks(l) IN
  /\ found' = found + r.found
  /\ ub' = [label |-> label_no, slot |-> r.slot]
  /\ swap' = r.swap
  /\ IF r.found > 0 /\ found' >= ZfsWant
     THEN pc' = "check" /\ UNCHANGED label_no
     ELSE label_no' = label_no + 1 /\ UNCHANGED pc
  /\ UNCHANGED result

\* A readable label: count its uberblocks; if any, remember the last one
\* and its byte order, and stop once ZFS_WANT are found.
FoundInLabel(l) ==
  LET r == find_uberblocks(l) IN
  /\ found' = found + r.found
  /\ ub' = IF r.found > 0 THEN [label |-> label_no, slot |-> r.slot] ELSE ub
  /\ swap' = IF r.found > 0 THEN r.swap ELSE swap
  /\ IF r.found > 0 /\ found' >= ZfsWant
     THEN pc' = "check" /\ UNCHANGED label_no
     ELSE label_no' = label_no + 1 /\ UNCHANGED pc
  /\ UNCHANGED result

\* One iteration of probe_zfs's label loop: jump to the label, skip it if
\* covered, return on a read error (errno ? -errno : 1), else count.
ScanLabel ==
  /\ pc = "loop"
  /\ label_no < 4
  /\ offset' = LabelOffset(label_no, size)
  /\ LET l == disk[label_no] IN
     \/ l.kind = "covered" /\ SkipCovered
     \/ /\ l.kind = "unreadable"
        /\ result' \in {EIO, 1}
        /\ pc' = "done"
        /\ UNCHANGED <<label_no, found, ub, swap>>
     \/ l.kind = "data" /\ FoundInLabel(l)
  /\ UNCHANGED <<disk, size, nvlist, tags>>

\* After the loop: fewer than ZFS_WANT uberblocks is "not ZFS".
LoopExit ==
  /\ pc = "loop"
  /\ label_no = 4
  /\ pc' = "check"
  /\ UNCHANGED <<disk, label_no, found, ub, swap, offset, result, size, nvlist, tags>>

\* After the loop: fewer than ZFS_WANT uberblocks is "not ZFS"; else the
\* version is reported, the nvlist of the label at offset is walked (or
\* skipped if it cannot be read) and the magic set.
Check ==
  /\ pc = "check"
  /\ pc' = "done"
  /\ \/ /\ found < ZfsWant
        /\ result' = 1
        /\ UNCHANGED <<nvlist, tags>>
     \/ /\ found >= ZfsWant
        /\ result' = 0
        /\ nvlist' = NvUnreadable
        /\ UNCHANGED tags
     \/ /\ found >= ZfsWant
        /\ result' = 0
        /\ \E i \in DOMAIN NvLists :
             /\ nvlist' = i
             /\ tags' = zfs_extract_guid_name(NvLists[i].buf)
  /\ UNCHANGED <<disk, label_no, found, ub, swap, offset, size>>

probe_zfs == ScanLabel \/ LoopExit \/ Check

Spec == Init /\ [][probe_zfs]_vars

-----------------------------------------------------------------------------
IsTag(t, S) == t = Unset \/ (Len(t) = 1 /\ t[1] \in S)

TypeOK ==
  /\ disk \in [LabelNos -> Label]
  /\ label_no \in 0..4
  /\ found \in 0..4 * UberblocksCount
  /\ ub \in {NoUb} \cup [label : LabelNos, slot : Slots]
  /\ swap \in BOOLEAN
  /\ offset \in {LabelOffset(n, size) : n \in LabelNos}
  /\ result \in {0, 1, EIO}
  /\ pc \in {"loop", "check", "done"}
  /\ size \in DevSizes
  /\ nvlist \in DOMAIN NvLists \cup {NvUnreadable}
  /\ DOMAIN tags = {"label", "uuid_sub", "uuid", "block_size", "hi"}
  /\ IsTag(tags.label, Seq(0..255))
  /\ IsTag(tags.uuid_sub, Nat \X Nat) /\ IsTag(tags.uuid, Nat \X Nat)
  /\ IsTag(tags.block_size, 0..31)
  /\ tags.hi \in Nat

\* Uberblocks in the readable, uncovered labels before label n.
RECURSIVE CountBefore(_)
CountBefore(n) ==
  IF n = 0 THEN 0
  ELSE CountBefore(n - 1) +
       (IF disk[n - 1].kind # "data" THEN 0
        ELSE Cardinality({i \in Slots : disk[n - 1].magic[i] # "none"}))

FirstUnreadable ==
  IF \E n \in LabelNos : disk[n].kind = "unreadable"
  THEN CHOOSE n \in LabelNos : disk[n].kind = "unreadable" /\
                               \A m \in 0..n - 1 : disk[m].kind # "unreadable"
  ELSE 4

\* The device is reported as ZFS exactly when the labels read before the
\* first read error hold ZFS_WANT uberblocks (in either byte order); a read
\* error before that is an error, anything else "not ZFS".
ProbeMatchesReference ==
  pc = "done" =>
    result \in IF CountBefore(FirstUnreadable) >= ZfsWant THEN {0}
                ELSE IF FirstUnreadable < 4 THEN {EIO, 1} ELSE {1}

\* On a match, the version and magic are read from an uberblock that has
\* the magic in the byte order bswap_endian says, and the name and guid
\* from the label that uberblock lies in.
UberblockReported ==
  pc = "done" /\ result = 0 =>
    /\ offset = LabelOffset(ub.label, size)
    /\ disk[ub.label].magic[ub.slot] = IF swap THEN "swapped" ELSE "native"

\* Label n of the device: L0 and L1 the first two 256 KiB slots, L2 and
\* L3 the last two whole slots.
LabelSlot(n) ==
  LET end == (size \div VDEV_LABEL_SIZE) * VDEV_LABEL_SIZE IN
  <<0, VDEV_LABEL_SIZE, end - 2 * VDEV_LABEL_SIZE, end - VDEV_LABEL_SIZE>>[n + 1]

\* On a match, the label the uberblocks were counted in was read from a
\* whole label slot inside the device, and the nvlist
\* zfs_extract_guid_name reads is the one 16 KiB into that slot: with
\* blk_align, L2 and L3 are read from the last two whole slots whatever
\* the device size, and minsz keeps them above zero.
MatchedLabelOnSlot ==
  pc = "done" /\ result = 0 =>
    /\ offset = LabelSlot(ub.label)
    /\ 0 <= LabelSlot(ub.label)
    /\ LabelSlot(ub.label) + VDEV_LABEL_SIZE <= size
    /\ NvlistOffset(offset) = LabelSlot(ub.label) + VDEV_LABEL_NVPAIR

\* Whatever the sizes and name lengths in the nvlist say, the walk in
\* zfs_extract_guid_name and zfs_process_value never reads past the 4 KiB
\* blkid_probe_get_buffer returned.
NvlistReadsInBounds ==
  tags.hi <= NVLIST_BYTES

\* On a well-formed nvlist the probe reports its top-level name, guid and
\* pool_guid and its (last) ashift, whatever directories come between:
\* the walk's byte arithmetic and directory_level follow the list's tree.
NvlistMatchesReference ==
  pc = "done" /\ result = 0 /\ nvlist # NvUnreadable /\ NvLists[nvlist].wf =>
    [tags EXCEPT !.hi = 0] = RefTags(NvLists[nvlist].tree, 0, NoTags)

=============================================================================
