------------------------------ MODULE MC_ZfsProbe ------------------------------
(* Two uberblock slots per label instead of 128; ZFS_WANT as in the code, *)
(* so that a match needs uberblocks from at least two labels.              *)
EXTENDS ZfsProbe

(* Device sizes: one 192 KiB past a whole number of labels, so that L2    *)
(* and L3 need blk_align (a whole number of labels is the case           *)
(* blk_align = 0 of the same arithmetic), and one below minsz that blkid   *)
(* never probes.                                                           *)
MCDevSizes == {67108864 + 196608, 393216}

Tank == <<116, 97, 110, 107>>                        \* "tank"
VdevTree == <<118, 100, 101, 118, 95, 116, 114, 101, 101>>  \* "vdev_tree"
Str(n, v) == [kind |-> "string", name |-> n, val |-> v]
U64(n, v) == [kind |-> "uint64", name |-> n, val |-> <<0, v>>]
List(n, ps) == [kind |-> "list", name |-> n, val |-> ps]

(* Well-formed nvlists: a vdev_tree directory holding the child's guid,   *)
(* an ashift and a name between the top-level pairs; nested directories;  *)
(* an ashift of 32 or more and values of the wrong type; an empty list.   *)
T1 == <<Str(KeyName, Tank),
        List(VdevTree, <<U64(KeyGuid, 7), U64(KeyAshift, 12), Str(KeyName, <<120>>)>>),
        U64(KeyGuid, 5), U64(KeyPoolGuid, 9)>>
T2 == <<List(VdevTree, <<List(VdevTree, <<U64(KeyGuid, 3)>>), U64(KeyPoolGuid, 4)>>),
        U64(KeyGuid, 5), U64(KeyAshift, 40)>>
T3 == <<U64(KeyName, 1), Str(KeyGuid, Tank), U64(KeyAshift, 9)>>
T4 == <<>>

NameBytes == <<110, 97, 109, 101, 0, 0, 0, 0>>       \* "name", NUL, padding

(* Malformed nvlists: a "name" pair whose size runs past the buffer; a    *)
(* pair that ends 16 bytes before the buffer's end, followed by a header  *)
(* whose name does not fit in its size; a pair with a name length of 0.   *)
R1 == {<<12, U32(5000) \o U32(0) \o U32(5) \o NameBytes \o U32(9) \o U32(1) \o U32(4500)>>}
R2 == {<<12, U32(4068) \o U32(0) \o U32(2) \o <<120, 0, 0, 0>> \o U32(9) \o U32(1) \o U32(0)>>,
       <<4080, U32(12) \o U32(0) \o U32(4)>>}
R3 == {<<12, U32(28) \o U32(0) \o U32(0) \o U32(9) \o U32(1) \o U32(4) \o Tank>>}

WellFormed(t) == [wf |-> TRUE, tree |-> t, buf |-> EncNvlist(t)]
Malformed(b) == [wf |-> FALSE, tree |-> <<>>, buf |-> b]
MCNvLists == <<WellFormed(T1), WellFormed(T2), WellFormed(T3), WellFormed(T4),
               Malformed(R1), Malformed(R2), Malformed(R3)>>
=============================================================================
