--------------------------- MODULE MC_LinuxConfig ---------------------------
(***************************************************************************)
(* Stores for the loader under the key "linux": every store is the tree   *)
(* of a choice of leaf items (absent or one of a few values), with their  *)
(* ancestors as TYPE_KEY items.                                            *)
(***************************************************************************)
EXTENDS LinuxConfig

KeyItem == [type |-> TYPE_KEY, val |-> NULL]
I(v) == [type |-> TYPE_INTEGER, val |-> v]
S(v) == [type |-> TYPE_STRING, val |-> v]
B(v) == [type |-> TYPE_BOOLEAN, val |-> v]

\* The tree of the leaves c[f] at the paths leaf[f].
TreeOf(c, leaf, paths) ==
  [p \in paths |->
     CASE \E f \in DOMAIN c : leaf[f] = p /\ c[f] # MISSING -> c[CHOOSE f \in DOMAIN c : leaf[f] = p]
       [] \E f \in DOMAIN c : c[f] # MISSING /\ p \in Ancestors(leaf[f]) -> KeyItem
       [] OTHER -> MISSING]

PathsOf(leaf) ==
  UNION {{SubSeq(leaf[f], 1, i) : i \in 1..Len(leaf[f])} : f \in DOMAIN leaf}

IV == {MISSING, I(1), I(2)}

\* The main stores: a boot source, two flags, an id, the splash region and
\* the load address region.
MainLeaf == [kernel |-> <<"linux", "kernel">>, use_uefi |-> <<"linux", "use_uefi">>,
             custom |-> <<"linux", "load_custom_address">>,
             dtb_id |-> <<"linux", "dtb_id">>,
             sbase |-> <<"linux", "splash", "base">>, ssize |-> <<"linux", "splash", "size">>,
             sstart |-> <<"linux", "splash", "start">>, send |-> <<"linux", "splash", "end">>,
             lstart |-> <<"linux", "address", "load", "start">>,
             lsize |-> <<"linux", "address", "load", "size">>]
MainPaths == PathsOf(MainLeaf)
MainStores ==
  {TreeOf(c, MainLeaf, MainPaths) :
     c \in [kernel : {MISSING, S("k"), S("long")}, use_uefi : {MISSING, B(FALSE)},
            custom : {MISSING, B(TRUE), B(FALSE)}, dtb_id : {MISSING, I(1)},
            sbase : IV, ssize : IV, sstart : IV, send : IV, lstart : IV, lsize : IV]}

\* The memory stores: regions under linux.memory named "splash" and "m",
\* and a splash region of the config itself.
MemLeaf == [mss |-> <<"linux", "memory", "splash", "start">>,
            mse |-> <<"linux", "memory", "splash", "end">>,
            mms |-> <<"linux", "memory", "m", "start">>,
            mme |-> <<"linux", "memory", "m", "end">>,
            ss |-> <<"linux", "splash", "start">>, se |-> <<"linux", "splash", "end">>]
MemPaths == PathsOf(MemLeaf)
MemStores == {TreeOf(c, MemLeaf, MemPaths) :
                c \in [mss : IV, mse : IV, mms : IV, mme : IV, ss : IV, se : IV]}

MCKey == <<"linux">>
MCPcdRegion == [a \in AddrNames |-> [start |-> 8, end |-> 9]]

=============================================================================
