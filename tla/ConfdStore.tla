------------------------------ MODULE ConfdStore ------------------------------
(***************************************************************************)
(* The confd configuration store as its clients see it through            *)
(* src/include/confd.h: typed items (enum conf_type) addressed by paths,  *)
(* typed get/set with _base/_dict/_array forms that join path parts,      *)
(* delete, ls and load.  The daemon (src/confd) is not in this          *)
(* repository; its store is modelled as the header and its callers use    *)
(* it: a tree of items, where every proper prefix of an item's path is a  *)
(* TYPE_KEY item, a get returns its default when the item is absent or of *)
(* another type (part_003 passes 0, -1 and NULL defaults), and any call   *)
(* fails (get: the default, set: nonzero) without a daemon to talk to.    *)
(* Paths is the universe of paths that may hold an item; a path outside   *)
(* it is never set, and reads as absent.                                   *)
(* A path is the sequence of its dot-separated parts.  This module holds  *)
(* the operations as operators over a store; ConfdClient and LinuxConfig  *)
(* use them.                                                               *)
(***************************************************************************)
EXTENDS Integers, Sequences, FiniteSets, SequencesExt

CONSTANTS
  Paths,      \* the paths clients use (prefix-closed)
  Ints,       \* integers clients store
  Strs,       \* strings clients store
  NULL,
  MISSING


\* enum conf_type
TYPE_KEY == 44801
TYPE_STRING == 44802
TYPE_INTEGER == 44803
TYPE_BOOLEAN == 44804

Item == [type : {TYPE_KEY}, val : {NULL}] \cup
        [type : {TYPE_STRING}, val : Strs] \cup
        [type : {TYPE_INTEGER}, val : Ints] \cup
        [type : {TYPE_BOOLEAN}, val : BOOLEAN]
Store == [Paths -> Item \cup {MISSING}]
EmptyStore == [p \in Paths |-> MISSING]

Ancestors(p) == {SubSeq(p, 1, i) : i \in 1..Len(p) - 1}

\* DECLARE_FUNC: func_base and func_dict join their parts
\* with dots in front of the path.
PathBase(base, path) == base \o path
PathDict(base, key, path) == base \o key \o path

(***************************************************************************)
(* The store operations.  up: a daemon is reachable through the socket.   *)
(***************************************************************************)
\* confd_get_integer / _string / _boolean: the value, or the default.
ConfdGet(st, up, p, type, dflt) ==
  IF up /\ p \in Paths /\ st[p] # MISSING /\ st[p].type = type
  THEN st[p].val ELSE dflt

IsKeyOrMissing(i) == IF i = MISSING THEN TRUE ELSE i.type = TYPE_KEY

\* Assumed daemon semantics (the daemon is not in the repository): a set
\* succeeds when every ancestor is absent or a key and the item is not a
\* key; the missing ancestors become keys.
CanSet(st, up, p) ==
  /\ up
  /\ \A a \in Ancestors(p) : IsKeyOrMissing(st[a])
  /\ IF st[p] = MISSING THEN TRUE ELSE st[p].type # TYPE_KEY

\* confd_set_integer / _string / _boolean on the store.
ConfdSet(st, p, type, v) ==
  [q \in Paths |->
     IF q = p THEN [type |-> type, val |-> v]
     ELSE IF q \in Ancestors(p) /\ st[q] = MISSING
          THEN [type |-> TYPE_KEY, val |-> NULL]
     ELSE st[q]]

\* confd_delete, as assumed of the daemon: the item and everything under it.
confd_delete(st, p) ==
  [q \in Paths |-> IF IsPrefix(p, q) THEN MISSING ELSE st[q]]

\* confd_ls: the names of the item's children.
confd_ls(st, p) ==
  {q[Len(q)] : q \in {q \in Paths : Len(q) = Len(p) + 1 /\ IsPrefix(p, q)
                                     /\ st[q] # MISSING}}

\* confd_load_file, as assumed of the daemon: set every item of the file,
\* shortest paths first, as a client would; an item under a non-key item
\* of the store is not set.
RECURSIVE LoadItems(_, _, _)
LoadItems(st, f, ps) ==
  IF ps = {} THEN st
  ELSE LET p  == CHOOSE q \in ps : \A r \in ps : Len(q) <= Len(r)
           st1 == IF f[p] = MISSING \/ f[p].type = TYPE_KEY \/ ~CanSet(st, TRUE, p)
                  THEN st ELSE ConfdSet(st, p, f[p].type, f[p].val)
       IN  LoadItems(st1, f, ps \ {p})

=============================================================================
