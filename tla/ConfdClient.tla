----------------------------- MODULE ConfdClient -----------------------------
(***************************************************************************)
(* A confd daemon and its clients (src/include/confd.h), and the kernel   *)
(* command-line handlers that write to it (src/unnamed/part_002).  The    *)
(* daemon may quit and be restarted, the client's socket may be closed    *)
(* and reopened, the store may be saved to and loaded from config files,  *)
(* and other clients set and delete items between the handlers' calls.   *)
(***************************************************************************)
EXTENDS ConfdStore

CONSTANTS
  Files,      \* config files for save/load
  CmdArgs,    \* command-line values given to the handlers
  ParseInt    \* ParseInt[v]: the number v spells, or NULL

\* parse_int(v, 0): the number v spells, or the default 0.
parse_int(v) == IF ParseInt[v] = NULL THEN 0 ELSE ParseInt[v]

DpiPath == <<"runtime", "cmdline", "dpi">>
DpiForcePath == <<"runtime", "cmdline", "dpi_force">>
BacklightPath == <<"runtime", "cmdline", "backlight">>

VARIABLES
  store,    \* the daemon's items
  daemon,   \* the daemon is running
  sock,     \* the client's socket is connected
  files     \* files[f]: the store saved in config file f, or MISSING

vars == <<store, daemon, sock, files>>

Up == daemon /\ sock

Init ==
  /\ store = EmptyStore
  /\ daemon = TRUE
  /\ sock = TRUE
  /\ files = [f \in Files |-> MISSING]

\* start_confd: a new daemon with an empty store.
start_confd ==
  /\ ~daemon
  /\ daemon' = TRUE
  /\ store' = EmptyStore
  /\ UNCHANGED <<sock, files>>

\* open_confd_socket: connect (to a running daemon).
open_confd_socket ==
  /\ ~sock
  /\ sock' = daemon
  /\ UNCHANGED <<store, daemon, files>>

\* set_confd_socket: adopt a socket fd connected to the daemon, if any.
set_confd_socket ==
  /\ sock' = daemon
  /\ UNCHANGED <<store, daemon, files>>

close_confd_socket ==
  /\ sock
  /\ sock' = FALSE
  /\ UNCHANGED <<store, daemon, files>>

\* confd_quit: the daemon exits and its store is gone.
confd_quit ==
  /\ Up
  /\ daemon' = FALSE
  /\ sock' = FALSE
  /\ store' = EmptyStore
  /\ UNCHANGED files

confd_save_file(f) ==
  /\ Up
  /\ files' = [files EXCEPT ![f] = store]
  /\ UNCHANGED <<store, daemon, sock>>

confd_load_file(f) ==
  /\ Up
  /\ files[f] # MISSING
  /\ store' = LoadItems(store, files[f], Paths)
  /\ UNCHANGED <<daemon, sock, files>>

\* Any other client: set an item, or delete a subtree.
ClientSet(p, type, v) ==
  /\ CanSet(store, Up, p)
  /\ store' = ConfdSet(store, p, type, v)
  /\ UNCHANGED <<daemon, sock, files>>

ClientDelete(p) ==
  /\ Up
  /\ store' = confd_delete(store, p)
  /\ UNCHANGED <<daemon, sock, files>>

\* Mutant: the range check without its upper bound.
DpiValidNoUpper(r) == 0 <= r

\* The range check of cmdline_dpi and cmdline_dpi_force.
DpiValid(r) == 0 <= r /\ r <= 1000

\* cmdline_dpi / cmdline_dpi_force: parse_int(v, 0), warn and return 0
\* outside 0..1000, else confd_set_integer (its result ignored).
CmdlineInt(path, v) ==
  LET r == parse_int(v) IN
  /\ store' = IF DpiValid(r) /\ CanSet(store, Up, path)
              THEN ConfdSet(store, path, TYPE_INTEGER, r) ELSE store
  /\ UNCHANGED <<daemon, sock, files>>

cmdline_dpi(v) == CmdlineInt(DpiPath, v)
cmdline_dpi_force(v) == CmdlineInt(DpiForcePath, v)

\* cmdline_backlight: confd_set_string of the value as given (a failed set
\* is ignored).
cmdline_backlight(v) ==
  /\ store' = IF CanSet(store, Up, BacklightPath)
              THEN ConfdSet(store, BacklightPath, TYPE_STRING, v) ELSE store
  /\ UNCHANGED <<daemon, sock, files>>

Next ==
  \/ start_confd \/ open_confd_socket \/ set_confd_socket \/ close_confd_socket
  \/ confd_quit
  \/ \E f \in Files : confd_save_file(f) \/ confd_load_file(f)
  \/ \E p \in Paths :
       \/ ClientDelete(p)
       \/ \E v \in Ints : ClientSet(p, TYPE_INTEGER, v)
       \/ \E v \in Strs : ClientSet(p, TYPE_STRING, v)
  \/ \E v \in CmdArgs :
       cmdline_dpi(v) \/ cmdline_dpi_force(v) \/ cmdline_backlight(v)

Spec == Init /\ [][Next]_vars

-----------------------------------------------------------------------------
TypeOK ==
  /\ store \in Store
  /\ daemon \in BOOLEAN /\ sock \in BOOLEAN
  /\ files \in [Files -> Store \cup {MISSING}]

=============================================================================
