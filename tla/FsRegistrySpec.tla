---------------------------- MODULE FsRegistrySpec ----------------------------
(***************************************************************************)
(* What the VFS driver and volume registries promise (spec.md 4.2, 4.3,   *)
(* 5): every registry operation takes effect atomically.                   *)
(*   - a driver is registered under a unique name, and is unregistered    *)
(*     only while no volume references it;                                 *)
(*   - a volume is mounted under a unique name with a registered driver;  *)
(*   - a handle is opened on a mounted volume; unmount without force      *)
(*     fails while handles are open, with force it invalidates them.      *)
(***************************************************************************)
CONSTANTS
  DrvNames,   \* driver names
  VolNames,   \* volume (mount) names
  Handles,    \* handle slots
  NULL

VARIABLES
  drivers,    \* the registered drivers
  mounts,     \* mounts[n]: the driver of volume n, or NULL if not mounted
  hs          \* hs[h]: the volume of handle h, "free" or "invalid"

vars == <<drivers, mounts, hs>>

Init ==
  /\ drivers = {}
  /\ mounts = [n \in VolNames |-> NULL]
  /\ hs = [h \in Handles |-> "free"]

Register(d) ==
  /\ d \notin drivers
  /\ drivers' = drivers \cup {d}
  /\ UNCHANGED <<mounts, hs>>

Unregister(d) ==
  /\ d \in drivers
  /\ \A n \in VolNames : mounts[n] # d
  /\ drivers' = drivers \ {d}
  /\ UNCHANGED <<mounts, hs>>

Mount(n, d) ==
  /\ mounts[n] = NULL
  /\ d \in drivers
  /\ mounts' = [mounts EXCEPT ![n] = d]
  /\ UNCHANGED <<drivers, hs>>

Unmount(n, force) ==
  /\ mounts[n] # NULL
  /\ force \/ \A h \in Handles : hs[h] # n
  /\ mounts' = [mounts EXCEPT ![n] = NULL]
  /\ hs' = [h \in Handles |-> IF hs[h] = n THEN "invalid" ELSE hs[h]]
  /\ UNCHANGED drivers

Open(n, h) ==
  /\ mounts[n] # NULL
  /\ hs[h] = "free"
  /\ hs' = [hs EXCEPT ![h] = n]
  /\ UNCHANGED <<drivers, mounts>>

\* close releases the handle, valid or invalidated.
Close(h) ==
  /\ hs[h] # "free"
  /\ hs' = [hs EXCEPT ![h] = "free"]
  /\ UNCHANGED <<drivers, mounts>>

Next ==
  \/ \E d \in DrvNames : Register(d) \/ Unregister(d)
  \/ \E n \in VolNames, d \in DrvNames : Mount(n, d)
  \/ \E n \in VolNames, f \in BOOLEAN : Unmount(n, f)
  \/ \E n \in VolNames, h \in Handles : Open(n, h)
  \/ \E h \in Handles : Close(h)

Spec == Init /\ [][Next]_vars

=============================================================================
