------------------------------ MODULE FsRegistry ------------------------------
(***************************************************************************)
(* The VFS driver and volume registries as threads use them.               *)
(*                                                                         *)
(* From the source (src/unnamed/part_001, drivers.c): the registries are  *)
(* global lists, each guarded by its own mutex (fsdrv_lock, fsvol_lock,    *)
(* fsvol_info_lock), and the drivers are registered at startup by the     *)
(* fs_initiator table, whose entries depend on the build (assets always;  *)
(* socket and posix only without ENABLE_UEFI; zip with ENABLE_LIBZIP).    *)
(*                                                                         *)
(* The register, mount, unmount, open, close and read operations are not  *)
(* in this repository; they follow spec.md 4.1-4.3 and 5: a lock is held  *)
(* for the minimum span and released before calling into driver code, and *)
(* the driver lock is taken after the volume lock.  The driver lock is    *)
(* never held across a step here, so it is not a variable; the volume lock *)
(* is held from one step to the next by mount and unregister.             *)
(***************************************************************************)
EXTENDS Integers, Sequences, FiniteSets

CONSTANTS
  Threads,    \* threads calling into the VFS
  VolNames,   \* mount names
  Handles,    \* handle slots
  UEFI,       \* ENABLE_UEFI
  LIBZIP,     \* ENABLE_LIBZIP
  NULL

ASSUME UEFI \in BOOLEAN /\ LIBZIP \in BOOLEAN

DrvNames == {"assets", "socket", "posix", "zip"}

\* fs_initiator[]: the drivers registered at startup, in order.
fs_initiator ==
  <<"assets">> \o (IF UEFI THEN <<>> ELSE <<"socket", "posix">>)
               \o (IF LIBZIP THEN <<"zip">> ELSE <<>>)

\* The drivers this build contains.
Compiled == {fs_initiator[i] : i \in DOMAIN fs_initiator}

VARIABLES
  init_i,     \* next entry of fs_initiator to run
  drivers,    \* fs_drivers: registered driver names
  vols,       \* fs_volumes: vols[n] = [drv, open] or NULL
  hnd,        \* hnd[h]: [st : "free" | "open" | "invalid", vol, owner]
  vol_lock,   \* holder of fsvol_lock, or NULL
  pc,         \* pc[t]: where thread t is in its current operation
  arg         \* arg[t]: [name, drv, h] of thread t's current operation

vars == <<init_i, drivers, vols, hnd, vol_lock, pc, arg>>

NoArg == [name |-> NULL, drv |-> NULL, h |-> NULL]
FreeHandle == [st |-> "free", vol |-> NULL, owner |-> NULL]
Started == init_i > Len(fs_initiator)
Idle(t) == Started /\ pc[t] = "idle"
Done(t) == pc' = [pc EXCEPT ![t] = "idle"] /\ arg' = [arg EXCEPT ![t] = NoArg]

\* The registry globals start empty, every lock free.
Init ==
  /\ init_i = 1
  /\ drivers = {}
  /\ vols = [n \in VolNames |-> NULL]
  /\ hnd = [h \in Handles |-> FreeHandle]
  /\ vol_lock = NULL
  /\ pc = [t \in Threads |-> "idle"]
  /\ arg = [t \in Threads |-> NoArg]

\* Startup: call the next initiator with deinit = false; it registers its
\* driver.
RunInitiator ==
  /\ ~Started
  /\ drivers' = drivers \cup {fs_initiator[init_i]}
  /\ init_i' = init_i + 1
  /\ UNCHANGED <<vols, hnd, vol_lock, pc, arg>>

\* register(driver) under the driver lock: AlreadyRegistered on a name
\* collision.
Register(t, d) ==
  /\ Idle(t)
  /\ d \notin drivers
  /\ drivers' = drivers \cup {d}
  /\ UNCHANGED <<init_i, vols, hnd, vol_lock, pc, arg>>

\* unregister(name): take the volume lock, then (next step) the driver
\* lock; Busy while a volume uses the driver, NotFound if absent.
UnregisterLock(t, d) ==
  /\ Idle(t)
  /\ vol_lock = NULL
  /\ vol_lock' = t
  /\ pc' = [pc EXCEPT ![t] = "u_drv"]
  /\ arg' = [arg EXCEPT ![t].drv = d]
  /\ UNCHANGED <<init_i, drivers, vols, hnd>>

UnregisterDriver(t) ==
  /\ pc[t] = "u_drv"
  /\ drivers' = IF \E n \in VolNames : vols[n] # NULL /\ vols[n].drv = arg[t].drv
                THEN drivers ELSE drivers \ {arg[t].drv}
  /\ vol_lock' = NULL
  /\ Done(t)
  /\ UNCHANGED <<init_i, vols, hnd>>

\* mount(name, driver): look the driver up under the driver lock
\* (DriverNotFound), then call its mount capability with no lock held.
MountLookup(t, n, d) ==
  /\ Idle(t)
  /\ d \in drivers
  /\ pc' = [pc EXCEPT ![t] = "m_call"]
  /\ arg' = [arg EXCEPT ![t] = [NoArg EXCEPT !.name = n, !.drv = d]]
  /\ UNCHANGED <<init_i, drivers, vols, hnd, vol_lock>>

\* The driver's mount: an I/O error ends the call, else the volume is
\* stored under the volume lock.
MountCall(t) ==
  /\ pc[t] = "m_call"
  /\ \/ Done(t)
     \/ pc' = [pc EXCEPT ![t] = "m_lock"] /\ UNCHANGED arg
  /\ UNCHANGED <<init_i, drivers, vols, hnd, vol_lock>>

MountLock(t) ==
  /\ pc[t] = "m_lock"
  /\ vol_lock = NULL
  /\ vol_lock' = t
  /\ pc' = [pc EXCEPT ![t] = "m_insert"]
  /\ UNCHANGED <<init_i, drivers, vols, hnd, arg>>

\* Mutant: the insert trusts the lookup made before the driver call.
MountInsertNoRecheck(t) ==
  LET n == arg[t].name
      d == arg[t].drv
  IN  /\ pc[t] = "m_insert"
      /\ vols' = IF vols[n] = NULL
                 THEN [vols EXCEPT ![n] = [drv |-> d, open |-> 0]] ELSE vols
      /\ vol_lock' = NULL
      /\ Done(t)
      /\ UNCHANGED <<init_i, drivers, hnd>>

\* Holding the volume lock: NameInUse if the name is mounted; take the
\* driver lock (after the volume lock) and check the driver is still
\* registered; store the volume.
MountInsert(t) ==
  LET n == arg[t].name
      d == arg[t].drv
  IN  /\ pc[t] = "m_insert"
      /\ vols' = IF vols[n] = NULL /\ d \in drivers
                 THEN [vols EXCEPT ![n] = [drv |-> d, open |-> 0]] ELSE vols
      /\ vol_lock' = NULL
      /\ Done(t)
      /\ UNCHANGED <<init_i, drivers, hnd>>

\* Mutant: force unmount releases the volume without invalidating handles.
UnmountKeepsHandles(t, n, force) ==
  /\ Idle(t)
  /\ vol_lock = NULL
  /\ vols[n] # NULL
  /\ force \/ vols[n].open = 0
  /\ vols' = [vols EXCEPT ![n] = NULL]
  /\ UNCHANGED <<init_i, drivers, hnd, vol_lock, pc, arg>>

\* unmount(name, force) under the volume lock: NoSuchVolume, Busy while
\* handles are open and not force; else invalidate them and release.
Unmount(t, n, force) ==
  /\ Idle(t)
  /\ vol_lock = NULL
  /\ vols[n] # NULL
  /\ force \/ vols[n].open = 0
  /\ vols' = [vols EXCEPT ![n] = NULL]
  /\ hnd' = [h \in Handles |->
               IF hnd[h].st = "open" /\ hnd[h].vol = n
               THEN [hnd[h] EXCEPT !.st = "invalid"] ELSE hnd[h]]
  /\ UNCHANGED <<init_i, drivers, vol_lock, pc, arg>>

\* open(path) on a mounted volume: the handle counts on the volume.
Open(t, n, h) ==
  /\ Idle(t)
  /\ vol_lock = NULL
  /\ vols[n] # NULL
  /\ hnd[h].st = "free"
  /\ hnd' = [hnd EXCEPT ![h] = [st |-> "open", vol |-> n, owner |-> t]]
  /\ vols' = [vols EXCEPT ![n].open = @ + 1]
  /\ UNCHANGED <<init_i, drivers, vol_lock, pc, arg>>

\* Mutant: close decrements the count of whatever volume has the name.
CloseNoCheck(t, h) ==
  LET n == hnd[h].vol IN
  /\ Idle(t)
  /\ vol_lock = NULL
  /\ hnd[h].owner = t
  /\ vols' = IF vols[n] # NULL THEN [vols EXCEPT ![n].open = @ - 1] ELSE vols
  /\ hnd' = [hnd EXCEPT ![h] = FreeHandle]
  /\ UNCHANGED <<init_i, drivers, vol_lock, pc, arg>>

\* close(handle): a valid handle stops counting on its volume; an
\* invalidated one fails with InvalidHandle; both are released.
Close(t, h) ==
  LET n == hnd[h].vol IN
  /\ Idle(t)
  /\ vol_lock = NULL
  /\ hnd[h].owner = t
  /\ vols' = IF hnd[h].st = "open" THEN [vols EXCEPT ![n].open = @ - 1]
             ELSE vols
  /\ hnd' = [hnd EXCEPT ![h] = FreeHandle]
  /\ UNCHANGED <<init_i, drivers, vol_lock, pc, arg>>

\* read(handle): check the handle (InvalidHandle), then call the driver's
\* read with the volume's context; the handle carries no lock.
ReadCheck(t, h) ==
  /\ Idle(t)
  /\ hnd[h].owner = t
  /\ hnd[h].st = "open"
  /\ pc' = [pc EXCEPT ![t] = "r_call"]
  /\ arg' = [arg EXCEPT ![t].h = h]
  /\ UNCHANGED <<init_i, drivers, vols, hnd, vol_lock>>

ReadCall(t) ==
  /\ pc[t] = "r_call"
  /\ Done(t)
  /\ UNCHANGED <<init_i, drivers, vols, hnd, vol_lock>>

Next ==
  \/ RunInitiator
  \/ \E t \in Threads :
       \/ \E d \in Compiled : Register(t, d) \/ UnregisterLock(t, d)
       \/ UnregisterDriver(t)
       \/ \E n \in VolNames, d \in Compiled : MountLookup(t, n, d)
       \/ MountCall(t) \/ MountLock(t) \/ MountInsert(t)
       \/ \E n \in VolNames, f \in BOOLEAN : Unmount(t, n, f)
       \/ \E n \in VolNames, h \in Handles : Open(t, n, h)
       \/ \E h \in Handles : Close(t, h) \/ ReadCheck(t, h)
       \/ ReadCall(t)

Spec == Init /\ [][Next]_vars

-----------------------------------------------------------------------------
TypeOK ==
  /\ init_i \in 1..Len(fs_initiator) + 1
  /\ drivers \subseteq Compiled
  /\ vols \in [VolNames -> {NULL} \cup [drv : Compiled, open : 0..Cardinality(Handles)]]
  /\ hnd \in [Handles -> {FreeHandle} \cup
               [st : {"open", "invalid"}, vol : VolNames, owner : Threads]]
  /\ vol_lock \in Threads \cup {NULL}
  /\ pc \in [Threads -> {"idle", "u_drv", "m_call", "m_lock", "m_insert", "r_call"}]

\* No mounted volume outlives its driver's registration (spec.md 3: "the
\* volume does not outlive driver deregistration"): a mount that looked its
\* driver up before calling the driver's mount, and an unregister that ran
\* in between, must not leave a volume whose driver is gone.
VolumeDriverRegistered ==
  \A n \in VolNames : vols[n] # NULL => vols[n].drv \in drivers

\* A volume's count of open handles is the number of valid handles on it,
\* across force unmounts, remounts under the same name and closes of
\* invalidated handles.  Unmount's Busy check relies on it.
OpenCountExact ==
  \A n \in VolNames : vols[n] # NULL =>
    vols[n].open = Cardinality({h \in Handles : hnd[h].st = "open" /\ hnd[h].vol = n})

\* A driver read is only ever running on a handle that is still valid, so
\* on a volume that is still mounted (spec.md 4.3: after a force unmount,
\* operations on the handle fail with InvalidHandle).
ReadOnLiveHandle ==
  \A t \in Threads : pc[t] = "r_call" => hnd[arg[t].h].st = "open"

\* The registries implement the atomic registry of FsRegistrySpec: the
\* step that stores a volume is its Mount, the steps before it are
\* invisible, startup registrations are its Register.
Abs == INSTANCE FsRegistrySpec WITH
  mounts <- [n \in VolNames |-> IF vols[n] = NULL THEN NULL ELSE vols[n].drv],
  hs <- [h \in Handles |-> IF hnd[h].st = "open" THEN hnd[h].vol ELSE hnd[h].st]

ImplementsRegistrySpec == Abs!Spec

=============================================================================
