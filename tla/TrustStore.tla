----------------------------- MODULE TrustStore -----------------------------
(***************************************************************************)
(* The file-backed set of paired devices (crates/core/src/trust.rs), used  *)
(* at once by the window's thread, which revokes, and by the session       *)
(* tasks, which trust, and the restarts of the process.                    *)
(*                                                                         *)
(* Every operation changes the memory under the write lock and then saves: *)
(* it copies the memory under the read lock and replaces the file with     *)
(* std::fs::write, which truncates first and writes then.  Nothing orders  *)
(* the saves of two threads, and the process may end between any two       *)
(* steps.                                                                  *)
(*                                                                         *)
(* PeersProofs is about Discovery and this module together: Init, Next and *)
(* Spec have the store's name.                                             *)
(***************************************************************************)
EXTENDS Naturals

CONSTANTS
    Devices,     \* fingerprints
    Threads      \* the threads that use the store

\* The file as the set of the stores it parses to: one, or none while it is
\* truncated.
Torn == {}
Files == {Torn} \cup {{devices} : devices \in SUBSET Devices}

VARIABLES
    mem,         \* TrustStore.inner
    disk,        \* the file
    pc,          \* where each thread is in its operation
    snap,        \* the bytes a thread is about to write
    failed,      \* history: a save failed,
    overlapped,  \* and two operations overlapped, since one last began alone
    stored       \* history: what was last written to the file

storeVars == <<mem, disk, pc, snap, failed, overlapped, stored>>

StoreInit ==
    /\ mem = {} /\ disk = {{}}
    /\ pc = [t \in Threads |-> "idle"]
    /\ snap = [t \in Threads |-> {}]
    /\ failed = FALSE /\ overlapped = FALSE
    /\ stored = {}

Quiet == \A t \in Threads : pc[t] = "idle"

\* load: a file that does not parse counts as an empty one.
Load(file) == UNION file

\* A thread changes the memory; its save is still to come.
Change(t, devices) ==
    /\ pc[t] = "idle"
    /\ mem' = devices
    /\ pc' = [pc EXCEPT ![t] = "changed"]
    /\ failed' = (failed /\ ~Quiet)
    /\ overlapped' = ~Quiet
    /\ UNCHANGED <<disk, snap, stored>>

\* trust: pairing completed with d.
Trust(t, d) == Change(t, mem \cup {d})

\* Mutant of Revoke: the memory forgets d and nothing is saved.
RevokeUnsaved(t, d) ==
    /\ pc[t] = "idle"
    /\ mem' = mem \ {d}
    /\ failed' = (failed /\ ~Quiet)
    /\ overlapped' = ~Quiet
    /\ UNCHANGED <<disk, pc, snap, stored>>

\* revoke: the user unpaired d; the file is saved whether or not d was there.
Revoke(t, d) == Change(t, mem \ {d})

\* save: the memory is copied and the read lock given back.
Snapshot(t) ==
    /\ pc[t] = "changed"
    /\ snap' = [snap EXCEPT ![t] = mem]
    /\ pc' = [pc EXCEPT ![t] = "saving"]
    /\ UNCHANGED <<mem, disk, failed, overlapped, stored>>

\* save: std::fs::write opens the file and truncates it.
Truncate(t) ==
    /\ pc[t] = "saving"
    /\ disk' = Torn
    /\ pc' = [pc EXCEPT ![t] = "writing"]
    /\ UNCHANGED <<mem, snap, failed, overlapped, stored>>

\* save: std::fs::write writes.
Write(t) ==
    /\ pc[t] = "writing"
    /\ disk' = {snap[t]}
    /\ stored' = snap[t]
    /\ pc' = [pc EXCEPT ![t] = "idle"]
    /\ UNCHANGED <<mem, snap, failed, overlapped>>

\* save: opening or writing the file fails.  The memory stays changed.
SaveFails(t) ==
    /\ pc[t] \in {"saving", "writing"}
    /\ pc' = [pc EXCEPT ![t] = "idle"]
    /\ failed' = TRUE
    /\ UNCHANGED <<mem, disk, snap, overlapped, stored>>

\* Mutant of Restart: the file is not loaded.
RestartUnloaded ==
    /\ mem' = {}
    /\ pc' = [t \in Threads |-> "idle"]
    /\ failed' = FALSE /\ overlapped' = FALSE
    /\ UNCHANGED <<disk, snap, stored>>

\* The process ends, wherever its threads are, and is started again.
Restart ==
    /\ mem' = Load(disk)
    /\ pc' = [t \in Threads |-> "idle"]
    /\ failed' = FALSE /\ overlapped' = FALSE
    /\ UNCHANGED <<disk, snap, stored>>

Operation(t) ==
    \/ \E d \in Devices : Trust(t, d) \/ Revoke(t, d)
    \/ Snapshot(t) \/ Truncate(t) \/ Write(t) \/ SaveFails(t)

StoreNext == Restart \/ \E t \in Threads : Operation(t)

StoreSpec == StoreInit /\ [][StoreNext]_storeVars
-----------------------------------------------------------------------------
StoreTypeOK ==
    /\ mem \in SUBSET Devices /\ stored \in SUBSET Devices
    /\ disk \in Files
    /\ pc \in [Threads -> {"idle", "changed", "saving", "writing"}]
    /\ snap \in [Threads -> SUBSET Devices]
    /\ failed \in BOOLEAN /\ overlapped \in BOOLEAN

\* The last operation that began alone has stayed alone and has not failed.
Serial == ~failed /\ ~overlapped

\* However many saves failed, overlapped or were cut short before: once an
\* operation has run alone and its save has succeeded, a restart finds exactly
\* what the memory holds, so trust gained and trust revoked both survive it.
SerialSavesPersist == Serial /\ Quiet => Load(disk) = mem

\* While an operation runs alone, it is the only one and the bytes it is about
\* to write are the memory's.
SerialSave ==
    Serial =>
        /\ \A t, u \in Threads : pc[t] # "idle" /\ pc[u] # "idle" => t = u
        /\ \A t \in Threads : pc[t] \in {"saving", "writing"} => snap[t] = mem

\* The inductive invariant behind it.
StoreInv == StoreTypeOK /\ SerialSavesPersist /\ SerialSave
-----------------------------------------------------------------------------
(***************************************************************************)
(* What the documents and comments say, and the code does not do.          *)
(***************************************************************************)
\* Once every operation is done, and none has failed, no device the user has
\* revoked is still in the file (trust.rs: "Remove a device (unpair), then
\* persist").
RevocationPersists == Quiet /\ ~failed => Load(disk) \subseteq mem

\* A device that was written to the file and not revoked since is still trusted
\* after a restart (README.md: "a long-term trusted-device key is stored.
\* Reconnection is automatic thereafter").
RestartKeepsTrust == [][Restart => stored \cap mem \subseteq mem']_storeVars
=============================================================================
