----------------------------- MODULE PluginInit -----------------------------
(***************************************************************************)
(* netDedup_init (net_dedup.c): the processes of one host start the        *)
(* plugin.  Each lists the network devices it can use (net_device.c).      *)
(* The first one creates the shared memory of the fingerprint cache with   *)
(* O_EXCL, gives it its size and initialises it; the others find it, sleep *)
(* for a second and map it, whatever the creator has done by then: nothing *)
(* tells them that it is initialised.  A process may be killed on the way; *)
(* the shared memory outlives it.                                          *)
(***************************************************************************)
EXTENDS Naturals, Sequences

CONSTANTS
  Procs,         \* processes of the host
  InterfaceLists,\* what getifaddrs may find on the host
  MaxDevs,       \* MAX_NET_DEDUP_DEVS
  MaxFaults      \* bound on kills, failing system calls and aborts, together

ASSUME InitAssumption ==
  /\ MaxFaults \in Nat
  /\ MaxDevs \in Nat \ {0}
  /\ \A list \in InterfaceLists : Len(list) \in Nat

VARIABLES
  interfaces,    \* the interfaces of the host
  net_devices,   \* of each process: the interfaces that are its devices
  shm,           \* "absent", "empty" (no size yet) or "sized"
  cache_parts,   \* what init_fingerprint_cache has initialised so far
  init_pc,       \* where each process is in netDedup_init
  faults         \* kills, failed calls and aborts so far

initVars == <<interfaces, net_devices, shm, cache_parts, init_pc>>

(* The parts in the order of init_fingerprint_cache. *)
Parts == {"settings", "table", "pages", "lock"}
Before(part) == CASE part = "settings" -> {}
                  [] part = "table" -> {"settings"}
                  [] part = "pages" -> {"settings", "table"}
                  [] part = "lock" -> {"settings", "table", "pages"}

Creating == {"truncate", "fill"}
InitStages == {"off", "devices", "asleep", "environment", "ready", "failed"} \cup Creating

(* An interface is what init_net_socket_devs learns of it.  Those that are *)
(* not IPv4 or not named eno.. are passed over, and those that are down or *)
(* loopback.                                                               *)
Candidate(iface) == iface.inet /\ iface.eno
Up(flags) == "up" \in flags /\ "loopback" \notin flags

(* The flags count as 0 when they cannot be read; an interface that is not *)
(* there any more is an error.                                             *)
NoInterface == {"error"}
GetInterfaceCommon(iface) == IF iface.readable THEN iface.flags ELSE {}
GetInterfaceByName(iface) == IF iface.known THEN GetInterfaceCommon(iface) ELSE NoInterface

NoResult == <<0>>

(* Mutant: the table of devices is not looked at for its size. *)
FindDevicesNoLimit(list) ==
  LET found[i \in 0 .. Len(list)] ==
        IF i = 0 THEN <<>>
        ELSE LET sofar == found[i - 1]
                 flags == GetInterfaceByName(list[i])
             IN
             IF sofar = NoResult \/ ~Candidate(list[i]) THEN sofar
             ELSE IF flags = NoInterface THEN NoResult
             ELSE IF ~Up(flags) THEN sofar
             ELSE IF ~list[i].pci THEN NoResult
             ELSE Append(sofar, i)
  IN found[Len(list)]

(* init_net_socket_devs: the devices in the order of the list, until the   *)
(* table is full.  An interface that cannot be looked up, or that has no   *)
(* device in sysfs, ends it with an error.                                 *)
FindDevices(list) ==
  LET found[i \in 0 .. Len(list)] ==
        IF i = 0 THEN <<>>
        ELSE LET sofar == found[i - 1]
                 flags == GetInterfaceByName(list[i])
             IN
             IF sofar = NoResult \/ Len(sofar) = MaxDevs \/ ~Candidate(list[i]) THEN sofar
             ELSE IF flags = NoInterface THEN NoResult
             ELSE IF ~Up(flags) THEN sofar
             ELSE IF ~list[i].pci THEN NoResult
             ELSE Append(sofar, i)
  IN found[Len(list)]

InitInit ==
  /\ interfaces \in InterfaceLists
  /\ net_devices = [p \in Procs |-> <<>>]
  /\ shm = "absent"
  /\ cache_parts = {}
  /\ init_pc = [p \in Procs |-> "off"]
  /\ faults = 0

(* Something goes wrong; everything else leaves faults alone. *)
Fault == faults < MaxFaults /\ faults' = faults + 1

Become(p, stage) == init_pc' = [init_pc EXCEPT ![p] = stage]

(* The devices come first; without them nothing else is done. *)
InitNetSocketDevs(p) ==
  /\ init_pc[p] = "off"
  /\ IF FindDevices(interfaces) = NoResult
     THEN Become(p, "failed") /\ UNCHANGED net_devices
     ELSE /\ Become(p, "devices")
          /\ net_devices' = [net_devices EXCEPT ![p] = FindDevices(interfaces)]
  /\ UNCHANGED <<interfaces, shm, cache_parts, faults>>

(* shm_open(O_CREAT | O_EXCL) creates the shared memory, with size 0. *)
ShmCreate(p) ==
  /\ init_pc[p] = "devices"
  /\ shm = "absent"
  /\ shm' = "empty"
  /\ Become(p, "truncate")
  /\ UNCHANGED <<interfaces, net_devices, cache_parts, faults>>

(* It exists: sleep(1), then shm_open(O_RDWR). *)
ShmExists(p) ==
  /\ init_pc[p] = "devices"
  /\ shm # "absent"
  /\ Become(p, "asleep")
  /\ UNCHANGED <<interfaces, net_devices, shm, cache_parts, faults>>

(* The sleep is over and the shared memory is mapped, whatever is in it    *)
(* and whatever its creator is doing.                                      *)
ShmAttach(p) ==
  /\ init_pc[p] = "asleep"
  /\ Become(p, "environment")
  /\ UNCHANGED <<interfaces, net_devices, shm, cache_parts, faults>>

(* ftruncate and mmap. *)
ShmSize(p) ==
  /\ init_pc[p] = "truncate"
  /\ shm' = "sized"
  /\ Become(p, "fill")
  /\ UNCHANGED <<interfaces, net_devices, cache_parts, faults>>

(* init_fingerprint_cache, one part after the other. *)
InitFingerprintCache(p) ==
  /\ init_pc[p] = "fill"
  /\ \E part \in Parts \ cache_parts :
       /\ Before(part) = cache_parts
       /\ cache_parts' = cache_parts \cup {part}
  /\ Become(p, IF cache_parts' = Parts THEN "environment" ELSE "fill")
  /\ UNCHANGED <<interfaces, net_devices, shm, faults>>

(* active_fds is cleared, and the environment read: NCCL_NET_MAX_REQUESTS  *)
(* and DUMP_PATH must be set and the dump files must open.                 *)
ReadEnvironment(p) ==
  /\ init_pc[p] = "environment"
  /\ \E result \in {"ready", "failed"} : Become(p, result)
  /\ UNCHANGED <<interfaces, net_devices, shm, cache_parts, faults>>

(* The process is killed: what it has done to the shared memory stays. *)
KilledDuringInit(p) ==
  /\ Fault
  /\ init_pc[p] \in Creating \cup {"asleep", "environment"}
  /\ Become(p, "failed")
  /\ UNCHANGED <<interfaces, net_devices, shm, cache_parts>>

InitStep(p) ==
  \/ InitNetSocketDevs(p) \/ ShmCreate(p) \/ ShmExists(p) \/ ShmAttach(p)
  \/ ShmSize(p) \/ InitFingerprintCache(p) \/ ReadEnvironment(p)

InitNext(p) == InitStep(p) \/ KilledDuringInit(p)

-----------------------------------------------------------------------------
(* Properties.                                                             *)

InitTypeOK ==
  /\ interfaces \in InterfaceLists
  /\ shm \in {"absent", "empty", "sized"}
  /\ cache_parts \subseteq Parts
  /\ init_pc \in [Procs -> InitStages]
  /\ faults \in 0 .. MaxFaults

(* "wait just in case the other instance didnt finish the initialization": *)
(* a process that has come back from netDedup_init uses a cache that is    *)
(* initialised.  The code does not keep it: the sleep waits for nobody     *)
(* (ShmAttach), and if the creator is killed half-way, nobody takes the    *)
(* initialisation up again.                                                *)
CacheReadyWhenUsed ==
  (\E p \in Procs : init_pc[p] = "ready") => shm = "sized" /\ cache_parts = Parts

(* The devices of a process are the first usable interfaces of the host,   *)
(* each once, in the order in which every process finds them, and they fit *)
(* into the table of MAX_NET_DEDUP_DEVS entries.                           *)
DevicesFit ==
  \A p \in Procs :
    LET devs == net_devices[p]
        usable(i) == Candidate(interfaces[i]) /\ Up(GetInterfaceCommon(interfaces[i]))
    IN
    init_pc[p] = "ready" =>
      /\ Len(devs) <= MaxDevs
      /\ \A d \in 1 .. Len(devs) : usable(devs[d])
      /\ \A i \in 1 .. Len(interfaces) :
           usable(i) /\ (Len(devs) < MaxDevs \/ i < devs[Len(devs)]) =>
             \E d \in 1 .. Len(devs) : devs[d] = i
      /\ \A d \in 1 .. Len(devs) - 1 : devs[d] < devs[d + 1]

=============================================================================
