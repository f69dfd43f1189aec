---------------------------- MODULE PluginProofs ----------------------------
(***************************************************************************)
(* Theorems about the plugin for any number of processes, connections,     *)
(* descriptors, messages and faults: initialisation and the dump files.    *)
(***************************************************************************)
EXTENDS Plugin, SumProofs, SequenceTheorems

USE DEF initVars, connVars, reqVars

(* The steps of Next that concern one connection. *)
ConnStep(c) == Listening(c) \/ Connecting(c) \/ Transferring(c)

(* A step is one of a process, one of a connection, or none. *)
LEMMA NextCases ==
  ASSUME [Next]_vars
  PROVE  \/ \E p \in Procs : Starting(p)
         \/ \E p \in Procs : Kill(p)
         \/ \E c \in Conns : ConnStep(c)
         \/ UNCHANGED vars
BY DEF Next, ConnStep

(* faults only grows. *)
LEMMA FaultsGrow ==
  ASSUME faults \in Nat, [Next]_vars
  PROVE  faults' \in Nat /\ faults' >= faults
<1>1. CASE faults' = faults BY <1>1
<1>2. CASE Fault BY <1>2 DEF Fault
<1>3. ASSUME NEW p \in Procs, Starting(p) PROVE faults' = faults \/ Fault
  BY <1>3, Zenon DEF Starting, InitNext, InitStep, KilledDuringInit, InitNetSocketDevs, ShmCreate,
     ShmExists, ShmAttach, ShmSize, InitFingerprintCache, ReadEnvironment
<1>4. ASSUME NEW p \in Procs, Kill(p) PROVE Fault BY <1>4 DEF Kill
<1>5. ASSUME NEW c \in Conns, Listening(c) \/ Connecting(c) PROVE faults' = faults \/ Fault
  BY <1>5, Zenon DEF Listening, Connecting, Establish, EstablishFails, Listen, ListenFails,
     ConnectStart, ConnectStartFails, Handshake, ConnectPoll, ConnectReady, ConnectFails,
     AcceptConnection, AcceptReady, CloseListen
<1>6. ASSUME NEW c \in Conns, Transferring(c) PROVE faults' = faults \/ Fault
  BY <1>6, Zenon DEF Transferring, ISend, IRecv, RequestFails, Test, Close, ISendTake, DumpLock,
     DumpBytes, DumpSize, ISendProcess, DumpFails, ISendFails, IRecvFails
<1>7. UNCHANGED vars => faults' = faults BY DEF vars
<1> QED BY <1>1, <1>2, <1>3, <1>4, <1>5, <1>6, <1>7, NextCases DEF ConnStep

-----------------------------------------------------------------------------
(* The dump files.                                                         *)

PcOK == init_pc \in [Procs -> InitStages]

Dumping == {"bytes", "size"}

(* Message by message, the two files are about the same ones. *)
Agree(bytes, sizes) ==
  \A k \in 1 .. Len(sizes) : k <= Len(bytes) => sizes[k] = bytes[k]

(* Only the thread that holds dump_lock is between its two writes, and the *)
(* bytes file is ahead by its message; a process that can still take the   *)
(* lock has written as many sizes as messages.                             *)
DumpInv ==
  /\ isend_pc \in [Conns -> {"idle", "dump", "process"} \cup Dumping]
  /\ dump_lock \in [Procs -> {"free", "held", "kept"}]
  /\ dump_bytes \in [Procs -> Seq(Conns)]
  /\ dump_sizes \in [Procs -> Seq(Conns)]
  /\ \A c \in Conns : isend_pc[c] # "idle" => init_pc[Src[c]] = "ready"
  /\ \A c \in Conns : isend_pc[c] \in Dumping => dump_lock[Src[c]] = "held"
  /\ \A c, d \in Conns :
       isend_pc[c] \in Dumping /\ isend_pc[d] \in Dumping /\ Src[c] = Src[d] => c = d
  /\ \A c \in Conns : isend_pc[c] = "bytes" =>
       Len(dump_bytes[Src[c]]) = Len(dump_sizes[Src[c]])
  /\ \A c \in Conns : isend_pc[c] = "size" =>
       /\ Len(dump_bytes[Src[c]]) = Len(dump_sizes[Src[c]]) + 1
       /\ dump_bytes[Src[c]][Len(dump_bytes[Src[c]])] = c
  /\ \A p \in Procs : Agree(dump_bytes[p], dump_sizes[p])
  /\ \A p \in Procs : init_pc[p] # "failed" =>
       \/ Len(dump_bytes[p]) = Len(dump_sizes[p])
       \/ Len(dump_bytes[p]) = Len(dump_sizes[p]) + 1 /\ dump_lock[p] # "free"

dumpVars == <<isend_pc, dump_lock, dump_bytes, dump_sizes>>

(* One more message in a file. *)
LEMMA OneMore ==
  ASSUME NEW f \in [Procs -> Seq(Conns)], NEW p \in Procs, NEW c \in Conns,
         NEW g, g = [f EXCEPT ![p] = Append(@, c)]
  PROVE  /\ g \in [Procs -> Seq(Conns)]
         /\ Len(g[p]) = Len(f[p]) + 1 /\ Len(f[p]) \in Nat
         /\ g[p][Len(g[p])] = c
         /\ \A k \in 1 .. Len(f[p]) : g[p][k] = f[p][k]
         /\ \A q \in Procs \ {p} : g[q] = f[q]
<1>1. f[p] \in Seq(Conns) OBVIOUS
<1>2. g[p] = Append(f[p], c) OBVIOUS
<1>3. /\ Append(f[p], c) \in Seq(Conns) /\ Len(Append(f[p], c)) = Len(f[p]) + 1
      /\ Append(f[p], c)[Len(f[p]) + 1] = c /\ Len(f[p]) \in Nat
      /\ \A k \in 1 .. Len(f[p]) : Append(f[p], c)[k] = f[p][k]
  BY <1>1, AppendProperties
<1> QED BY <1>2, <1>3

(* A prefix of the file of p. *)
LEMMA KeepPrefix ==
  ASSUME NEW f \in [Procs -> Seq(Conns)], NEW p \in Procs, NEW n \in 0 .. Len(f[p]),
         NEW g, g = [f EXCEPT ![p] = SubSeq(@, 1, n)]
  PROVE  /\ g \in [Procs -> Seq(Conns)]
         /\ Len(g[p]) = n /\ n <= Len(f[p]) /\ Len(f[p]) \in Nat
         /\ \A k \in 1 .. n : g[p][k] = f[p][k]
         /\ \A q \in Procs \ {p} : g[q] = f[q]
<1>1. f[p] \in Seq(Conns) /\ Len(f[p]) \in Nat OBVIOUS
<1>2. g[p] = SubSeq(f[p], 1, n) OBVIOUS
<1>3. \A k \in 1 .. n : f[p][k] \in Conns BY <1>1, ElementOfSeq
<1>4. /\ SubSeq(f[p], 1, n) \in Seq(Conns) /\ Len(SubSeq(f[p], 1, n)) = n
      /\ \A k \in 1 .. n : SubSeq(f[p], 1, n)[k] = f[p][k]
  BY <1>1, <1>3
<1> QED BY <1>1, <1>2, <1>4

(* A step of the sending thread of c that is, or will be, the only one of  *)
(* its process between its writes.                                         *)
LEMMA DumpStep ==
  ASSUME DumpInv, NEW c \in Conns, UNCHANGED init_pc,
         NEW stage \in {"idle", "process"} \cup Dumping, NEW lock \in {"free", "held", "kept"},
         isend_pc' = [isend_pc EXCEPT ![c] = stage],
         dump_lock' = [dump_lock EXCEPT ![Src[c]] = lock],
         \A d \in Conns \ {c} : isend_pc[d] \in Dumping => Src[d] # Src[c],
         isend_pc[c] # "idle", stage \in Dumping => lock = "held",
         dump_bytes' \in [Procs -> Seq(Conns)], dump_sizes' \in [Procs -> Seq(Conns)],
         \A q \in Procs \ {Src[c]} : dump_bytes'[q] = dump_bytes[q] /\ dump_sizes'[q] = dump_sizes[q],
         Agree(dump_bytes'[Src[c]], dump_sizes'[Src[c]]),
         \/ Len(dump_bytes'[Src[c]]) = Len(dump_sizes'[Src[c]]) /\ stage # "size"
         \/ /\ Len(dump_bytes'[Src[c]]) = Len(dump_sizes'[Src[c]]) + 1
            /\ lock # "free" /\ stage # "bytes"
            /\ stage = "size" => dump_bytes'[Src[c]][Len(dump_bytes'[Src[c]])] = c
  PROVE  DumpInv'
<1> USE ConnectionAssumption DEF Dumping
<1>0. /\ isend_pc \in [Conns -> {"idle", "dump", "process"} \cup Dumping]
      /\ dump_lock \in [Procs -> {"free", "held", "kept"}]
      /\ Src[c] \in Procs
  BY DEF DumpInv
<1>1. isend_pc' \in [Conns -> {"idle", "dump", "process"} \cup Dumping] BY <1>0
<1>2. dump_lock' \in [Procs -> {"free", "held", "kept"}] BY <1>0
<1>3. isend_pc'[c] = stage /\ \A d \in Conns \ {c} : isend_pc'[d] = isend_pc[d] BY <1>0
<1>4. dump_lock'[Src[c]] = lock /\ \A q \in Procs \ {Src[c]} : dump_lock'[q] = dump_lock[q]
  BY <1>0
<1>5. \A d \in Conns : isend_pc'[d] # "idle" => init_pc'[Src[d]] = "ready"
  BY <1>3 DEF DumpInv
<1>6. \A d \in Conns : isend_pc'[d] \in Dumping => dump_lock'[Src[d]] = "held"
  BY <1>3, <1>4 DEF DumpInv
<1>7. \A d, e \in Conns :
        isend_pc'[d] \in Dumping /\ isend_pc'[e] \in Dumping /\ Src[d] = Src[e] => d = e
  <2> SUFFICES ASSUME NEW d \in Conns, NEW e \in Conns, d # e, Src[d] = Src[e],
                      isend_pc'[d] \in Dumping, isend_pc'[e] \in Dumping
               PROVE  FALSE
    OBVIOUS
  <2>1. CASE d = c
    <3>1. e \in Conns \ {c} /\ isend_pc[e] \in Dumping BY <1>3, <2>1
    <3> QED BY <2>1, <3>1
  <2>2. CASE e = c
    <3>1. d \in Conns \ {c} /\ isend_pc[d] \in Dumping BY <1>3, <2>2
    <3> QED BY <2>2, <3>1
  <2>3. CASE d # c /\ e # c
    <3>1. isend_pc[d] \in Dumping /\ isend_pc[e] \in Dumping BY <1>3, <2>3
    <3> QED BY <3>1 DEF DumpInv
  <2> QED BY <2>1, <2>2, <2>3
<1>8. ASSUME NEW d \in Conns, isend_pc'[d] = "bytes"
      PROVE  Len(dump_bytes'[Src[d]]) = Len(dump_sizes'[Src[d]])
  <2>1. CASE d = c BY <1>3, <1>8, <2>1
  <2>2. CASE d # c
    <3>1. isend_pc[d] = "bytes" /\ Src[d] \in Procs \ {Src[c]} BY <1>3, <1>8, <2>2
    <3> QED BY <3>1 DEF DumpInv
  <2> QED BY <2>1, <2>2
<1>9. ASSUME NEW d \in Conns, isend_pc'[d] = "size"
      PROVE  /\ Len(dump_bytes'[Src[d]]) = Len(dump_sizes'[Src[d]]) + 1
             /\ dump_bytes'[Src[d]][Len(dump_bytes'[Src[d]])] = d
  <2>1. CASE d = c BY <1>3, <1>9, <2>1
  <2>2. CASE d # c
    <3>1. isend_pc[d] = "size" /\ Src[d] \in Procs \ {Src[c]} BY <1>3, <1>9, <2>2
    <3> QED BY <3>1 DEF DumpInv
  <2> QED BY <2>1, <2>2
<1>10. \A q \in Procs : Agree(dump_bytes'[q], dump_sizes'[q]) BY DEF DumpInv
<1>11. ASSUME NEW q \in Procs, init_pc'[q] # "failed"
       PROVE  \/ Len(dump_bytes'[q]) = Len(dump_sizes'[q])
              \/ Len(dump_bytes'[q]) = Len(dump_sizes'[q]) + 1 /\ dump_lock'[q] # "free"
  <2>1. CASE q = Src[c] BY <1>4, <2>1
  <2>2. CASE q # Src[c]
    <3>1. init_pc[q] # "failed" BY <1>11
    <3>2. \/ Len(dump_bytes[q]) = Len(dump_sizes[q])
          \/ Len(dump_bytes[q]) = Len(dump_sizes[q]) + 1 /\ dump_lock[q] # "free"
      BY <3>1 DEF DumpInv
    <3>3. dump_bytes'[q] = dump_bytes[q] /\ dump_sizes'[q] = dump_sizes[q] BY <2>2
    <3>4. dump_lock'[q] = dump_lock[q] BY <1>4, <2>2
    <3> QED BY <3>2, <3>3, <3>4
  <2> QED BY <2>1, <2>2
<1>12. \A d \in Conns : isend_pc'[d] = "bytes" =>
         Len(dump_bytes'[Src[d]]) = Len(dump_sizes'[Src[d]])
  BY <1>8
<1>13. \A d \in Conns : isend_pc'[d] = "size" =>
         /\ Len(dump_bytes'[Src[d]]) = Len(dump_sizes'[Src[d]]) + 1
         /\ dump_bytes'[Src[d]][Len(dump_bytes'[Src[d]])] = d
  BY <1>9
<1>14. \A q \in Procs : init_pc'[q] # "failed" =>
         \/ Len(dump_bytes'[q]) = Len(dump_sizes'[q])
         \/ Len(dump_bytes'[q]) = Len(dump_sizes'[q]) + 1 /\ dump_lock'[q] # "free"
  BY <1>11
<1> QED BY <1>1, <1>2, <1>5, <1>6, <1>7, <1>10, <1>12, <1>13, <1>14, Zenon DEF DumpInv

(* At first the dump files are empty and the locks free. *)
LEMMA InitDumpInv == Init => DumpInv
BY ConnectionAssumption DEF Init, InitRequests, DumpInv, Dumping, Agree

(* netDedup_init: a process that has failed never comes back. *)
LEMMA StartingDumpInv ==
  ASSUME PcOK, DumpInv, NEW p \in Procs, Starting(p)
  PROVE  DumpInv'
<1>1. /\ UNCHANGED dumpVars
      /\ init_pc[p] \notin {"ready", "failed"}
      /\ \A q \in Procs \ {p} : init_pc'[q] = init_pc[q]
  BY DEF Starting, InitNext, InitStep, KilledDuringInit, InitNetSocketDevs, ShmCreate,
     ShmExists, ShmAttach, ShmSize, InitFingerprintCache, ReadEnvironment, Become, dumpVars, Creating, PcOK
<1> QED BY <1>1, ConnectionAssumption DEF DumpInv, dumpVars

(* A killed process takes its threads, its lock and what was not written   *)
(* out with it.                                                            *)
LEMMA KillDumpInv ==
  ASSUME PcOK, DumpInv, NEW p \in Procs, Kill(p)
  PROVE  DumpInv'
<1>1. /\ init_pc' = [init_pc EXCEPT ![p] = "failed"]
      /\ isend_pc' = [c \in Conns |-> IF Src[c] = p THEN "idle" ELSE isend_pc[c]]
      /\ dump_lock' = [dump_lock EXCEPT ![p] = "free"]
      /\ \E b \in 0 .. Len(dump_bytes[p]), s \in 0 .. Len(dump_sizes[p]) :
           /\ dump_bytes' = [dump_bytes EXCEPT ![p] = SubSeq(@, 1, b)]
           /\ dump_sizes' = [dump_sizes EXCEPT ![p] = SubSeq(@, 1, s)]
  BY DEF Kill, Become, RequestsOfKilled
<1>2. PICK b \in 0 .. Len(dump_bytes[p]), s \in 0 .. Len(dump_sizes[p]) :
        /\ dump_bytes' = [dump_bytes EXCEPT ![p] = SubSeq(@, 1, b)]
        /\ dump_sizes' = [dump_sizes EXCEPT ![p] = SubSeq(@, 1, s)]
  BY <1>1
<1>3. dump_bytes \in [Procs -> Seq(Conns)] /\ dump_sizes \in [Procs -> Seq(Conns)]
  BY DEF DumpInv
<1>4. /\ dump_bytes' \in [Procs -> Seq(Conns)]
      /\ Len(dump_bytes'[p]) = b /\ b <= Len(dump_bytes[p]) /\ Len(dump_bytes[p]) \in Nat
      /\ \A k \in 1 .. b : dump_bytes'[p][k] = dump_bytes[p][k]
      /\ \A q \in Procs \ {p} : dump_bytes'[q] = dump_bytes[q]
  BY <1>2, <1>3, KeepPrefix
<1>5. /\ dump_sizes' \in [Procs -> Seq(Conns)]
      /\ Len(dump_sizes'[p]) = s /\ s <= Len(dump_sizes[p]) /\ Len(dump_sizes[p]) \in Nat
      /\ \A k \in 1 .. s : dump_sizes'[p][k] = dump_sizes[p][k]
      /\ \A q \in Procs \ {p} : dump_sizes'[q] = dump_sizes[q]
  BY <1>2, <1>3, KeepPrefix
<1>6. Agree(dump_bytes'[p], dump_sizes'[p])
  <2>1. Agree(dump_bytes[p], dump_sizes[p]) BY DEF DumpInv
  <2> SUFFICES ASSUME NEW k \in 1 .. Len(dump_sizes'[p]), k <= Len(dump_bytes'[p])
               PROVE  dump_sizes'[p][k] = dump_bytes'[p][k]
    BY DEF Agree
  <2>2. k \in 1 .. s /\ k \in 1 .. b BY <1>4, <1>5
  <2>3. k \in 1 .. Len(dump_sizes[p]) /\ k <= Len(dump_bytes[p]) BY <1>4, <1>5, <2>2
  <2>4. dump_sizes[p][k] = dump_bytes[p][k] BY <2>1, <2>3 DEF Agree
  <2> QED BY <1>4, <1>5, <2>2, <2>4
<1>7. \A q \in Procs : Agree(dump_bytes'[q], dump_sizes'[q]) BY <1>4, <1>5, <1>6 DEF DumpInv
<1>8. \A c \in Conns : Src[c] = p => isend_pc'[c] = "idle" BY <1>1, ConnectionAssumption
<1>9. \A c \in Conns : Src[c] # p => /\ isend_pc'[c] = isend_pc[c] /\ Src[c] \in Procs \ {p}
                                     /\ dump_lock'[Src[c]] = dump_lock[Src[c]]
                                     /\ init_pc'[Src[c]] = init_pc[Src[c]]
  BY <1>1, ConnectionAssumption DEF DumpInv, PcOK
<1>10. /\ isend_pc' \in [Conns -> {"idle", "dump", "process"} \cup Dumping]
       /\ dump_lock' \in [Procs -> {"free", "held", "kept"}]
  BY <1>1 DEF DumpInv
<1>11. \A q \in Procs \ {p} : init_pc'[q] = init_pc[q] /\ dump_lock'[q] = dump_lock[q]
  BY <1>1 DEF DumpInv, PcOK
<1>12. init_pc'[p] = "failed" BY <1>1 DEF PcOK
<1>13. /\ \A c \in Conns : isend_pc'[c] # "idle" => init_pc'[Src[c]] = "ready"
       /\ \A c \in Conns : isend_pc'[c] \in Dumping => dump_lock'[Src[c]] = "held"
       /\ \A c, d \in Conns :
            isend_pc'[c] \in Dumping /\ isend_pc'[d] \in Dumping /\ Src[c] = Src[d] => c = d
  <2>1. /\ \A c \in Conns : isend_pc[c] # "idle" => init_pc[Src[c]] = "ready"
        /\ \A c \in Conns : isend_pc[c] \in Dumping => dump_lock[Src[c]] = "held"
        /\ \A c, d \in Conns :
             isend_pc[c] \in Dumping /\ isend_pc[d] \in Dumping /\ Src[c] = Src[d] => c = d
    BY DEF DumpInv
  <2>2. \A c \in Conns : isend_pc'[c] # "idle" => Src[c] # p BY <1>8
  <2>3. \A c \in Conns : isend_pc'[c] \in Dumping => Src[c] # p BY <2>2 DEF Dumping
  <2> QED BY <1>9, <2>1, <2>2, <2>3
<1>14. /\ \A c \in Conns : isend_pc'[c] = "bytes" =>
            Len(dump_bytes'[Src[c]]) = Len(dump_sizes'[Src[c]])
       /\ \A c \in Conns : isend_pc'[c] = "size" =>
            /\ Len(dump_bytes'[Src[c]]) = Len(dump_sizes'[Src[c]]) + 1
            /\ dump_bytes'[Src[c]][Len(dump_bytes'[Src[c]])] = c
  <2>1. \A c \in Conns : isend_pc'[c] \in Dumping =>
          /\ isend_pc'[c] = isend_pc[c]
          /\ dump_bytes'[Src[c]] = dump_bytes[Src[c]]
          /\ dump_sizes'[Src[c]] = dump_sizes[Src[c]]
    BY <1>4, <1>5, <1>8, <1>9 DEF Dumping
  <2> QED BY <2>1 DEF DumpInv, Dumping
<1>15. ASSUME NEW q \in Procs, init_pc'[q] # "failed"
       PROVE  \/ Len(dump_bytes'[q]) = Len(dump_sizes'[q])
              \/ Len(dump_bytes'[q]) = Len(dump_sizes'[q]) + 1 /\ dump_lock'[q] # "free"
  <2>1. q \in Procs \ {p} /\ init_pc[q] # "failed" BY <1>11, <1>12, <1>15
  <2>2. \/ Len(dump_bytes[q]) = Len(dump_sizes[q])
        \/ Len(dump_bytes[q]) = Len(dump_sizes[q]) + 1 /\ dump_lock[q] # "free"
    BY <2>1 DEF DumpInv
  <2> QED BY <1>4, <1>5, <1>11, <2>1, <2>2
<1> QED BY <1>4, <1>5, <1>7, <1>10, <1>13, <1>14, <1>15 DEF DumpInv

(* isend, step by step. *)
LEMMA ISendDumpInv ==
  ASSUME DumpInv, NEW c \in Conns, UNCHANGED initVars,
         ISend(c) \/ DumpFails(c) \/ ISendFails(c)
  PROVE  DumpInv'
<1> USE ConnectionAssumption DEF Dumping
<1>0. /\ isend_pc \in [Conns -> {"idle", "dump", "process"} \cup Dumping]
      /\ dump_bytes \in [Procs -> Seq(Conns)] /\ dump_sizes \in [Procs -> Seq(Conns)]
      /\ Src[c] \in Procs
  BY DEF DumpInv
<1>1. CASE ISendTake(c) BY <1>1 DEF ISendTake, CanPost, Proc, Running, DumpInv
<1>2. CASE DumpLock(c)
  <2>1. dump_lock[Src[c]] = "free" /\ isend_pc[c] = "dump" BY <1>2 DEF DumpLock
  <2>2. \A d \in Conns : isend_pc[d] \in Dumping => Src[d] # Src[c] BY <2>1 DEF DumpInv
  <2>3. Len(dump_bytes[Src[c]]) = Len(dump_sizes[Src[c]]) BY <2>1 DEF DumpInv
  <2>4. /\ dump_lock' = [dump_lock EXCEPT ![Src[c]] = "held"]
        /\ isend_pc' = [isend_pc EXCEPT ![c] = "bytes"]
        /\ UNCHANGED <<dump_bytes, dump_sizes>>
    BY <1>2 DEF DumpLock
  <2>5. Agree(dump_bytes'[Src[c]], dump_sizes'[Src[c]]) BY <1>0, <2>4 DEF DumpInv
  <2> QED BY <1>0, <2>1, <2>2, <2>3, <2>4, <2>5, DumpStep
<1>3. CASE DumpBytes(c)
  <2>1. isend_pc[c] = "bytes" /\ Len(dump_bytes[Src[c]]) = Len(dump_sizes[Src[c]])
    BY <1>3 DEF DumpBytes, DumpInv
  <2>2. /\ dump_bytes' = [dump_bytes EXCEPT ![Src[c]] = Append(@, c)]
        /\ isend_pc' = [isend_pc EXCEPT ![c] = "size"]
        /\ UNCHANGED <<dump_lock, dump_sizes>>
    BY <1>3 DEF DumpBytes
  <2>3. /\ dump_bytes' \in [Procs -> Seq(Conns)]
        /\ Len(dump_bytes'[Src[c]]) = Len(dump_bytes[Src[c]]) + 1 /\ Len(dump_bytes[Src[c]]) \in Nat
        /\ dump_bytes'[Src[c]][Len(dump_bytes'[Src[c]])] = c
        /\ \A k \in 1 .. Len(dump_bytes[Src[c]]) : dump_bytes'[Src[c]][k] = dump_bytes[Src[c]][k]
        /\ \A q \in Procs \ {Src[c]} : dump_bytes'[q] = dump_bytes[q]
    BY <1>0, <2>2, OneMore
  <2>4. dump_lock[Src[c]] = "held" /\ \A d \in Conns \ {c} : isend_pc[d] \in Dumping => Src[d] # Src[c]
    BY <2>1 DEF DumpInv
  <2>5. Agree(dump_bytes'[Src[c]], dump_sizes'[Src[c]])
    <3>1. Agree(dump_bytes[Src[c]], dump_sizes[Src[c]]) BY <1>0 DEF DumpInv
    <3> QED BY <2>1, <2>2, <2>3, <3>1 DEF Agree
  <2>6. dump_lock' = [dump_lock EXCEPT ![Src[c]] = "held"]
    BY <1>0, <2>2, <2>4 DEF DumpInv
  <2>7. Len(dump_bytes'[Src[c]]) = Len(dump_sizes'[Src[c]]) + 1 BY <2>1, <2>2, <2>3
  <2> QED BY <1>0, <2>1, <2>2, <2>3, <2>4, <2>5, <2>6, <2>7, DumpStep
<1>4. CASE DumpSize(c)
  <2>1. /\ isend_pc[c] = "size" /\ Len(dump_bytes[Src[c]]) = Len(dump_sizes[Src[c]]) + 1
        /\ dump_bytes[Src[c]][Len(dump_bytes[Src[c]])] = c
    BY <1>4 DEF DumpSize, DumpInv
  <2>2. /\ dump_sizes' = [dump_sizes EXCEPT ![Src[c]] = Append(@, c)]
        /\ isend_pc' = [isend_pc EXCEPT ![c] = "process"]
        /\ dump_lock' = [dump_lock EXCEPT ![Src[c]] = "free"]
        /\ UNCHANGED dump_bytes
    BY <1>4 DEF DumpSize
  <2>3. /\ dump_sizes' \in [Procs -> Seq(Conns)]
        /\ Len(dump_sizes'[Src[c]]) = Len(dump_sizes[Src[c]]) + 1 /\ Len(dump_sizes[Src[c]]) \in Nat
        /\ dump_sizes'[Src[c]][Len(dump_sizes'[Src[c]])] = c
        /\ \A k \in 1 .. Len(dump_sizes[Src[c]]) : dump_sizes'[Src[c]][k] = dump_sizes[Src[c]][k]
        /\ \A q \in Procs \ {Src[c]} : dump_sizes'[q] = dump_sizes[q]
    BY <1>0, <2>2, OneMore
  <2>4. \A d \in Conns \ {c} : isend_pc[d] \in Dumping => Src[d] # Src[c]
    BY <2>1 DEF DumpInv
  <2>5. Agree(dump_bytes'[Src[c]], dump_sizes'[Src[c]])
    <3>1. Agree(dump_bytes[Src[c]], dump_sizes[Src[c]]) BY <1>0 DEF DumpInv
    <3> SUFFICES ASSUME NEW k \in 1 .. Len(dump_sizes'[Src[c]]), k <= Len(dump_bytes'[Src[c]])
                 PROVE  dump_sizes'[Src[c]][k] = dump_bytes'[Src[c]][k]
      BY DEF Agree
    <3>2. CASE k = Len(dump_sizes'[Src[c]]) BY <2>1, <2>2, <2>3, <3>2
    <3>3. CASE k # Len(dump_sizes'[Src[c]])
      <4>1. k \in 1 .. Len(dump_sizes[Src[c]]) BY <2>3, <3>3
      <4> QED BY <2>1, <2>2, <2>3, <3>1, <4>1 DEF Agree
    <3> QED BY <3>2, <3>3
  <2>6. Len(dump_bytes'[Src[c]]) = Len(dump_sizes'[Src[c]]) BY <2>1, <2>2, <2>3
  <2> QED BY <1>0, <2>1, <2>2, <2>3, <2>4, <2>5, <2>6, DumpStep
<1>5. CASE DumpFails(c)
  <2>1. /\ isend_pc[c] \in Dumping
        /\ isend_pc' = [isend_pc EXCEPT ![c] = "idle"]
        /\ dump_lock' = [dump_lock EXCEPT ![Src[c]] = "kept"]
        /\ dump_sizes' = dump_sizes
    BY <1>5 DEF DumpFails
  <2>2. \A d \in Conns \ {c} : isend_pc[d] \in Dumping => Src[d] # Src[c]
    BY <2>1 DEF DumpInv
  <2>3. CASE isend_pc[c] = "bytes"
    <3>1. dump_bytes' = [dump_bytes EXCEPT ![Src[c]] = Append(@, c)] BY <1>5, <2>3 DEF DumpFails
    <3>2. /\ dump_bytes' \in [Procs -> Seq(Conns)]
          /\ Len(dump_bytes'[Src[c]]) = Len(dump_bytes[Src[c]]) + 1 /\ Len(dump_bytes[Src[c]]) \in Nat
          /\ \A k \in 1 .. Len(dump_bytes[Src[c]]) : dump_bytes'[Src[c]][k] = dump_bytes[Src[c]][k]
          /\ \A q \in Procs \ {Src[c]} : dump_bytes'[q] = dump_bytes[q]
      BY <1>0, <3>1, OneMore
    <3>3. Len(dump_bytes[Src[c]]) = Len(dump_sizes[Src[c]]) BY <2>3 DEF DumpInv
    <3>4. Agree(dump_bytes'[Src[c]], dump_sizes'[Src[c]])
      <4>1. Agree(dump_bytes[Src[c]], dump_sizes[Src[c]]) BY <1>0 DEF DumpInv
      <4> QED BY <2>1, <3>2, <3>3, <4>1 DEF Agree
    <3>5. Len(dump_bytes'[Src[c]]) = Len(dump_sizes'[Src[c]]) + 1 BY <2>1, <3>2, <3>3
    <3> QED BY <1>0, <2>1, <2>2, <3>2, <3>4, <3>5, DumpStep
  <2>4. CASE isend_pc[c] = "size"
    <3>1. dump_bytes' = dump_bytes BY <1>5, <2>4 DEF DumpFails
    <3>2. /\ Len(dump_bytes[Src[c]]) = Len(dump_sizes[Src[c]]) + 1
          /\ Agree(dump_bytes[Src[c]], dump_sizes[Src[c]])
      BY <1>0, <2>4 DEF DumpInv
    <3> QED BY <1>0, <2>1, <2>2, <2>4, <3>1, <3>2, DumpStep
  <2> QED BY <2>1, <2>3, <2>4
<1>6. CASE ISendProcess(c) BY <1>6 DEF ISendProcess, DumpInv
<1>7. CASE ISendFails(c) BY <1>7 DEF ISendFails, DumpInv
<1> QED BY <1>1, <1>2, <1>3, <1>4, <1>5, <1>6, <1>7 DEF ISend

(* Nothing else touches the files and the lock. *)
LEMMA OthersDump ==
  ASSUME NEW c \in Conns, ConnStep(c)
  PROVE  \/ UNCHANGED initVars /\ (ISend(c) \/ DumpFails(c) \/ ISendFails(c))
         \/ UNCHANGED <<initVars, dumpVars>>
<1>1. CASE Listening(c) BY <1>1 DEF Listening, RequestsAtListen, dumpVars
<1>2. CASE Connecting(c) BY <1>2 DEF Connecting, dumpVars
<1>3. CASE Transferring(c)
  BY <1>3, Zenon DEF Transferring, RequestFails, IRecv, IRecvFails, Test, Close, dumpVars
<1> QED BY <1>1, <1>2, <1>3 DEF ConnStep

(* isend is always at one of its five points. *)
LEMMA TypeOfPc == Spec => []PcOK
<1> USE DEF PcOK
<1>1. Init => PcOK BY DEF Init, InitInit, InitStages
<1>2. ASSUME PcOK, [Next]_vars PROVE PcOK'
  <2>1. ASSUME NEW p \in Procs, Starting(p) PROVE PcOK'
    <3>1. PICK stage \in InitStages : Become(p, stage)
      BY <2>1 DEF Starting, InitNext, InitStep, KilledDuringInit, InitNetSocketDevs, ShmCreate,
         ShmExists, ShmAttach, ShmSize, InitFingerprintCache, ReadEnvironment, Creating, InitStages
    <3> QED BY <1>2, <3>1 DEF Become
  <2>2. ASSUME NEW p \in Procs, Kill(p) PROVE PcOK'
    BY <1>2, <2>2 DEF Kill, Become, InitStages
  <2>3. ASSUME NEW c \in Conns, ConnStep(c) PROVE UNCHANGED init_pc
    BY <2>3 DEF ConnStep, Listening, Connecting, Transferring
  <2> QED BY <1>2, <2>1, <2>2, <2>3, NextCases DEF vars
<1> HIDE DEF PcOK
<1> QED BY <1>1, <1>2, PTL DEF Spec

(* Nobody writes between two writes of the holder of dump_lock.            *)
LEMMA DumpInvariant == Spec => []DumpInv
<1>1. ASSUME PcOK, DumpInv, [Next]_vars PROVE DumpInv'
  <2>1. ASSUME NEW c \in Conns, ConnStep(c) PROVE DumpInv'
    <3>1. ASSUME UNCHANGED <<initVars, dumpVars>> PROVE DumpInv'
      BY <1>1, <3>1 DEF DumpInv, dumpVars
    <3> QED BY <1>1, <2>1, <3>1, OthersDump, ISendDumpInv
  <2>2. ASSUME UNCHANGED vars PROVE DumpInv' BY <1>1, <2>2 DEF vars, DumpInv
  <2> QED BY <1>1, <2>1, <2>2, StartingDumpInv, KillDumpInv, NextCases
<1> QED BY TypeOfPc, InitDumpInv, <1>1, PTL DEF Spec

(* The sizes file of a process splits its bytes file into the messages it  *)
(* sent, whatever its threads do at the same time, whichever write fails   *)
(* and whatever prefixes of the two files a kill leaves.                   *)
THEOREM DumpsStayInStep == Spec => []DumpInStep
<1>1. DumpInv => DumpInStep BY DEF DumpInv, DumpInStep, Agree, Running
<1> QED BY DumpInvariant, <1>1, PTL

-----------------------------------------------------------------------------
(* The devices.                                                            *)

Usable(list, k) == Candidate(list[k]) /\ Up(GetInterfaceCommon(list[k]))

(* devs are the devices among the first n interfaces of the list: all that *)
(* can be used, as far as the table has room for them.                     *)
DevicesOf(list, n, devs) ==
  /\ devs \in Seq(Nat)
  /\ Len(devs) <= MaxDevs
  /\ \A d \in 1 .. Len(devs) : devs[d] \in 1 .. n /\ Usable(list, devs[d])
  /\ \A d \in 1 .. Len(devs) - 1 : devs[d] < devs[d + 1]
  /\ \A k \in 1 .. n :
       Usable(list, k) /\ (Len(devs) < MaxDevs \/ k < devs[Len(devs)]) =>
         \E d \in 1 .. Len(devs) : devs[d] = k

(* What the loop of init_net_socket_devs does with interface n. *)
Found(list, n, sofar) ==
  IF sofar = NoResult \/ Len(sofar) = MaxDevs \/ ~Candidate(list[n]) THEN sofar
  ELSE IF GetInterfaceByName(list[n]) = NoInterface THEN NoResult
  ELSE IF ~Up(GetInterfaceByName(list[n])) THEN sofar
  ELSE IF ~list[n].pci THEN NoResult
  ELSE Append(sofar, n)

IsFound(f, list, n) ==
  f = [k \in 0 .. n |-> IF k = 0 THEN <<>> ELSE Found(list, k, f[k - 1])]

(* An interface that is passed over is not needed. *)
LEMMA PassOver ==
  ASSUME NEW list, NEW n \in Nat, NEW devs, DevicesOf(list, n, devs),
         Len(devs) = MaxDevs \/ ~ Usable(list, n + 1)
  PROVE  DevicesOf(list, n + 1, devs)
<1>1. Len(devs) \in Nat /\ devs \in Seq(Nat) BY DEF DevicesOf
<1>2. \A d \in 1 .. Len(devs) : devs[d] \in 1 .. n + 1 /\ Usable(list, devs[d])
  BY DEF DevicesOf
<1>3. ASSUME NEW k \in 1 .. n + 1, Usable(list, k), Len(devs) < MaxDevs \/ k < devs[Len(devs)]
      PROVE  \E d \in 1 .. Len(devs) : devs[d] = k
  <2>1. CASE k \in 1 .. n BY <1>3, <2>1 DEF DevicesOf
  <2>2. CASE k \notin 1 .. n
    <3>1. k = n + 1 BY <2>2
    <3>2. Len(devs) = MaxDevs BY <1>3, <3>1
    <3>3. Len(devs) \in 1 .. Len(devs) BY <1>1, <3>2, InitAssumption
    <3>4. devs[Len(devs)] \in 1 .. n BY <3>3 DEF DevicesOf
    <3>5. ~ (Len(devs) < MaxDevs) BY <1>1, <3>2, InitAssumption
    <3> QED BY <1>3, <3>1, <3>4, <3>5
  <2> QED BY <2>1, <2>2
<1> QED BY <1>2, <1>3 DEF DevicesOf

(* An interface that can be used becomes a device. *)
LEMMA TakeDevice ==
  ASSUME NEW list, NEW n \in Nat, NEW devs, DevicesOf(list, n, devs),
         Len(devs) # MaxDevs, Usable(list, n + 1)
  PROVE  DevicesOf(list, n + 1, Append(devs, n + 1))
<1> DEFINE more == Append(devs, n + 1)
<1>1. Len(devs) \in Nat /\ devs \in Seq(Nat) /\ Len(devs) <= MaxDevs BY DEF DevicesOf
<1>2. /\ more \in Seq(Nat) /\ Len(more) = Len(devs) + 1
      /\ more[Len(devs) + 1] = n + 1
      /\ \A d \in 1 .. Len(devs) : more[d] = devs[d]
  BY <1>1, AppendProperties
<1> HIDE DEF more
<1>3. Len(more) <= MaxDevs BY <1>1, <1>2, InitAssumption
<1>4. ASSUME NEW d \in 1 .. Len(more) PROVE more[d] \in 1 .. n + 1 /\ Usable(list, more[d])
  <2>1. CASE d \in 1 .. Len(devs)
    <3>1. devs[d] \in 1 .. n /\ Usable(list, devs[d]) BY <2>1 DEF DevicesOf
    <3> QED BY <1>2, <2>1, <3>1
  <2>2. CASE d = Len(devs) + 1 BY <1>2, <2>2
  <2> QED BY <1>1, <1>2, <2>1, <2>2
<1>5. ASSUME NEW d \in 1 .. Len(more) - 1 PROVE more[d] < more[d + 1]
  <2>1. d \in 1 .. Len(devs) BY <1>1, <1>2
  <2>2. devs[d] \in 1 .. n BY <2>1 DEF DevicesOf
  <2>3. CASE d = Len(devs) BY <1>2, <2>1, <2>2, <2>3
  <2>4. CASE d # Len(devs)
    <3>1. d \in 1 .. Len(devs) - 1 /\ d + 1 \in 1 .. Len(devs) BY <1>1, <2>1, <2>4
    <3>2. devs[d] < devs[d + 1] BY <3>1 DEF DevicesOf
    <3> QED BY <1>2, <2>1, <3>1, <3>2
  <2> QED BY <2>3, <2>4
<1>6. ASSUME NEW k \in 1 .. n + 1, Usable(list, k) PROVE \E d \in 1 .. Len(more) : more[d] = k
  <2>1. CASE k = n + 1
    <3>1. Len(devs) + 1 \in 1 .. Len(more) BY <1>1, <1>2
    <3> QED BY <1>2, <2>1, <3>1
  <2>2. CASE k # n + 1
    <3>1. k \in 1 .. n BY <2>2
    <3>2. Len(devs) < MaxDevs BY <1>1, InitAssumption
    <3>3. PICK d \in 1 .. Len(devs) : devs[d] = k BY <1>6, <3>1, <3>2 DEF DevicesOf
    <3>4. d \in 1 .. Len(more) BY <1>1, <1>2
    <3> QED BY <1>2, <3>3, <3>4
  <2> QED BY <2>1, <2>2
<1>7. DevicesOf(list, n + 1, more) BY <1>2, <1>3, <1>4, <1>5, <1>6 DEF DevicesOf
<1> QED BY <1>7 DEF more

(* The loop ends with an error or with the devices of the whole list. *)
LEMMA FoundStep ==
  ASSUME NEW list, NEW n \in Nat, NEW devs, DevicesOf(list, n, devs),
         NEW next, next = Found(list, n + 1, devs), next # NoResult
  PROVE  DevicesOf(list, n + 1, next)
<1>1. devs # NoResult
  <2>1. NoResult[1] = 0 /\ Len(NoResult) = 1 BY DEF NoResult
  <2> SUFFICES ASSUME devs = NoResult PROVE FALSE OBVIOUS
  <2>2. devs[1] = 0 /\ 1 \in 1 .. Len(devs) BY <2>1
  <2>3. devs[1] \in 1 .. n BY <2>2 DEF DevicesOf
  <2> QED BY <2>2, <2>3
<1>2. CASE Len(devs) = MaxDevs \/ ~ Candidate(list[n + 1])
  <2>1. next = devs BY <1>2 DEF Found
  <2>2. Len(devs) = MaxDevs \/ ~ Usable(list, n + 1) BY <1>2 DEF Usable
  <2> QED BY <2>1, <2>2, PassOver
<1>3. CASE Len(devs) # MaxDevs /\ Candidate(list[n + 1])
  <2>1. GetInterfaceByName(list[n + 1]) # NoInterface BY <1>1, <1>3 DEF Found
  <2>2. GetInterfaceByName(list[n + 1]) = GetInterfaceCommon(list[n + 1])
    BY <2>1 DEF GetInterfaceByName
  <2>3. CASE ~ Up(GetInterfaceCommon(list[n + 1]))
    <3>1. next = devs BY <1>1, <1>3, <2>1, <2>2, <2>3 DEF Found
    <3>2. ~ Usable(list, n + 1) BY <2>3 DEF Usable
    <3> QED BY <3>1, <3>2, PassOver
  <2>4. CASE Up(GetInterfaceCommon(list[n + 1]))
    <3>1. next = Append(devs, n + 1) BY <1>1, <1>3, <2>1, <2>2, <2>4 DEF Found
    <3>2. Usable(list, n + 1) BY <1>3, <2>4 DEF Usable
    <3> QED BY <1>3, <3>1, <3>2, TakeDevice
  <2> QED BY <2>3, <2>4
<1> QED BY <1>2, <1>3

(* The function that FindDevices defines exists. *)
LEMMA FoundExists ==
  ASSUME NEW list, NEW n \in Nat PROVE \E f : IsFound(f, list, n)
<1> DEFINE T == {m \in Nat : ~ \E f : IsFound(f, list, m)}
<1>1. SUFFICES ASSUME T # {} PROVE FALSE OBVIOUS
<1>2. PICK m \in T : \A k \in T : m <= k BY <1>1, LeastNumber
<1>3. m # 0
  <2>1. IsFound([k \in 0 .. 0 |-> <<>>], list, 0) BY DEF IsFound
  <2> QED BY <2>1
<1>4. m - 1 \in Nat /\ m - 1 \notin T BY <1>2, <1>3
<1>5. PICK f : IsFound(f, list, m - 1) BY <1>4
<1> DEFINE g == [k \in 0 .. m |-> IF k = m THEN Found(list, m, f[m - 1]) ELSE f[k]]
<1>6. IsFound(g, list, m)
  <2> SUFFICES ASSUME NEW k \in 0 .. m
               PROVE  g[k] = IF k = 0 THEN <<>> ELSE Found(list, k, g[k - 1])
    BY DEF IsFound
  <2>1. CASE k = m BY <2>1, <1>3, <1>4
  <2>2. CASE k # m /\ k # 0
    <3>1. k \in 0 .. m - 1 /\ k - 1 \in 0 .. m - 1 BY <2>2, <1>4
    <3>2. f[k] = Found(list, k, f[k - 1]) BY <3>1, <2>2, <1>5 DEF IsFound
    <3> QED BY <2>2, <3>1, <3>2
  <2>3. CASE k # m /\ k = 0
    <3>1. f[0] = <<>> BY <1>4, <1>5 DEF IsFound
    <3> QED BY <2>3, <3>1
  <2> QED BY <2>1, <2>2, <2>3
<1> QED BY <1>6

(* FindDevices is the function that its loop defines, at the end of the    *)
(* list.                                                                   *)
LEMMA FindDevicesIs ==
  ASSUME NEW list, Len(list) \in Nat
  PROVE  \E f : IsFound(f, list, Len(list)) /\ FindDevices(list) = f[Len(list)]
<1> DEFINE f == CHOOSE x : IsFound(x, list, Len(list))
<1>1. IsFound(f, list, Len(list)) BY FoundExists
<1>2. FindDevices(list) = f[Len(list)] BY DEF FindDevices, IsFound, Found
<1> QED BY <1>1, <1>2

(* Once there was an error, there are no devices; without one, the loop is *)
(* right at every interface.                                               *)
LEMMA FoundAll ==
  ASSUME NEW list, Len(list) \in Nat, FindDevices(list) # NoResult
  PROVE  DevicesOf(list, Len(list), FindDevices(list))
<1>1. PICK f : IsFound(f, list, Len(list)) /\ FindDevices(list) = f[Len(list)]
  BY FindDevicesIs
<1>2. PICK n \in Nat : n = Len(list) OBVIOUS
<1>3. f[0] = <<>> /\ \A k \in 0 .. n - 1 : f[k + 1] = Found(list, k + 1, f[k])
  <2>1. f = [k \in 0 .. n |-> IF k = 0 THEN <<>> ELSE Found(list, k, f[k - 1])]
    BY <1>1, <1>2 DEF IsFound
  <2>2. f[0] = <<>> BY <1>2, <2>1
  <2>3. ASSUME NEW k \in 0 .. n - 1 PROVE f[k + 1] = Found(list, k + 1, f[k])
    <3>1. k + 1 \in 0 .. n /\ k + 1 # 0 /\ (k + 1) - 1 = k BY <1>2
    <3>2. f[k + 1] = Found(list, k + 1, f[(k + 1) - 1]) BY <2>1, <3>1
    <3> QED BY <3>1, <3>2
  <2> QED BY <2>2, <2>3
<1> DEFINE T == {k \in Nat : k <= n /\ f[k] # NoResult /\ ~ DevicesOf(list, k, f[k])}
           U == {j \in Nat : j <= n /\ f[n - j] = NoResult}
<1>4. U = {}
  <2>1. SUFFICES ASSUME U # {} PROVE FALSE OBVIOUS
  <2>2. PICK j \in U : \A k \in U : j <= k BY <2>1, LeastNumber
  <2>3. j # 0 BY <1>1, <1>2
  <2>4. n - j \in 0 .. n - 1 /\ (n - j) + 1 = n - (j - 1) /\ j - 1 \in Nat BY <1>2, <2>2, <2>3
  <2>5. f[(n - j) + 1] = Found(list, (n - j) + 1, f[n - j]) BY <1>3, <2>4
  <2>6. f[n - (j - 1)] = NoResult BY <2>2, <2>4, <2>5 DEF Found
  <2>7. j - 1 \in U BY <2>2, <2>4, <2>6
  <2> QED BY <2>2, <2>7
<1>5. \A k \in 0 .. n : f[k] # NoResult
  <2> SUFFICES ASSUME NEW k \in 0 .. n, f[k] = NoResult PROVE FALSE OBVIOUS
  <2>1. n - k \in Nat /\ n - k <= n /\ n - (n - k) = k BY <1>2
  <2>2. n - k \in U BY <2>1
  <2> QED BY <1>4, <2>2
<1>6. DevicesOf(list, 0, <<>>) BY InitAssumption DEF DevicesOf
<1>7. T = {}
  <2>1. SUFFICES ASSUME T # {} PROVE FALSE OBVIOUS
  <2>2. PICK k \in T : \A m \in T : k <= m BY <2>1, LeastNumber
  <2>3. k # 0 BY <1>3, <1>6, <2>2
  <2>4. PICK m \in Nat : k = m + 1
    <3>1. k - 1 \in Nat /\ k = (k - 1) + 1 BY <2>2, <2>3
    <3> QED BY <3>1
  <2>5. m \in 0 .. n - 1 /\ m <= n /\ m < k BY <1>2, <2>2, <2>4
  <2>6. f[m] # NoResult /\ m \notin T BY <1>5, <2>2, <2>5
  <2>7. DevicesOf(list, m, f[m]) BY <2>5, <2>6
  <2>8. f[m + 1] = Found(list, m + 1, f[m]) /\ f[m + 1] # NoResult BY <1>3, <2>2, <2>4, <2>5
  <2> HIDE DEF T
  <2>9. DevicesOf(list, m + 1, f[m + 1]) BY <2>7, <2>8, FoundStep
  <2> QED BY <2>2, <2>4, <2>9 DEF T
<1>8. n \notin T /\ f[n] # NoResult BY <1>2, <1>5, <1>7
<1> QED BY <1>1, <1>2, <1>8

(* A process that goes on after the devices has those of the host. *)
DevInv ==
  /\ DOMAIN net_devices = Procs
  /\ interfaces \in InterfaceLists
  /\ \A p \in Procs : init_pc[p] \notin {"off", "failed"} =>
       net_devices[p] = FindDevices(interfaces) /\ net_devices[p] # NoResult

(* No step after the enumeration changes the devices of a process.         *)
LEMMA NextDevInv == ASSUME PcOK, DevInv, [Next]_vars PROVE DevInv'
<1>1. ASSUME NEW p \in Procs, Starting(p) PROVE DevInv'
  <2>1. CASE InitNetSocketDevs(p)
    <3>1. /\ interfaces' = interfaces
          /\ \/ init_pc' = [init_pc EXCEPT ![p] = "failed"] /\ net_devices' = net_devices
             \/ /\ FindDevices(interfaces) # NoResult
                /\ init_pc' = [init_pc EXCEPT ![p] = "devices"]
                /\ net_devices' = [net_devices EXCEPT ![p] = FindDevices(interfaces)]
      BY <2>1, Zenon DEF InitNetSocketDevs, Become
    <3> QED BY <1>1, <3>1 DEF DevInv, PcOK
  <2>2. CASE ~ InitNetSocketDevs(p)
    <3>1. /\ interfaces' = interfaces /\ net_devices' = net_devices
          /\ init_pc[p] \notin {"off", "failed"}
          /\ \E stage : init_pc' = [init_pc EXCEPT ![p] = stage]
      BY <1>1, <2>2 DEF Starting, InitNext, InitStep, KilledDuringInit, ShmCreate, ShmExists,
         ShmAttach, ShmSize, InitFingerprintCache, ReadEnvironment, Creating, Become
    <3> QED BY <1>1, <3>1 DEF DevInv, PcOK
  <2> QED BY <2>1, <2>2
<1>2. ASSUME NEW p \in Procs, Kill(p) PROVE DevInv'
  <2>1. /\ interfaces' = interfaces /\ net_devices' = net_devices
        /\ init_pc' = [init_pc EXCEPT ![p] = "failed"]
    BY <1>2 DEF Kill, Become
  <2> QED BY <2>1 DEF DevInv, PcOK
<1>3. ASSUME UNCHANGED initVars PROVE DevInv' BY <1>3 DEF DevInv
<1>4. ASSUME NEW c \in Conns, ConnStep(c) PROVE UNCHANGED initVars
  BY <1>4 DEF ConnStep, Listening, Connecting, Transferring
<1>5. CASE UNCHANGED vars BY <1>3, <1>5 DEF vars
<1> QED BY <1>1, <1>2, <1>3, <1>4, <1>5, NextCases

(* init_net_socket_devs makes devices of the first usable interfaces, each *)
(* once and in the order of the list, and of no more than the table has    *)
(* room for, whatever getifaddrs finds.                                    *)
THEOREM DevicesAreUsable == Spec => []DevicesFit
<1>1. Init => DevInv BY DEF Init, InitInit, DevInv
<1>2. PcOK /\ DevInv /\ [Next]_vars => DevInv' BY NextDevInv
<1>3. DevInv => DevicesFit
  <2> SUFFICES ASSUME DevInv, NEW p \in Procs, init_pc[p] = "ready"
               PROVE  DevicesOf(interfaces, Len(interfaces), net_devices[p])
    BY DEF DevicesFit, DevicesOf, Usable
  <2>1. /\ net_devices[p] = FindDevices(interfaces) /\ net_devices[p] # NoResult
        /\ Len(interfaces) \in Nat
    BY InitAssumption DEF DevInv
  <2> QED BY <2>1, FoundAll
<1> QED BY <1>1, <1>2, <1>3, TypeOfPc, PTL DEF Spec
=============================================================================
