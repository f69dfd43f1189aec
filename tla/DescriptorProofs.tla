-------------------------- MODULE DescriptorProofs --------------------------
(***************************************************************************)
(* Who owns a file descriptor, for any number of processes, connections,   *)
(* descriptors and faults: every open descriptor has one owner, however    *)
(* often it is used again (FdOwnership).                                   *)
(*                                                                         *)
(* The descriptors that the data of all processes name are collected in    *)
(* one table, FdTable.  Every step of the plugin does one of six things to *)
(* it, and a lemma about tables says for each that it keeps ownership; for *)
(* every action there is then only to show which of the six it does.       *)
(***************************************************************************)
EXTENDS PluginProofs, WellFoundedInduction

USE DEF initVars, connVars, reqVars

(* A set of naturals that is not empty has its minimum. *)
LEMMA MinInSet ==
  ASSUME NEW S \in SUBSET Nat, S # {}
  PROVE  Min(S) \in S
<1> DEFINE R == OpToRel(<, Nat)
<1>1. IsWellFoundedOn(R, Nat) BY NatLessThanWellFounded
<1>2. PICK x \in S : \A y \in S : ~ (<<y, x>> \in R)
  <2> HIDE DEF R
  <2> QED BY <1>1, WFMin
<1>3. \A y \in S : x <= y
  <2> SUFFICES ASSUME NEW y \in S, ~(x <= y) PROVE FALSE OBVIOUS
  <2>1. <<y, x>> \in Nat \X Nat /\ y < x OBVIOUS
  <2>2. <<y, x>> \in R BY <2>1 DEF OpToRel
  <2> QED BY <1>2, <2>2
<1> QED BY <1>2, <1>3 DEF Min

(* What socket() and accept4() return is not in use. *)
LEMMA NewFdIsFree ==
  ASSUME NEW p \in Procs, FreeFds(p) # {}
  PROVE  NewFd(p) \in Fds /\ NewFd(p) \notin open[p]
<1>1. FreeFds(p) \in SUBSET Nat BY ConnectionAssumption DEF FreeFds, Fds
<1> QED BY <1>1, MinInSet DEF NewFd, FreeFds

(* -1 is no descriptor. *)
LEMMA NoFdIsNone == NoFd \notin Fds
BY ConnectionAssumption DEF NoFd, Fds

(* Every owner is in a process. *)
LEMMA ProcOfType == \A k \in Kinds, c \in Conns : ProcOf(k, c) \in Procs
BY ConnectionAssumption DEF ProcOf

-----------------------------------------------------------------------------
(* Tables of descriptors: f[kind][c], with o and l the open and the leaked *)
(* descriptors of each process.                                            *)

Own(f, o, l) ==
  /\ \A k \in Kinds, c \in Conns : f[k][c] # NoFd =>
       f[k][c] \in o[ProcOf(k, c)] /\ f[k][c] \notin l[ProcOf(k, c)]
  /\ \A k, j \in Kinds, c, d \in Conns :
       f[k][c] # NoFd /\ f[k][c] = f[j][d] /\ ProcOf(k, c) = ProcOf(j, d) => k = j /\ c = d
  /\ \A p \in Procs : l[p] \subseteq o[p]
  /\ \A p \in Procs : \A fd \in o[p] :
       fd \in l[p] \/ \E k \in Kinds, c \in Conns : ProcOf(k, c) = p /\ f[k][c] = fd

(* f and g differ at most at [k][c]. *)
SameBut(f, g, k, c) ==
  \A j \in Kinds, d \in Conns : j # k \/ d # c => g[j][d] = f[j][d]

(* A new descriptor gets an owner. *)
LEMMA OwnAdd ==
  ASSUME NEW f, NEW g, NEW o \in [Procs -> SUBSET Fds], NEW l \in [Procs -> SUBSET Fds],
         NEW k \in Kinds, NEW c \in Conns, NEW fd \in Fds,
         Own(f, o, l), fd \notin o[ProcOf(k, c)], f[k][c] = NoFd,
         g[k][c] = fd, SameBut(f, g, k, c)
  PROVE  Own(g, [o EXCEPT ![ProcOf(k, c)] = @ \cup {fd}], l)
<1> DEFINE p == ProcOf(k, c)
           o2 == [o EXCEPT ![p] = @ \cup {fd}]
<1>1. p \in Procs BY ProcOfType
<1>2. \A q \in Procs : o2[q] = IF q = p THEN o[q] \cup {fd} ELSE o[q] BY <1>1
<1> HIDE DEF p, o2
<1>3. \A j \in Kinds, d \in Conns : g[j][d] # NoFd =>
        g[j][d] \in o2[ProcOf(j, d)] /\ g[j][d] \notin l[ProcOf(j, d)]
  <2> SUFFICES ASSUME NEW j \in Kinds, NEW d \in Conns, g[j][d] # NoFd
               PROVE  g[j][d] \in o2[ProcOf(j, d)] /\ g[j][d] \notin l[ProcOf(j, d)]
    OBVIOUS
  <2>1. CASE j = k /\ d = c
    <3>1. ProcOf(j, d) = p /\ g[j][d] = fd BY <2>1 DEF p
    <3>2. fd \in o2[p] BY <1>1, <1>2
    <3>3. fd \notin l[p] BY <1>1 DEF Own, p
    <3> QED BY <3>1, <3>2, <3>3
  <2>2. CASE ~ (j = k /\ d = c)
    <3>1. g[j][d] = f[j][d] BY <2>2 DEF SameBut
    <3>2. f[j][d] \in o[ProcOf(j, d)] /\ f[j][d] \notin l[ProcOf(j, d)] BY <3>1 DEF Own
    <3>3. o[ProcOf(j, d)] \subseteq o2[ProcOf(j, d)] BY <1>2, ProcOfType
    <3> QED BY <3>1, <3>2, <3>3
  <2> QED BY <2>1, <2>2
<1>4. \A i, j \in Kinds, a, d \in Conns :
        g[i][a] # NoFd /\ g[i][a] = g[j][d] /\ ProcOf(i, a) = ProcOf(j, d) => i = j /\ a = d
  <2> SUFFICES ASSUME NEW i \in Kinds, NEW j \in Kinds, NEW a \in Conns, NEW d \in Conns,
                      g[i][a] # NoFd, g[i][a] = g[j][d], ProcOf(i, a) = ProcOf(j, d)
               PROVE  i = j /\ a = d
    OBVIOUS
  <2>1. ASSUME NEW x \in Kinds, NEW y \in Conns, ~ (x = k /\ y = c), g[x][y] # NoFd
        PROVE  g[x][y] = f[x][y] /\ f[x][y] \in o[ProcOf(x, y)]
    BY <2>1 DEF Own, SameBut
  <2>2. CASE i = k /\ a = c /\ ~ (j = k /\ d = c) BY <2>2, <2>1 DEF p
  <2>3. CASE j = k /\ d = c /\ ~ (i = k /\ a = c) BY <2>3, <2>1 DEF p
  <2>4. CASE ~ (i = k /\ a = c) /\ ~ (j = k /\ d = c) BY <2>4, <2>1 DEF Own
  <2> QED BY <2>2, <2>3, <2>4
<1>5. \A q \in Procs : l[q] \subseteq o2[q] BY <1>2 DEF Own
<1>6. \A q \in Procs : \A x \in o2[q] :
        x \in l[q] \/ \E j \in Kinds, d \in Conns : ProcOf(j, d) = q /\ g[j][d] = x
  <2> SUFFICES ASSUME NEW q \in Procs, NEW x \in o2[q], x \notin l[q]
               PROVE  \E j \in Kinds, d \in Conns : ProcOf(j, d) = q /\ g[j][d] = x
    OBVIOUS
  <2>1. CASE q = p /\ x = fd BY <2>1 DEF p
  <2>2. CASE x \in o[q]
    <3>1. PICK j \in Kinds, d \in Conns : ProcOf(j, d) = q /\ f[j][d] = x BY <2>2 DEF Own
    <3>2. ~ (j = k /\ d = c) BY <3>1, <2>2, NoFdIsNone
    <3> QED BY <3>1, <3>2 DEF SameBut
  <2> QED BY <2>1, <2>2, <1>2
<1> QED BY <1>3, <1>4, <1>5, <1>6 DEF Own, o2, p

(* A new descriptor is lost at once. *)
LEMMA OwnAddLeaked ==
  ASSUME NEW f, NEW o \in [Procs -> SUBSET Fds], NEW l \in [Procs -> SUBSET Fds],
         NEW p \in Procs, NEW fd \in Fds, Own(f, o, l), fd \notin o[p]
  PROVE  Own(f, [o EXCEPT ![p] = @ \cup {fd}], [l EXCEPT ![p] = @ \cup {fd}])
<1> DEFINE o2 == [o EXCEPT ![p] = @ \cup {fd}]
           l2 == [l EXCEPT ![p] = @ \cup {fd}]
<1>1. \A q \in Procs : /\ o2[q] = IF q = p THEN o[q] \cup {fd} ELSE o[q]
                       /\ l2[q] = IF q = p THEN l[q] \cup {fd} ELSE l[q]
  OBVIOUS
<1> HIDE DEF o2, l2
<1>2. \A k \in Kinds, c \in Conns : f[k][c] # NoFd =>
        f[k][c] \in o2[ProcOf(k, c)] /\ f[k][c] \notin l2[ProcOf(k, c)]
  <2> SUFFICES ASSUME NEW k \in Kinds, NEW c \in Conns, f[k][c] # NoFd
               PROVE  f[k][c] \in o2[ProcOf(k, c)] /\ f[k][c] \notin l2[ProcOf(k, c)]
    OBVIOUS
  <2>1. f[k][c] \in o[ProcOf(k, c)] /\ f[k][c] \notin l[ProcOf(k, c)] BY DEF Own
  <2>2. ProcOf(k, c) \in Procs BY ProcOfType
  <2> QED BY <1>1, <2>1, <2>2
<1>3. Own(f, o2, l2)
  <2>1. \A q \in Procs : l2[q] \subseteq o2[q] BY <1>1 DEF Own
  <2>2. \A q \in Procs : \A x \in o2[q] :
          x \in l2[q] \/ \E k \in Kinds, c \in Conns : ProcOf(k, c) = q /\ f[k][c] = x
    <3> SUFFICES ASSUME NEW q \in Procs, NEW x \in o2[q], x \notin l2[q]
                 PROVE  \E k \in Kinds, c \in Conns : ProcOf(k, c) = q /\ f[k][c] = x
      OBVIOUS
    <3>1. x \in o[q] /\ x \notin l[q] BY <1>1
    <3> QED BY <3>1 DEF Own
  <2> QED BY <1>2, <2>1, <2>2 DEF Own
<1> QED BY <1>3 DEF o2, l2

(* A descriptor goes from one owner to another one of the same process. *)
LEMMA OwnMove ==
  ASSUME NEW f, NEW g, NEW o \in [Procs -> SUBSET Fds], NEW l \in [Procs -> SUBSET Fds],
         NEW k \in Kinds, NEW j \in Kinds, NEW c \in Conns,
         Own(f, o, l), k # j, ProcOf(k, c) = ProcOf(j, c), f[j][c] = NoFd,
         g[k][c] = NoFd, g[j][c] = f[k][c],
         \A i \in Kinds, d \in Conns : i \notin {j, k} \/ d # c => g[i][d] = f[i][d]
  PROVE  Own(g, o, l)
<1>1. \A i \in Kinds, d \in Conns : g[i][d] # NoFd =>
        g[i][d] \in o[ProcOf(i, d)] /\ g[i][d] \notin l[ProcOf(i, d)]
  BY DEF Own
<1>2. ASSUME NEW i \in Kinds, NEW d \in Conns, g[i][d] # NoFd
      PROVE  IF i = j /\ d = c THEN g[i][d] = f[k][c]
             ELSE g[i][d] = f[i][d] /\ ~ (i = k /\ d = c)
  BY <1>2
<1>3. \A i, m \in Kinds, a, d \in Conns :
        g[i][a] # NoFd /\ g[i][a] = g[m][d] /\ ProcOf(i, a) = ProcOf(m, d) => i = m /\ a = d
  BY <1>2 DEF Own
<1>4. \A q \in Procs : \A x \in o[q] :
        x \in l[q] \/ \E i \in Kinds, d \in Conns : ProcOf(i, d) = q /\ g[i][d] = x
  <2> SUFFICES ASSUME NEW q \in Procs, NEW x \in o[q], x \notin l[q]
               PROVE  \E i \in Kinds, d \in Conns : ProcOf(i, d) = q /\ g[i][d] = x
    OBVIOUS
  <2>1. PICK i \in Kinds, d \in Conns : ProcOf(i, d) = q /\ f[i][d] = x BY DEF Own
  <2>2. x # NoFd BY NoFdIsNone
  <2>3. CASE i = k /\ d = c BY <2>1, <2>3
  <2>4. CASE ~ (i = k /\ d = c) BY <2>1, <2>2, <2>4
  <2> QED BY <2>3, <2>4
<1> QED BY <1>1, <1>3, <1>4 DEF Own

(* A descriptor is closed with its owner. *)
LEMMA OwnClose ==
  ASSUME NEW f, NEW g, NEW o \in [Procs -> SUBSET Fds], NEW l \in [Procs -> SUBSET Fds],
         NEW k \in Kinds, NEW c \in Conns,
         Own(f, o, l), f[k][c] # NoFd, g[k][c] = NoFd, SameBut(f, g, k, c)
  PROVE  Own(g, [o EXCEPT ![ProcOf(k, c)] = @ \ {f[k][c]}], l)
<1> DEFINE p == ProcOf(k, c)
           o2 == [o EXCEPT ![p] = @ \ {f[k][c]}]
<1>1. p \in Procs BY ProcOfType
<1>2. \A q \in Procs : o2[q] = IF q = p THEN o[q] \ {f[k][c]} ELSE o[q] BY <1>1
<1> HIDE DEF p, o2
<1>3. \A j \in Kinds, d \in Conns : g[j][d] # NoFd => g[j][d] = f[j][d] /\ ~ (j = k /\ d = c)
  BY DEF SameBut
<1>4. \A j \in Kinds, d \in Conns : g[j][d] # NoFd =>
        g[j][d] \in o2[ProcOf(j, d)] /\ g[j][d] \notin l[ProcOf(j, d)]
  <2> SUFFICES ASSUME NEW j \in Kinds, NEW d \in Conns, g[j][d] # NoFd
               PROVE  g[j][d] \in o2[ProcOf(j, d)] /\ g[j][d] \notin l[ProcOf(j, d)]
    OBVIOUS
  <2>1. g[j][d] = f[j][d] /\ ~ (j = k /\ d = c) BY <1>3
  <2>2. f[j][d] \in o[ProcOf(j, d)] /\ f[j][d] \notin l[ProcOf(j, d)] BY <2>1 DEF Own
  <2>3. ProcOf(j, d) = p => f[j][d] # f[k][c] BY <2>1 DEF Own, p
  <2>4. ProcOf(j, d) \in Procs BY ProcOfType
  <2> QED BY <1>2, <2>1, <2>2, <2>3, <2>4
<1>5. \A i, j \in Kinds, a, d \in Conns :
        g[i][a] # NoFd /\ g[i][a] = g[j][d] /\ ProcOf(i, a) = ProcOf(j, d) => i = j /\ a = d
  BY <1>3 DEF Own
<1>6. \A q \in Procs : l[q] \subseteq o2[q]
  <2>1. f[k][c] \notin l[p] BY DEF Own, p
  <2> QED BY <1>2, <2>1 DEF Own
<1>7. \A q \in Procs : \A x \in o2[q] :
        x \in l[q] \/ \E j \in Kinds, d \in Conns : ProcOf(j, d) = q /\ g[j][d] = x
  <2> SUFFICES ASSUME NEW q \in Procs, NEW x \in o2[q], x \notin l[q]
               PROVE  \E j \in Kinds, d \in Conns : ProcOf(j, d) = q /\ g[j][d] = x
    OBVIOUS
  <2>1. x \in o[q] BY <1>2
  <2>2. PICK j \in Kinds, d \in Conns : ProcOf(j, d) = q /\ f[j][d] = x BY <2>1 DEF Own
  <2>3. ~ (j = k /\ d = c) BY <1>2, <2>2 DEF p
  <2> QED BY <2>2, <2>3 DEF SameBut
<1> QED BY <1>4, <1>5, <1>6, <1>7 DEF Own, o2, p

(* A descriptor loses its owner and stays open. *)
LEMMA OwnLeak ==
  ASSUME NEW f, NEW g, NEW o \in [Procs -> SUBSET Fds], NEW l \in [Procs -> SUBSET Fds],
         NEW k \in Kinds, NEW c \in Conns,
         Own(f, o, l), f[k][c] # NoFd, g[k][c] = NoFd, SameBut(f, g, k, c)
  PROVE  Own(g, o, [l EXCEPT ![ProcOf(k, c)] = @ \cup {f[k][c]}])
<1> DEFINE p == ProcOf(k, c)
           l2 == [l EXCEPT ![p] = @ \cup {f[k][c]}]
<1>1. p \in Procs BY ProcOfType
<1>2. \A q \in Procs : l2[q] = IF q = p THEN l[q] \cup {f[k][c]} ELSE l[q] BY <1>1
<1> HIDE DEF p, l2
<1>3. \A j \in Kinds, d \in Conns : g[j][d] # NoFd => g[j][d] = f[j][d] /\ ~ (j = k /\ d = c)
  BY DEF SameBut
<1>4. \A j \in Kinds, d \in Conns : g[j][d] # NoFd =>
        g[j][d] \in o[ProcOf(j, d)] /\ g[j][d] \notin l2[ProcOf(j, d)]
  <2> SUFFICES ASSUME NEW j \in Kinds, NEW d \in Conns, g[j][d] # NoFd
               PROVE  g[j][d] \in o[ProcOf(j, d)] /\ g[j][d] \notin l2[ProcOf(j, d)]
    OBVIOUS
  <2>1. g[j][d] = f[j][d] /\ ~ (j = k /\ d = c) BY <1>3
  <2>2. f[j][d] \in o[ProcOf(j, d)] /\ f[j][d] \notin l[ProcOf(j, d)] BY <2>1 DEF Own
  <2>3. ProcOf(j, d) = p => f[j][d] # f[k][c] BY <2>1 DEF Own, p
  <2>4. ProcOf(j, d) \in Procs BY ProcOfType
  <2> QED BY <1>2, <2>1, <2>2, <2>3, <2>4
<1>5. \A i, j \in Kinds, a, d \in Conns :
        g[i][a] # NoFd /\ g[i][a] = g[j][d] /\ ProcOf(i, a) = ProcOf(j, d) => i = j /\ a = d
  BY <1>3 DEF Own
<1>6. \A q \in Procs : l2[q] \subseteq o[q]
  <2>1. f[k][c] \in o[p] BY DEF Own, p
  <2>2. \A q \in Procs : l[q] \subseteq o[q] BY DEF Own
  <2> QED BY <1>1, <1>2, <2>1, <2>2
<1>7. \A q \in Procs : \A x \in o[q] :
        x \in l2[q] \/ \E j \in Kinds, d \in Conns : ProcOf(j, d) = q /\ g[j][d] = x
  <2> SUFFICES ASSUME NEW q \in Procs, NEW x \in o[q], x \notin l2[q]
               PROVE  \E j \in Kinds, d \in Conns : ProcOf(j, d) = q /\ g[j][d] = x
    OBVIOUS
  <2>1. x \notin l[q] BY <1>2
  <2>2. PICK j \in Kinds, d \in Conns : ProcOf(j, d) = q /\ f[j][d] = x BY <2>1 DEF Own
  <2>3. ~ (j = k /\ d = c) BY <1>2, <2>2 DEF p
  <2> QED BY <2>2, <2>3 DEF SameBut
<1> QED BY <1>4, <1>5, <1>6, <1>7 DEF Own, l2, p

(* A process is killed: nothing of it is open, nothing of the others      *)
(* changes.                                                                *)
LEMMA OwnKill ==
  ASSUME NEW f, NEW g, NEW o \in [Procs -> SUBSET Fds], NEW l \in [Procs -> SUBSET Fds],
         NEW p \in Procs, Own(f, o, l),
         \A k \in Kinds, c \in Conns :
           g[k][c] = IF ProcOf(k, c) = p THEN NoFd ELSE f[k][c]
  PROVE  Own(g, [o EXCEPT ![p] = {}], [l EXCEPT ![p] = {}])
<1> DEFINE o2 == [o EXCEPT ![p] = {}]
           l2 == [l EXCEPT ![p] = {}]
<1>1. \A q \in Procs : /\ o2[q] = IF q = p THEN {} ELSE o[q]
                       /\ l2[q] = IF q = p THEN {} ELSE l[q]
  OBVIOUS
<1> HIDE DEF o2, l2
<1>2. Own(g, o2, l2) BY <1>1, ProcOfType DEF Own
<1> QED BY <1>2 DEF o2, l2

-----------------------------------------------------------------------------
(* The table of the plugin.                                                *)

FdTable == [k \in Kinds |-> [c \in Conns |-> FdOf(k, c)]]

MaybeFd == Fds \cup {NoFd}

ConnTypes ==
  /\ open \in [Procs -> SUBSET Fds] /\ leaked \in [Procs -> SUBSET Fds]
  /\ listenComm \in [Conns -> [listenFd : MaybeFd, acceptedFd : MaybeFd]]
  /\ handle \in [Conns -> [connectingFd : MaybeFd, in_progress : BOOLEAN, is_connected : BOOLEAN]]
  /\ comm \in [Conns -> [Sides -> MaybeFd]]
  /\ closed \in [Conns -> SUBSET Sides] /\ failed \in [Conns -> SUBSET Sides]
  /\ isend_pc \in [Conns -> {"idle", "dump", "bytes", "size", "process"}]

(* A listen comm has a socket, and so has a handle that is not new; a call *)
(* of isend has a comm.                                                    *)
ConnLinks ==
  /\ \A c \in Conns : listenComm[c].listenFd = NoFd => listenComm[c] = NoListen
  /\ \A c \in Conns : handle[c].connectingFd = NoFd => handle[c] = NewHandle
  /\ \A c \in Conns : isend_pc[c] # "idle" => comm[c]["send"] # NoFd

ConnInv == ConnTypes /\ ConnLinks /\ Own(FdTable, open, leaked)

(* The entries of the table, kind by kind. *)
TableIs ==
  \A c \in Conns :
    /\ FdTable["listen"][c] = listenComm[c].listenFd
    /\ FdTable["accepted"][c] =
         IF comm[c]["recv"] = NoFd THEN listenComm[c].acceptedFd ELSE NoFd
    /\ FdTable["connecting"][c] =
         IF comm[c]["send"] = NoFd /\ "send" \notin failed[c] \cup closed[c]
         THEN handle[c].connectingFd ELSE NoFd
    /\ FdTable["send"][c] = comm[c]["send"]
    /\ FdTable["recv"][c] = comm[c]["recv"]

(* The table before a step. *)
LEMMA TableNow == TableIs
BY DEF TableIs, FdTable, FdOf, Kinds, Sides

(* The table after a step. *)
LEMMA TableNext == TableIs'
BY DEF TableIs, FdTable, FdOf, Kinds, Sides

(* The five kinds of owner. *)
LEMMA KindNames == Kinds = {"listen", "accepted", "connecting", "send", "recv"}
BY DEF Kinds, Sides

(* A connection whose data do not change keeps its entries. *)
LEMMA TableFrame ==
  ASSUME NEW d \in Conns, listenComm'[d] = listenComm[d], handle'[d] = handle[d],
         comm'[d] = comm[d],
         ("send" \in failed'[d] \cup closed'[d]) <=> ("send" \in failed[d] \cup closed[d])
  PROVE  \A k \in Kinds : FdTable'[k][d] = FdTable[k][d]
BY TableNow, TableNext, KindNames DEF TableIs

(* At first nothing is open and nothing is named. *)
LEMMA InitConnInv == Init => ConnInv
<1> SUFFICES ASSUME Init PROVE ConnInv OBVIOUS
<1> USE DEF Init, InitConnection, InitRequests
<1>1. ConnTypes BY NoFdIsNone DEF ConnTypes, MaybeFd, NoListen, NewHandle, NoComm, Sides
<1>2. ConnLinks BY DEF ConnLinks
<1>3. \A k \in Kinds, c \in Conns : FdTable[k][c] = NoFd
  BY TableNow, KindNames DEF TableIs, NoListen, NewHandle, NoComm, Sides
<1>4. Own(FdTable, open, leaked) BY <1>3 DEF Own
<1> QED BY <1>1, <1>2, <1>4 DEF ConnInv

(* netDedup_listen gives the new socket to the listen comm. *)
LEMMA ListenConnInv ==
  ASSUME ConnInv, NEW c \in Conns, Listen(c), UNCHANGED isend_pc
  PROVE  ConnInv'
<1> DEFINE p == Dst[c]
           fd == NewFd(p)
<1>1. p \in Procs /\ FreeFds(p) # {} BY ConnectionAssumption DEF Listen
<1>2. fd \in Fds /\ fd \notin open[p] /\ fd # NoFd BY <1>1, NewFdIsFree, NoFdIsNone
<1>3. /\ open' = [open EXCEPT ![p] = @ \cup {fd}]
      /\ listenComm' = [listenComm EXCEPT ![c] = [listenFd |-> fd, acceptedFd |-> NoFd]]
      /\ handle' = [handle EXCEPT ![c] = NewHandle]
      /\ closed' = [closed EXCEPT ![c] = {}]
      /\ UNCHANGED <<leaked, comm, failed, isend_pc>>
      /\ closed[c] = Sides /\ listenComm[c] = NoListen
  <2>1. [NoListen EXCEPT !.listenFd = fd] = [listenFd |-> fd, acceptedFd |-> NoFd] BY DEF NoListen
  <2> QED BY <2>1 DEF Listen, CanListen
<1> HIDE DEF p, fd
<1>4. ConnTypes' BY <1>1, <1>2, <1>3 DEF ConnInv, ConnTypes, MaybeFd, NewHandle
<1>5. ConnLinks' BY <1>2, <1>3 DEF ConnInv, ConnTypes, ConnLinks, NewHandle
<1>6. /\ FdTable["listen"][c] = NoFd /\ FdTable'["listen"][c] = fd
      /\ SameBut(FdTable, FdTable', "listen", c)
  <2>1. ASSUME NEW d \in Conns, d # c PROVE \A k \in Kinds : FdTable'[k][d] = FdTable[k][d]
    BY <1>3, <2>1, TableFrame DEF ConnInv, ConnTypes
  <2>2. \A k \in Kinds \ {"listen"} : FdTable'[k][c] = FdTable[k][c]
    <3>1. /\ listenComm[c].acceptedFd = NoFd /\ listenComm'[c].acceptedFd = NoFd
          /\ "send" \in closed[c] /\ handle'[c].connectingFd = NoFd /\ comm'[c] = comm[c]
      BY <1>3 DEF NoListen, NewHandle, Sides, ConnInv, ConnTypes
    <3>2. FdTable["accepted"][c] = NoFd /\ FdTable'["accepted"][c] = NoFd
      BY <3>1, TableNow, TableNext DEF TableIs
    <3>3. FdTable["connecting"][c] = NoFd /\ FdTable'["connecting"][c] = NoFd
      BY <3>1, TableNow, TableNext DEF TableIs
    <3>4. FdTable["send"][c] = FdTable'["send"][c] /\ FdTable["recv"][c] = FdTable'["recv"][c]
      BY <3>1, TableNow, TableNext DEF TableIs
    <3> QED BY <3>2, <3>3, <3>4, KindNames
  <2>3. FdTable["listen"][c] = NoFd /\ FdTable'["listen"][c] = fd
    BY <1>3, TableNow, TableNext DEF TableIs, NoListen, ConnInv, ConnTypes
  <2> QED BY <2>1, <2>2, <2>3 DEF SameBut
<1>7. ProcOf("listen", c) = p BY DEF ProcOf, p
<1>8. Own(FdTable', open', leaked')
  BY <1>2, <1>3, <1>6, <1>7, OwnAdd, KindNames DEF ConnInv, ConnTypes
<1> QED BY <1>4, <1>5, <1>8 DEF ConnInv

(* The step is about connection c only. *)
OnlyConn(c) ==
  \A d \in Conns \ {c} :
    /\ listenComm'[d] = listenComm[d] /\ handle'[d] = handle[d] /\ comm'[d] = comm[d]
    /\ failed'[d] = failed[d] /\ closed'[d] = closed[d]

(* What happens to one connection leaves the entries of the others. *)
LEMMA OthersSame ==
  ASSUME NEW c \in Conns, OnlyConn(c)
  PROVE  \A k \in Kinds, d \in Conns : d # c => FdTable'[k][d] = FdTable[k][d]
BY TableFrame DEF OnlyConn

(* Ownership does not change when the table does not. *)
LEMMA OwnSame ==
  ASSUME NEW f, NEW g, NEW o, NEW l, Own(f, o, l),
         \A k \in Kinds, c \in Conns : g[k][c] = f[k][c]
  PROVE  Own(g, o, l)
BY DEF Own

(* A listen that fails after socket() leaves a socket without an owner. *)
LEMMA ListenFailsConnInv ==
  ASSUME ConnInv, NEW c \in Conns, ListenFails(c), UNCHANGED isend_pc
  PROVE  ConnInv'
<1>1. /\ failed' = [failed EXCEPT ![c] = @ \cup {"recv"}]
      /\ UNCHANGED <<listenComm, handle, comm, closed, isend_pc>>
  BY DEF ListenFails, Fails
<1>2. \A k \in Kinds, d \in Conns : FdTable'[k][d] = FdTable[k][d]
  <2> SUFFICES ASSUME NEW d \in Conns PROVE \A k \in Kinds : FdTable'[k][d] = FdTable[k][d]
    OBVIOUS
  <2>1. ("send" \in failed'[d]) <=> ("send" \in failed[d]) BY <1>1 DEF ConnInv, ConnTypes
  <2> QED BY <1>1, <2>1, TableFrame
<1>3. ConnLinks' BY <1>1 DEF ConnInv, ConnLinks
<1>4. CASE UNCHANGED <<open, leaked>>
  <2>1. ConnTypes' BY <1>1, <1>4 DEF ConnInv, ConnTypes, Sides
  <2>2. Own(FdTable', open', leaked') BY <1>2, <1>4, OwnSame DEF ConnInv
  <2> QED BY <1>3, <2>1, <2>2 DEF ConnInv
<1>5. CASE /\ FreeFds(Dst[c]) # {}
           /\ open' = [open EXCEPT ![Dst[c]] = @ \cup {NewFd(Dst[c])}]
           /\ leaked' = [leaked EXCEPT ![Dst[c]] = @ \cup {NewFd(Dst[c])}]
  <2> DEFINE p == Dst[c]
             fd == NewFd(p)
  <2>1. p \in Procs BY ConnectionAssumption
  <2>2. fd \in Fds /\ fd \notin open[p] BY <1>5, <2>1, NewFdIsFree
  <2>3. open' = [open EXCEPT ![p] = @ \cup {fd}] /\ leaked' = [leaked EXCEPT ![p] = @ \cup {fd}]
    BY <1>5
  <2> HIDE DEF p, fd
  <2>4. ConnTypes' BY <1>1, <2>1, <2>2, <2>3 DEF ConnInv, ConnTypes, Sides
  <2>5. Own(FdTable, open', leaked') BY <2>1, <2>2, <2>3, OwnAddLeaked DEF ConnInv, ConnTypes
  <2>6. Own(FdTable', open', leaked') BY <1>2, <2>5, OwnSame
  <2> QED BY <1>3, <2>4, <2>6 DEF ConnInv
<1> QED BY <1>4, <1>5 DEF ListenFails

(* netDedup_connect gives the new socket to the handle. *)
LEMMA ConnectStartConnInv ==
  ASSUME ConnInv, NEW c \in Conns, ConnectStart(c), UNCHANGED isend_pc
  PROVE  ConnInv'
<1> DEFINE p == Src[c]
           fd == NewFd(p)
<1>1. p \in Procs /\ FreeFds(p) # {} BY ConnectionAssumption DEF ConnectStart
<1>2. fd \in Fds /\ fd \notin open[p] /\ fd # NoFd BY <1>1, NewFdIsFree, NoFdIsNone
<1>3. PICK now \in BOOLEAN : handle' = [handle EXCEPT ![c] =
        [connectingFd |-> fd, in_progress |-> ~now, is_connected |-> now]]
  BY DEF ConnectStart
<1>4. /\ open' = [open EXCEPT ![p] = @ \cup {fd}]
      /\ UNCHANGED <<leaked, listenComm, comm, failed, closed, isend_pc>>
      /\ handle[c] = NewHandle /\ comm[c]["send"] = NoFd /\ "send" \notin failed[c] \cup closed[c]
  BY DEF ConnectStart, CanConnect
<1> HIDE DEF p, fd
<1>5. ConnTypes' BY <1>1, <1>2, <1>3, <1>4 DEF ConnInv, ConnTypes, MaybeFd
<1>6. ConnLinks' BY <1>2, <1>3, <1>4 DEF ConnInv, ConnTypes, ConnLinks
<1>7. /\ FdTable["connecting"][c] = NoFd /\ FdTable'["connecting"][c] = fd
      /\ SameBut(FdTable, FdTable', "connecting", c)
  <2>1. OnlyConn(c) BY <1>3, <1>4 DEF OnlyConn, ConnInv, ConnTypes
  <2>2. FdTable["connecting"][c] = NoFd
    BY <1>4, TableNow DEF TableIs, NewHandle
  <2>3. handle'[c].connectingFd = fd BY <1>3 DEF ConnInv, ConnTypes
  <2>4. FdTable'["connecting"][c] = fd BY <1>4, <2>3, TableNext DEF TableIs
  <2>5. FdTable'["listen"][c] = FdTable["listen"][c] BY <1>4, TableNow, TableNext DEF TableIs
  <2>6. FdTable'["accepted"][c] = FdTable["accepted"][c] BY <1>4, TableNow, TableNext DEF TableIs
  <2>7. FdTable'["send"][c] = FdTable["send"][c] /\ FdTable'["recv"][c] = FdTable["recv"][c]
    BY <1>4, TableNow, TableNext DEF TableIs
  <2> QED BY <2>1, <2>2, <2>4, <2>5, <2>6, <2>7, OthersSame, KindNames DEF SameBut
<1>8. ProcOf("connecting", c) = p BY DEF ProcOf, p
<1>9. Own(FdTable', open', leaked')
  BY <1>2, <1>4, <1>7, <1>8, OwnAdd, KindNames DEF ConnInv, ConnTypes
<1> QED BY <1>5, <1>6, <1>9 DEF ConnInv

(* So does the first call of connect. *)
LEMMA ConnectStartFailsConnInv ==
  ASSUME ConnInv, NEW c \in Conns, ConnectStartFails(c), UNCHANGED isend_pc
  PROVE  ConnInv'
<1>1. /\ failed' = [failed EXCEPT ![c] = @ \cup {"send"}]
      /\ UNCHANGED <<listenComm, handle, comm, closed, isend_pc>>
      /\ handle[c] = NewHandle
  BY DEF ConnectStartFails, Fails
<1>2. \A k \in Kinds, d \in Conns : FdTable'[k][d] = FdTable[k][d]
  <2>1. OnlyConn(c) BY <1>1 DEF OnlyConn, ConnInv, ConnTypes
  <2>2. FdTable["connecting"][c] = NoFd /\ FdTable'["connecting"][c] = NoFd
    BY <1>1, TableNow, TableNext DEF TableIs, NewHandle
  <2>3. FdTable'["listen"][c] = FdTable["listen"][c] BY <1>1, TableNow, TableNext DEF TableIs
  <2>4. FdTable'["accepted"][c] = FdTable["accepted"][c] BY <1>1, TableNow, TableNext DEF TableIs
  <2>5. FdTable'["send"][c] = FdTable["send"][c] /\ FdTable'["recv"][c] = FdTable["recv"][c]
    BY <1>1, TableNow, TableNext DEF TableIs
  <2> QED BY <2>1, <2>2, <2>3, <2>4, <2>5, OthersSame, KindNames
<1>3. ConnLinks' BY <1>1 DEF ConnInv, ConnLinks
<1>4. CASE UNCHANGED <<open, leaked>>
  <2>1. ConnTypes' BY <1>1, <1>4 DEF ConnInv, ConnTypes, Sides
  <2>2. Own(FdTable', open', leaked') BY <1>2, <1>4, OwnSame DEF ConnInv
  <2> QED BY <1>3, <2>1, <2>2 DEF ConnInv
<1>5. CASE /\ FreeFds(Src[c]) # {}
           /\ open' = [open EXCEPT ![Src[c]] = @ \cup {NewFd(Src[c])}]
           /\ leaked' = [leaked EXCEPT ![Src[c]] = @ \cup {NewFd(Src[c])}]
  <2> DEFINE p == Src[c]
             fd == NewFd(p)
  <2>1. p \in Procs BY ConnectionAssumption
  <2>2. fd \in Fds /\ fd \notin open[p] BY <1>5, <2>1, NewFdIsFree
  <2>3. open' = [open EXCEPT ![p] = @ \cup {fd}] /\ leaked' = [leaked EXCEPT ![p] = @ \cup {fd}]
    BY <1>5
  <2> HIDE DEF p, fd
  <2>4. ConnTypes' BY <1>1, <2>1, <2>2, <2>3 DEF ConnInv, ConnTypes, Sides
  <2>5. Own(FdTable, open', leaked') BY <2>1, <2>2, <2>3, OwnAddLeaked DEF ConnInv, ConnTypes
  <2>6. Own(FdTable', open', leaked') BY <1>2, <2>5, OwnSame
  <2> QED BY <1>3, <2>4, <2>6 DEF ConnInv
<1> QED BY <1>4, <1>5 DEF ConnectStartFails

(* The handshake and the polling of SO_ERROR move no descriptor. *)
LEMMA ConnectPollConnInv ==
  ASSUME ConnInv, NEW c \in Conns, Handshake(c) \/ ConnectPoll(c), UNCHANGED isend_pc
  PROVE  ConnInv'
<1>1. CASE Handshake(c)
  <2>1. UNCHANGED <<open, leaked, listenComm, handle, comm, failed, closed, isend_pc>>
    BY <1>1 DEF Handshake
  <2>2. \A k \in Kinds, d \in Conns : FdTable'[k][d] = FdTable[k][d] BY <2>1, TableFrame
  <2>3. Own(FdTable', open', leaked') BY <2>1, <2>2, OwnSame DEF ConnInv
  <2> QED BY <2>1, <2>3 DEF ConnInv, ConnTypes, ConnLinks
<1>2. CASE ConnectPoll(c)
  <2>1. /\ handle' = [handle EXCEPT ![c].is_connected = TRUE]
        /\ UNCHANGED <<open, leaked, listenComm, comm, failed, closed, isend_pc>>
        /\ handle[c].in_progress
    BY <1>2 DEF ConnectPoll
  <2>2. ConnTypes' BY <2>1 DEF ConnInv, ConnTypes
  <2>3. \A d \in Conns : handle'[d].connectingFd = handle[d].connectingFd
    BY <2>1 DEF ConnInv, ConnTypes
  <2>4. ConnLinks'
    <3>1. handle[c].connectingFd # NoFd BY <2>1 DEF ConnInv, ConnLinks, NewHandle
    <3> QED BY <2>1, <2>3, <3>1 DEF ConnInv, ConnTypes, ConnLinks
  <2>5. \A k \in Kinds, d \in Conns : FdTable'[k][d] = FdTable[k][d]
    <3> SUFFICES ASSUME NEW d \in Conns PROVE \A k \in Kinds : FdTable'[k][d] = FdTable[k][d]
      OBVIOUS
    <3>1. FdTable'["connecting"][d] = FdTable["connecting"][d]
      BY <2>1, <2>3, TableNow, TableNext DEF TableIs
    <3>2. FdTable'["listen"][d] = FdTable["listen"][d] BY <2>1, TableNow, TableNext DEF TableIs
    <3>3. FdTable'["accepted"][d] = FdTable["accepted"][d] BY <2>1, TableNow, TableNext DEF TableIs
    <3>4. FdTable'["send"][d] = FdTable["send"][d] /\ FdTable'["recv"][d] = FdTable["recv"][d]
      BY <2>1, TableNow, TableNext DEF TableIs
    <3> QED BY <3>1, <3>2, <3>3, <3>4, KindNames
  <2>6. Own(FdTable', open', leaked') BY <2>1, <2>5, OwnSame DEF ConnInv
  <2> QED BY <2>2, <2>4, <2>6 DEF ConnInv
<1> QED BY <1>1, <1>2

(* The connecting socket becomes that of the send comm. *)
LEMMA ConnectReadyConnInv ==
  ASSUME ConnInv, NEW c \in Conns, ConnectReady(c), UNCHANGED isend_pc
  PROVE  ConnInv'
<1> DEFINE fd == handle[c].connectingFd
<1>1. /\ comm' = [comm EXCEPT ![c]["send"] = fd]
      /\ UNCHANGED <<open, leaked, listenComm, handle, failed, closed, isend_pc>>
      /\ handle[c].is_connected
      /\ comm[c]["send"] = NoFd /\ "send" \notin failed[c] \cup closed[c]
  BY DEF ConnectReady, CanConnect
<1>2. fd # NoFd BY <1>1 DEF ConnInv, ConnLinks, NewHandle
<1>3. fd \in MaybeFd BY DEF ConnInv, ConnTypes
<1>4. ConnTypes' BY <1>1, <1>3 DEF ConnInv, ConnTypes, Sides
<1>5. /\ comm'[c]["send"] = fd /\ comm'[c]["recv"] = comm[c]["recv"]
      /\ \A d \in Conns \ {c} : comm'[d] = comm[d]
  BY <1>1 DEF ConnInv, ConnTypes, Sides
<1>6. ConnLinks' BY <1>1, <1>2, <1>5 DEF ConnInv, ConnTypes, ConnLinks
<1>7. OnlyConn(c) BY <1>1, <1>5 DEF OnlyConn
<1>8. FdTable["connecting"][c] = fd /\ FdTable["send"][c] = NoFd
  BY <1>1, TableNow DEF TableIs
<1>9. FdTable'["connecting"][c] = NoFd /\ FdTable'["send"][c] = fd
  BY <1>2, <1>5, TableNext DEF TableIs
<1>10. FdTable'["listen"][c] = FdTable["listen"][c] BY <1>1, TableNow, TableNext DEF TableIs
<1>11. FdTable'["accepted"][c] = FdTable["accepted"][c]
  BY <1>1, <1>5, TableNow, TableNext DEF TableIs
<1>12. FdTable'["recv"][c] = FdTable["recv"][c] BY <1>5, TableNow, TableNext DEF TableIs
<1>13. \A i \in Kinds, d \in Conns :
         i \notin {"send", "connecting"} \/ d # c => FdTable'[i][d] = FdTable[i][d]
  BY <1>7, <1>10, <1>11, <1>12, OthersSame, KindNames
<1>14. ProcOf("connecting", c) = ProcOf("send", c) BY DEF ProcOf
<1>15. "connecting" \in Kinds /\ "send" \in Kinds BY KindNames
<1> HIDE DEF fd
<1>16. Own(FdTable', open, leaked)
  <2>1. /\ open \in [Procs -> SUBSET Fds] /\ leaked \in [Procs -> SUBSET Fds]
        /\ Own(FdTable, open, leaked)
    BY DEF ConnInv, ConnTypes
  <2>2. FdTable'["send"][c] = FdTable["connecting"][c] BY <1>8, <1>9
  <2> DEFINE k == "connecting"
             j == "send"
  <2>3. /\ k \in Kinds /\ j \in Kinds /\ k # j /\ ProcOf(k, c) = ProcOf(j, c)
        /\ FdTable[j][c] = NoFd /\ FdTable'[k][c] = NoFd /\ FdTable'[j][c] = FdTable[k][c]
        /\ \A i \in Kinds, d \in Conns : i \notin {j, k} \/ d # c => FdTable'[i][d] = FdTable[i][d]
    BY <1>8, <1>9, <1>13, <1>14, <1>15, <2>2
  <2> HIDE DEF k, j
  <2> QED BY <2>1, <2>3, OwnMove, SMTT(30)
<1> QED BY <1>1, <1>4, <1>6, <1>16 DEF ConnInv

(* A connect that fails leaves its socket open. *)
LEMMA ConnectFailsConnInv ==
  ASSUME ConnInv, NEW c \in Conns, ConnectFails(c), UNCHANGED isend_pc
  PROVE  ConnInv'
<1> DEFINE fd == handle[c].connectingFd
<1>1. /\ failed' = [failed EXCEPT ![c] = @ \cup {"send"}]
      /\ leaked' = [leaked EXCEPT ![Src[c]] = @ \cup {fd}]
      /\ UNCHANGED <<open, listenComm, handle, comm, closed, isend_pc>>
      /\ handle[c] # NewHandle
      /\ comm[c]["send"] = NoFd /\ "send" \notin failed[c] \cup closed[c]
  BY DEF ConnectFails, CanConnect, Fails
<1>2. fd \in Fds /\ fd # NoFd BY <1>1 DEF ConnInv, ConnLinks, ConnTypes, MaybeFd
<1>3. ConnTypes' BY <1>1, <1>2, ConnectionAssumption DEF ConnInv, ConnTypes, Sides
<1>4. ConnLinks' BY <1>1 DEF ConnInv, ConnLinks
<1>5. OnlyConn(c) BY <1>1 DEF OnlyConn, ConnInv, ConnTypes
<1>6. FdTable["connecting"][c] = fd BY <1>1, TableNow DEF TableIs
<1>7. FdTable'["connecting"][c] = NoFd
  <2>1. "send" \in failed'[c] BY <1>1 DEF ConnInv, ConnTypes
  <2> QED BY <2>1, TableNext DEF TableIs
<1>8. FdTable'["listen"][c] = FdTable["listen"][c] BY <1>1, TableNow, TableNext DEF TableIs
<1>9. FdTable'["accepted"][c] = FdTable["accepted"][c] BY <1>1, TableNow, TableNext DEF TableIs
<1>10. FdTable'["send"][c] = FdTable["send"][c] /\ FdTable'["recv"][c] = FdTable["recv"][c]
  BY <1>1, TableNow, TableNext DEF TableIs
<1>11. SameBut(FdTable, FdTable', "connecting", c)
  BY <1>5, <1>8, <1>9, <1>10, OthersSame, KindNames DEF SameBut
<1>12. ProcOf("connecting", c) = Src[c] /\ "connecting" \in Kinds BY KindNames DEF ProcOf
<1> HIDE DEF fd
<1>13. Own(FdTable', open', leaked')
  BY <1>1, <1>2, <1>6, <1>7, <1>11, <1>12, OwnLeak DEF ConnInv, ConnTypes
<1> QED BY <1>3, <1>4, <1>13 DEF ConnInv

(* accept4() gives the new socket to the listen comm, which waits for the  *)
(* ready byte on it.                                                       *)
LEMMA AcceptConnectionConnInv ==
  ASSUME ConnInv, NEW c \in Conns, AcceptConnection(c), UNCHANGED isend_pc
  PROVE  ConnInv'
<1>1. CASE FreeFds(Dst[c]) # {} /\ UNCHANGED failed
           /\ open' = [open EXCEPT ![Dst[c]] = @ \cup {NewFd(Dst[c])}]
           /\ listenComm' = [listenComm EXCEPT ![c].acceptedFd = NewFd(Dst[c])]
  <2> DEFINE p == Dst[c]
             fd == NewFd(p)
  <2>1. p \in Procs BY ConnectionAssumption
  <2>2. fd \in Fds /\ fd \notin open[p] /\ fd # NoFd BY <1>1, <2>1, NewFdIsFree, NoFdIsNone
  <2>3. /\ open' = [open EXCEPT ![p] = @ \cup {fd}]
        /\ listenComm' = [listenComm EXCEPT ![c].acceptedFd = fd]
        /\ UNCHANGED <<leaked, handle, comm, failed, closed, isend_pc>>
        /\ listenComm[c].acceptedFd = NoFd /\ listenComm[c] # NoListen
        /\ comm[c]["recv"] = NoFd
    BY <1>1 DEF AcceptConnection, CanAccept
  <2> HIDE DEF p, fd
  <2>4. ConnTypes' BY <2>1, <2>2, <2>3, ZenonT(40) DEF ConnInv, ConnTypes, MaybeFd
  <2>5. /\ listenComm'[c].listenFd = listenComm[c].listenFd /\ listenComm'[c].acceptedFd = fd
        /\ \A d \in Conns \ {c} : listenComm'[d] = listenComm[d]
    BY <2>3 DEF ConnInv, ConnTypes
  <2>6. ConnLinks'
    <3>1. listenComm'[c].listenFd # NoFd BY <2>3, <2>5 DEF ConnInv, ConnLinks
    <3> QED BY <2>3, <2>5, <3>1 DEF ConnInv, ConnLinks
  <2>7. OnlyConn(c) BY <2>3, <2>5 DEF OnlyConn
  <2>8. FdTable["accepted"][c] = NoFd BY <2>3, TableNow DEF TableIs
  <2>9. FdTable'["accepted"][c] = fd BY <2>3, <2>5, TableNext DEF TableIs
  <2>10. FdTable'["listen"][c] = FdTable["listen"][c] BY <2>5, TableNow, TableNext DEF TableIs
  <2>11. FdTable'["connecting"][c] = FdTable["connecting"][c]
    BY <2>3, TableNow, TableNext DEF TableIs
  <2>12. FdTable'["send"][c] = FdTable["send"][c] /\ FdTable'["recv"][c] = FdTable["recv"][c]
    BY <2>3, TableNow, TableNext DEF TableIs
  <2>13. SameBut(FdTable, FdTable', "accepted", c)
    BY <2>7, <2>10, <2>11, <2>12, OthersSame, KindNames DEF SameBut
  <2>14. ProcOf("accepted", c) = p /\ "accepted" \in Kinds BY KindNames DEF ProcOf, p
  <2>15. Own(FdTable', open', leaked')
    BY <2>2, <2>3, <2>8, <2>9, <2>13, <2>14, OwnAdd DEF ConnInv, ConnTypes
  <2> QED BY <2>4, <2>6, <2>15 DEF ConnInv
<1>2. CASE Fails(c, "recv") /\ UNCHANGED <<open, listenComm>>
  <2>1. /\ failed' = [failed EXCEPT ![c] = @ \cup {"recv"}]
        /\ UNCHANGED <<open, leaked, listenComm, handle, comm, closed, isend_pc>>
    BY <1>2 DEF AcceptConnection, Fails
  <2>2. \A k \in Kinds, d \in Conns : FdTable'[k][d] = FdTable[k][d]
    <3> SUFFICES ASSUME NEW d \in Conns PROVE \A k \in Kinds : FdTable'[k][d] = FdTable[k][d]
      OBVIOUS
    <3>1. ("send" \in failed'[d]) <=> ("send" \in failed[d]) BY <2>1 DEF ConnInv, ConnTypes
    <3> QED BY <2>1, <3>1, TableFrame
  <2>3. ConnLinks' BY <2>1 DEF ConnInv, ConnLinks
  <2>4. ConnTypes' BY <2>1 DEF ConnInv, ConnTypes, Sides
  <2>5. Own(FdTable', open', leaked') BY <2>1, <2>2, OwnSame DEF ConnInv
  <2> QED BY <2>3, <2>4, <2>5 DEF ConnInv
<1> QED BY <1>1, <1>2 DEF AcceptConnection

(* The accepted socket becomes that of the recv comm. *)
LEMMA AcceptReadyConnInv ==
  ASSUME ConnInv, NEW c \in Conns, AcceptReady(c), UNCHANGED isend_pc
  PROVE  ConnInv'
<1> DEFINE fd == listenComm[c].acceptedFd
<1>1. /\ comm' = [comm EXCEPT ![c]["recv"] = fd]
      /\ UNCHANGED <<open, leaked, listenComm, handle, failed, closed, isend_pc>>
      /\ fd # NoFd /\ comm[c]["recv"] = NoFd
  BY DEF AcceptReady, CanAccept
<1>2. fd \in MaybeFd BY DEF ConnInv, ConnTypes
<1>3. ConnTypes' BY <1>1, <1>2 DEF ConnInv, ConnTypes, Sides
<1>4. /\ comm'[c]["recv"] = fd /\ comm'[c]["send"] = comm[c]["send"]
      /\ \A d \in Conns \ {c} : comm'[d] = comm[d]
  BY <1>1 DEF ConnInv, ConnTypes, Sides
<1>5. ConnLinks' BY <1>1, <1>4 DEF ConnInv, ConnTypes, ConnLinks
<1>6. OnlyConn(c) BY <1>1, <1>4 DEF OnlyConn
<1>7. FdTable["accepted"][c] = fd /\ FdTable["recv"][c] = NoFd
  BY <1>1, TableNow DEF TableIs
<1>8. FdTable'["accepted"][c] = NoFd /\ FdTable'["recv"][c] = fd
  BY <1>1, <1>4, TableNext DEF TableIs
<1>9. FdTable'["listen"][c] = FdTable["listen"][c] BY <1>1, TableNow, TableNext DEF TableIs
<1>10. FdTable'["connecting"][c] = FdTable["connecting"][c]
  BY <1>1, <1>4, TableNow, TableNext DEF TableIs
<1>11. FdTable'["send"][c] = FdTable["send"][c] BY <1>4, TableNow, TableNext DEF TableIs
<1>12. \A i \in Kinds, d \in Conns :
         i \notin {"recv", "accepted"} \/ d # c => FdTable'[i][d] = FdTable[i][d]
  BY <1>6, <1>9, <1>10, <1>11, OthersSame, KindNames
<1>13. ProcOf("accepted", c) = ProcOf("recv", c) BY DEF ProcOf
<1>14. "accepted" \in Kinds /\ "recv" \in Kinds BY KindNames
<1> HIDE DEF fd
<1>15. Own(FdTable', open, leaked)
  <2>1. /\ open \in [Procs -> SUBSET Fds] /\ leaked \in [Procs -> SUBSET Fds]
        /\ Own(FdTable, open, leaked)
    BY DEF ConnInv, ConnTypes
  <2>2. FdTable'["recv"][c] = FdTable["accepted"][c] BY <1>7, <1>8
  <2> DEFINE k == "accepted"
             j == "recv"
  <2>3. /\ k \in Kinds /\ j \in Kinds /\ k # j /\ ProcOf(k, c) = ProcOf(j, c)
        /\ FdTable[j][c] = NoFd /\ FdTable'[k][c] = NoFd /\ FdTable'[j][c] = FdTable[k][c]
        /\ \A i \in Kinds, d \in Conns : i \notin {j, k} \/ d # c => FdTable'[i][d] = FdTable[i][d]
    BY <1>7, <1>8, <1>12, <1>13, <1>14, <2>2
  <2> HIDE DEF k, j
  <2> QED BY <2>1, <2>3, OwnMove, SMTT(30)
<1> QED BY <1>1, <1>3, <1>5, <1>15 DEF ConnInv

(* netDedup_closeListen closes the listening socket; a connection that was *)
(* accepted and whose ready byte never came is left open without an owner. *)
LEMMA CloseListenConnInv ==
  ASSUME ConnInv, NEW c \in Conns, CloseListen(c), UNCHANGED isend_pc
  PROVE  ConnInv'
<1> DEFINE lfd == listenComm[c].listenFd
           afd == listenComm[c].acceptedFd
           half == IF comm[c]["recv"] = NoFd THEN {afd} \ {NoFd} ELSE {}
<1>1. /\ open' = [open EXCEPT ![Dst[c]] = @ \ {lfd}]
      /\ leaked' = [leaked EXCEPT ![Dst[c]] = @ \cup half]
      /\ listenComm' = [listenComm EXCEPT ![c] = NoListen]
      /\ closed' = [closed EXCEPT ![c] = IF comm[c]["recv"] = NoFd THEN @ \cup {"recv"} ELSE @]
      /\ UNCHANGED <<handle, comm, failed, isend_pc>>
      /\ listenComm[c] # NoListen
  BY DEF CloseListen
<1>2. Dst[c] \in Procs BY ConnectionAssumption
<1>3. lfd # NoFd BY <1>1 DEF ConnInv, ConnLinks
<1>4. half \in SUBSET Fds BY DEF ConnInv, ConnTypes, MaybeFd
<1>5. ConnTypes'
  <2> HIDE DEF half, lfd
  <2>1. NoListen \in [listenFd : MaybeFd, acceptedFd : MaybeFd] BY DEF NoListen, MaybeFd
  <2>2. open' \in [Procs -> SUBSET Fds] BY <1>1, <1>2 DEF ConnInv, ConnTypes
  <2>3. leaked' \in [Procs -> SUBSET Fds] BY <1>1, <1>2, <1>4 DEF ConnInv, ConnTypes
  <2>4. closed' \in [Conns -> SUBSET Sides] BY <1>1 DEF ConnInv, ConnTypes, Sides
  <2> QED BY <1>1, <2>1, <2>2, <2>3, <2>4 DEF ConnInv, ConnTypes
<1>6. /\ listenComm'[c] = NoListen
      /\ ("send" \in closed'[c]) <=> ("send" \in closed[c])
      /\ \A d \in Conns \ {c} : listenComm'[d] = listenComm[d] /\ closed'[d] = closed[d]
  BY <1>1 DEF ConnInv, ConnTypes
<1>7. ConnLinks' BY <1>1, <1>6 DEF ConnInv, ConnLinks
<1>8. OnlyConn(c) BY <1>1, <1>6 DEF OnlyConn
<1>9. FdTable["listen"][c] = lfd /\ FdTable'["listen"][c] = NoFd
  BY <1>6, TableNow, TableNext DEF TableIs, NoListen
<1>10. FdTable'["accepted"][c] = NoFd BY <1>6, TableNext DEF TableIs, NoListen
<1>11. FdTable'["connecting"][c] = FdTable["connecting"][c]
  BY <1>1, <1>6, TableNow, TableNext DEF TableIs
<1>12. FdTable'["send"][c] = FdTable["send"][c] /\ FdTable'["recv"][c] = FdTable["recv"][c]
  BY <1>1, TableNow, TableNext DEF TableIs
<1> DEFINE g == [k \in Kinds |-> [d \in Conns |->
                  IF k = "listen" /\ d = c THEN NoFd ELSE FdTable[k][d]]]
<1>13. Own(g, open', leaked)
  <2>1. g["listen"][c] = NoFd /\ SameBut(FdTable, g, "listen", c) BY KindNames DEF SameBut
  <2>2. ProcOf("listen", c) = Dst[c] /\ "listen" \in Kinds BY KindNames DEF ProcOf
  <2> HIDE DEF g, lfd, half
  <2> QED BY <1>1, <1>3, <1>9, <2>1, <2>2, OwnClose DEF ConnInv, ConnTypes
<1>14. CASE half = {}
  <2>1. leaked' = leaked BY <1>1, <1>14 DEF ConnInv, ConnTypes
  <2>2. FdTable["accepted"][c] = NoFd BY <1>14, TableNow DEF TableIs
  <2>3. \A k \in Kinds, d \in Conns : FdTable'[k][d] = g[k][d]
    BY <1>8, <1>9, <1>10, <1>11, <1>12, <2>2, OthersSame, KindNames
  <2> HIDE DEF g
  <2>4. Own(FdTable', open', leaked') BY <1>13, <2>1, <2>3, OwnSame
  <2> QED BY <1>5, <1>7, <2>4 DEF ConnInv
<1>15. CASE half # {}
  <2>1. half = {afd} /\ afd # NoFd /\ comm[c]["recv"] = NoFd BY <1>15
  <2>2. g["accepted"][c] = afd BY <2>1, TableNow, KindNames DEF TableIs
  <2>3. SameBut(g, FdTable', "accepted", c)
    BY <1>8, <1>9, <1>10, <1>11, <1>12, OthersSame, KindNames DEF SameBut
  <2>4. ProcOf("accepted", c) = Dst[c] /\ "accepted" \in Kinds BY KindNames DEF ProcOf
  <2>5. leaked' = [leaked EXCEPT ![Dst[c]] = @ \cup {afd}] BY <1>1, <2>1
  <2>6. open' \in [Procs -> SUBSET Fds] /\ leaked \in [Procs -> SUBSET Fds]
    BY <1>5 DEF ConnInv, ConnTypes
  <2> HIDE DEF g, afd, lfd, half
  <2>7. Own(FdTable', open', leaked')
    BY <1>10, <1>13, <2>1, <2>2, <2>3, <2>4, <2>5, <2>6, OwnLeak
  <2> QED BY <1>5, <1>7, <2>7 DEF ConnInv
<1> QED BY <1>14, <1>15

(* netDedup_closeSend and netDedup_closeRecv close the socket of the comm. *)
LEMMA CloseConnInv ==
  ASSUME ConnInv, NEW c \in Conns, NEW side \in Sides, Close(c, side)
  PROVE  ConnInv'
<1> DEFINE fd == comm[c][side]
<1>1. /\ open' = [open EXCEPT ![Proc(c, side)] = @ \ {fd}]
      /\ comm' = [comm EXCEPT ![c][side] = NoFd]
      /\ closed' = [closed EXCEPT ![c] = @ \cup {side}]
      /\ UNCHANGED <<leaked, listenComm, handle, failed, isend_pc>>
      /\ fd # NoFd
      /\ side = "recv" => listenComm[c] = NoListen
      /\ side = "send" => isend_pc[c] = "idle"
  BY DEF Close, CloseComm
<1>2. Proc(c, side) \in Procs BY ConnectionAssumption DEF Proc
<1>3. ConnTypes' BY <1>1, <1>2 DEF ConnInv, ConnTypes, MaybeFd, Sides
<1>4. /\ comm'[c][side] = NoFd /\ \A s \in Sides \ {side} : comm'[c][s] = comm[c][s]
      /\ closed'[c] = closed[c] \cup {side}
      /\ \A d \in Conns \ {c} : comm'[d] = comm[d] /\ closed'[d] = closed[d]
  BY <1>1 DEF ConnInv, ConnTypes
<1>5. ConnLinks' BY <1>1, <1>4 DEF ConnInv, ConnLinks, Sides
<1>6. OnlyConn(c) BY <1>1, <1>4 DEF OnlyConn
<1>7. FdTable[side][c] = fd /\ FdTable'[side][c] = NoFd
  BY <1>4, TableNow, TableNext DEF TableIs, Sides
<1>8. FdTable'["listen"][c] = FdTable["listen"][c] BY <1>1, TableNow, TableNext DEF TableIs
<1>9. FdTable'["accepted"][c] = FdTable["accepted"][c]
  <2>1. CASE side = "recv" BY <1>1, <2>1, TableNow, TableNext DEF TableIs, NoListen
  <2>2. CASE side = "send"
    <3>1. comm'[c]["recv"] = comm[c]["recv"] BY <1>4, <2>2 DEF Sides
    <3> QED BY <1>1, <3>1, TableNow, TableNext DEF TableIs
  <2> QED BY <2>1, <2>2 DEF Sides
<1>10. FdTable'["connecting"][c] = FdTable["connecting"][c]
  <2>1. CASE side = "send"
    <3>1. FdTable["connecting"][c] = NoFd BY <1>1, <2>1, TableNow DEF TableIs
    <3>2. "send" \in closed'[c] BY <1>4, <2>1
    <3>3. FdTable'["connecting"][c] = NoFd BY <3>2, TableNext DEF TableIs
    <3> QED BY <3>1, <3>3
  <2>2. CASE side = "recv"
    <3>1. /\ comm'[c]["send"] = comm[c]["send"]
          /\ ("send" \in closed'[c]) <=> ("send" \in closed[c])
      BY <1>4, <2>2 DEF Sides
    <3> QED BY <1>1, <3>1, TableNow, TableNext DEF TableIs
  <2> QED BY <2>1, <2>2 DEF Sides
<1>11. \A s \in Sides \ {side} : FdTable'[s][c] = FdTable[s][c]
  BY <1>4, TableNow, TableNext DEF TableIs, Sides
<1>12. SameBut(FdTable, FdTable', side, c)
  BY <1>6, <1>8, <1>9, <1>10, <1>11, OthersSame, KindNames DEF SameBut, Sides
<1>13. ProcOf(side, c) = Proc(c, side) /\ side \in Kinds BY DEF ProcOf, Proc, Sides, Kinds
<1> HIDE DEF fd
<1>14. Own(FdTable', open', leaked')
  BY <1>1, <1>7, <1>12, <1>13, OwnClose DEF ConnInv, ConnTypes
<1> QED BY <1>3, <1>5, <1>14 DEF ConnInv

(* A killed process takes all its descriptors with it. *)
LEMMA KillConnInv ==
  ASSUME ConnInv, NEW p \in Procs, Kill(p)
  PROVE  ConnInv'
<1>1. /\ open' = [open EXCEPT ![p] = {}] /\ leaked' = [leaked EXCEPT ![p] = {}]
      /\ comm' = [c \in Conns |-> [side \in Sides |->
                   IF Proc(c, side) = p THEN NoFd ELSE comm[c][side]]]
      /\ closed' = [c \in Conns |-> closed[c] \cup {side \in Sides : Proc(c, side) = p}]
      /\ listenComm' = [c \in Conns |-> IF Dst[c] = p THEN NoListen ELSE listenComm[c]]
      /\ isend_pc' = [c \in Conns |-> IF Src[c] = p THEN "idle" ELSE isend_pc[c]]
      /\ UNCHANGED <<handle, failed>>
  <2>1. SocketsOfKilled(p) /\ RequestsOfKilled(p) BY DEF Kill
  <2>2. \A c \in Conns, side \in Sides :
          side \in {s \in Sides : Proc(c, s) = p} <=> Proc(c, side) = p
    OBVIOUS
  <2> QED BY <2>1, <2>2 DEF SocketsOfKilled, RequestsOfKilled
<1>2. ConnTypes'
  <2>1. NoListen \in [listenFd : MaybeFd, acceptedFd : MaybeFd] BY DEF NoListen, MaybeFd
  <2>2. comm' \in [Conns -> [Sides -> MaybeFd]] BY <1>1 DEF ConnInv, ConnTypes, MaybeFd
  <2>3. closed' \in [Conns -> SUBSET Sides] BY <1>1 DEF ConnInv, ConnTypes
  <2>4. open' \in [Procs -> SUBSET Fds] /\ leaked' \in [Procs -> SUBSET Fds]
    BY <1>1 DEF ConnInv, ConnTypes
  <2> QED BY <1>1, <2>1, <2>2, <2>3, <2>4 DEF ConnInv, ConnTypes
<1>3. ConnLinks'
  <2>1. \A c \in Conns : listenComm'[c].listenFd = NoFd => listenComm'[c] = NoListen
    BY <1>1 DEF ConnInv, ConnLinks
  <2>2. \A c \in Conns : isend_pc'[c] # "idle" => comm'[c]["send"] # NoFd
    BY <1>1 DEF ConnInv, ConnLinks, Proc, Sides
  <2> QED BY <1>1, <2>1, <2>2 DEF ConnInv, ConnLinks
<1>4. \A k \in Kinds, c \in Conns :
        FdTable'[k][c] = IF ProcOf(k, c) = p THEN NoFd ELSE FdTable[k][c]
  <2> SUFFICES ASSUME NEW c \in Conns
               PROVE  \A k \in Kinds :
                        FdTable'[k][c] = IF ProcOf(k, c) = p THEN NoFd ELSE FdTable[k][c]
    OBVIOUS
  <2>1. /\ comm'[c]["send"] = IF Src[c] = p THEN NoFd ELSE comm[c]["send"]
        /\ comm'[c]["recv"] = IF Dst[c] = p THEN NoFd ELSE comm[c]["recv"]
        /\ ("send" \in closed'[c]) <=> ("send" \in closed[c] \/ Src[c] = p)
        /\ listenComm'[c] = IF Dst[c] = p THEN NoListen ELSE listenComm[c]
    BY <1>1 DEF Proc, Sides
  <2>2. /\ FdTable'["listen"][c] = IF Dst[c] = p THEN NoFd ELSE FdTable["listen"][c]
        /\ FdTable'["accepted"][c] = IF Dst[c] = p THEN NoFd ELSE FdTable["accepted"][c]
    BY <2>1, TableNow, TableNext DEF TableIs, NoListen
  <2>3. FdTable'["connecting"][c] = IF Src[c] = p THEN NoFd ELSE FdTable["connecting"][c]
    BY <1>1, <2>1, TableNow, TableNext DEF TableIs
  <2>4. /\ FdTable'["send"][c] = IF Src[c] = p THEN NoFd ELSE FdTable["send"][c]
        /\ FdTable'["recv"][c] = IF Dst[c] = p THEN NoFd ELSE FdTable["recv"][c]
    BY <2>1, TableNow, TableNext DEF TableIs
  <2> QED BY <2>2, <2>3, <2>4, KindNames DEF ProcOf
<1>5. Own(FdTable', open', leaked')
  <2>1. /\ open \in [Procs -> SUBSET Fds] /\ leaked \in [Procs -> SUBSET Fds]
        /\ Own(FdTable, open, leaked)
    BY DEF ConnInv, ConnTypes
  <2>2. Own(FdTable', [open EXCEPT ![p] = {}], [leaked EXCEPT ![p] = {}]) BY <1>4, <2>1, OwnKill
  <2> QED BY <1>1, <2>2
<1> QED BY <1>2, <1>3, <1>5 DEF ConnInv

(* Steps that move no descriptor: messages, and a failing isend, whose     *)
(* comm keeps its socket.                                                  *)
LEMMA MessagesConnInv ==
  ASSUME ConnInv, NEW c \in Conns,
         UNCHANGED <<open, leaked, listenComm, handle, comm, closed>>,
         isend_pc' \in [Conns -> {"idle", "dump", "bytes", "size", "process"}],
         \A d \in Conns : isend_pc'[d] # "idle" => isend_pc[d] # "idle" \/ comm[d]["send"] # NoFd,
         \/ UNCHANGED failed
         \/ Fails(c, "recv")
         \/ Fails(c, "send") /\ comm[c]["send"] # NoFd
  PROVE  ConnInv'
<1>1. ConnTypes'
  <2>1. ASSUME NEW s \in Sides, Fails(c, s) PROVE failed' \in [Conns -> SUBSET Sides]
    BY <2>1 DEF ConnInv, ConnTypes, Fails
  <2>2. "send" \in Sides /\ "recv" \in Sides BY DEF Sides
  <2>3. failed' \in [Conns -> SUBSET Sides] BY <2>1, <2>2 DEF ConnInv, ConnTypes
  <2> QED BY <2>3 DEF ConnInv, ConnTypes
<1>2. ConnLinks' BY DEF ConnInv, ConnLinks
<1>3. \A k \in Kinds, d \in Conns : FdTable'[k][d] = FdTable[k][d]
  <2>1. CASE UNCHANGED failed BY <2>1, TableFrame
  <2>2. CASE Fails(c, "recv")
    <3>1. \A d \in Conns : ("send" \in failed'[d]) <=> ("send" \in failed[d])
      BY <2>2 DEF Fails, ConnInv, ConnTypes
    <3>2. \A d \in Conns :
            ("send" \in failed'[d] \cup closed'[d]) <=> ("send" \in failed[d] \cup closed[d])
      BY <3>1
    <3> QED BY <3>2, TableFrame
  <2>3. CASE Fails(c, "send") /\ comm[c]["send"] # NoFd
    <3>1. OnlyConn(c) BY <2>3 DEF OnlyConn, Fails, ConnInv, ConnTypes
    <3>2. \A k \in Kinds : FdTable'[k][c] = FdTable[k][c]
      BY <2>3, TableNow, TableNext, KindNames DEF TableIs
    <3> QED BY <3>1, <3>2, OthersSame
  <2> QED BY <2>1, <2>2, <2>3
<1>4. Own(FdTable', open', leaked') BY <1>3, OwnSame DEF ConnInv
<1> QED BY <1>1, <1>2, <1>4 DEF ConnInv

(* isend, irecv and test move no descriptor; a close gives one back. *)
LEMMA TransferringConnInv ==
  ASSUME ConnInv, NEW c \in Conns, Transferring(c)
  PROVE  ConnInv'
<1>1. /\ isend_pc \in [Conns -> {"idle", "dump", "bytes", "size", "process"}]
      /\ isend_pc[c] # "idle" => comm[c]["send"] # NoFd
  BY DEF ConnInv, ConnTypes, ConnLinks
<1>2. CASE ISend(c)
  <2>1. /\ UNCHANGED <<open, leaked, listenComm, handle, comm, closed, failed>>
        /\ \E s \in {"idle", "dump", "bytes", "size", "process"} :
             isend_pc' = [isend_pc EXCEPT ![c] = s]
        /\ isend_pc[c] # "idle" \/ comm[c]["send"] # NoFd
    BY <1>2 DEF ISend, ISendTake, DumpLock, DumpBytes, DumpSize, ISendProcess, CanPost
  <2>2. /\ isend_pc' \in [Conns -> {"idle", "dump", "bytes", "size", "process"}]
        /\ \A d \in Conns : isend_pc'[d] # "idle" => isend_pc[d] # "idle" \/ comm[d]["send"] # NoFd
    BY <1>1, <2>1
  <2> QED BY <2>1, <2>2, MessagesConnInv
<1>3. CASE DumpFails(c) \/ ISendFails(c)
  <2>1. /\ UNCHANGED <<open, leaked, listenComm, handle, comm, closed>>
        /\ Fails(c, "send") /\ isend_pc[c] # "idle"
        /\ isend_pc' = [isend_pc EXCEPT ![c] = "idle"]
    BY <1>3 DEF DumpFails, ISendFails
  <2>2. /\ isend_pc' \in [Conns -> {"idle", "dump", "bytes", "size", "process"}]
        /\ \A d \in Conns : isend_pc'[d] # "idle" => isend_pc[d] # "idle"
    BY <1>1, <2>1
  <2> QED BY <1>1, <2>1, <2>2, MessagesConnInv
<1>4. CASE IRecv(c) \/ IRecvFails(c) \/ \E side \in Sides : Test(c, side)
  <2>1. /\ UNCHANGED <<open, leaked, listenComm, handle, comm, closed, isend_pc>>
        /\ UNCHANGED failed \/ Fails(c, "recv")
    BY <1>4 DEF IRecv, IRecvFails, Test
  <2> QED BY <1>1, <2>1, MessagesConnInv
<1>5. CASE \E side \in Sides : Close(c, side) BY <1>5, CloseConnInv
<1> QED BY <1>2, <1>3, <1>4, <1>5 DEF Transferring, RequestFails

(* Steps of initialisation and stuttering steps. *)
LEMMA SameConnInv ==
  ASSUME ConnInv, UNCHANGED <<connVars, isend_pc>>
  PROVE  ConnInv'
<1>1. UNCHANGED <<open, leaked, listenComm, handle, comm, failed, closed, isend_pc>> OBVIOUS
<1>2. \A k \in Kinds, d \in Conns : FdTable'[k][d] = FdTable[k][d] BY <1>1, TableFrame
<1>3. Own(FdTable', open', leaked') BY <1>1, <1>2, OwnSame DEF ConnInv
<1> QED BY <1>1, <1>3 DEF ConnInv, ConnTypes, ConnLinks

(* Every step of the plugin keeps ownership. *)
LEMMA NextConnInv == ASSUME ConnInv, [Next]_vars PROVE ConnInv'
<1>1. ASSUME NEW p \in Procs, Starting(p) PROVE ConnInv'
  BY <1>1, SameConnInv DEF Starting
<1>2. ASSUME NEW p \in Procs, Kill(p) PROVE ConnInv' BY <1>2, KillConnInv
<1>3. ASSUME NEW c \in Conns, Listening(c) PROVE ConnInv'
  <2>1. Listen(c) /\ UNCHANGED isend_pc BY <1>3 DEF Listening, RequestsAtListen
  <2> QED BY <2>1, ListenConnInv
<1>4. ASSUME NEW c \in Conns, Connecting(c) PROVE ConnInv'
  <2>1. UNCHANGED isend_pc /\ (Establish(c) \/ EstablishFails(c)) BY <1>4 DEF Connecting
  <2> QED BY <2>1, ConnectStartConnInv, ConnectPollConnInv, ConnectReadyConnInv,
       AcceptConnectionConnInv, AcceptReadyConnInv, CloseListenConnInv, ConnectFailsConnInv,
       ListenFailsConnInv, ConnectStartFailsConnInv
       DEF Establish, EstablishFails
<1>5. ASSUME NEW c \in Conns, Transferring(c) PROVE ConnInv' BY <1>5, TransferringConnInv
<1>6. CASE UNCHANGED vars BY <1>6, SameConnInv DEF vars
<1> QED BY <1>1, <1>2, <1>3, <1>4, <1>5, <1>6, NextCases DEF ConnStep

(* The inductive invariant behind ownership: the types of the connection's *)
(* data, which of them go together, and that the table of all descriptors  *)
(* names every open one once.                                              *)
THEOREM ConnectionInvariant == Spec => []ConnInv
<1>1. Init => ConnInv BY InitConnInv
<1>2. ConnInv /\ [Next]_vars => ConnInv' BY NextConnInv
<1> QED BY <1>1, <1>2, PTL DEF Spec

(* Every open descriptor of every process has exactly one owner, or was    *)
(* left by a call that failed, whatever is opened, closed, killed and used *)
(* again by listen, connect, accept and the close calls.                   *)
THEOREM DescriptorsAreOwned == Spec => []FdOwnership
<1>1. ConnInv => FdOwnership
  <2> SUFFICES ASSUME ConnInv, NEW p \in Procs
               PROVE  /\ {FdOf(o[1], o[2]) : o \in Owned(p)} \cup leaked[p] = open[p]
                      /\ \A o1, o2 \in Owned(p) :
                           FdOf(o1[1], o1[2]) = FdOf(o2[1], o2[2]) => o1 = o2
                      /\ \A o \in Owned(p) : FdOf(o[1], o[2]) \notin leaked[p]
    BY DEF FdOwnership
  <2>1. \A k \in Kinds, c \in Conns : FdTable[k][c] = FdOf(k, c) BY DEF FdTable
  <2>2. Own(FdTable, open, leaked) BY DEF ConnInv
  <2>3. ASSUME NEW o \in Owned(p)
        PROVE  /\ o[1] \in Kinds /\ o[2] \in Conns /\ o = <<o[1], o[2]>>
               /\ ProcOf(o[1], o[2]) = p /\ FdOf(o[1], o[2]) # NoFd
    BY <2>3 DEF Owned
  <2>4. \A o \in Owned(p) : FdOf(o[1], o[2]) \in open[p] /\ FdOf(o[1], o[2]) \notin leaked[p]
    BY <2>1, <2>2, <2>3 DEF Own
  <2>5. \A o1, o2 \in Owned(p) : FdOf(o1[1], o1[2]) = FdOf(o2[1], o2[2]) => o1 = o2
    BY <2>1, <2>2, <2>3 DEF Own
  <2>6. ASSUME NEW fd \in open[p], fd \notin leaked[p]
        PROVE  \E o \in Owned(p) : FdOf(o[1], o[2]) = fd
    <3>1. PICK k \in Kinds, c \in Conns : ProcOf(k, c) = p /\ FdTable[k][c] = fd
      BY <2>2, <2>6 DEF Own
    <3>2. fd # NoFd BY NoFdIsNone DEF ConnInv, ConnTypes
    <3>3. <<k, c>> \in Owned(p) BY <2>1, <3>1, <3>2 DEF Owned
    <3> QED BY <2>1, <3>1, <3>3
  <2>7. leaked[p] \subseteq open[p] BY <2>2 DEF Own
  <2> QED BY <2>4, <2>5, <2>6, <2>7
<1> QED BY <1>1, ConnectionInvariant, PTL

=============================================================================
