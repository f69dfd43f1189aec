------------------------------ MODULE MCPlugin ------------------------------
(* Connections from one process to another one of the same host.           *)
EXTENDS Plugin

CONSTANTS p1, p2, c1, c2

MCSrc == [c \in Conns |-> p1]
MCDst == [c \in Conns |-> p2]

MCOnce == [c \in Conns |-> 1]
MCTwice == [c \in Conns |-> 2]

(* An interface that is a device, and one with a reason against it. *)
Device == [flag \in {"inet", "eno", "known", "readable", "pci"} |-> TRUE] @@ [flags |-> {"up"}]
Not(flag) == [Device EXCEPT ![flag] = FALSE]
Down == [Device EXCEPT !.flags = {}]
Loopback == [Device EXCEPT !.flags = {"up", "loopback"}]

MCInterfaces ==
  { <<Loopback, Not("readable"), Device, Not("inet"), Not("eno"), Down, Device, Device>>,
    <<Device, Not("known"), Device>>,
    <<Down, Not("pci")>>,
    <<Not("inet"), Loopback>> }

(* The connections are interchangeable (used without liveness only). *)
MCSymmetry == Permutations(Conns)

=============================================================================
