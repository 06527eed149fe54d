------------------------------- MODULE EvaHeap -------------------------------
(***************************************************************************)
(* What the heap of the VM promises to a running program: an object the    *)
(* program can still reach is never freed.  The heap is a directed graph   *)
(* of objects; the program moves its roots and edits the fields of the     *)
(* objects it reaches; memory may be taken back only from objects that no  *)
(* path from a root leads to.  EvaCollector is shown to implement this.    *)
(***************************************************************************)
CONSTANT Obj            \* every address an object may be given

VARIABLES objects,      \* the objects allocated and not yet freed
          roots,        \* the objects the program holds directly
          fields        \* fields[o]: the objects that o's memory refers to

vars == <<objects, roots, fields>>

-----------------------------------------------------------------------------
(* Reachability, as the least set that holds the roots and is closed under *)
(* an edge function.                                                       *)

IsClosed(S, edges) == \A o \in S : edges[o] \subseteq S

ReachableFrom(R, edges) ==
    {o \in Obj : \A S \in SUBSET Obj : R \subseteq S /\ IsClosed(S, edges) => o \in S}

Reach == ReachableFrom(roots, fields)

-----------------------------------------------------------------------------

TypeOK ==
    /\ objects \subseteq Obj
    /\ roots \subseteq Obj
    /\ fields \in [Obj -> SUBSET Obj]

Init == TypeOK /\ Reach \subseteq objects

(* The program runs: it may allocate, drop and copy references, and write  *)
(* fields, but it cannot conjure up a reference to an old object that it   *)
(* had lost.                                                               *)
Mutate ==
    /\ TypeOK'
    /\ objects \subseteq objects'
    /\ Reach' \subseteq Reach \cup (objects' \ objects)

(* One unreachable object is given back to the allocator.                  *)
Free == \E o \in objects \ Reach :
    /\ objects' = objects \ {o}
    /\ fields' = [fields EXCEPT ![o] = {}]
    /\ UNCHANGED roots

(* The program ends and all memory is returned.                            *)
Close ==
    /\ roots' = {}
    /\ objects' = {}
    /\ UNCHANGED fields

Next == Mutate \/ Free \/ Close

Spec == Init /\ [][Next]_vars

(* Memory safety: no reference the program can follow is dangling.         *)
NoDangling == Reach \subseteq objects

=============================================================================
