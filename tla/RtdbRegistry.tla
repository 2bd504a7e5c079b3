---------------------------- MODULE RtdbRegistry ----------------------------
(***************************************************************************)
(* What the object registry promises, without slots, locks and heap.       *)
(*                                                                         *)
(* An object is born live under an object id that no object ever had, and  *)
(* two live objects of one name exist only if neither is unique.  It is    *)
(* deleted once, and only a deleted object, or one to be deleted at once,  *)
(* is forgotten.                                                           *)
(***************************************************************************)
EXTENDS Integers

CONSTANTS Procs, Kinds

VARIABLES
  objs,     \* the known objects: [oid, kind, parent, proc, deleted]
  next,     \* every id below it was given away
  dead      \* the processes that died

vars == <<objs, next, dead>>

Init == objs = {} /\ next = 1 /\ dead = {}

Live == {o \in objs : ~o.deleted}

MayCoexist(k, l) == k.name = l.name => ~k.unique /\ ~l.unique

\* A deleted object of the same process may give its memory to the new one.
Insert ==
  /\ next' = next + 1
  /\ UNCHANGED dead
  /\ \E p \in Procs, k \in Kinds, parent \in 0 .. next :
       /\ \A o \in Live : MayCoexist(o.kind, k)
       /\ \E heir \in SUBSET {o \in objs \ Live : o.proc = p /\ o.kind.keep_alloc} :
            objs' = (objs \ heir)
                    \cup {[oid |-> next, kind |-> k, parent |-> parent,
                           proc |-> p, deleted |-> FALSE]}

Deleted(o) == [oid |-> o.oid, kind |-> o.kind, parent |-> o.parent,
               proc |-> o.proc, deleted |-> TRUE]

Delete ==
  \E o \in Live :
    /\ objs' = (objs \ {o}) \cup {Deleted(o)}
    /\ UNCHANGED <<next, dead>>

\* The flag of the object asks for it, or its process is dead.
DeleteAtOnce ==
  \E o \in Live :
    /\ o.kind.immediately_delete \/ o.proc \in dead
    /\ objs' = objs \ {o}
    /\ UNCHANGED <<next, dead>>

Forget ==
  \E o \in objs \ Live :
    /\ objs' = objs \ {o}
    /\ UNCHANGED <<next, dead>>

Die == \E p \in Procs : dead' = dead \cup {p} /\ UNCHANGED <<objs, next>>

Next == Die \/ Insert \/ Delete \/ DeleteAtOnce \/ Forget

Spec == Init /\ [][Next]_vars
=============================================================================
