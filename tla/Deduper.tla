------------------------------ MODULE Deduper ------------------------------
(***************************************************************************)
(* src/src/md/deduper.rs: keys seen so far, forgotten oldest first when    *)
(* they are older than the TTL or more than the capacity. A deduper is     *)
(* its `set` and its `order`; the time of an insertion is a number, and a  *)
(* key is too old when it was inserted at or before `horizon`.             *)
(***************************************************************************)
EXTENDS Naturals, Sequences, FiniteSets

CONSTANT Capacity
New == [set |-> {}, order |-> << >>]
Keys(order) == {order[i].key : i \in 1 .. Len(order)}

\* Pop n entries from the front. Mutant: the set keeps their keys.
ForgetQueued(d, n) == [d EXCEPT !.order = SubSeq(@, n + 1, Len(@))]
Forget(d, n) ==
  [set |-> d.set \ Keys(SubSeq(d.order, 1, n)),
   order |-> SubSeq(d.order, n + 1, Len(d.order))]

Expired(d, horizon) == {i \in 1 .. Len(d.order) : \A j \in 1 .. i : d.order[j].at <= horizon}
Prune(d, horizon) == Forget(d, Cardinality(Expired(d, horizon)))

\* Mutant: the capacity itself is too much.
EnforceLess(d) ==
  IF Cardinality(d.set) >= Capacity THEN Forget(d, Cardinality(d.set) - Capacity + 1) ELSE d
EnforceCapacity(d) ==
  IF Cardinality(d.set) > Capacity THEN Forget(d, Cardinality(d.set) - Capacity) ELSE d

Insert(d, key, now, horizon) ==
  LET p == Prune(d, horizon)
  IN IF key \in p.set THEN [dedup |-> p, fresh |-> FALSE]
     ELSE [dedup |-> EnforceCapacity([set |-> p.set \cup {key},
                                      order |-> Append(p.order, [key |-> key, at |-> now])]),
           fresh |-> TRUE]
=============================================================================
