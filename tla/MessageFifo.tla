----------------------------- MODULE MessageFifo -----------------------------
(* What a synchronized message queue promises to the tests that use its    *)
(* mirrors: items come out once each, in the order in which they went in,  *)
(* and at most size of them wait.                                          *)
EXTENDS Integers, Sequences

VARIABLE q    \* one record per queue: [size, items that wait, items that came out]

Init == q = <<>>

Create ==
  /\ Len(q') = Len(q) + 1
  /\ q' = Append(q, [size |-> q'[Len(q')].size, items |-> <<>>, out |-> <<>>])

(* The items are appended together or not at all. *)
Write(i) ==
  LET items == q'[i].items
  IN  /\ Len(items) <= q[i].size
      /\ Len(items) >= Len(q[i].items)
      /\ SubSeq(items, 1, Len(q[i].items)) = q[i].items
      /\ q' = [q EXCEPT ![i].items = items]

Read(i) == \E n \in 0..Len(q[i].items) :
  q' = [q EXCEPT ![i].items = SubSeq(@, n + 1, Len(@)), ![i].out = @ \o SubSeq(q[i].items, 1, n)]

(* Another object was attached with its pointers reset. *)
Reset(i) == q' = [q EXCEPT ![i].items = <<>>]

Next == Create \/ \E i \in DOMAIN q : Write(i) \/ Read(i) \/ Reset(i)
Spec == Init /\ [][Next]_q
=============================================================================
