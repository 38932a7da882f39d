------------------------------ MODULE Allocator ------------------------------
(***************************************************************************)
(* What a kernel memory allocator promises its callers (spec.md 4.3), with *)
(* no block list: the set of live regions.  An allocation either fails or  *)
(* returns a fresh 4-byte aligned region of at least the requested size,   *)
(* inside the heap window and overlapping no live region.  Freeing a live  *)
(* pointer ends exactly that region; freeing anything else changes nothing.*)
(***************************************************************************)
EXTENDS Integers

CONSTANTS HeapSize, Requests

VARIABLE live   \* set of [ptr, size] records

Region == [ptr : 1..HeapSize, size : 0..HeapSize]

(* Pointers and sizes handed out are multiples of 4 bytes.                *)
Aligned(S) == {a \in S : a % 4 = 0}

Disjoint(r, q) == r.ptr + r.size <= q.ptr \/ q.ptr + q.size <= r.ptr

Init == live = {}

(* A zero-byte request returns NULL and so allocates nothing.             *)
Malloc(n) ==
  /\ n > 0
  /\ \E p \in Aligned(1..HeapSize), s \in Aligned(n..HeapSize) :
        LET r == [ptr |-> p, size |-> s] IN
        /\ p + s <= HeapSize
        /\ \A q \in live : q.ptr # p /\ Disjoint(r, q)
        /\ live' = live \cup {r}

Free(p) ==
  /\ \E r \in live : r.ptr = p
  /\ live' = {r \in live : r.ptr # p}

(* Resizing a region: a fresh region disjoint from every live one, the   *)
(* old region included, replaces the live region at p.  Resizing a       *)
(* pointer that is not live is an allocation.                             *)
Realloc(p, n) ==
  /\ n > 0
  /\ \E q \in Aligned(1..HeapSize), s \in Aligned(n..HeapSize) :
        LET r == [ptr |-> q, size |-> s] IN
        /\ q + s <= HeapSize
        /\ \A o \in live : o.ptr # q /\ Disjoint(r, o)
        /\ live' = {o \in live : o.ptr # p} \cup {r}

Next ==
  \/ \E n \in Requests : Malloc(n)
  \/ \E r \in live : Free(r.ptr)
  \/ \E r \in live, n \in Requests : Realloc(r.ptr, n)

Spec == Init /\ [][Next]_live

TypeOK == live \subseteq Region
=============================================================================
