------------------------------- MODULE Lease -------------------------------
(***************************************************************************)
(* What a lock table promises, whoever implements it: at any time a        *)
(* resource has at most one owner, for a limited time that starts at       *)
(* Timeout and counts down.  A new owner is accepted only when the         *)
(* resource is free or the previous lease has run out; the owner alone can *)
(* renew a lease or give it up early; a lease that has run out may be      *)
(* dropped by anybody.                                                     *)
(*                                                                         *)
(* Time is relative: a lease stores the time it has left.  A lease with    *)
(* 0 left is at the very instant of its expiry, one with Lapsed left is    *)
(* past it.                                                                *)
(***************************************************************************)
EXTENDS Integers

CONSTANTS
  Client,     \* who may own a lease
  Resource,   \* what is leased
  Timeout,    \* the time a new lease is given
  Free        \* the value of a resource nobody leases

VARIABLE lease

Lapsed == -1

LeaseRow == [owner: Client, left: Lapsed..Timeout]

TypeOK == lease \in [Resource -> LeaseRow \cup {Free}]

\* One unit of time passes: a lease that has run out stays so.
Older(n) == IF n = Lapsed THEN Lapsed ELSE n - 1

Init == lease = [x \in Resource |-> Free]

Acquire(c, x) ==
  /\ lease[x] = Free \/ lease[x].left = Lapsed
  /\ lease' = [lease EXCEPT ![x] = [owner |-> c, left |-> Timeout]]

Renew(c, x) ==
  /\ lease[x] # Free
  /\ lease[x].owner = c
  /\ lease' = [lease EXCEPT ![x].left = Timeout]

Release(c, x) ==
  /\ lease[x] # Free
  /\ lease[x].owner = c
  /\ lease' = [lease EXCEPT ![x] = Free]

\* Any set of leases that have no time left is dropped.
Drop(X) ==
  /\ \A x \in X : lease[x] # Free /\ lease[x].left <= 0
  /\ lease' = [x \in Resource |-> IF x \in X THEN Free ELSE lease[x]]

Tick ==
  lease' = [x \in Resource |->
              IF lease[x] = Free THEN Free
              ELSE [lease[x] EXCEPT !.left = Older(@)]]

Next ==
  \/ \E c \in Client, x \in Resource :
       Acquire(c, x) \/ Renew(c, x) \/ Release(c, x)
  \/ \E X \in SUBSET Resource : Drop(X)
  \/ Tick

Spec == Init /\ [][Next]_lease

============================================================================
