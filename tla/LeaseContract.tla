---------------------------- MODULE LeaseContract ----------------------------
(***************************************************************************)
(* What the bridge promises about an object whose reference it sent to a   *)
(* client (LEASE_TIME_S of accessible-leasing.c): the object is kept for   *)
(* at least the lease time after the last time it was sent, unless the     *)
(* bridge shuts down, and it is kept by one reference however often it is  *)
(* sent.                                                                   *)
(***************************************************************************)
EXTENDS Integers

CONSTANTS Object, LeaseTicks

VARIABLES now,    \* the monotonic clock
          taken,  \* when each object was last sent
          refs,   \* references the leases hold on each object
          open    \* the bridge runs

vars == <<now, taken, refs, open>>

Init ==
  /\ now \in Nat /\ open = TRUE
  /\ taken = [o \in Object |-> 0]
  /\ refs = [o \in Object |-> 0]

Take(o) ==
  /\ open
  /\ refs' = [refs EXCEPT ![o] = 1]
  /\ taken' = [taken EXCEPT ![o] = now]
  /\ UNCHANGED <<now, open>>

Release(o) ==
  /\ refs[o] = 1
  /\ open => now - taken[o] >= LeaseTicks
  /\ refs' = [refs EXCEPT ![o] = 0]
  /\ UNCHANGED <<now, taken, open>>

Close == open /\ open' = FALSE /\ UNCHANGED <<now, taken, refs>>

Tick == now' = now + 1 /\ UNCHANGED <<taken, refs, open>>

Next == Tick \/ Close \/ \E o \in Object : Take(o) \/ Release(o)

Spec == Init /\ [][Next]_vars
=============================================================================
