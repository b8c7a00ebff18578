----------------------------- MODULE SessionLinks -----------------------------
(***************************************************************************)
(* What an order and the session it came by promise each other, with no    *)
(* threads, pointers or vectors: an order is linked to an open session     *)
(* when it is made, it may be unlinked while it lives, and a session       *)
(* closes only when no order is linked to it any more.  SessionLifetime is *)
(* the detailed specification.                                             *)
(***************************************************************************)

CONSTANTS Sessions, Orders, None

VARIABLES
  open,     \* sessions an order may report to
  life,     \* "unborn", "alive" or "destroyed"
  linked    \* the session each living order reports to, None if there is none

vars == <<open, life, linked>>

Init ==
  /\ open = Sessions
  /\ life = [o \in Orders |-> "unborn"]
  /\ linked = [o \in Orders |-> None]

Link(o, s) ==
  /\ life[o] = "unborn"
  /\ s \in open
  /\ life' = [life EXCEPT ![o] = "alive"]
  /\ linked' = [linked EXCEPT ![o] = s]
  /\ UNCHANGED open

Unlink(o) ==
  /\ life[o] = "alive"
  /\ linked' = [linked EXCEPT ![o] = None]
  /\ UNCHANGED <<open, life>>

Destroy(o) ==
  /\ life[o] = "alive"
  /\ life' = [life EXCEPT ![o] = "destroyed"]
  /\ linked' = [linked EXCEPT ![o] = None]
  /\ UNCHANGED open

Close(s) ==
  /\ \A o \in Orders : linked[o] # s
  /\ open' = open \ {s}
  /\ UNCHANGED <<life, linked>>

Next == \/ \E o \in Orders : Unlink(o) \/ Destroy(o)
        \/ \E o \in Orders, s \in Sessions : Link(o, s)
        \/ \E s \in Sessions : Close(s)

Spec == Init /\ [][Next]_vars
=============================================================================
