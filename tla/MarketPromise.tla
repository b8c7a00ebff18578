---------------------------- MODULE MarketPromise ----------------------------
(***************************************************************************)
(* What latinex::Market promises its callers, with no threads, locks or    *)
(* maps: the book of a symbol is opened once and from then on complete     *)
(* (its listeners set); an order enters the book of its symbol only when   *)
(* no other order is in there; it is announced before add_order returns    *)
(* true.  add_order may answer late: it returns false only if the order    *)
(* was called for before its book was complete, and books were not made on *)
(* demand at some moment of the call.                                      *)
(* MarketBooks is the detailed specification.                              *)
(***************************************************************************)

CONSTANTS Symbols, Orders, SymbolOf, Preloaded, None

VARIABLES
  onDemand,  \* whether books are made on demand
  complete,  \* symbols with a book that announces what happens in it
  asked,     \* orders that add_order is being called for
  early,     \* those whose book was not complete when the call began
  unmade,    \* those of them whose call has met a market that makes no books
  inside,    \* for each symbol the orders being added to its book
  outcome    \* what add_order returned for each order

vars == <<onDemand, complete, asked, early, unmade, inside, outcome>>

Init ==
  /\ onDemand = FALSE
  /\ complete = Preloaded
  /\ asked = {}
  /\ early = {}
  /\ unmade = {}
  /\ inside = [s \in Symbols |-> {}]
  /\ outcome = [o \in Orders |-> "none"]

SetOnDemand(in) ==
  /\ onDemand' = in
  /\ unmade' = IF in THEN unmade ELSE early
  /\ UNCHANGED <<complete, asked, early, inside, outcome>>

Open(s) ==
  /\ complete' = complete \cup {s}
  /\ UNCHANGED <<onDemand, asked, early, unmade, inside, outcome>>

Ask(o) ==
  /\ o \notin asked
  /\ outcome[o] # "true"
  /\ asked' = asked \cup {o}
  /\ early' = IF SymbolOf[o] \in complete THEN early ELSE early \cup {o}
  /\ unmade' = IF onDemand \/ SymbolOf[o] \in complete THEN unmade
                                                     ELSE unmade \cup {o}
  /\ UNCHANGED <<onDemand, complete, inside, outcome>>

Enter(o) ==
  LET s == SymbolOf[o]
  IN  /\ o \in asked
      /\ s \in complete
      /\ inside[s] = {}
      /\ inside' = [inside EXCEPT ![s] = {o}]
      /\ UNCHANGED <<onDemand, complete, asked, early, unmade, outcome>>

Answer(o, r) ==
  /\ asked' = asked \ {o}
  /\ early' = early \ {o}
  /\ unmade' = unmade \ {o}
  /\ outcome' = [outcome EXCEPT ![o] = r]

Leave(o) ==
  LET s == SymbolOf[o]
  IN  /\ o \in inside[s]
      /\ inside' = [inside EXCEPT ![s] = {}]
      /\ Answer(o, "true")
      /\ UNCHANGED <<onDemand, complete>>

Refuse(o) ==
  /\ o \in unmade \ inside[SymbolOf[o]]
  /\ Answer(o, "false")
  /\ UNCHANGED <<onDemand, complete, inside>>

Next == \/ \E in \in BOOLEAN : SetOnDemand(in)
        \/ \E s \in Symbols : Open(s)
        \/ \E o \in Orders : Ask(o) \/ Enter(o) \/ Leave(o) \/ Refuse(o)

Spec == Init /\ [][Next]_vars
=============================================================================
