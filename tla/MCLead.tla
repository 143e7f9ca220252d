------------------------------- MODULE MCLead -------------------------------
(* One visitor leaves an address, then a number with it; another the       *)
(* number first, then another address under a key that was already used.   *)
EXTENDS Lead

F(e, p, k) == [email |-> e, phone |-> p, key |-> k]

MCPosted ==
    [web   |-> <<F("ann", None, "k1"), F("ann", "555", "k2")>>,
     shop  |-> <<F(None, "555", "k3"), F("bob", "555", "k1")>>,
     phone |-> <<F("bob", "555", "k4")>>]
=============================================================================
