--------------------------- MODULE ConnectionLimit ---------------------------
(***************************************************************************)
(* What the capacity registry promises its callers, without saying how:    *)
(* for every capacity key (an XC account, a playlist or a lone source) the *)
(* set of grants outstanding never outgrows the configured limit, a grant  *)
(* is given one at a time, and any grants may be handed back at any time.  *)
(* CsoCapacity implements this specification.                              *)
(***************************************************************************)
EXTENDS Naturals, FiniteSets

CONSTANTS Keys,     \* capacity keys
          Grants,   \* everything that can be granted: an owner and a slot
          Limit     \* configured connection limit of each key

VARIABLE held       \* held[k]: the grants outstanding on key k

TypeOK == held \in [Keys -> SUBSET Grants]

Init == held = [k \in Keys |-> {}]

Grant(k, g) ==
    /\ Cardinality(held[k]) < Limit[k]
    /\ held' = [held EXCEPT ![k] = @ \union {g}]

\* One call may hand back grants on several keys (release_all does).
HandBack ==
    /\ held' \in [Keys -> SUBSET Grants]
    /\ \A k \in Keys : held'[k] \subseteq held[k]

Next == HandBack \/ \E k \in Keys, g \in Grants : Grant(k, g)

Spec == Init /\ [][Next]_held
=============================================================================
