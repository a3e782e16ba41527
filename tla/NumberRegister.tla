--------------------------- MODULE NumberRegister ---------------------------
(***************************************************************************)
(* What the registration numbers of a registry promise, whatever series,   *)
(* reservation, card form or trigger a number comes through.               *)
(*                                                                         *)
(* A slot is a number within a registration scope (year and document       *)
(* type).  A slot is free until it is taken; a taken slot is either held   *)
(* by nobody (a reservation no card has used, or a spent one) or belongs   *)
(* to one document.  It is never free again and never changes its          *)
(* document.  An official card has one slot, its own, for ever.            *)
(***************************************************************************)
CONSTANTS Slots, Docs, Free, Nobody, NoSlot   \* distinct from each other and from the documents

VARIABLES
    holder,     \* holder[s]: Free, Nobody, or the document slot s belongs to
    official    \* official[d]: the slot of the official card d, or NoSlot

registerVars == <<holder, official>>

RegisterInit ==
    /\ holder = [s \in Slots |-> Free]
    /\ official = [d \in Docs |-> NoSlot]

\* What may become of a slot: a free one is taken, by a document or by nobody; one that
\* nobody has is taken by a document.
SlotStep(s) ==
    \/ holder'[s] = holder[s]
    \/ holder[s] = Free /\ holder'[s] \in Docs \cup {Nobody}
    \/ holder[s] = Nobody /\ holder'[s] \in Docs

\* What may become of a card: it is made official with a slot that is its own.
CardStep(d) ==
    \/ official'[d] = official[d]
    \/ /\ official[d] = NoSlot
       /\ official'[d] \in {s \in Slots : holder'[s] = d}

RegisterNext ==
    /\ \A s \in Slots : SlotStep(s)
    /\ \A d \in Docs : CardStep(d)
    /\ holder' \in [Slots -> Docs \cup {Free, Nobody}]
    /\ official' \in [Docs -> Slots \cup {NoSlot}]

RegisterSpec == RegisterInit /\ [][RegisterNext]_registerVars
=============================================================================
