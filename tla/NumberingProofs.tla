-------------------------- MODULE NumberingProofs ---------------------------
(***************************************************************************)
(* For every set of cards, series, periods and scopes and every range of   *)
(* numbers: no number of a scope is held twice, a live reservation is      *)
(* borne by its draft, an official number by its published card, the       *)
(* triggers never have to refuse a handler, and numbering implements the   *)
(* register.                                                               *)
(*                                                                         *)
(* The invariant is the ledger: which claim stands for which entry and     *)
(* which card.  A handler changes rows one after another, so the ledger is *)
(* stated of any cards, entries and claims, and each change is a lemma.    *)
(***************************************************************************)
EXTENDS Numbering, TLAPS

Slot(row) == <<row.scope, row.number>>

\* Entry e has the claim of its slot, which knows its document; a claim that names
\* an entry is the claim of its slot.
EntryLedger(ents, cl) ==
    /\ \A e \in Entries :
          IF ents[e].state = "unused" THEN ents[e].doc = NoDoc /\ ents[e].number = NoNumber
          ELSE /\ ents[e].number \in Numbers
               /\ cl[Slot(ents[e])].entry = e
               /\ cl[Slot(ents[e])].doc = ents[e].doc
    /\ \A k \in Slots : cl[k].entry # NoEntry =>
          /\ cl[k].taken
          /\ ents[cl[k].entry].state # "unused"
          /\ k = Slot(ents[cl[k].entry])
    /\ \A k \in Slots : cl[k].doc # NoDoc => cl[k].taken

\* A card has the claim of its number.
CardLedger(crd, cl) ==
    \A d \in Docs : crd[d].number # NoNumber => crd[d].state # "none" /\ cl[Slot(crd[d])].doc = d

\* What is linked is bound to the scope of a card that exists.
Links(crd, ents) ==
    \A e \in Entries : ents[e].doc # NoDoc => ents[e].bound /\ crd[ents[e].doc].state # "none"

\* LiveReservationIsBorne and OfficialNumbers.
Borne(crd, e) == crd[e.doc].number = e.number /\ crd[e.doc].scope = e.scope
LiveBorne(crd, ents) ==
    \A e \in Entries : ents[e].state = "reserved" /\ ents[e].doc # NoDoc =>
        Borne(crd, ents[e]) /\ crd[ents[e].doc].state = "draft"
OfficialBorne(crd, ents) ==
    \A e \in Entries : ents[e].state \in {"assigned", "void"} =>
        /\ ents[e].doc # NoDoc
        /\ Borne(crd, ents[e]) /\ crd[ents[e].doc].state = "published"

Book(crd, ents, cl) ==
    /\ EntryLedger(ents, cl) /\ CardLedger(crd, cl)
    /\ Links(crd, ents) /\ LiveBorne(crd, ents) /\ OfficialBorne(crd, ents)

Numbered(crd) ==
    \A d \in Docs : crd[d].state = "published" /\ FormSeries[d] # NoSeries =>
        crd[d].number # NoNumber

\* A slot that is taken stays taken, and stays with its document.
Grows(cl, cl2) ==
    \A k \in Slots : /\ cl[k].taken => cl2[k].taken
                     /\ cl[k].doc # NoDoc => cl2[k].doc = cl[k].doc

IInv == TypeOK /\ Book(cards, entries, claims) /\ Numbered(cards)

LEMMA TypeFacts ==
    ASSUME NEW crd \in [Docs -> CardRow], NEW ents \in [Entries -> EntryRow],
           NEW cl \in [Slots -> ClaimRow]
    PROVE  /\ \A d \in Docs : /\ crd[d].number \in Numbers \cup {NoNumber}
                              /\ crd[d].scope \in Scopes
                              /\ crd[d].number # NoNumber => Slot(crd[d]) \in Slots
           /\ \A e \in Entries : /\ ents[e].number \in Numbers \cup {NoNumber}
                                 /\ ents[e].scope \in Scopes
                                 /\ ents[e].doc \in Docs \cup {NoDoc}
                                 /\ ents[e].number # NoNumber => Slot(ents[e]) \in Slots
           /\ \A k \in Slots : /\ cl[k].doc \in Docs \cup {NoDoc}
                               /\ cl[k].entry \in Entries \cup {NoEntry}
BY DEF CardRow, EntryRow, ClaimRow, Slot, Slots

LEMMA NoNumberIsNone == NoNumber \notin Numbers
BY DEF NoNumber, Numbers

-----------------------------------------------------------------------------
\* Changes of the rows.

\* Entry e has become a reservation of the number; no other entry changes.
EntryReserved(e, n, scope, ents, ents2) ==
    /\ ents2[e].state = "reserved" /\ ents2[e].doc = NoDoc
    /\ ents2[e].number = n /\ ents2[e].scope = scope
    /\ \A x \in Entries : x # e => ents2[x] = ents[x]

\* Slot k has been taken for e; no other slot changes.
SlotReserved(k, e, cl, cl2) ==
    /\ cl2[k].taken /\ cl2[k].doc = NoDoc /\ cl2[k].entry = e
    /\ \A j \in Slots : j # k => cl2[j] = cl[j]

\* A reservation takes a free slot for an unused entry.
LEMMA ReserveKeepsBook ==
    ASSUME NEW crd \in [Docs -> CardRow], NEW ents \in [Entries -> EntryRow],
           NEW cl \in [Slots -> ClaimRow], Book(crd, ents, cl),
           NEW e \in Entries, ents[e].state = "unused",
           NEW n \in Numbers, NEW scope \in Scopes, ~cl[<<scope, n>>].taken,
           NEW ents2 \in [Entries -> EntryRow], NEW cl2 \in [Slots -> ClaimRow],
           EntryReserved(e, n, scope, ents, ents2), SlotReserved(<<scope, n>>, e, cl, cl2)
    PROVE  Book(crd, ents2, cl2) /\ Grows(cl, cl2)
<1> DEFINE k == <<scope, n>>
<1>1. k \in Slots
  BY DEF Slots
<1>2. /\ ents2[e].state = "reserved" /\ ents2[e].doc = NoDoc /\ Slot(ents2[e]) = k
      /\ ents2[e].number = n
      /\ \A x \in Entries : x # e => ents2[x] = ents[x]
  BY DEF EntryReserved, Slot
<1>3. /\ cl2[k].taken /\ cl2[k].doc = NoDoc /\ cl2[k].entry = e
      /\ \A j \in Slots : j # k => cl2[j] = cl[j]
  BY DEF SlotReserved
<1>6. EntryLedger(ents2, cl2)
  <2>1. \A j \in Slots : cl[j].entry # e
    BY NumberingAssumption DEF Book, EntryLedger
  <2>2. cl[k].entry = NoEntry /\ cl[k].doc = NoDoc
    BY <1>1 DEF Book, EntryLedger
  <2>3. \A x \in Entries : x # e /\ ents[x].state # "unused" => Slot(ents[x]) # k
    BY <2>2, NumberingAssumption DEF Book, EntryLedger
  <2>4. \A x \in Entries : ents[x].state # "unused" => Slot(ents[x]) \in Slots
    BY TypeFacts, NoNumberIsNone DEF Book, EntryLedger
  <2>5. ASSUME NEW x \in Entries, ents2[x].state # "unused"
        PROVE  /\ ents2[x].number \in Numbers
               /\ cl2[Slot(ents2[x])].entry = x
               /\ cl2[Slot(ents2[x])].doc = ents2[x].doc
    BY <1>2, <1>3, <2>3, <2>4, <2>5 DEF Book, EntryLedger
  <2>6. ASSUME NEW j \in Slots, cl2[j].entry # NoEntry
        PROVE  /\ cl2[j].taken
               /\ ents2[cl2[j].entry].state # "unused"
               /\ j = Slot(ents2[cl2[j].entry])
    <3>1. CASE j = k
      BY <1>2, <1>3, <3>1
    <3>2. CASE j # k
      <4>1. cl2[j] = cl[j] /\ cl[j].entry \in Entries /\ cl[j].entry # e
        BY <1>3, <2>1, <2>6, <3>2, TypeFacts
      <4> QED
        BY <1>2, <2>6, <4>1 DEF Book, EntryLedger
    <3> QED
      BY <3>1, <3>2
  <2>7. ASSUME NEW x \in Entries, ents2[x].state = "unused"
        PROVE  ents2[x].doc = NoDoc /\ ents2[x].number = NoNumber
    BY <1>2, <2>7 DEF Book, EntryLedger
  <2>8. ASSUME NEW j \in Slots, cl2[j].doc # NoDoc
        PROVE  cl2[j].taken
    BY <1>3, <2>8 DEF Book, EntryLedger
  <2> QED
    BY <2>5, <2>6, <2>7, <2>8 DEF EntryLedger
<1>7. CardLedger(crd, cl2)
  <2>1. cl[k].doc = NoDoc
    BY <1>1 DEF Book, EntryLedger
  <2>2. ASSUME NEW d \in Docs, crd[d].number # NoNumber
        PROVE  Slot(crd[d]) \in Slots /\ Slot(crd[d]) # k
    <3>1. Slot(crd[d]) \in Slots
      BY <2>2, TypeFacts
    <3>2. cl[Slot(crd[d])].doc = d /\ d # NoDoc
      BY <2>2, NumberingAssumption DEF Book, CardLedger
    <3> HIDE DEF k
    <3> QED
      BY <2>1, <3>1, <3>2
  <2> QED
    BY <1>3, <2>2 DEF Book, CardLedger
<1>8. Links(crd, ents2) /\ LiveBorne(crd, ents2) /\ OfficialBorne(crd, ents2)
  BY <1>2 DEF Book, Links, LiveBorne, OfficialBorne
<1>9. Grows(cl, cl2)
  <2>1. cl[k].doc = NoDoc
    BY <1>1 DEF Book, EntryLedger
  <2> QED
    BY <1>3, <2>1 DEF Grows
<1> QED
  BY <1>6, <1>7, <1>8, <1>9 DEF Book

LEMMA EntryReservedBy ==
    ASSUME NEW ents \in [Entries -> EntryRow],
           NEW e \in Entries, NEW n, NEW scope, NEW row \in EntryRow,
           row.state = "reserved", row.number = n, row.scope = scope, row.doc = NoDoc,
           NEW ents2, ents2 = [x \in Entries |-> IF x = e THEN row ELSE ents[x]]
    PROVE  ents2 \in [Entries -> EntryRow] /\ EntryReserved(e, n, scope, ents, ents2)
BY DEF EntryReserved

LEMMA SlotReservedBy ==
    ASSUME NEW cl \in [Slots -> ClaimRow], NEW k \in Slots, NEW e \in Entries,
           NEW cl2, cl2 = [cl EXCEPT ![k] = [taken |-> TRUE, doc |-> NoDoc, entry |-> e]]
    PROVE  cl2 \in [Slots -> ClaimRow] /\ SlotReserved(k, e, cl, cl2)
<1>1. PICK claim : claim = [taken |-> TRUE, doc |-> NoDoc, entry |-> e]
  OBVIOUS
<1>2. claim \in ClaimRow /\ claim.taken /\ claim.doc = NoDoc /\ claim.entry = e
  BY <1>1 DEF ClaimRow
<1>3. cl2 = [cl EXCEPT ![k] = claim]
  BY <1>1
<1> QED
  BY <1>2, <1>3 DEF SlotReserved

\* Entries that only change their state (reserved to cancelled or expired, assigned
\* to void) or become due.
Retires(ents, ents2) ==
    \A e \in Entries :
        /\ ents2[e].number = ents[e].number /\ ents2[e].scope = ents[e].scope
        /\ ents2[e].doc = ents[e].doc /\ ents2[e].bound = ents[e].bound
        /\ \/ ents2[e].state = ents[e].state
           \/ ents[e].state = "reserved" /\ ents2[e].state \in {"cancelled", "expired"}
           \/ ents[e].state = "assigned" /\ ents2[e].state = "void"

LEMMA RetireKeepsBook ==
    ASSUME NEW crd \in [Docs -> CardRow], NEW ents \in [Entries -> EntryRow],
           NEW cl \in [Slots -> ClaimRow], Book(crd, ents, cl),
           NEW ents2, Retires(ents, ents2)
    PROVE  Book(crd, ents2, cl)
<1>1. \A e \in Entries : Slot(ents2[e]) = Slot(ents[e])
  BY DEF Retires, Slot
<1>2. EntryLedger(ents2, cl)
  <2>1. \A e \in Entries : ents2[e].state = "unused" <=> ents[e].state = "unused"
    BY DEF Retires
  <2>2. \A e \in Entries : ents2[e].doc = ents[e].doc /\ ents2[e].number = ents[e].number
    BY DEF Retires
  <2>3. \A k \in Slots : cl[k].entry \in Entries \cup {NoEntry}
    BY TypeFacts
  <2> QED
    BY <1>1, <2>1, <2>2, <2>3 DEF Book, EntryLedger
<1>3. Links(crd, ents2) /\ LiveBorne(crd, ents2) /\ OfficialBorne(crd, ents2)
  BY DEF Book, Retires, Links, LiveBorne, OfficialBorne, Borne
<1> QED
  BY <1>2, <1>3 DEF Book

-----------------------------------------------------------------------------
\* A card is written.

\* A published card stays published, with its number and scope.
Stands(row, row2) ==
    row.state = "published" =>
        row2.state = "published" /\ row2.number = row.number /\ row2.scope = row.scope

\* Card d has become of state target with the number and scope given; no other card changes.
CardBecomes(d, number, scope, target, crd, crd2) ==
    /\ crd2[d].number = number /\ crd2[d].scope = scope /\ crd2[d].state = target
    /\ \A x \in Docs : x # d => crd2[x] = crd[x]
    /\ Stands(crd[d], crd2[d])

\* Entry e has become d's in the scope; no other entry changes.
EntryBecomes(d, scope, e, target, ents, ents2) ==
    /\ ents2[e].number = ents[e].number /\ ents2[e].series = ents[e].series
    /\ ents2[e].scope = scope /\ ents2[e].bound /\ ents2[e].doc = d
    /\ ents2[e].state = IF target = "published" THEN "assigned" ELSE "reserved"
    /\ \A x \in Entries : x # e => ents2[x] = ents[x]

\* The claim new of e has become d's; the claim old it had before, if it is another one,
\* stays taken and no entry's.
ClaimBecomes(d, e, old, new, cl, cl2) ==
    /\ cl2[new].taken /\ cl2[new].doc = d /\ cl2[new].entry = e
    /\ old # new => /\ ~cl[new].taken
                    /\ cl2[old].taken = cl[old].taken
                    /\ cl2[old].doc = cl[old].doc /\ cl2[old].entry = NoEntry
    /\ \A j \in Slots : j # new /\ j # old => cl2[j] = cl[j]

LEMMA FlushedCard ==
    ASSUME cards \in [Docs -> CardRow], NEW d \in Docs, NEW c \in CardRow,
           NEW target \in {"draft", "published"}, NEW ents, NEW cl, FlushCard(d, c, target, ents, cl)
    PROVE  /\ cards' \in [Docs -> CardRow]
           /\ CardBecomes(d, c.number, c.scope, target, cards, cards')
<1>1. PICK row : row = [c EXCEPT !.state = target]
  OBVIOUS
<1>2. /\ row.state = target /\ row.number = c.number /\ row.scope = c.scope
      /\ row \in CardRow
  BY <1>1 DEF CardRow
<1>3. cards' = [cards EXCEPT ![d] = row]
  BY <1>1 DEF FlushCard
<1>4. Registered(d, c, target)
  BY DEF FlushCard
<1> QED
  BY <1>2, <1>3, <1>4 DEF CardBecomes, Stands, Registered

\* write_entry_number, with the flush that follows it.
LEMMA WriteEffect ==
    ASSUME cards \in [Docs -> CardRow], NEW ents \in [Entries -> EntryRow],
           NEW cl \in [Slots -> ClaimRow], EntryLedger(ents, cl),
           NEW d \in Docs, NEW c \in CardRow, NEW e \in Entries, ents[e].state # "unused",
           NEW target \in {"draft", "published"}, NEW supplied \in BOOLEAN,
           WriteNumber(d, c, e, target, ents, cl, supplied)
    PROVE  /\ cards' \in [Docs -> CardRow] /\ entries' \in [Entries -> EntryRow]
           /\ claims' \in [Slots -> ClaimRow]
           /\ CardBecomes(d, ents[e].number, c.scope, target, cards, cards')
           /\ EntryBecomes(d, c.scope, e, target, ents, entries')
           /\ ClaimBecomes(d, e, Slot(ents[e]), <<c.scope, ents[e].number>>, cl, claims')
           /\ ents[e].doc \in {NoDoc, d}
           /\ ents[e].bound => ents[e].scope = c.scope
           /\ c.number # NoNumber => supplied \/ ents[e].doc = d
<1> DEFINE new == <<c.scope, ents[e].number>>
           old == Slot(ents[e])
           linked == [ents EXCEPT ![e] = LinkedEntry(ents[e], d, c, target)]
           moved == MovedClaim(d, c, e, old, ents, cl)
<1>1. PICK c2 : c2 = [c EXCEPT !.number = ents[e].number]
  OBVIOUS
<1>2. MayWrite(d, c, e, old, ents, cl, supplied) /\ FlushCard(d, c2, target, linked, moved)
  <2>1. PICK k \in Slots : /\ MayWrite(d, c, e, k, ents, cl, supplied)
                          /\ FlushCard(d, c2, target, linked, MovedClaim(d, c, e, k, ents, cl))
    BY <1>1 DEF WriteNumber
  <2>2. cl[k].entry = e /\ e # NoEntry
    BY <2>1, NumberingAssumption DEF MayWrite
  <2>3. k = old
    BY <2>2 DEF EntryLedger
  <2> QED
    BY <2>1, <2>3
<1>3. /\ ents[e].number \in Numbers /\ c.scope \in Scopes /\ ents[e].scope \in Scopes
      /\ new \in Slots /\ old \in Slots
      /\ cl[old].taken /\ cl[old].entry = e
  <2>1. ents[e].number \in Numbers /\ c.scope \in Scopes /\ ents[e].scope \in Scopes
    BY DEF EntryLedger, CardRow, EntryRow
  <2>2. new \in Slots /\ old \in Slots
    BY <2>1 DEF Slots, Slot
  <2>3. cl[old].entry = e /\ e # NoEntry
    BY NumberingAssumption DEF EntryLedger
  <2> QED
    BY <2>1, <2>2, <2>3 DEF EntryLedger
<1>4. /\ c2 \in CardRow /\ c2.number = ents[e].number /\ c2.scope = c.scope
  BY <1>1, <1>3 DEF CardRow
<1>5. /\ cards' \in [Docs -> CardRow]
      /\ CardBecomes(d, ents[e].number, c.scope, target, cards, cards')
  BY <1>2, <1>4, FlushedCard
<1>6. /\ entries' \in [Entries -> EntryRow]
      /\ EntryBecomes(d, c.scope, e, target, ents, entries')
  <2>1. entries' = linked
    BY <1>2 DEF FlushCard
  <2>2. PICK row : row = LinkedEntry(ents[e], d, c, target)
    OBVIOUS
  <2>3. /\ row.number = ents[e].number /\ row.series = ents[e].series
        /\ row.scope = c.scope /\ row.bound /\ row.doc = d
        /\ row.state = (IF target = "published" THEN "assigned" ELSE "reserved")
        /\ row \in EntryRow
    <3>1. ents[e] \in EntryRow
      OBVIOUS
    <3>2. /\ row.number = ents[e].number /\ row.series = ents[e].series
          /\ row.scope = c.scope /\ row.bound /\ row.doc = d
          /\ row.state = (IF target = "published" THEN "assigned" ELSE "reserved")
      BY <2>2, <3>1 DEF LinkedEntry, EntryRow
    <3>3. row \in EntryRow
      BY <1>3, <2>2, <3>1 DEF LinkedEntry, EntryRow
    <3> QED
      BY <3>2, <3>3
  <2>4. entries' = [ents EXCEPT ![e] = row]
    BY <2>1, <2>2
  <2> QED
    BY <2>3, <2>4 DEF EntryBecomes
<1>7. /\ moved \in [Slots -> ClaimRow]
      /\ ClaimBecomes(d, e, old, new, cl, moved)
  <2>1. CASE ents[e].scope = c.scope
    <3>1. new = old
      BY <2>1 DEF Slot
    <3>2. PICK row : row = [cl[old] EXCEPT !.doc = d]
      OBVIOUS
    <3>3. row.taken /\ row.doc = d /\ row.entry = e /\ row \in ClaimRow
      BY <1>3, <3>2 DEF ClaimRow
    <3>4. moved = [cl EXCEPT ![old] = row]
      BY <2>1, <3>2 DEF MovedClaim
    <3> HIDE DEF new, old, moved
    <3> QED
      BY <1>3, <3>1, <3>3, <3>4 DEF ClaimBecomes
  <2>2. CASE ents[e].scope # c.scope
    <3>1. new # old
      BY <2>2 DEF Slot
    <3>2. PICK left : left = [cl[old] EXCEPT !.entry = NoEntry]
      OBVIOUS
    <3>3. PICK taken : taken = [taken |-> TRUE, doc |-> d, entry |-> e]
      OBVIOUS
    <3>4. /\ left.taken = cl[old].taken /\ left.doc = cl[old].doc /\ left.entry = NoEntry
          /\ left \in ClaimRow
      BY <1>3, <3>2 DEF ClaimRow
    <3>5. taken.taken /\ taken.doc = d /\ taken.entry = e /\ taken \in ClaimRow
      BY <3>3 DEF ClaimRow
    <3>6. moved = [cl EXCEPT ![old] = left, ![new] = taken]
      BY <2>2, <3>2, <3>3 DEF MovedClaim
    <3>7. ~cl[new].taken
      BY <1>2, <2>2 DEF MayWrite
    <3> HIDE DEF new, old, moved
    <3> QED
      BY <1>3, <3>1, <3>4, <3>5, <3>6, <3>7 DEF ClaimBecomes
  <2> QED
    BY <2>1, <2>2
<1>8. /\ claims' \in [Slots -> ClaimRow]
      /\ ClaimBecomes(d, e, old, new, cl, claims')
  <2>1. \/ claims' = moved
        \/ claims' = [moved EXCEPT ![new] = [taken |-> TRUE, doc |-> d, entry |-> moved[new].entry]]
    BY <1>2, <1>4 DEF FlushCard
  <2> HIDE DEF new, old, moved
  <2>2. CASE claims' = [moved EXCEPT ![new] = [taken |-> TRUE, doc |-> d, entry |-> moved[new].entry]]
    <3>1. moved[new].entry = e
      BY <1>7 DEF ClaimBecomes
    <3>2. PICK row : row = [taken |-> TRUE, doc |-> d, entry |-> e]
      OBVIOUS
    <3>3. row.taken /\ row.doc = d /\ row.entry = e /\ row \in ClaimRow
      BY <3>2 DEF ClaimRow
    <3>4. claims' = [moved EXCEPT ![new] = row]
      BY <2>2, <3>1, <3>2
    <3> QED
      BY <1>3, <1>7, <3>3, <3>4 DEF ClaimBecomes
  <2> QED
    BY <1>7, <2>1, <2>2
<1>9. /\ ents[e].doc \in {NoDoc, d}
      /\ ents[e].bound => ents[e].scope = c.scope
      /\ c.number # NoNumber => supplied \/ ents[e].doc = d
  BY <1>2 DEF MayWrite
<1> QED
  BY <1>5, <1>6, <1>8, <1>9

\* A reservation written into a card: the card was a draft, or new, and the book is kept.
LEMMA WriteKeepsBook ==
    ASSUME NEW crd \in [Docs -> CardRow], NEW ents \in [Entries -> EntryRow],
           NEW cl \in [Slots -> ClaimRow], Book(crd, ents, cl),
           NEW crd2 \in [Docs -> CardRow], NEW ents2 \in [Entries -> EntryRow],
           NEW cl2 \in [Slots -> ClaimRow],
           NEW d \in Docs, NEW e \in Entries, NEW scope \in Scopes,
           NEW target \in {"draft", "published"}, ents[e].state = "reserved",
           CardBecomes(d, ents[e].number, scope, target, crd, crd2),
           EntryBecomes(d, scope, e, target, ents, ents2),
           ClaimBecomes(d, e, Slot(ents[e]), <<scope, ents[e].number>>, cl, cl2),
           ents[e].doc \in {NoDoc, d},
           \A x \in Entries : ents[x].state = "reserved" /\ ents[x].doc = d => x = e
    PROVE  Book(crd2, ents2, cl2) /\ Grows(cl, cl2)
<1> DEFINE new == <<scope, ents[e].number>>
           old == Slot(ents[e])
<1>1. /\ new \in Slots /\ old \in Slots /\ ents[e].number # NoNumber
      /\ cl[old].entry = e /\ cl[old].taken /\ cl[old].doc = ents[e].doc
      /\ d # NoDoc /\ e # NoEntry
  <2>1. ents[e].number \in Numbers /\ ents[e].scope \in Scopes
    BY DEF Book, EntryLedger, EntryRow
  <2>2. new \in Slots /\ old \in Slots
    BY <2>1 DEF Slots, Slot
  <2>3. d # NoDoc /\ e # NoEntry
    BY NumberingAssumption
  <2> QED
    BY <2>1, <2>2, <2>3, NoNumberIsNone DEF Book, EntryLedger
<1>b. ClaimBecomes(d, e, old, new, cl, cl2)
  OBVIOUS
<1>2. Slot(crd2[d]) = new /\ Slot(ents2[e]) = new
  BY DEF CardBecomes, EntryBecomes, Slot
<1>3. \A x \in Entries : x # e /\ ents[x].state # "unused" =>
          /\ Slot(ents[x]) \in Slots /\ Slot(ents[x]) # old /\ Slot(ents[x]) # new
  <2> SUFFICES ASSUME NEW x \in Entries, x # e, ents[x].state # "unused"
               PROVE  Slot(ents[x]) \in Slots /\ Slot(ents[x]) # old /\ Slot(ents[x]) # new
    OBVIOUS
  <2>1. cl[Slot(ents[x])].entry = x /\ x # NoEntry /\ Slot(ents[x]) \in Slots
    BY TypeFacts, NoNumberIsNone, NumberingAssumption DEF Book, EntryLedger
  <2>2. cl[Slot(ents[x])].taken
    BY <2>1 DEF Book, EntryLedger
  <2> HIDE DEF new, old
  <2>3. Slot(ents[x]) # old
    BY <1>1, <2>1
  <2>4. old # new => Slot(ents[x]) # new
    BY <1>b, <2>2 DEF ClaimBecomes
  <2> QED
    BY <2>1, <2>3, <2>4
<1>4. \A x \in Docs : x # d /\ crd[x].number # NoNumber =>
          /\ Slot(crd[x]) \in Slots /\ Slot(crd[x]) # old /\ Slot(crd[x]) # new
  <2> SUFFICES ASSUME NEW x \in Docs, x # d, crd[x].number # NoNumber
               PROVE  Slot(crd[x]) \in Slots /\ Slot(crd[x]) # old /\ Slot(crd[x]) # new
    OBVIOUS
  <2>1. cl[Slot(crd[x])].doc = x /\ x # NoDoc /\ Slot(crd[x]) \in Slots
    BY TypeFacts, NumberingAssumption DEF Book, CardLedger
  <2>2. cl[Slot(crd[x])].taken
    BY <2>1 DEF Book, EntryLedger
  <2> HIDE DEF new, old
  <2>3. Slot(crd[x]) # old
    BY <1>1, <2>1
  <2>4. old # new => Slot(crd[x]) # new
    BY <1>b, <2>2 DEF ClaimBecomes
  <2> QED
    BY <2>1, <2>3, <2>4
<1>5. crd[d].state # "published"
  <2> SUFFICES ASSUME crd[d].state = "published" PROVE FALSE
    OBVIOUS
  <2>1. ents[e].doc = NoDoc
    BY NumberingAssumption DEF Book, LiveBorne
  <2>2. Slot(crd[d]) = new /\ crd[d].number # NoNumber
    BY <1>1 DEF CardBecomes, Stands, Slot
  <2>3. cl[new].doc = d
    BY <2>2 DEF Book, CardLedger
  <2>4. cl[new].taken
    BY <1>1, <2>3 DEF Book, EntryLedger
  <2> QED
    BY <1>1, <2>1, <2>3, <2>4 DEF ClaimBecomes
<1>6. EntryLedger(ents2, cl2)
  <2>1. ASSUME NEW x \in Entries
        PROVE  IF ents2[x].state = "unused" THEN ents2[x].doc = NoDoc /\ ents2[x].number = NoNumber
               ELSE /\ ents2[x].number \in Numbers
                    /\ cl2[Slot(ents2[x])].entry = x
                    /\ cl2[Slot(ents2[x])].doc = ents2[x].doc
    <3>1. CASE x = e
      <4>1. ents2[e].number \in Numbers /\ ents2[e].state # "unused" /\ ents2[e].doc = d
        BY DEF Book, EntryLedger, EntryBecomes
      <4>2. cl2[new].entry = e /\ cl2[new].doc = d
        BY DEF ClaimBecomes
      <4> QED
        BY <1>2, <3>1, <4>1, <4>2
    <3>2. CASE x # e
      <4>1. ents2[x] = ents[x]
        BY <3>2 DEF EntryBecomes
      <4>2. ents[x].state # "unused" => cl2[Slot(ents[x])] = cl[Slot(ents[x])]
        BY <1>3, <3>2 DEF ClaimBecomes
      <4> QED
        BY <4>1, <4>2 DEF Book, EntryLedger
    <3> QED
      BY <3>1, <3>2
  <2>2. ASSUME NEW j \in Slots, cl2[j].entry # NoEntry
        PROVE  /\ cl2[j].taken
               /\ ents2[cl2[j].entry].state # "unused"
               /\ j = Slot(ents2[cl2[j].entry])
    <3>1. CASE j = new
      BY <1>2, <3>1 DEF ClaimBecomes, EntryBecomes
    <3>2. CASE j # new
      <4>1. j # old
        BY <2>2, <3>2 DEF ClaimBecomes
      <4>2. cl2[j] = cl[j]
        BY <3>2, <4>1 DEF ClaimBecomes
      <4>3. /\ cl[j].taken /\ cl[j].entry \in Entries
            /\ ents[cl[j].entry].state # "unused" /\ j = Slot(ents[cl[j].entry])
        BY <2>2, <4>2, TypeFacts DEF Book, EntryLedger
      <4>4. cl[j].entry # e
        BY <4>1, <4>3
      <4>5. ents2[cl[j].entry] = ents[cl[j].entry]
        BY <4>3, <4>4 DEF EntryBecomes
      <4> QED
        BY <4>2, <4>3, <4>5
    <3> QED
      BY <3>1, <3>2
  <2>3. ASSUME NEW j \in Slots, cl2[j].doc # NoDoc PROVE cl2[j].taken
    BY <2>3 DEF Book, EntryLedger, ClaimBecomes
  <2> QED
    BY <2>1, <2>2, <2>3 DEF EntryLedger
<1>7. CardLedger(crd2, cl2)
  <2> SUFFICES ASSUME NEW x \in Docs, crd2[x].number # NoNumber
               PROVE  crd2[x].state # "none" /\ cl2[Slot(crd2[x])].doc = x
    BY DEF CardLedger
  <2>1. CASE x = d
    BY <1>2, <2>1 DEF CardBecomes, ClaimBecomes
  <2>2. CASE x # d
    <3>1. crd2[x] = crd[x]
      BY <2>2 DEF CardBecomes
    <3>2. cl2[Slot(crd[x])] = cl[Slot(crd[x])]
      BY <1>4, <2>2, <3>1 DEF ClaimBecomes
    <3> QED
      BY <3>1, <3>2 DEF Book, CardLedger
  <2> QED
    BY <2>1, <2>2
<1>8. Links(crd2, ents2)
  <2> SUFFICES ASSUME NEW x \in Entries, ents2[x].doc # NoDoc
               PROVE  ents2[x].bound /\ crd2[ents2[x].doc].state # "none"
    BY DEF Links
  <2>1. CASE x = e
    BY <2>1 DEF EntryBecomes, CardBecomes
  <2>2. CASE x # e
    <3>1. ents2[x] = ents[x] /\ ents[x].doc \in Docs
      BY <2>2, TypeFacts DEF EntryBecomes
    <3>2. ents[x].bound /\ crd[ents[x].doc].state # "none"
      BY <3>1 DEF Book, Links
    <3> QED
      BY <3>1, <3>2 DEF CardBecomes
  <2> QED
    BY <2>1, <2>2
<1>9. LiveBorne(crd2, ents2)
  <2> SUFFICES ASSUME NEW x \in Entries, ents2[x].state = "reserved", ents2[x].doc # NoDoc
               PROVE  Borne(crd2, ents2[x]) /\ crd2[ents2[x].doc].state = "draft"
    BY DEF LiveBorne
  <2>1. CASE x = e
    BY <2>1 DEF EntryBecomes, CardBecomes, Borne
  <2>2. CASE x # e
    <3>1. ents2[x] = ents[x] /\ ents[x].doc \in Docs /\ ents[x].doc # d
      BY <2>2, TypeFacts DEF EntryBecomes
    <3>2. Borne(crd, ents[x]) /\ crd[ents[x].doc].state = "draft"
      BY <3>1 DEF Book, LiveBorne
    <3> QED
      BY <3>1, <3>2 DEF CardBecomes, Borne
  <2> QED
    BY <2>1, <2>2
<1>10. OfficialBorne(crd2, ents2)
  <2> SUFFICES ASSUME NEW x \in Entries, ents2[x].state \in {"assigned", "void"}
               PROVE  /\ ents2[x].doc # NoDoc
                      /\ Borne(crd2, ents2[x]) /\ crd2[ents2[x].doc].state = "published"
    BY DEF OfficialBorne
  <2>1. CASE x = e
    BY <1>1, <2>1 DEF EntryBecomes, CardBecomes, Borne
  <2>2. CASE x # e
    <3>1. ents2[x] = ents[x]
      BY <2>2 DEF EntryBecomes
    <3>2. ents[x].doc # NoDoc /\ Borne(crd, ents[x]) /\ crd[ents[x].doc].state = "published"
      BY <3>1 DEF Book, OfficialBorne
    <3>3. ents[x].doc \in Docs /\ ents[x].doc # d
      BY <1>5, <3>2, TypeFacts
    <3> QED
      BY <3>1, <3>2, <3>3 DEF CardBecomes, Borne
  <2> QED
    BY <2>1, <2>2
<1>11. Grows(cl, cl2)
  <2> SUFFICES ASSUME NEW j \in Slots
               PROVE  (cl[j].taken => cl2[j].taken) /\ (cl[j].doc # NoDoc => cl2[j].doc = cl[j].doc)
    BY DEF Grows
  <2>1. CASE j = new
    <3>1. cl[new].doc # NoDoc => cl[new].taken
      BY <1>1 DEF Book, EntryLedger
    <3>2. cl[new].doc # NoDoc => cl[new].doc = d
      BY <1>1, <3>1 DEF ClaimBecomes
    <3> QED
      BY <2>1, <3>2 DEF ClaimBecomes
  <2>2. CASE j # new
    BY <2>2 DEF ClaimBecomes
  <2> QED
    BY <2>1, <2>2
<1> QED
  BY <1>6, <1>7, <1>8, <1>9, <1>10, <1>11 DEF Book

\* A card is flushed on its own, when no reservation waits for it.
LEMMA FlushKeepsBook ==
    ASSUME cards \in [Docs -> CardRow], NEW ents \in [Entries -> EntryRow],
           claims \in [Slots -> ClaimRow], Book(cards, ents, claims),
           NEW d \in Docs, NEW c \in CardRow, NEW target \in {"draft", "published"},
           FlushCard(d, c, target, ents, claims),
           \A x \in Entries : ~(ents[x].state = "reserved" /\ ents[x].doc = d)
    PROVE  /\ Book(cards', entries', claims') /\ Grows(claims, claims')
           /\ claims' \in [Slots -> ClaimRow] /\ entries' = ents
<1> DEFINE k == <<c.scope, c.number>>
<1>1. CardBecomes(d, c.number, c.scope, target, cards, cards')
  BY FlushedCard
<1>2. entries' = ents
  BY DEF FlushCard
<1>3. d # NoDoc
  BY NumberingAssumption
<1>4. /\ claims' \in [Slots -> ClaimRow]
      /\ c.number # NoNumber => k \in Slots /\ claims'[k].doc = d
      /\ \A j \in Slots : claims'[j] # claims[j] =>
            /\ j = k /\ ~claims[j].taken /\ claims'[j].taken
            /\ claims'[j].doc = d /\ claims'[j].entry = NoEntry
  <2>1. CASE c.number = NoNumber
    <3>1. claims' = claims
      BY <2>1 DEF FlushCard
    <3> QED
      BY <2>1, <3>1
  <2>2. CASE c.number # NoNumber
    <3>1. k \in Slots
      BY <2>2 DEF Slots, CardRow
    <3>2. CASE c.number = cards[d].number /\ c.scope = cards[d].scope
      <4>1. claims' = claims
        BY <3>2 DEF FlushCard
      <4>2. claims[Slot(cards[d])].doc = d
        BY <2>2, <3>2 DEF Book, CardLedger
      <4> QED
        BY <3>1, <3>2, <4>1, <4>2 DEF Slot
    <3>3. CASE ~(c.number = cards[d].number /\ c.scope = cards[d].scope)
      <4>1. /\ ClaimableBy(d, claims[k], ents)
            /\ claims' = [claims EXCEPT ![k] =
                   [taken |-> TRUE, doc |-> d, entry |-> claims[k].entry]]
        BY <2>2, <3>3 DEF FlushCard
      <4>2. claims' \in [Slots -> ClaimRow]
        BY <3>1, <4>1 DEF ClaimRow
      <4>3. claims'[k].doc = d /\ claims'[k].taken /\ claims'[k].entry = claims[k].entry
        BY <3>1, <4>1
      <4>4. \A j \in Slots : j # k => claims'[j] = claims[j]
        BY <4>1
      <4> HIDE DEF k
      <4>5. CASE ~claims[k].taken
        <5>1. claims[k].entry = NoEntry
          BY <3>1, <4>5 DEF Book, EntryLedger
        <5> QED
          BY <3>1, <4>2, <4>3, <4>4, <4>5, <5>1
      <4>6. CASE claims[k].doc = d
        <5>1. claims[k].taken
          BY <1>3, <3>1, <4>6 DEF Book, EntryLedger
        <5>2. claims'[k] = claims[k]
          <6>1. ASSUME NEW row \in ClaimRow, row.taken
                PROVE  row = [taken |-> TRUE, doc |-> row.doc, entry |-> row.entry]
            <7>1. row.taken = TRUE
              BY <6>1 DEF ClaimRow
            <7> QED
              BY <7>1 DEF ClaimRow
          <6>2. claims[k] = [taken |-> TRUE, doc |-> d, entry |-> claims[k].entry]
            BY <3>1, <4>6, <5>1, <6>1
          <6> QED
            BY <3>1, <4>1, <6>2
        <5> QED
          BY <3>1, <4>2, <4>3, <4>4, <5>2
      <4>7. CASE /\ claims[k].doc = NoDoc /\ claims[k].entry # NoEntry
                 /\ ents[claims[k].entry].doc = d
        <5>1. claims[k].entry \in Entries
          BY <3>1, <4>7, TypeFacts
        <5>2. k = Slot(ents[claims[k].entry]) /\ ents[claims[k].entry].state # "unused"
          BY <3>1, <4>7 DEF Book, EntryLedger
        <5>3. claims[Slot(ents[claims[k].entry])].doc = ents[claims[k].entry].doc
          BY <5>1, <5>2 DEF Book, EntryLedger
        <5>4. claims[k].doc = d
          BY <4>7, <5>2, <5>3
        <5> QED
          BY <1>3, <4>7, <5>4
      <4> QED
        BY <4>1, <4>5, <4>6, <4>7 DEF ClaimableBy
    <3> QED
      BY <3>2, <3>3
  <2> QED
    BY <2>1, <2>2
<1> HIDE DEF k
<1>5. EntryLedger(ents, claims')
  <2>1. ASSUME NEW x \in Entries, ents[x].state # "unused"
        PROVE  claims'[Slot(ents[x])] = claims[Slot(ents[x])]
    <3>1. claims[Slot(ents[x])].entry = x /\ x # NoEntry /\ Slot(ents[x]) \in Slots
      BY <2>1, TypeFacts, NoNumberIsNone, NumberingAssumption DEF Book, EntryLedger
    <3>2. claims[Slot(ents[x])].taken
      BY <3>1 DEF Book, EntryLedger
    <3> QED
      BY <1>4, <3>1, <3>2
  <2>2. ASSUME NEW j \in Slots, claims'[j].entry # NoEntry
        PROVE  claims'[j] = claims[j]
    BY <1>4, <2>2
  <2>3. ASSUME NEW j \in Slots, claims'[j].doc # NoDoc
        PROVE  claims'[j].taken
    BY <1>4, <2>3 DEF Book, EntryLedger
  <2>4. \A j \in Slots : claims'[j].entry # NoEntry =>
            /\ claims'[j].taken
            /\ ents[claims'[j].entry].state # "unused"
            /\ j = Slot(ents[claims'[j].entry])
    BY <2>2 DEF Book, EntryLedger
  <2> QED
    BY <2>1, <2>3, <2>4 DEF Book, EntryLedger
<1>6. CardLedger(cards', claims')
  <2> SUFFICES ASSUME NEW x \in Docs, cards'[x].number # NoNumber
               PROVE  cards'[x].state # "none" /\ claims'[Slot(cards'[x])].doc = x
    BY DEF CardLedger
  <2>1. CASE x = d
    BY <1>1, <1>4, <2>1 DEF CardBecomes, Slot, k
  <2>2. CASE x # d
    <3>1. cards'[x] = cards[x]
      BY <1>1, <2>2 DEF CardBecomes
    <3>2. /\ claims[Slot(cards[x])].doc = x /\ x # NoDoc /\ Slot(cards[x]) \in Slots
          /\ cards[x].state # "none"
      BY <3>1, TypeFacts, NumberingAssumption DEF Book, CardLedger
    <3>3. claims[Slot(cards[x])].taken
      BY <3>2 DEF Book, EntryLedger
    <3> QED
      BY <1>4, <3>1, <3>2, <3>3
  <2> QED
    BY <2>1, <2>2
<1>7. Links(cards', ents)
  BY <1>1, TypeFacts DEF Book, Links, CardBecomes
<1>8. LiveBorne(cards', ents)
  <2> SUFFICES ASSUME NEW x \in Entries, ents[x].state = "reserved", ents[x].doc # NoDoc
               PROVE  Borne(cards', ents[x]) /\ cards'[ents[x].doc].state = "draft"
    BY DEF LiveBorne
  <2>1. cards'[ents[x].doc] = cards[ents[x].doc]
    BY <1>1, TypeFacts DEF CardBecomes
  <2> QED
    BY <2>1 DEF Book, LiveBorne, Borne
<1>9. OfficialBorne(cards', ents)
  <2> SUFFICES ASSUME NEW x \in Entries, ents[x].state \in {"assigned", "void"}
               PROVE  /\ ents[x].doc # NoDoc
                      /\ Borne(cards', ents[x]) /\ cards'[ents[x].doc].state = "published"
    BY DEF OfficialBorne
  <2>1. ents[x].doc # NoDoc /\ Borne(cards, ents[x]) /\ cards[ents[x].doc].state = "published"
    BY DEF Book, OfficialBorne
  <2>2. CASE ents[x].doc = d
    BY <1>1, <2>1, <2>2 DEF CardBecomes, Stands, Borne
  <2>3. CASE ents[x].doc # d
    <3>1. cards'[ents[x].doc] = cards[ents[x].doc]
      BY <1>1, <2>1, <2>3, TypeFacts DEF CardBecomes
    <3> QED
      BY <2>1, <3>1 DEF Borne
  <2> QED
    BY <2>2, <2>3
<1>10. Grows(claims, claims')
  BY <1>4 DEF Book, EntryLedger, Grows
<1> QED
  BY <1>2, <1>4, <1>5, <1>6, <1>7, <1>8, <1>9, <1>10 DEF Book

-----------------------------------------------------------------------------
\* The handlers.

\* What ProtectNumberEntry says of one entry.
Protected(row, row2) ==
    row.state # "unused" =>
        /\ row2.number = row.number
        /\ row2.series = row.series
        /\ row.doc # NoDoc => row2.doc = row.doc
        /\ row2.doc # row.doc => row2.state \in {"reserved", "assigned"}
        /\ row.bound => row2.bound /\ row2.scope = row.scope
        /\ row2.state # row.state =>
              <<row.state, row2.state>> \in
                  {<<"reserved", "assigned">>, <<"reserved", "cancelled">>,
                   <<"reserved", "expired">>, <<"assigned", "void">>}

\* What every handler keeps, the counters apart.
Kept ==
    /\ cards' \in [Docs -> CardRow] /\ entries' \in [Entries -> EntryRow]
    /\ claims' \in [Slots -> ClaimRow]
    /\ Book(cards', entries', claims') /\ Numbered(cards')
    /\ Grows(claims, claims')
    /\ \A d \in Docs : Stands(cards[d], cards'[d])
    /\ \A e \in Entries : Protected(entries[e], entries'[e])

LEMMA CardsStand ==
    ASSUME NEW d \in Docs, NEW number, NEW scope, NEW target,
           CardBecomes(d, number, scope, target, cards, cards'), Numbered(cards),
           FormSeries[d] # NoSeries => number # NoNumber
    PROVE  (\A x \in Docs : Stands(cards[x], cards'[x])) /\ Numbered(cards')
<1>1. \A x \in Docs : Stands(cards[x], cards'[x])
  BY DEF CardBecomes, Stands
<1>2. Numbered(cards')
  BY DEF CardBecomes, Numbered
<1> QED
  BY <1>1, <1>2

\* e is a reservation that may be written into d's card.
Prepared(d, e, ents, cl) ==
    /\ cards \in [Docs -> CardRow] /\ Numbered(cards)
    /\ ents \in [Entries -> EntryRow] /\ cl \in [Slots -> ClaimRow]
    /\ Book(cards, ents, cl) /\ Grows(claims, cl)
    /\ ents[e].state = "reserved"
    /\ \A x \in Entries : ents[x].state = "reserved" /\ ents[x].doc = d => x = e
    /\ \A x \in Entries : Protected(entries[x], ents[x])
    /\ entries[e].state = "unused" \/ entries[e] = ents[e]

\* A reservation, of the entries and the ledger as the handler has them by then, is
\* written into a card.
LEMMA WriteStep ==
    ASSUME NEW ents, NEW cl, NEW d \in Docs, NEW c \in CardRow, NEW e \in Entries,
           NEW target \in {"draft", "published"},
           Prepared(d, e, ents, cl),
           \/ WriteNumber(d, c, e, target, ents, cl, TRUE)
           \/ WriteNumber(d, c, e, target, ents, cl, FALSE)
    PROVE  Kept
<1>p. /\ cards \in [Docs -> CardRow] /\ Numbered(cards)
      /\ ents \in [Entries -> EntryRow] /\ cl \in [Slots -> ClaimRow]
      /\ Book(cards, ents, cl) /\ Grows(claims, cl)
      /\ ents[e].state = "reserved"
      /\ \A x \in Entries : ents[x].state = "reserved" /\ ents[x].doc = d => x = e
  BY DEF Prepared
<1>1. /\ cards' \in [Docs -> CardRow] /\ entries' \in [Entries -> EntryRow]
      /\ claims' \in [Slots -> ClaimRow]
      /\ CardBecomes(d, ents[e].number, c.scope, target, cards, cards')
      /\ EntryBecomes(d, c.scope, e, target, ents, entries')
      /\ ClaimBecomes(d, e, Slot(ents[e]), <<c.scope, ents[e].number>>, cl, claims')
      /\ ents[e].doc \in {NoDoc, d}
      /\ ents[e].bound => ents[e].scope = c.scope
  <2>1. EntryLedger(ents, cl) /\ ents[e].state # "unused"
    BY <1>p DEF Book
  <2>2. ASSUME NEW supplied \in BOOLEAN, WriteNumber(d, c, e, target, ents, cl, supplied)
        PROVE  /\ cards' \in [Docs -> CardRow] /\ entries' \in [Entries -> EntryRow]
               /\ claims' \in [Slots -> ClaimRow]
               /\ CardBecomes(d, ents[e].number, c.scope, target, cards, cards')
               /\ EntryBecomes(d, c.scope, e, target, ents, entries')
               /\ ClaimBecomes(d, e, Slot(ents[e]), <<c.scope, ents[e].number>>, cl, claims')
               /\ ents[e].doc \in {NoDoc, d}
               /\ ents[e].bound => ents[e].scope = c.scope
    BY <1>p, <2>1, <2>2, WriteEffect
  <2> QED
    BY <2>2
<1>2. c.scope \in Scopes
  BY DEF CardRow
<1>3. Book(cards', entries', claims') /\ Grows(cl, claims')
  BY <1>p, <1>1, <1>2, WriteKeepsBook, SMTT(60)
<1>4. ents[e].number # NoNumber
  BY <1>p, NoNumberIsNone DEF Book, EntryLedger
<1>5. (\A x \in Docs : Stands(cards[x], cards'[x])) /\ Numbered(cards')
  BY <1>p, <1>1, <1>4, CardsStand
<1>6. Grows(claims, claims')
  BY <1>p, <1>3 DEF Grows
<1>7. ASSUME NEW x \in Entries PROVE Protected(entries[x], entries'[x])
  <2>1. CASE x # e
    <3>1. Protected(entries[x], ents[x])
      BY DEF Prepared
    <3> QED
      BY <1>1, <2>1, <3>1 DEF EntryBecomes
  <2>2. CASE x = e /\ entries[e].state = "unused"
    BY <2>2 DEF Protected
  <2>3. CASE x = e /\ entries[e] = ents[e]
    <3>1. ents[e].state = "reserved"
      BY DEF Prepared
    <3> QED
      BY <1>1, <2>3, <3>1 DEF EntryBecomes, Protected
  <2> QED
    BY <2>1, <2>2, <2>3 DEF Prepared
<1> QED
  BY <1>1, <1>3, <1>5, <1>6, <1>7 DEF Kept

\* A card takes no entry.
LEMMA FlushStep ==
    ASSUME cards \in [Docs -> CardRow], Numbered(cards),
           NEW ents \in [Entries -> EntryRow], claims \in [Slots -> ClaimRow],
           Book(cards, ents, claims),
           NEW d \in Docs, NEW c \in CardRow, NEW target \in {"draft", "published"},
           FlushCard(d, c, target, ents, claims),
           FormSeries[d] # NoSeries => c.number # NoNumber,
           \A x \in Entries : ~(ents[x].state = "reserved" /\ ents[x].doc = d),
           \A x \in Entries : Protected(entries[x], ents[x])
    PROVE  Kept
<1>1. /\ cards' \in [Docs -> CardRow]
      /\ CardBecomes(d, c.number, c.scope, target, cards, cards')
  BY FlushedCard
<1>2. /\ Book(cards', entries', claims') /\ Grows(claims, claims')
      /\ claims' \in [Slots -> ClaimRow] /\ entries' = ents
  BY FlushKeepsBook
<1>3. (\A x \in Docs : Stands(cards[x], cards'[x])) /\ Numbered(cards')
  BY <1>1, CardsStand
<1> QED
  BY <1>1, <1>2, <1>3 DEF Kept

\* Only one live reservation is linked to a card.
LEMMA OneLiveReservation ==
    ASSUME NEW crd, NEW ents, NEW cl, Book(crd, ents, cl),
           NEW x \in Entries, NEW e \in Entries,
           ents[x].state = "reserved", ents[e].state = "reserved",
           ents[x].doc = ents[e].doc, ents[e].doc # NoDoc
    PROVE  x = e
<1>1. Slot(ents[x]) = Slot(ents[e])
  BY DEF Book, LiveBorne, Borne, Slot
<1> QED
  BY <1>1 DEF Book, EntryLedger

\* Replacing a draft's other reservations keeps the book.
LEMMA ReplacedKeepsBook ==
    ASSUME TypeOK, Book(cards, entries, claims), NEW d \in Docs, NEW c
    PROVE  /\ Replaced(d, c) \in [Entries -> EntryRow]
           /\ Book(cards, Replaced(d, c), claims)
           /\ \A x \in Entries :
                 /\ Protected(entries[x], Replaced(d, c)[x])
                 /\ Replaced(d, c)[x].state = "unused" => entries[x].state = "unused"
                 /\ entries[x].state = "unused" => Replaced(d, c)[x] = entries[x]
                 /\ Replaced(d, c)[x].state \in {"reserved", "assigned", "void"}
                       => Replaced(d, c)[x] = entries[x]
                 /\ Replaced(d, c)[x].state = "reserved" /\ Replaced(d, c)[x].doc = d
                       => x \in Existing(d, c)
<1>1. ASSUME NEW x \in Entries
      PROVE  \/ Replaced(d, c)[x] = entries[x] /\ x \notin Superseded(d, c)
             \/ /\ entries[x].state = "reserved"
                /\ Replaced(d, c)[x] = [entries[x] EXCEPT !.state = "cancelled"]
  BY DEF Replaced, Superseded
<1>2. ASSUME NEW row \in EntryRow, NEW row2, row2 = [row EXCEPT !.state = "cancelled"]
      PROVE  /\ row2 \in EntryRow /\ row2.state = "cancelled" /\ row2.number = row.number
             /\ row2.series = row.series /\ row2.scope = row.scope /\ row2.bound = row.bound
             /\ row2.doc = row.doc
  BY <1>2 DEF EntryRow
<1>3. \A x \in Entries : entries[x] \in EntryRow
  BY DEF TypeOK
<1>4. \A x \in Entries : /\ Replaced(d, c)[x] \in EntryRow
                         /\ \/ Replaced(d, c)[x] = entries[x] /\ x \notin Superseded(d, c)
                            \/ /\ entries[x].state = "reserved"
                               /\ Replaced(d, c)[x].state = "cancelled"
                               /\ Replaced(d, c)[x].number = entries[x].number
                               /\ Replaced(d, c)[x].series = entries[x].series
                               /\ Replaced(d, c)[x].scope = entries[x].scope
                               /\ Replaced(d, c)[x].bound = entries[x].bound
                               /\ Replaced(d, c)[x].doc = entries[x].doc
  <2> TAKE x \in Entries
  <2>1. CASE Replaced(d, c)[x] = entries[x] /\ x \notin Superseded(d, c)
    BY <1>3, <2>1
  <2>2. CASE /\ entries[x].state = "reserved"
             /\ Replaced(d, c)[x] = [entries[x] EXCEPT !.state = "cancelled"]
    BY <1>2, <1>3, <2>2
  <2> QED
    BY <1>1, <2>1, <2>2
<1>5. Replaced(d, c) \in [Entries -> EntryRow]
  BY <1>4 DEF Replaced
<1>6. Retires(entries, Replaced(d, c))
  BY <1>4 DEF Retires
<1>7. Book(cards, Replaced(d, c), claims)
  BY <1>6, RetireKeepsBook DEF TypeOK
<1>8. ASSUME NEW x \in Entries, Replaced(d, c)[x].state = "reserved", Replaced(d, c)[x].doc = d
      PROVE  x \in Existing(d, c)
  <2>1. entries[x].state = "reserved" /\ entries[x].doc = d /\ x \notin Superseded(d, c)
    BY <1>4, <1>8
  <2>2. cards[d].state # "published"
    BY <2>1, NumberingAssumption DEF Book, LiveBorne
  <2> QED
    BY <2>1, <2>2 DEF Superseded
<1>9. ASSUME NEW x \in Entries PROVE Protected(entries[x], Replaced(d, c)[x])
  BY <1>4 DEF Protected
<1> QED
  BY <1>4, <1>5, <1>7, <1>8, <1>9

\* sync_card_number, whatever way it goes.
LEMMA SyncStep ==
    ASSUME TypeOK, Book(cards, entries, claims), Numbered(cards),
           NEW d \in Docs, NEW c \in CardRow, NEW pick \in Entries \cup {NoEntry},
           NEW target \in {"draft", "published"}, Sync(d, c, pick, target)
    PROVE  Kept /\ counter' \in [Series \X Periods -> 1..(MaxNumber + 1)]
<1> DEFINE own == Existing(d, c)
           ents == Replaced(d, c)
<1>1. /\ ents \in [Entries -> EntryRow] /\ Book(cards, ents, claims)
      /\ \A x \in Entries :
            /\ Protected(entries[x], ents[x])
            /\ ents[x].state = "unused" => entries[x].state = "unused"
            /\ entries[x].state = "unused" => ents[x] = entries[x]
            /\ ents[x].state \in {"reserved", "assigned", "void"} => ents[x] = entries[x]
            /\ ents[x].state = "reserved" /\ ents[x].doc = d => x \in own
  BY ReplacedKeepsBook
<1>2. /\ cards \in [Docs -> CardRow] /\ claims \in [Slots -> ClaimRow]
      /\ counter \in [Series \X Periods -> 1..(MaxNumber + 1)]
      /\ d # NoDoc /\ NoEntry \notin Entries
  BY NumberingAssumption DEF TypeOK
<1>3. \A x \in own : x \in Entries /\ entries[x].doc = d
  BY DEF Existing
<1> HIDE DEF own, ents
<1>4. ASSUME SyncManual(d, c, target, own, ents) PROVE Kept
  <2>1. /\ own = {} /\ FlushCard(d, c, target, ents, claims)
        /\ FormSeries[d] # NoSeries => c.number # NoNumber
    BY <1>4 DEF SyncManual
  <2> QED
    BY <1>1, <1>2, <2>1, FlushStep
<1>5. ASSUME NEW e \in Entries, entries[e].doc \in {NoDoc, d}, SyncOfficial(d, c, e, target, ents)
      PROVE  Kept
  <2>1. /\ ents[e].state \in {"assigned", "void"} /\ c.number = ents[e].number
        /\ FlushCard(d, c, target, ents, claims)
    BY <1>5 DEF SyncOfficial
  <2>2. ents[e].doc = d /\ cards[d].state = "published"
    BY <1>1, <1>5, <2>1 DEF Book, OfficialBorne
  <2>3. c.number # NoNumber
    BY <1>1, <2>1, NoNumberIsNone DEF Book, EntryLedger
  <2>4. \A x \in Entries : ~(ents[x].state = "reserved" /\ ents[x].doc = d)
    BY <1>1, <1>2, <2>2 DEF Book, LiveBorne
  <2> QED
    BY <1>1, <1>2, <2>1, <2>3, <2>4, FlushStep
<1>6. ASSUME NEW e \in Entries, e \in own \/ own \subseteq {e},
             \/ SyncReserved(d, c, e, target, ents, TRUE)
             \/ SyncReserved(d, c, e, target, ents, FALSE)
      PROVE  Kept
  <2>1. ents[e].state = "reserved"
    BY <1>6 DEF SyncReserved, Usable
  <2>2. ents[e] = entries[e]
    BY <1>1, <2>1
  <2>3. ASSUME NEW x \in Entries, ents[x].state = "reserved", ents[x].doc = d
        PROVE  x = e
    <3>1. x \in own
      BY <1>1, <2>3
    <3>2. CASE e \in own
      <4>1. ents[e].doc = d
        BY <1>3, <2>2, <3>2
      <4> QED
        BY <1>1, <1>2, <2>1, <2>3, <4>1, OneLiveReservation
    <3> QED
      BY <1>6, <3>1, <3>2
  <2>4. Grows(claims, claims)
    BY DEF Grows
  <2>5. Prepared(d, e, ents, claims)
    BY <1>1, <1>2, <2>1, <2>2, <2>3, <2>4 DEF Prepared
  <2>6. \/ WriteNumber(d, c, e, target, ents, claims, TRUE)
        \/ WriteNumber(d, c, e, target, ents, claims, FALSE)
    BY <1>6 DEF SyncReserved
  <2> QED
    BY <2>5, <2>6, WriteStep
<1>7. ASSUME SyncNext(d, c, target, own, ents)
      PROVE  Kept /\ counter' \in [Series \X Periods -> 1..(MaxNumber + 1)]
  <2>1. PICK e \in Entries, p \in Periods, n \in Numbers :
          LET b == <<FormSeries[d], p>> IN
          /\ Fresh(e)
          /\ NextOrdinal(b, c.scope, n)
          /\ counter' = [counter EXCEPT ![b] = n + 1]
          /\ WriteNumber(d, c, e, target,
                 [x \in Entries |-> IF x = e THEN ReservedEntry(b[1], n, c.scope, TRUE)
                                   ELSE ents[x]],
                 [claims EXCEPT ![<<c.scope, n>>] = [taken |-> TRUE, doc |-> NoDoc, entry |-> e]],
                 FALSE)
    BY <1>7 DEF SyncNext
  <2>p. e \in Entries /\ p \in Periods /\ n \in Numbers
    BY <2>1
  <2>2. own = {} /\ FormSeries[d] \in Series
    BY <1>7, NumberingAssumption DEF SyncNext
  <2>3. PICK row : row = ReservedEntry(FormSeries[d], n, c.scope, TRUE)
    OBVIOUS
  <2>4. PICK ents2 : ents2 = [x \in Entries |-> IF x = e THEN row ELSE ents[x]]
    OBVIOUS
  <2>5. PICK cl2 : cl2 = [claims EXCEPT ![<<c.scope, n>>] =
            [taken |-> TRUE, doc |-> NoDoc, entry |-> e]]
    OBVIOUS
  <2>6. entries[e].state = "unused" /\ ents[e].state = "unused" /\ ~claims[<<c.scope, n>>].taken
    BY <1>1, <2>1 DEF Fresh, NextOrdinal
  <2>7. c.scope \in Scopes
    BY DEF CardRow
  <2>8. /\ ents2 \in [Entries -> EntryRow] /\ cl2 \in [Slots -> ClaimRow]
        /\ EntryReserved(e, n, c.scope, ents, ents2)
        /\ SlotReserved(<<c.scope, n>>, e, claims, cl2)
    <3>1. /\ row \in EntryRow /\ row.state = "reserved" /\ row.number = n
          /\ row.scope = c.scope /\ row.doc = NoDoc
      BY <2>p, <2>2, <2>3, <2>7 DEF ReservedEntry, NewEntry, EntryRow
    <3>2. ents2 \in [Entries -> EntryRow] /\ EntryReserved(e, n, c.scope, ents, ents2)
      BY <1>1, <2>p, <2>4, <3>1, EntryReservedBy
    <3>3. <<c.scope, n>> \in Slots
      BY <2>p, <2>7 DEF Slots
    <3>4. cl2 \in [Slots -> ClaimRow] /\ SlotReserved(<<c.scope, n>>, e, claims, cl2)
      BY <1>2, <2>p, <2>5, <3>3, SlotReservedBy
    <3> QED
      BY <3>2, <3>4
  <2>9. Book(cards, ents2, cl2) /\ Grows(claims, cl2)
    BY <1>1, <1>2, <2>p, <2>6, <2>7, <2>8, ReserveKeepsBook
  <2>10. WriteNumber(d, c, e, target, ents2, cl2, FALSE)
    BY <2>1, <2>3, <2>4, <2>5
  <2>11. \A x \in Entries : ~(ents2[x].state = "reserved" /\ ents2[x].doc = d)
    BY <1>1, <1>2, <2>2, <2>8 DEF EntryReserved
  <2>12. \A x \in Entries : Protected(entries[x], ents2[x])
    BY <1>1, <2>6, <2>8 DEF Protected, EntryReserved
  <2>13. Prepared(d, e, ents2, cl2)
    BY <1>2, <2>6, <2>8, <2>9, <2>11, <2>12 DEF Prepared, EntryReserved
  <2>14. counter' \in [Series \X Periods -> 1..(MaxNumber + 1)]
    <3>1. n + 1 \in 1..(MaxNumber + 1)
      BY NumberingAssumption DEF Numbers
    <3> QED
      BY <1>2, <2>1, <3>1
  <2> QED
    BY <2>p, <2>10, <2>13, <2>14, WriteStep
<1>8. \/ SyncNext(d, c, target, own, ents) \/ counter' = counter
  BY DEF Sync, SyncManual, SyncOfficial, SyncReserved, own, ents
<1>9. \/ SyncManual(d, c, target, own, ents)
      \/ SyncNext(d, c, target, own, ents)
      \/ \E e \in own : \/ SyncOfficial(d, c, e, target, ents)
                        \/ SyncReserved(d, c, e, target, ents, FALSE)
      \/ /\ pick \in Entries /\ MayPick(d, c, pick, own)
         /\ \/ SyncOfficial(d, c, pick, target, ents)
            \/ SyncReserved(d, c, pick, target, ents, TRUE)
  BY DEF Sync, own, ents
<1>10. Kept
  <2>1. CASE \E e \in own : \/ SyncOfficial(d, c, e, target, ents)
                             \/ SyncReserved(d, c, e, target, ents, FALSE)
    BY <1>3, <1>5, <1>6, <2>1
  <2>2. CASE /\ pick \in Entries /\ MayPick(d, c, pick, own)
             /\ \/ SyncOfficial(d, c, pick, target, ents)
                \/ SyncReserved(d, c, pick, target, ents, TRUE)
    <3>1. entries[pick].doc \in {NoDoc, d} /\ own \subseteq {pick}
      BY <2>2 DEF MayPick
    <3> QED
      BY <1>5, <1>6, <2>2, <3>1
  <2> QED
    BY <1>4, <1>7, <1>9, <2>1, <2>2
<1> QED
  BY <1>2, <1>7, <1>8, <1>10

LEMMA ReserveStep ==
    ASSUME TypeOK, Book(cards, entries, claims), Numbered(cards),
           NEW e \in Entries, NEW s \in Series, NEW p \in Periods, NEW scope \in Scopes,
           NEW bound \in BOOLEAN, Reserve(e, s, p, scope, bound)
    PROVE  Kept /\ counter' \in [Series \X Periods -> 1..(MaxNumber + 1)]
<1>1. PICK n \in Numbers :
          /\ NextOrdinal(<<s, p>>, scope, n)
          /\ entries' = [entries EXCEPT ![e] = ReservedEntry(s, n, scope, bound)]
          /\ claims' = [claims EXCEPT ![<<scope, n>>] = [taken |-> TRUE, doc |-> NoDoc, entry |-> e]]
          /\ counter' = [counter EXCEPT ![<<s, p>>] = n + 1]
  BY DEF Reserve
<1>2. /\ entries[e].state = "unused" /\ ~claims[<<scope, n>>].taken /\ cards' = cards
  BY <1>1 DEF Reserve, Fresh, NextOrdinal
<1>3. /\ cards \in [Docs -> CardRow] /\ entries \in [Entries -> EntryRow]
      /\ claims \in [Slots -> ClaimRow]
      /\ counter \in [Series \X Periods -> 1..(MaxNumber + 1)]
  BY DEF TypeOK
<1>4. entries' \in [Entries -> EntryRow] /\ EntryReserved(e, n, scope, entries, entries')
  <2>1. PICK row : row = ReservedEntry(s, n, scope, bound)
    OBVIOUS
  <2>2. /\ row \in EntryRow /\ row.state = "reserved" /\ row.number = n
        /\ row.scope = scope /\ row.doc = NoDoc
    BY <1>1, <2>1 DEF ReservedEntry, NewEntry, EntryRow
  <2>3. entries' = [x \in Entries |-> IF x = e THEN row ELSE entries[x]]
    BY <1>1, <1>3, <2>1
  <2> QED
    BY <1>3, <2>2, <2>3, EntryReservedBy
<1>5. claims' \in [Slots -> ClaimRow] /\ SlotReserved(<<scope, n>>, e, claims, claims')
  <2>1. <<scope, n>> \in Slots
    BY <1>1 DEF Slots
  <2> QED
    BY <1>1, <1>3, <2>1, SlotReservedBy
<1>6. n \in Numbers
  BY <1>1
<1>7. Book(cards', entries', claims') /\ Grows(claims, claims')
  BY <1>2, <1>3, <1>4, <1>5, <1>6, ReserveKeepsBook
<1>8. \A x \in Entries : Protected(entries[x], entries'[x])
  BY <1>2, <1>4 DEF Protected, EntryReserved
<1>9. counter' \in [Series \X Periods -> 1..(MaxNumber + 1)]
  <2>1. n + 1 \in 1..(MaxNumber + 1)
    BY <1>6, NumberingAssumption DEF Numbers
  <2> QED
    BY <1>1, <1>3, <2>1
<1> QED
  BY <1>2, <1>3, <1>4, <1>5, <1>7, <1>8, <1>9 DEF Kept, Stands

\* Lapse and transition: one entry changes its state or becomes due.
LEMMA RetireStep ==
    ASSUME TypeOK, Book(cards, entries, claims), Numbered(cards),
           NEW e \in Entries,
           Lapse(e) \/ \E target \in {"cancelled", "expired", "void"} : Transition(e, target)
    PROVE  Kept /\ counter' = counter
<1>1. cards' = cards /\ claims' = claims /\ counter' = counter
  BY DEF Lapse, Transition
<1>2. entries \in [Entries -> EntryRow]
  BY DEF TypeOK
<1>3. PICK row \in EntryRow :
          /\ entries' = [entries EXCEPT ![e] = row]
          /\ row.number = entries[e].number /\ row.series = entries[e].series
          /\ row.scope = entries[e].scope /\ row.bound = entries[e].bound
          /\ row.doc = entries[e].doc
          /\ \/ row.state = entries[e].state
             \/ entries[e].state = "reserved" /\ row.state \in {"cancelled", "expired"}
             \/ entries[e].state = "assigned" /\ row.state = "void"
  <2>1. CASE Lapse(e)
    <3>1. PICK row : row = [entries[e] EXCEPT !.due = TRUE]
      OBVIOUS
    <3>2. entries' = [entries EXCEPT ![e] = row]
      BY <2>1, <3>1 DEF Lapse
    <3>3. row \in EntryRow
      BY <1>2, <3>1 DEF EntryRow
    <3>4. /\ row.number = entries[e].number /\ row.series = entries[e].series
          /\ row.scope = entries[e].scope /\ row.bound = entries[e].bound
          /\ row.doc = entries[e].doc /\ row.state = entries[e].state
      BY <1>2, <3>1 DEF EntryRow
    <3> QED
      BY <3>2, <3>3, <3>4
  <2>2. CASE \E target \in {"cancelled", "expired", "void"} : Transition(e, target)
    <3>1. PICK target \in {"cancelled", "expired", "void"} : Transition(e, target)
      BY <2>2
    <3>2. PICK row : row = [entries[e] EXCEPT !.state = target]
      OBVIOUS
    <3>3. entries' = [entries EXCEPT ![e] = row]
      BY <3>1, <3>2 DEF Transition
    <3>4. /\ row.number = entries[e].number /\ row.series = entries[e].series
          /\ row.scope = entries[e].scope /\ row.bound = entries[e].bound
          /\ row.doc = entries[e].doc /\ row.state = target /\ row \in EntryRow
      BY <1>2, <3>1, <3>2 DEF EntryRow
    <3>5. entries[e].state = IF target = "void" THEN "assigned" ELSE "reserved"
      BY <3>1 DEF Transition
    <3> QED
      BY <3>1, <3>3, <3>4, <3>5
  <2> QED
    BY <2>1, <2>2
<1>4. /\ entries' \in [Entries -> EntryRow] /\ entries'[e] = row
      /\ \A x \in Entries : x # e => entries'[x] = entries[x]
  BY <1>2, <1>3
<1>5. Retires(entries, entries')
  BY <1>3, <1>4 DEF Retires
<1>6. Book(cards', entries', claims')
  BY <1>1, <1>2, <1>5, RetireKeepsBook DEF TypeOK
<1>7. \A x \in Entries : Protected(entries[x], entries'[x])
  BY <1>3, <1>4 DEF Protected
<1> QED
  BY <1>1, <1>4, <1>6, <1>7 DEF Kept, Grows, Stands, TypeOK

\* assign.
LEMMA AssignStep ==
    ASSUME TypeOK, Book(cards, entries, claims), Numbered(cards),
           NEW d \in Docs, NEW e \in Entries, Assign(d, e)
    PROVE  Kept /\ counter' = counter
<1>1. /\ entries[e].state = "reserved" /\ counter' = counter
      /\ WriteNumber(d, cards[d], e, cards[d].state, entries, claims, FALSE)
  BY DEF Assign, Usable
<1>2. /\ cards \in [Docs -> CardRow] /\ entries \in [Entries -> EntryRow]
      /\ claims \in [Slots -> ClaimRow] /\ d # NoDoc
  BY NumberingAssumption DEF TypeOK
<1>3. cards[d] \in CardRow /\ cards[d].state \in {"draft", "published"}
  BY <1>2 DEF Assign, Live, CardRow
<1>4. cards[d].number # NoNumber => entries[e].doc = d
  BY <1>1 DEF WriteNumber, MayWrite
<1>5. ASSUME NEW x \in Entries, entries[x].state = "reserved", entries[x].doc = d
      PROVE  x = e
  <2>1. cards[d].number = entries[x].number
    BY <1>2, <1>5 DEF Book, LiveBorne, Borne
  <2>2. cards[d].number # NoNumber
    BY <1>5, <2>1, NoNumberIsNone DEF Book, EntryLedger
  <2> QED
    BY <1>1, <1>2, <1>4, <1>5, <2>2, OneLiveReservation
<1>6. Prepared(d, e, entries, claims)
  BY <1>1, <1>2, <1>5 DEF Prepared, Grows, Protected
<1> QED
  BY <1>1, <1>3, <1>6, WriteStep

\* delete_document.
LEMMA DeleteStep ==
    ASSUME TypeOK, Book(cards, entries, claims), Numbered(cards),
           NEW d \in Docs, DeleteDocument(d)
    PROVE  Kept /\ counter' = counter
<1>1. /\ cards' = [cards EXCEPT ![d].deleted = TRUE]
      /\ entries' = entries /\ claims' = claims /\ counter' = counter
  BY DEF DeleteDocument
<1>2. /\ cards \in [Docs -> CardRow] /\ entries \in [Entries -> EntryRow]
      /\ claims \in [Slots -> ClaimRow]
  BY DEF TypeOK
<1>3. PICK row : row = [cards[d] EXCEPT !.deleted = TRUE]
  OBVIOUS
<1>4. cards' = [cards EXCEPT ![d] = row]
  BY <1>1, <1>3
<1>5. row \in CardRow
  BY <1>2, <1>3 DEF CardRow
<1>6. row.number = cards[d].number /\ row.scope = cards[d].scope /\ row.state = cards[d].state
  BY <1>2, <1>3 DEF CardRow
<1>7. /\ cards' \in [Docs -> CardRow]
      /\ \A x \in Docs : /\ cards'[x].number = cards[x].number
                         /\ cards'[x].scope = cards[x].scope
                         /\ cards'[x].state = cards[x].state
  BY <1>2, <1>4, <1>5, <1>6
<1>8. CardLedger(cards', claims)
  BY <1>7 DEF Book, CardLedger, Slot
<1>9. \A x \in Entries : entries[x].doc # NoDoc => entries[x].doc \in Docs
  BY <1>2, TypeFacts
<1>10. Links(cards', entries) /\ LiveBorne(cards', entries) /\ OfficialBorne(cards', entries)
  BY <1>7, <1>9 DEF Book, Links, LiveBorne, OfficialBorne, Borne
<1>11. Numbered(cards') /\ \A x \in Docs : Stands(cards[x], cards'[x])
  BY <1>7 DEF Numbered, Stands
<1> QED
  BY <1>1, <1>2, <1>7, <1>8, <1>10, <1>11 DEF Book, Kept, Grows, Protected

LEMMA NextStep ==
    ASSUME TypeOK, Book(cards, entries, claims), Numbered(cards), Next
    PROVE  Kept /\ counter' \in [Series \X Periods -> 1..(MaxNumber + 1)]
<1>1. counter \in [Series \X Periods -> 1..(MaxNumber + 1)]
  BY DEF TypeOK
<1>2. ASSUME NEW d \in Docs, NEW scope \in Scopes, NEW target \in {"draft", "published"},
             NEW pick \in Entries \cup {NoEntry}, NEW number \in Inputs(d, pick),
             \/ CreateDocument(d, number, scope, pick, target)
             \/ UpdateDocument(d, number, scope, pick, target)
      PROVE  Kept /\ counter' \in [Series \X Periods -> 1..(MaxNumber + 1)]
  <2>1. cards[d] \in CardRow /\ NewCard \in CardRow
    BY NumberingAssumption DEF TypeOK, CardRow, NewCard
  <2>2. number \in Numbers \cup {NoNumber}
    <3>1. cards[d].number \in Numbers \cup {NoNumber} /\ Typed \subseteq Numbers
      BY <2>1, NumberingAssumption DEF CardRow
    <3>2. pick # NoEntry => entries[pick].number \in Numbers \cup {NoNumber}
      BY TypeFacts DEF TypeOK
    <3> QED
      BY <3>1, <3>2 DEF Inputs
  <2>3. ASSUME NEW row \in CardRow, NEW c, c = [row EXCEPT !.number = number, !.scope = scope]
        PROVE  c \in CardRow
    BY <2>2, <2>3 DEF CardRow
  <2>4. PICK c \in CardRow : Sync(d, c, pick, target)
    BY <1>2, <2>1, <2>3 DEF CreateDocument, UpdateDocument
  <2> QED
    BY <2>4, SyncStep
<1> QED
  BY <1>1, <1>2, ReserveStep, RetireStep, AssignStep, DeleteStep DEF Next

LEMMA Initially == Init => IInv
<1> SUFFICES ASSUME Init PROVE IInv
  OBVIOUS
<1>1. NewCard \in CardRow
  BY NumberingAssumption DEF NewCard, CardRow
<1>2. NewEntry \in EntryRow
  BY NumberingAssumption DEF NewEntry, EntryRow
<1>3. NoClaim \in ClaimRow
  BY DEF NoClaim, ClaimRow
<1>4. 1 \in 1..(MaxNumber + 1)
  BY NumberingAssumption
<1>5. TypeOK
  BY <1>1, <1>2, <1>3, <1>4 DEF Init, TypeOK
<1>6. /\ \A d \in Docs : cards[d].state = "none" /\ cards[d].number = NoNumber
      /\ \A e \in Entries : /\ entries[e].state = "unused" /\ entries[e].doc = NoDoc
                            /\ entries[e].number = NoNumber
      /\ \A k \in Slots : claims[k].entry = NoEntry /\ claims[k].doc = NoDoc
  BY DEF Init, NewCard, NewEntry, NoClaim
<1>7. EntryLedger(entries, claims) /\ CardLedger(cards, claims)
  BY <1>6 DEF EntryLedger, CardLedger
<1>8. Links(cards, entries) /\ LiveBorne(cards, entries) /\ OfficialBorne(cards, entries)
  BY <1>6 DEF Links, LiveBorne, OfficialBorne
<1> QED
  BY <1>5, <1>6, <1>7, <1>8 DEF IInv, Book, Numbered

LEMMA Step == IInv /\ [Next]_vars => IInv' /\ (Kept \/ UNCHANGED vars)
<1> SUFFICES ASSUME IInv, [Next]_vars PROVE IInv' /\ (Kept \/ UNCHANGED vars)
  OBVIOUS
<1>1. CASE Next
  BY <1>1, NextStep DEF IInv, Kept, TypeOK
<1>2. CASE UNCHANGED vars
  BY <1>2 DEF vars, IInv, TypeOK
<1> QED
  BY <1>1, <1>2

LEMMA Invariant == Spec => []IInv
BY Initially, Step, PTL DEF Spec

-----------------------------------------------------------------------------
\* The theorems.

\* Every variable of the number book keeps its type.
THEOREM TypeCorrect == Spec => []TypeOK
<1>1. IInv => TypeOK
  BY DEF IInv
<1> QED
  BY <1>1, Invariant, PTL

\* No number of a scope is borne by two cards or reserved by two entries, nor borne by one
\* card while an entry of another stands for it, whatever reserve, sync_card_number, assign
\* and the triggers are asked to do in whatever order.
THEOREM NumbersHeldOnce == Spec => []NumberHeldOnce
<1>1. IInv => NumberHeldOnce
  <2> SUFFICES ASSUME IInv, NEW scope \in Scopes, NEW n \in Numbers
               PROVE  /\ \A d1, d2 \in {d \in Docs : Bears(d, scope, n)} : d1 = d2
                      /\ \A e1, e2 \in {e \in Entries : entries[e].number = n
                                                    /\ entries[e].scope = scope} : e1 = e2
                      /\ \A d \in {d \in Docs : Bears(d, scope, n)},
                            e \in {e \in Entries : entries[e].number = n
                                                /\ entries[e].scope = scope} :
                            entries[e].doc = d
    BY DEF NumberHeldOnce
  <2>1. n # NoNumber
    BY NoNumberIsNone
  <2>2. ASSUME NEW d \in Docs, Bears(d, scope, n)
        PROVE  claims[<<scope, n>>].doc = d
    BY <2>1, <2>2 DEF IInv, Book, CardLedger, Bears, Slot
  <2>3. ASSUME NEW e \in Entries, entries[e].number = n, entries[e].scope = scope
        PROVE  claims[<<scope, n>>].entry = e /\ claims[<<scope, n>>].doc = entries[e].doc
    BY <2>1, <2>3 DEF IInv, Book, EntryLedger, Slot
  <2> QED
    BY <2>2, <2>3
<1> QED
  BY <1>1, Invariant, PTL

\* A live reservation linked to a card is the number its draft bears: sync_card_number
\* leaves no other one behind.
THEOREM ReservationsAreBorne == Spec => []LiveReservationIsBorne
<1>1. IInv => LiveReservationIsBorne
  <2> SUFFICES ASSUME IInv, NEW e \in Entries, entries[e].state = "reserved", entries[e].doc # NoDoc
               PROVE  /\ Bears(entries[e].doc, entries[e].scope, entries[e].number)
                      /\ cards[entries[e].doc].state = "draft"
    BY DEF LiveReservationIsBorne
  <2> QED
    BY DEF IInv, Book, LiveBorne, Borne, Bears
<1> QED
  BY <1>1, Invariant, PTL

\* An assigned or voided number is the number of a published card, and a published card
\* whose form numbers from a series has one.
THEOREM OfficialsAreBorne == Spec => []OfficialNumbers
<1>1. IInv => OfficialNumbers
  BY DEF IInv, Book, OfficialBorne, Borne, Bears, Numbered, OfficialNumbers
<1> QED
  BY <1>1, Invariant, PTL

\* protect_number_entry never has to refuse a handler: no step changes an entry in a way
\* the trigger forbids.
THEOREM TriggerNeverRefuses == Spec => ProtectNumberEntry
<1>1. ASSUME IInv, [Next]_vars
      PROVE  [\A e \in Entries : ~Fresh(e) =>
                  /\ entries'[e].number = entries[e].number
                  /\ entries'[e].series = entries[e].series
                  /\ entries[e].doc # NoDoc => entries'[e].doc = entries[e].doc
                  /\ entries'[e].doc # entries[e].doc => entries'[e].state \in {"reserved", "assigned"}
                  /\ entries[e].bound => entries'[e].bound /\ entries'[e].scope = entries[e].scope
                  /\ entries'[e].state # entries[e].state =>
                        <<entries[e].state, entries'[e].state>> \in
                            {<<"reserved", "assigned">>, <<"reserved", "cancelled">>,
                             <<"reserved", "expired">>, <<"assigned", "void">>}]_vars
  BY <1>1, Step DEF Kept, Protected, Fresh
<1> QED
  BY <1>1, Invariant, PTL DEF Spec, ProtectNumberEntry

\* Numbering implements the register: a number once taken is never free again, never passes
\* from one document to another, and a published card keeps its own.
THEOREM ImplementsRegister == Spec => RegisterSpec
<1>1. Init => Register!RegisterInit
  <2> SUFFICES ASSUME Init PROVE Register!RegisterInit
    OBVIOUS
  <2>1. \A k \in Slots : HolderOf(k) = "free"
    BY DEF Init, HolderOf, NoClaim
  <2>2. \A d \in Docs : OfficialSlot(d) = <<>>
    BY DEF Init, OfficialSlot, NewCard
  <2> QED
    BY <2>1, <2>2 DEF Register!RegisterInit
<1>2. ASSUME IInv, IInv', [Next]_vars, Kept \/ UNCHANGED vars
      PROVE  [Register!RegisterNext]_(Register!registerVars)
  <2>1. CASE Kept
    <3>1. ASSUME NEW k \in Slots
          PROVE  \/ HolderOf(k)' = HolderOf(k)
                 \/ HolderOf(k) = "free" /\ HolderOf(k)' \in Docs \cup {"nobody"}
                 \/ HolderOf(k) = "nobody" /\ HolderOf(k)' \in Docs
      <4>1. /\ claims[k].taken => claims'[k].taken
            /\ claims[k].doc # NoDoc => claims'[k].doc = claims[k].doc
        BY <2>1 DEF Kept, Grows
      <4>2. claims[k].doc # NoDoc => claims[k].taken
        BY <1>2 DEF IInv, Book, EntryLedger
      <4>3. claims'[k].doc \in Docs \cup {NoDoc}
        BY <2>1, TypeFacts DEF Kept
      <4> QED
        BY <4>1, <4>2, <4>3 DEF HolderOf
    <3>2. ASSUME NEW k \in Slots PROVE HolderOf(k)' \in Docs \cup {"free", "nobody"}
      <4>1. claims'[k].doc \in Docs \cup {NoDoc}
        BY <2>1, TypeFacts DEF Kept
      <4> QED
        BY <4>1 DEF HolderOf
    <3>3. ASSUME NEW d \in Docs
          PROVE  /\ OfficialSlot(d)' \in Slots \cup {<<>>}
                 /\ \/ OfficialSlot(d)' = OfficialSlot(d)
                    \/ /\ OfficialSlot(d) = <<>>
                       /\ OfficialSlot(d)' \in {k \in Slots : HolderOf(k)' = d}
      <4>1. cards'[d].number # NoNumber => Slot(cards'[d]) \in Slots
        BY <2>1, TypeFacts DEF Kept
      <4>2. Stands(cards[d], cards'[d])
        BY <2>1 DEF Kept
      <4>3. CASE cards'[d].state = "published" /\ cards'[d].number # NoNumber
        <5>1. PICK k \in Slots : k = Slot(cards'[d])
          BY <4>1, <4>3
        <5>2. claims'[k].doc = d /\ d # NoDoc
          BY <2>1, <4>3, <5>1, NumberingAssumption DEF Kept, Book, CardLedger
        <5>3. claims'[k].taken
          BY <2>1, <5>1, <5>2 DEF Kept, Book, EntryLedger
        <5>4. HolderOf(k)' = d
          BY <5>2, <5>3 DEF HolderOf
        <5>5. OfficialSlot(d)' = k
          BY <4>3, <5>1 DEF OfficialSlot, Slot
        <5>6. cards[d].state = "published" => OfficialSlot(d) = k
          BY <4>2, <4>3, <5>1 DEF OfficialSlot, Stands, Slot
        <5>7. cards[d].state # "published" => OfficialSlot(d) = <<>>
          BY DEF OfficialSlot
        <5> QED
          BY <5>1, <5>4, <5>5, <5>6, <5>7
      <4>4. CASE ~(cards'[d].state = "published" /\ cards'[d].number # NoNumber)
        BY <4>2, <4>4 DEF OfficialSlot, Stands
      <4> QED
        BY <4>3, <4>4
    <3> QED
      BY <3>1, <3>2, <3>3 DEF Register!RegisterNext, Register!SlotStep, Register!CardStep
  <2>2. CASE UNCHANGED vars
    BY <2>2 DEF vars, Register!registerVars, HolderOf, OfficialSlot
  <2> QED
    BY <1>2, <2>1, <2>2
<1> QED
  BY <1>1, <1>2, Invariant, Step, PTL DEF Spec, RegisterSpec, Register!RegisterSpec
=============================================================================
