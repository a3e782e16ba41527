----------------------------- MODULE Numbering ------------------------------
(***************************************************************************)
(* Registration numbers: the number book (series, counters, reservations), *)
(* the occupancy ledger, and the registry cards that bear the numbers.     *)
(* Every handler below holds the lock of its document and of its registry  *)
(* (lock_registry) to the end of its transaction, so it is one step; a     *)
(* handler that fails is rolled back whole and changes nothing, and so     *)
(* does a request replayed with an idempotency key the series has already  *)
(* answered.  A request that carries an old revision of a card fails, so   *)
(* the requests enumerated are those made on the card's current revision.  *)
(*                                                                         *)
(* One registry.  Every series renders an ordinal as itself, the case in   *)
(* which series and periods compete for the same numbers.                  *)
(***************************************************************************)
EXTENDS Naturals

CONSTANTS
    Docs,           \* cards of the registry
    Entries,        \* identities of number entries (a bound: as many as are ever reserved)
    Series,         \* number series of the registry
    Periods,        \* periods a series numbers in; current_period can be patched back
    Scopes,         \* registration scopes (year, type) a card or an entry can have
    Undated,        \* the scope of a card without a date, and of a number-book reservation
    MaxNumber,      \* numbers are 1..MaxNumber (a bound; 10^15 in the code)
    Typed,          \* numbers clients write into a card by hand (a bound on the inputs)
    FormSeries,     \* FormSeries[d]: the series the card's form binds its number to, or NoSeries
    NoDoc, NoEntry, NoSeries

NoNumber == 0
Numbers == 1..MaxNumber

ASSUME NumberingAssumption ==
    /\ MaxNumber \in Nat \ {0}
    /\ Undated \in Scopes /\ Typed \subseteq Numbers
    /\ NoDoc \notin Docs /\ NoEntry \notin Entries /\ NoSeries \notin Series
    /\ "free" \notin Docs /\ "nobody" \notin Docs
    /\ FormSeries \in [Docs -> Series \cup {NoSeries}]

VARIABLES
    cards,      \* documents: card_state, deleted_at, reg_number and the scope of date and type
    entries,    \* number_entries
    claims,     \* registration_number_claims, by (scope, number)
    counter     \* number_counters: next ordinal of a series in a period

vars == <<cards, entries, claims, counter>>

Slots == Scopes \X Numbers
NewCard == [state |-> "none", deleted |-> FALSE, number |-> NoNumber, scope |-> Undated]
NewEntry == [state |-> "unused", series |-> NoSeries, number |-> NoNumber, scope |-> Undated,
             bound |-> FALSE, due |-> FALSE, doc |-> NoDoc]
NoClaim == [taken |-> FALSE, doc |-> NoDoc, entry |-> NoEntry]

CardRow == [state: {"none", "draft", "published"}, deleted: BOOLEAN,
            number: Numbers \cup {NoNumber}, scope: Scopes]
EntryRow ==
    [state: {"unused", "reserved", "assigned", "cancelled", "expired", "void"},
     series: Series \cup {NoSeries}, number: Numbers \cup {NoNumber}, scope: Scopes,
     bound: BOOLEAN, due: BOOLEAN, doc: Docs \cup {NoDoc}]
ClaimRow == [taken: BOOLEAN, doc: Docs \cup {NoDoc}, entry: Entries \cup {NoEntry}]

TypeOK ==
    /\ cards \in [Docs -> CardRow]
    /\ entries \in [Entries -> EntryRow]
    /\ claims \in [Slots -> ClaimRow]
    /\ counter \in [Series \X Periods -> 1..(MaxNumber + 1)]

Init ==
    /\ cards = [d \in Docs |-> NewCard]
    /\ entries = [e \in Entries |-> NewEntry]
    /\ claims = [k \in Slots |-> NoClaim]
    /\ counter = [b \in Series \X Periods |-> 1]

Live(d) == cards[d].state # "none" /\ ~cards[d].deleted
Usable(entry) == entry.state = "reserved" /\ ~entry.due

-----------------------------------------------------------------------------
(* Reservation: reserve, with the entry trigger that claims the number.    *)

\* The ordinal a reservation settles on: the first from the counter on whose
\* number is not occupied in the scope, by anything at all.
NextOrdinal(b, scope, n) ==
    /\ n >= counter[b]
    /\ ~claims[<<scope, n>>].taken
    /\ \A m \in Numbers : counter[b] <= m /\ m < n => claims[<<scope, m>>].taken

\* A reserved entry e, the number n of series s; the caller says what becomes of it.
ReservedEntry(s, n, scope, bound) ==
    [NewEntry EXCEPT !.state = "reserved", !.series = s, !.number = n, !.scope = scope,
                     !.bound = bound]

Fresh(e) == entries[e].state = "unused"

\* reserve from the number book (scope Undated, unbound) or for a form that is
\* being filled in (next_card_number: bound unless the form gave no date and type).
\* A request for a draft refuses a published or deleted card; what it reserves is the
\* same as for an unsaved form, so no card is named here.
Reserve(e, s, p, scope, bound) ==
    /\ Fresh(e)
    /\ scope = Undated \/ bound
    /\ \E n \in Numbers :
          /\ NextOrdinal(<<s, p>>, scope, n)
          /\ entries' = [entries EXCEPT ![e] = ReservedEntry(s, n, scope, bound)]
          /\ claims' = [claims EXCEPT ![<<scope, n>>] = [taken |-> TRUE, doc |-> NoDoc, entry |-> e]]
          /\ counter' = [counter EXCEPT ![<<s, p>>] = n + 1]
    /\ UNCHANGED cards

\* expires_at passes.
Lapse(e) ==
    /\ Usable(entries[e])
    /\ entries' = [entries EXCEPT ![e].due = TRUE]
    /\ UNCHANGED <<cards, claims, counter>>

-----------------------------------------------------------------------------
(* Writing a card: the ledger as the document trigger leaves it.           *)

\* Slip: an unlinked slot is anybody's.
ClaimableByAnyone(d, claim, ents) == claim.doc \in {NoDoc, d}

\* acti_claim_document_number lets document d take a slot that is free, is already
\* d's, or is held by nobody for an entry that is linked to d.
ClaimableBy(d, claim, ents) ==
    \/ ~claim.taken
    \/ claim.doc = d
    \/ /\ claim.doc = NoDoc /\ claim.entry # NoEntry
       /\ ents[claim.entry].doc = d

\* acti_lock_published_registration: the registration of a published card stays as it is.
Registered(d, c, target) ==
    cards[d].state = "published" =>
        target = "published" /\ c.number = cards[d].number /\ c.scope = cards[d].scope

\* The document row is flushed as card c of state target, over entries ents and ledger cl.
FlushCard(d, c, target, ents, cl) ==
    LET k == <<c.scope, c.number>>
        still == c.number = NoNumber \/ (c.number = cards[d].number /\ c.scope = cards[d].scope)
    IN  /\ Registered(d, c, target)
        /\ ~still => ClaimableBy(d, cl[k], ents)
        /\ cards' = [cards EXCEPT ![d] = [c EXCEPT !.state = target]]
        /\ claims' = IF still THEN cl
                     ELSE [cl EXCEPT ![k] = [taken |-> TRUE, doc |-> d, entry |-> cl[k].entry]]
        /\ entries' = ents

\* write_entry_number may move entry e of slot k onto card c of d (supplied: the client
\* named the entry together with its number).
MayWrite(d, c, e, k, ents, cl, supplied) ==
    /\ cl[k].entry = e /\ cl[k].doc \in {NoDoc, d}
    /\ ents[e].bound => ents[e].scope = c.scope
    /\ ents[e].doc \in {NoDoc, d}
    /\ c.number # NoNumber =>
          c.number = ents[e].number /\ (supplied \/ ents[e].doc = d)
    /\ ents[e].scope # c.scope => ~cl[<<c.scope, ents[e].number>>].taken

\* Slip: a moved entry releases its old slot.
MovedClaimReleased(d, c, e, k, ents, cl) ==
    [cl EXCEPT ![k] = NoClaim,
               ![<<c.scope, ents[e].number>>] = [taken |-> TRUE, doc |-> d, entry |-> e]]

\* The ledger afterwards: an unbound entry that takes another scope leaves its old slot
\* occupied by nobody.
MovedClaim(d, c, e, k, ents, cl) ==
    IF ents[e].scope = c.scope
    THEN [cl EXCEPT ![k] = [cl[k] EXCEPT !.doc = d]]
    ELSE [cl EXCEPT ![k] = [cl[k] EXCEPT !.entry = NoEntry],
                    ![<<c.scope, ents[e].number>>] = [taken |-> TRUE, doc |-> d, entry |-> e]]

\* Slips: the state is named after the operation; a draft's number is made official.
LinkedEntryMisnamed(entry, d, c, target) ==
    [entry EXCEPT !.scope = c.scope, !.bound = TRUE, !.doc = d,
                  !.state = IF target = "published" THEN "assigned" ELSE "linked"]

LinkedEntryEarly(entry, d, c, target) ==
    [entry EXCEPT !.scope = c.scope, !.bound = TRUE, !.doc = d, !.state = "assigned"]

\* The entry is bound to the card's scope, linked, assigned when the card is official.
LinkedEntry(entry, d, c, target) ==
    [entry EXCEPT !.scope = c.scope, !.bound = TRUE, !.doc = d,
                  !.state = IF target = "published" THEN "assigned" ELSE "reserved"]

WriteNumber(d, c, e, target, ents, cl, supplied) ==
    \E k \in Slots :
        /\ MayWrite(d, c, e, k, ents, cl, supplied)
        /\ FlushCard(d, [c EXCEPT !.number = ents[e].number], target,
               [ents EXCEPT ![e] = LinkedEntry(ents[e], d, c, target)],
               MovedClaim(d, c, e, k, ents, cl))

-----------------------------------------------------------------------------
(* sync_card_number: the part create and update share.                     *)

\* The linked entry a card's number and scope stand for, whatever its state.
Existing(d, c) ==
    {e \in Entries : /\ entries[e].doc = d
                     /\ entries[e].number = c.number
                     /\ ~entries[e].bound \/ entries[e].scope = c.scope}

\* Slips: nothing is cancelled; spent reservations are cancelled too.
SupersededNone(d, c) == {}

SupersededAll(d, c) ==
    {e \in Entries : cards[d].state # "published" /\ entries[e].doc = d /\ e \notin Existing(d, c)}

\* A draft's other live reservations are cancelled.
Superseded(d, c) ==
    {e \in Entries : /\ cards[d].state # "published"
                     /\ entries[e].doc = d
                     /\ e \notin Existing(d, c)
                     /\ entries[e].state = "reserved"}

Replaced(d, c) ==
    [e \in Entries |-> IF e \in Superseded(d, c)
                       THEN [entries[e] EXCEPT !.state = "cancelled"]
                       ELSE entries[e]]

\* In the operators below own is Existing(d, c) and ents the entries once the superseded
\* ones are cancelled.

\* The entry the client may name.
MayPick(d, c, e, own) ==
    /\ ~Fresh(e)
    /\ own \subseteq {e}
    /\ entries[e].doc \in {NoDoc, d}
    /\ c.number \in {NoNumber, entries[e].number}

\* No entry, and none is wanted: the number is manual or there is none.
SyncManual(d, c, target, own, ents) ==
    /\ own = {}
    /\ FormSeries[d] = NoSeries \/ c.number # NoNumber
    /\ FlushCard(d, c, target, ents, claims)
    /\ UNCHANGED counter

\* The number is official already.
SyncOfficial(d, c, e, target, ents) ==
    /\ ents[e].state \in {"assigned", "void"}
    /\ c.number = ents[e].number
    /\ FlushCard(d, c, target, ents, claims)
    /\ UNCHANGED counter

\* The card takes, or keeps, the reservation e.
SyncReserved(d, c, e, target, ents, supplied) ==
    /\ Usable(ents[e])
    /\ FormSeries[d] \in {NoSeries, ents[e].series}
    /\ WriteNumber(d, c, e, target, ents, claims, supplied)
    /\ UNCHANGED counter

\* A form that binds its number to a series, and has none, gets the next one.
SyncNext(d, c, target, own, ents) ==
    /\ own = {} /\ FormSeries[d] # NoSeries /\ c.number = NoNumber
    /\ \E e \in Entries, p \in Periods, n \in Numbers :
          LET b == <<FormSeries[d], p>> IN
          /\ Fresh(e)
          /\ NextOrdinal(b, c.scope, n)
          /\ counter' = [counter EXCEPT ![b] = n + 1]
          /\ WriteNumber(d, c, e, target,
                 [x \in Entries |-> IF x = e THEN ReservedEntry(b[1], n, c.scope, TRUE)
                                   ELSE ents[x]],
                 [claims EXCEPT ![<<c.scope, n>>] = [taken |-> TRUE, doc |-> NoDoc, entry |-> e]],
                 FALSE)

\* pick: the number_entry_id of the request, or NoEntry.
Sync(d, c, pick, target) ==
    LET own == Existing(d, c)
        ents == Replaced(d, c)
    IN  \/ /\ pick = NoEntry
           /\ \/ SyncManual(d, c, target, own, ents)
              \/ SyncNext(d, c, target, own, ents)
              \/ \E e \in own : \/ SyncOfficial(d, c, e, target, ents)
                                \/ SyncReserved(d, c, e, target, ents, FALSE)
        \/ /\ pick # NoEntry /\ MayPick(d, c, pick, own)
           /\ \/ SyncOfficial(d, c, pick, target, ents)
              \/ SyncReserved(d, c, pick, target, ents, TRUE)

-----------------------------------------------------------------------------
(* The handlers.                                                           *)

\* create_document: the card is inserted as a draft without a number, then written.
CreateDocument(d, number, scope, pick, target) ==
    /\ cards[d].state = "none"
    /\ Sync(d, [NewCard EXCEPT !.number = number, !.scope = scope], pick, target)

\* update_document: a published card is not turned back into a draft.
UpdateDocument(d, number, scope, pick, target) ==
    /\ Live(d)
    /\ cards[d].state = "published" => target = "published"
    /\ Sync(d, [cards[d] EXCEPT !.number = number, !.scope = scope], pick, target)

\* delete_document: the number, its entry and its claim are retained.
DeleteDocument(d) ==
    /\ Live(d)
    /\ cards' = [cards EXCEPT ![d].deleted = TRUE]
    /\ UNCHANGED <<entries, claims, counter>>

\* assign: the number book links a reservation to a card.
Assign(d, e) ==
    /\ Live(d)
    /\ cards[d].state = "published" => cards[d].number = entries[e].number
    /\ Usable(entries[e])
    /\ FormSeries[d] \in {NoSeries, entries[e].series}
    /\ WriteNumber(d, cards[d], e, cards[d].state, entries, claims, FALSE)
    /\ UNCHANGED counter

\* The entry of a deleted card is not visible to the number book.
Visible(e) == entries[e].doc # NoDoc => ~cards[entries[e].doc].deleted

\* transition: cancel and expire a reservation, void an assigned number.
Transition(e, target) ==
    /\ Visible(e)
    /\ entries[e].state = IF target = "void" THEN "assigned" ELSE "reserved"
    /\ target = "expired" => entries[e].due
    /\ entries' = [entries EXCEPT ![e].state = target]
    /\ UNCHANGED <<cards, claims, counter>>

\* What a client can put in the number field: nothing, a number typed by hand, the
\* number already there, or the number of the entry it names.
Inputs(d, pick) ==
    {NoNumber, cards[d].number} \cup Typed
        \cup (IF pick = NoEntry THEN {} ELSE {entries[pick].number})

Next ==
    \/ \E e \in Entries :
          \/ \E s \in Series, p \in Periods, scope \in Scopes, bound \in BOOLEAN :
                Reserve(e, s, p, scope, bound)
          \/ Lapse(e)
          \/ \E d \in Docs : Assign(d, e)
          \/ \E target \in {"cancelled", "expired", "void"} : Transition(e, target)
    \/ \E d \in Docs :
          \/ DeleteDocument(d)
          \/ \E scope \in Scopes, target \in {"draft", "published"}, pick \in Entries \cup {NoEntry} :
                \E number \in Inputs(d, pick) :
                    \/ CreateDocument(d, number, scope, pick, target)
                    \/ UpdateDocument(d, number, scope, pick, target)

Spec == Init /\ [][Next]_vars

-----------------------------------------------------------------------------
(* Properties.                                                             *)

Bears(d, scope, number) ==
    cards[d].state # "none" /\ cards[d].number = number /\ cards[d].scope = scope

\* No number of a scope is borne by two cards, deleted ones included, reserved by two
\* entries, or borne by one card while an entry of another card, or of none, stands for it:
\* the promise of the ledger, which reserve, write_entry_number and both triggers must keep
\* together.
NumberHeldOnce ==
    \A scope \in Scopes, n \in Numbers :
        LET bearers == {d \in Docs : Bears(d, scope, n)}
            reserved == {e \in Entries : entries[e].number = n /\ entries[e].scope = scope}
        IN  /\ \A d1, d2 \in bearers : d1 = d2
            /\ \A e1, e2 \in reserved : e1 = e2
            /\ \A d \in bearers, e \in reserved : entries[e].doc = d

\* A live reservation that is linked to a card is the number that card bears, in its scope,
\* and the card is a draft: sync_card_number cancels every other one (the unique index
\* uq_number_entries_reserved_document is never hit).
LiveReservationIsBorne ==
    \A e \in Entries : entries[e].state = "reserved" /\ entries[e].doc # NoDoc =>
        /\ Bears(entries[e].doc, entries[e].scope, entries[e].number)
        /\ cards[entries[e].doc].state = "draft"

\* An assigned number, voided later or not, is the number of a published card, in its
\* scope; and a published card whose form takes numbers from a series has a number.
OfficialNumbers ==
    /\ \A e \in Entries : entries[e].state \in {"assigned", "void"} =>
          /\ entries[e].doc # NoDoc
          /\ Bears(entries[e].doc, entries[e].scope, entries[e].number)
          /\ cards[entries[e].doc].state = "published"
    /\ \A d \in Docs : cards[d].state = "published" /\ FormSeries[d] # NoSeries =>
          cards[d].number # NoNumber

\* The trigger protect_number_entry (with acti_lock_number_scope) never has to refuse a
\* handler: an entry keeps its number, its document and, once bound, its scope, and moves
\* only reserved -> assigned, cancelled, expired and assigned -> void.
ProtectNumberEntry ==
    [][\A e \in Entries : ~Fresh(e) =>
          /\ entries'[e].number = entries[e].number
          /\ entries'[e].series = entries[e].series
          /\ entries[e].doc # NoDoc => entries'[e].doc = entries[e].doc
          /\ entries'[e].doc # entries[e].doc => entries'[e].state \in {"reserved", "assigned"}
          /\ entries[e].bound => entries'[e].bound /\ entries'[e].scope = entries[e].scope
          /\ entries'[e].state # entries[e].state =>
                <<entries[e].state, entries'[e].state>> \in
                    {<<"reserved", "assigned">>, <<"reserved", "cancelled">>,
                     <<"reserved", "expired">>, <<"assigned", "void">>}]_vars

-----------------------------------------------------------------------------
(* The register this implements.                                           *)

HolderOf(k) == IF ~claims[k].taken THEN "free"
               ELSE IF claims[k].doc = NoDoc THEN "nobody" ELSE claims[k].doc

OfficialSlot(d) == IF cards[d].state = "published" /\ cards[d].number # NoNumber
                   THEN <<cards[d].scope, cards[d].number>> ELSE <<>>

Register == INSTANCE NumberRegister WITH
    Free <- "free", Nobody <- "nobody", NoSlot <- <<>>,
    holder <- [k \in Slots |-> HolderOf(k)],
    official <- [d \in Docs |-> OfficialSlot(d)]

\* A number once occupied is never free again and never passes from one document to
\* another, and an official card keeps its own: numbering implements NumberRegister.
RegisterSpec == Register!RegisterSpec
=============================================================================
