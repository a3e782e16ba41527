----------------------------- MODULE OutboxFeed -----------------------------
(***************************************************************************)
(* The transactional outbox: producers commit events with their work       *)
(* (platform/outbox.py), workers deliver them in batches to the indexing   *)
(* handler and number them (jobs/worker.py), administrators retry failed   *)
(* ones (service_api/operations.py), and external services read the        *)
(* numbered events page by page through cursors (service_api/events.py).   *)
(*                                                                         *)
(* A batch is one database transaction under an advisory lock: what it     *)
(* writes is invisible until Commit, but the sequence it draws delivery    *)
(* ordinals from is not transactional, so an aborted batch leaves gaps.    *)
(* Events are numbered by created_at; they commit in any order.  Rights    *)
(* are whatever they are at the time of a read: resolve_event may omit any *)
(* event from a page, and the bookmark still moves past it.                *)
(***************************************************************************)
EXTENDS Naturals, Sequences, FiniteSets
LOCAL INSTANCE SequencesExt

CONSTANTS
    MaxEvent,     \* bound on the events produced
    Worker,       \* worker processes running process_batch
    Limit,        \* its `limit`
    MaxAttempts,  \* attempts before an event is failed: 5
    MaxCursors,   \* bound on live bookmarks (2000)
    MaxDrops,     \* bound on aborted batches
    MaxRetries    \* bound on administrative retries

ASSUME BoundsArePositive ==
    {MaxEvent, Limit, MaxAttempts, MaxCursors} \subseteq Nat \ {0}
ASSUME BudgetsAreNat == {MaxDrops, MaxRetries} \subseteq Nat

Event == 1 .. MaxEvent
NoWorker == "none"

ASSUME NoWorkerIsNone == NoWorker \notin Worker

VARIABLES
    row,      \* [Event -> the committed outbox_events row]
    effects,  \* [Event -> how often handle_event took effect, committed]
    batch,    \* [Worker -> the transaction of process_batch, or NoBatch]
    lock,     \* holder of advisory lock 731010, or NoWorker
    ordinals, \* outbox_delivery_ordinal_seq
    cursors,  \* live service_event_cursors; `seen` is a history variable: the
              \* events scanned on the way to the bookmark
    drops, retries

vars == <<row, effects, batch, lock, ordinals, cursors, drops, retries>>

NoBatch == [open |-> FALSE]

\* due is next_attempt_at <= now; ordinal 0 is NULL; received is the
\* processed_events row of the consumer.
Absent == [state |-> "absent", attempts |-> 0, due |-> FALSE, ordinal |-> 0,
           received |-> FALSE]
Row == [state: {"absent", "pending", "processed", "failed"},
        attempts: 0 .. MaxAttempts, due: BOOLEAN, ordinal: Nat, received: BOOLEAN]

\* What a transaction holds: the locked rows, as it has left them so far.
IsBatch(b) ==
    \E locked \in SUBSET Event :
        b \in [open: {TRUE}, todo: SUBSET locked, rows: [locked -> Row], effects: [locked -> Nat]]
Cursor == [after: Nat, seen: SUBSET Event]

TypeOK ==
    /\ row \in [Event -> Row]
    /\ effects \in [Event -> Nat]
    /\ lock \in Worker \cup {NoWorker}
    /\ batch = [w \in Worker |-> batch[w]]
    /\ \A w \in Worker : batch[w] # NoBatch => lock = w /\ IsBatch(batch[w])
    /\ ordinals \in Nat
    /\ cursors \subseteq Cursor /\ \A c \in cursors : c.after <= ordinals
    /\ drops \in 0 .. MaxDrops /\ retries \in 0 .. MaxRetries

Init ==
    /\ row = [e \in Event |-> Absent]
    /\ effects = [e \in Event |-> 0]
    /\ batch = [w \in Worker |-> NoBatch]
    /\ lock = NoWorker
    /\ ordinals = 0
    /\ cursors = {}
    /\ drops = 0 /\ retries = 0

\* enqueue_event, at the commit of the producer's transaction.
Enqueue(e) ==
    /\ row[e].state = "absent"
    /\ row' = [row EXCEPT ![e].state = "pending", ![e].due = TRUE]
    /\ UNCHANGED <<effects, batch, lock, ordinals, cursors, drops, retries>>

\* The backoff of a failed attempt has passed.
BecomeDue(e) ==
    /\ row[e].state = "pending" /\ ~row[e].due
    /\ row' = [row EXCEPT ![e].due = TRUE]
    /\ UNCHANGED <<effects, batch, lock, ordinals, cursors, drops, retries>>

-----------------------------------------------------------------------------
\* process_batch

Open(w) == batch[w] # NoBatch
Locked == UNION {DOMAIN batch[w].rows : w \in {v \in Worker : Open(v)}}

Selectable == {e \in Event : row[e].state = "pending" /\ row[e].due} \ Locked

\* The oldest ones, FOR UPDATE SKIP LOCKED.
Selected == {e \in Selectable : Cardinality({d \in Selectable : d < e}) < Limit}

\* They are taken in the order they were created in.
Oldest(events) == {e \in events : \A d \in events : e <= d}

\* The transaction as it begins, and once e is done with: the row and the effects it
\* leaves are the transaction's until Commit.
NewBatch == [open |-> TRUE, todo |-> Selected,
             rows |-> [e \in Selected |-> row[e]], effects |-> [e \in Selected |-> effects[e]]]

Done(b, e, written, count) ==
    [b EXCEPT !.todo = @ \ {e}, !.rows[e] = written, !.effects[e] = count]

\* Slip: batches are not serialized; SKIP LOCKED keeps them disjoint only.
BeginUnserialized(w) ==
    /\ ~Open(w)
    /\ Selectable # {}
    /\ lock' = w
    /\ batch' = [batch EXCEPT ![w] = NewBatch]
    /\ UNCHANGED <<row, effects, ordinals, cursors, drops, retries>>

Begin(w) ==
    /\ ~Open(w)
    /\ lock = NoWorker
    /\ Selectable # {}
    /\ lock' = w
    /\ batch' = [batch EXCEPT ![w] = NewBatch]
    /\ UNCHANGED <<row, effects, ordinals, cursors, drops, retries>>

\* Slip: events are delivered under their creation order.
DeliverByCreation(w) ==
    /\ Open(w)
    /\ \E e \in Oldest(batch[w].todo) :
          LET r == batch[w].rows[e] n == batch[w].effects[e] IN
          /\ ordinals' = ordinals + 1
          /\ batch' = [batch EXCEPT ![w] = Done(@, e,
                 [r EXCEPT !.state = "processed", !.attempts = @ + 1, !.received = TRUE,
                           !.ordinal = e],
                 IF r.received THEN n ELSE n + 1)]
    /\ UNCHANGED <<row, effects, lock, cursors, drops, retries>>

Deliver(w) ==
    /\ Open(w)
    /\ \E e \in Oldest(batch[w].todo) :
          LET r == batch[w].rows[e] n == batch[w].effects[e] IN
          /\ ordinals' = IF r.ordinal = 0 THEN ordinals + 1 ELSE ordinals
          /\ batch' = [batch EXCEPT ![w] = Done(@, e,
                 [r EXCEPT !.state = "processed", !.attempts = @ + 1, !.received = TRUE,
                           !.ordinal = IF @ = 0 THEN ordinals' ELSE @],
                 IF r.received THEN n ELSE n + 1)]
    /\ UNCHANGED <<row, effects, lock, cursors, drops, retries>>

\* Slips in a failed attempt: one attempt too many, an attempt that is not
\* counted, and a handler whose work is not rolled back.
FailDeliveryLate(w) ==
    /\ Open(w)
    /\ \E e \in Oldest(batch[w].todo) :
          LET r == batch[w].rows[e] IN
          batch' = [batch EXCEPT ![w] = Done(@, e,
              [r EXCEPT !.attempts = @ + 1, !.due = FALSE,
                        !.state = IF r.attempts >= MaxAttempts THEN "failed" ELSE @],
              batch[w].effects[e])]
    /\ UNCHANGED <<row, effects, lock, ordinals, cursors, drops, retries>>

FailDeliveryUncounted(w) ==
    /\ Open(w)
    /\ \E e \in Oldest(batch[w].todo) :
          batch' = [batch EXCEPT ![w] =
              Done(@, e, [@.rows[e] EXCEPT !.due = FALSE], @.effects[e])]
    /\ UNCHANGED <<row, effects, lock, ordinals, cursors, drops, retries>>

FailDeliveryHalfway(w) ==
    /\ Open(w)
    /\ \E e \in Oldest(batch[w].todo) :
          LET r == batch[w].rows[e] IN
          batch' = [batch EXCEPT ![w] = Done(@, e,
              [r EXCEPT !.attempts = @ + 1, !.due = FALSE,
                        !.state = IF r.attempts + 1 >= MaxAttempts THEN "failed" ELSE @],
              batch[w].effects[e] + 1)]
    /\ UNCHANGED <<row, effects, lock, ordinals, cursors, drops, retries>>

\* process_event raised: its savepoint is rolled back, the attempt is kept.
FailDelivery(w) ==
    /\ Open(w)
    /\ \E e \in Oldest(batch[w].todo) :
          LET r == batch[w].rows[e] IN
          batch' = [batch EXCEPT ![w] = Done(@, e,
              [r EXCEPT !.attempts = @ + 1, !.due = FALSE,
                        !.state = IF r.attempts + 1 >= MaxAttempts THEN "failed" ELSE @],
              batch[w].effects[e])]
    /\ UNCHANGED <<row, effects, lock, ordinals, cursors, drops, retries>>

Commit(w) ==
    LET b == batch[w] IN
    /\ Open(w) /\ b.todo = {}
    /\ row' = [e \in Event |-> IF e \in DOMAIN b.rows THEN b.rows[e] ELSE row[e]]
    /\ effects' = [e \in Event |-> IF e \in DOMAIN b.rows THEN b.effects[e] ELSE effects[e]]
    /\ batch' = [batch EXCEPT ![w] = NoBatch]
    /\ lock' = NoWorker
    /\ UNCHANGED <<ordinals, cursors, drops, retries>>

\* The worker dies, or the database refuses the transaction.
Abort(w) ==
    /\ Open(w)
    /\ drops < MaxDrops
    /\ drops' = drops + 1
    /\ batch' = [batch EXCEPT ![w] = NoBatch]
    /\ lock' = NoWorker
    /\ UNCHANGED <<row, effects, ordinals, cursors, retries>>

-----------------------------------------------------------------------------
\* operations.retry

Retry(e) ==
    /\ row[e].state = "failed"
    /\ retries < MaxRetries
    /\ retries' = retries + 1
    /\ row' = [row EXCEPT ![e].state = "pending", ![e].attempts = 0, ![e].due = TRUE]
    /\ UNCHANGED <<effects, batch, lock, ordinals, cursors, drops>>

-----------------------------------------------------------------------------
\* events: the page ends at page_size visible items or at the scan limit,
\* so after any scanned event, or after all of them.

Published == {e \in Event : row[e].state = "processed"}
Later(c) == {e \in Published : row[e].ordinal > c.after}

ReadPage(c) ==
    /\ Cardinality(cursors) < MaxCursors
    /\ \E last \in {row[e].ordinal : e \in Later(c)} \cup {c.after} :
        /\ (last = c.after) => Later(c) = {}
        /\ cursors' = cursors \cup
               {[after |-> last,
                 seen |-> c.seen \cup {e \in Later(c) : row[e].ordinal <= last}]}
    /\ UNCHANGED <<row, effects, batch, lock, ordinals, drops, retries>>

\* cleanup_cursors, once the bookmark has expired.
DropCursor(c) ==
    /\ cursors' = cursors \ {c}
    /\ UNCHANGED <<row, effects, batch, lock, ordinals, drops, retries>>

FromStart == [after |-> 0, seen |-> {}]

Next ==
    \/ \E e \in Event : Enqueue(e) \/ BecomeDue(e) \/ Retry(e)
    \/ \E w \in Worker : Begin(w) \/ Deliver(w) \/ FailDelivery(w) \/ Commit(w) \/ Abort(w)
    \/ \E c \in cursors \cup {FromStart} : ReadPage(c)
    \/ \E c \in cursors : DropCursor(c)

Spec == Init /\ [][Next]_vars

-----------------------------------------------------------------------------
\* Following bookmarks skips no event: every published event up to a bookmark
\* was scanned on the way there.  Two batches must not publish out of order.
NothingSkipped ==
    \A c \in cursors : {e \in Published : row[e].ordinal <= c.after} \subseteq c.seen

\* An event is handled exactly once by the time it is published, however many
\* attempts, aborted batches and administrative retries came before.
HandledOnce ==
    \A e \in Event : effects[e] = IF row[e].state = "processed" THEN 1 ELSE 0

\* The feed is an append-only log with bookmarks.
Log == INSTANCE EventLog WITH
    log <- SetToSortSeq(Published, LAMBDA d, e : row[d].ordinal < row[e].ordinal),
    bookmarks <- {Cardinality({e \in Published : row[e].ordinal <= c.after}) : c \in cursors}
LogSpec == Log!Spec

\* No event is stuck: each one is published or reported as failed, and a poisoned
\* event does not hold up the others.
EventsSettle ==
    \A e \in Event : row[e].state = "pending" ~> row[e].state \in {"processed", "failed"}
=============================================================================
