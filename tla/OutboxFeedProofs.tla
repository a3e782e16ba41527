-------------------------- MODULE OutboxFeedProofs --------------------------
(***************************************************************************)
(* For any number of events, workers, cursors, batch limits and attempts:  *)
(* the rows of the outbox stay well typed, an event is handled exactly     *)
(* once by the time it is published, and the cursors skip nothing.         *)
(*                                                                         *)
(* The invariant says it of what is committed and of what the one open     *)
(* batch has prepared: an event the batch has delivered has an ordinal     *)
(* beyond every published one and beyond every cursor, so its commit,      *)
(* whenever it comes, puts nothing behind a bookmark.                      *)
(***************************************************************************)
EXTENDS OutboxFeed, TLAPS

\* What row r and the n effects of its handler say of each other.
Agree(r, n) ==
    /\ n = IF r.state = "processed" THEN 1 ELSE 0
    /\ r.received <=> r.state = "processed"
    /\ r.ordinal = 0 <=> r.state # "processed"
    /\ r.state \in {"absent", "pending"} => r.attempts < MaxAttempts
    /\ r.ordinal <= ordinals

RowsAgree == \A e \in Event : Agree(row[e], effects[e])

\* Nobody has read as far as r.
Unread(r) ==
    /\ \A c \in cursors : c.after < r.ordinal
    /\ \A d \in Published : row[d].ordinal < r.ordinal

BatchAgrees(b) ==
    /\ \A e \in DOMAIN b.rows :
          /\ Agree(b.rows[e], b.effects[e])
          /\ b.rows[e].state = "processed" => Unread(b.rows[e])
    /\ \A e \in b.todo : b.rows[e].state = "pending"

BatchesAgree == \A w \in Worker : Open(w) => BatchAgrees(batch[w])

IInv == TypeOK /\ RowsAgree /\ BatchesAgree /\ NothingSkipped

LEMMA Bounds ==
    /\ MaxEvent \in Nat /\ Limit \in Nat /\ MaxAttempts \in Nat /\ MaxAttempts # 0
    /\ MaxDrops \in Nat /\ MaxRetries \in Nat
BY BoundsArePositive, BudgetsAreNat

LEMMA RowFields ==
    ASSUME NEW r \in Row
    PROVE  r.attempts \in Nat /\ r.ordinal \in Nat
BY Bounds DEF Row

-----------------------------------------------------------------------------
\* Steps on the committed rows: enqueue, the end of a backoff, an administrator's retry.

LEMMA RowStep ==
    ASSUME IInv, NEW e \in Event, NEW r \in Row,
           row[e].state # "processed", r.state = "pending", r.attempts < MaxAttempts,
           r.received = row[e].received, r.ordinal = row[e].ordinal,
           row' = [row EXCEPT ![e] = r],
           effects' = effects, batch' = batch, lock' = lock, ordinals' = ordinals,
           cursors' = cursors, drops' = drops, retries' \in 0 .. MaxRetries
    PROVE  IInv'
<1>1. /\ row \in [Event -> Row] /\ row'[e] = r /\ row' \in [Event -> Row]
      /\ \A d \in Event : d # e => row'[d] = row[d]
  BY DEF IInv, TypeOK
<1>2. TypeOK'
  BY <1>1 DEF IInv, TypeOK
<1>3. Agree(row[e], effects[e])
  BY DEF IInv, RowsAgree
<1>4. Agree(r, effects[e])
  BY <1>3 DEF Agree
<1>5. RowsAgree'
  BY <1>1, <1>4 DEF IInv, RowsAgree, Agree
<1>6. Published' = Published /\ \A d \in Published : row'[d] = row[d]
  BY <1>1 DEF Published
<1>7. BatchesAgree'
  BY <1>6 DEF IInv, BatchesAgree, BatchAgrees, Open, Agree, Unread
<1>8. NothingSkipped'
  BY <1>6 DEF IInv, NothingSkipped
<1> QED
  BY <1>2, <1>5, <1>7, <1>8 DEF IInv

LEMMA CommittedRows ==
    ASSUME IInv, NEW e \in Event, Enqueue(e) \/ BecomeDue(e) \/ Retry(e)
    PROVE  IInv'
<1>1. row[e] \in Row /\ row \in [Event -> Row] /\ retries \in 0 .. MaxRetries
  BY DEF IInv, TypeOK
<1>2. PICK r : r = row'[e]
  OBVIOUS
<1>3. Agree(row[e], effects[e])
  BY DEF IInv, RowsAgree
<1>4. CASE Enqueue(e)
  <2>1. row' = [row EXCEPT ![e] = r]
    BY <1>1, <1>2, <1>4 DEF Enqueue
  <2>2. /\ r.state = "pending" /\ r.attempts = row[e].attempts
        /\ r.received = row[e].received /\ r.ordinal = row[e].ordinal
        /\ r \in Row
    BY <1>1, <1>2, <1>4 DEF Enqueue, Row
  <2>3. /\ row[e].state = "absent"
        /\ effects' = effects /\ batch' = batch /\ lock' = lock /\ ordinals' = ordinals
        /\ cursors' = cursors /\ drops' = drops /\ retries' = retries
    BY <1>4 DEF Enqueue
  <2>4. r.attempts < MaxAttempts
    BY <1>3, <2>2, <2>3 DEF Agree
  <2> QED
    BY <1>1, <2>1, <2>2, <2>3, <2>4, RowStep
<1>5. CASE BecomeDue(e)
  <2>1. row' = [row EXCEPT ![e] = r]
    BY <1>1, <1>2, <1>5 DEF BecomeDue
  <2>2. /\ r.state = row[e].state /\ r.attempts = row[e].attempts
        /\ r.received = row[e].received /\ r.ordinal = row[e].ordinal
        /\ r \in Row
    BY <1>1, <1>2, <1>5 DEF BecomeDue, Row
  <2>3. /\ row[e].state = "pending"
        /\ effects' = effects /\ batch' = batch /\ lock' = lock /\ ordinals' = ordinals
        /\ cursors' = cursors /\ drops' = drops /\ retries' = retries
    BY <1>5 DEF BecomeDue
  <2>4. r.attempts < MaxAttempts
    BY <1>3, <2>2, <2>3 DEF Agree
  <2> QED
    BY <1>1, <2>1, <2>2, <2>3, <2>4, RowStep
<1>6. CASE Retry(e)
  <2>1. row' = [row EXCEPT ![e] = r]
    BY <1>1, <1>2, <1>6 DEF Retry
  <2>2. /\ r.state = "pending" /\ r.attempts = 0
        /\ r.received = row[e].received /\ r.ordinal = row[e].ordinal
    BY <1>1, <1>2, <1>6 DEF Retry, Row
  <2>3. r \in Row
    <3>1. 0 \in 0 .. MaxAttempts
      BY Bounds
    <3> QED
      BY <1>1, <1>2, <1>6, <3>1 DEF Retry, Row
  <2>4. /\ row[e].state = "failed"
        /\ effects' = effects /\ batch' = batch /\ lock' = lock /\ ordinals' = ordinals
        /\ cursors' = cursors /\ drops' = drops
    BY <1>6 DEF Retry
  <2>5. retries' \in 0 .. MaxRetries
    BY <1>1, <1>6, Bounds DEF Retry
  <2>6. r.attempts < MaxAttempts
    BY <2>2, Bounds
  <2> QED
    BY <2>1, <2>2, <2>3, <2>4, <2>5, <2>6, RowStep
<1> QED
  BY <1>4, <1>5, <1>6

-----------------------------------------------------------------------------
\* Steps of a batch.

LEMMA BeginStep ==
    ASSUME IInv, NEW w \in Worker, Begin(w)
    PROVE  IInv'
<1>1. /\ lock = NoWorker /\ lock' = w /\ batch' = [batch EXCEPT ![w] = NewBatch]
      /\ row' = row /\ effects' = effects /\ ordinals' = ordinals /\ cursors' = cursors
      /\ drops' = drops /\ retries' = retries
  BY DEF Begin
<1>2. \A v \in Worker : ~Open(v)
  BY <1>1, NoWorkerIsNone DEF IInv, TypeOK, Open
<1>3. Selected \subseteq Event /\ \A e \in Selected : row[e].state = "pending"
  BY DEF Selected, Selectable
<1>4. PICK b : b = NewBatch
  OBVIOUS
<1>5. /\ IsBatch(b) /\ b.todo = Selected /\ DOMAIN b.rows = Selected
      /\ \A e \in Selected : b.rows[e] = row[e] /\ b.effects[e] = effects[e]
  <2>1. /\ [e \in Selected |-> row[e]] \in [Selected -> Row]
        /\ [e \in Selected |-> effects[e]] \in [Selected -> Nat]
    BY <1>3 DEF IInv, TypeOK
  <2> QED
    BY <1>3, <1>4, <2>1 DEF IsBatch, NewBatch
<1>6. /\ batch' = [v \in Worker |-> batch'[v]] /\ batch'[w] = b
      /\ \A v \in Worker : v # w => batch'[v] = NoBatch
  BY <1>1, <1>2, <1>4 DEF IInv, TypeOK, Open
<1>7. TypeOK'
  BY <1>1, <1>5, <1>6 DEF IInv, TypeOK
<1>8. Published' = Published
  BY <1>1 DEF Published
<1>9. BatchAgrees(b)'
  <2>1. ASSUME NEW e \in Selected
        PROVE  Agree(b.rows[e], b.effects[e])' /\ b.rows[e].state = "pending"
    <3>1. Agree(row[e], effects[e])
      BY <1>3 DEF IInv, RowsAgree
    <3>2. Agree(b.rows[e], b.effects[e])
      BY <1>5, <3>1
    <3> QED
      BY <1>1, <1>3, <1>5, <3>2 DEF Agree
  <2>2. b.todo = Selected /\ DOMAIN b.rows = Selected
    BY <1>5
  <2> HIDE DEF Selected
  <2> QED
    BY <2>1, <2>2 DEF BatchAgrees
<1>10. BatchesAgree'
  BY <1>6, <1>9 DEF BatchesAgree, Open
<1>11. RowsAgree' /\ NothingSkipped'
  BY <1>1, <1>8 DEF IInv, RowsAgree, Agree, NothingSkipped
<1> QED
  BY <1>7, <1>10, <1>11 DEF IInv

LEMMA DoneFields ==
    ASSUME NEW b, IsBatch(b), NEW e \in b.todo, NEW r \in Row, NEW n \in Nat
    PROVE  /\ IsBatch(Done(b, e, r, n))
           /\ Done(b, e, r, n).todo = b.todo \ {e}
           /\ DOMAIN Done(b, e, r, n).rows = DOMAIN b.rows
           /\ e \in DOMAIN b.rows
           /\ Done(b, e, r, n).rows[e] = r /\ Done(b, e, r, n).effects[e] = n
           /\ \A d \in DOMAIN b.rows : d # e => /\ Done(b, e, r, n).rows[d] = b.rows[d]
                                              /\ Done(b, e, r, n).effects[d] = b.effects[d]
           /\ DOMAIN b.rows \subseteq Event
           /\ b.rows[e] \in Row /\ b.effects[e] \in Nat
<1>1. PICK locked \in SUBSET Event :
        b \in [open: {TRUE}, todo: SUBSET locked, rows: [locked -> Row], effects: [locked -> Nat]]
  BY DEF IsBatch
<1>2. PICK b2 : b2 = Done(b, e, r, n)
  OBVIOUS
<1>3. /\ b2.todo = b.todo \ {e} /\ b2.rows = [b.rows EXCEPT ![e] = r]
      /\ b2.effects = [b.effects EXCEPT ![e] = n]
      /\ b2 \in [open: {TRUE}, todo: SUBSET locked, rows: [locked -> Row], effects: [locked -> Nat]]
  BY <1>1, <1>2 DEF Done
<1>4. IsBatch(b2)
  BY <1>3 DEF IsBatch
<1>5. /\ DOMAIN b.rows = locked /\ DOMAIN b2.rows = locked /\ e \in locked
      /\ b2.rows[e] = r /\ b2.effects[e] = n
      /\ \A d \in locked : d # e => b2.rows[d] = b.rows[d] /\ b2.effects[d] = b.effects[d]
      /\ b.rows[e] \in Row /\ b.effects[e] \in Nat
  BY <1>1, <1>3
<1> QED
  BY <1>2, <1>3, <1>4, <1>5

\* One event of the batch is done with.
LEMMA DoneStep ==
    ASSUME IInv, NEW w \in Worker, Open(w), NEW e \in batch[w].todo,
           NEW r \in Row, NEW n \in Nat,
           batch' = [batch EXCEPT ![w] = Done(batch[w], e, r, n)],
           ordinals' \in Nat, ordinals <= ordinals',
           Agree(r, n)', r.state = "processed" => Unread(r),
           row' = row, effects' = effects, lock' = lock, cursors' = cursors,
           drops' = drops, retries' = retries
    PROVE  IInv'
<1>1. IsBatch(batch[w]) /\ lock = w
  BY DEF IInv, TypeOK, Open
<1>2. PICK b : b = Done(batch[w], e, r, n)
  OBVIOUS
<1>3. /\ IsBatch(b) /\ b.todo = batch[w].todo \ {e}
      /\ DOMAIN b.rows = DOMAIN batch[w].rows /\ b.rows[e] = r /\ b.effects[e] = n
      /\ \A d \in DOMAIN batch[w].rows : d # e => /\ b.rows[d] = batch[w].rows[d]
                                                 /\ b.effects[d] = batch[w].effects[d]
      /\ b.todo \subseteq DOMAIN b.rows /\ DOMAIN b.rows \subseteq Event
  <2>1. /\ IsBatch(b) /\ b.todo = batch[w].todo \ {e}
        /\ DOMAIN b.rows = DOMAIN batch[w].rows /\ b.rows[e] = r /\ b.effects[e] = n
        /\ \A d \in DOMAIN batch[w].rows : d # e => /\ b.rows[d] = batch[w].rows[d]
                                                   /\ b.effects[d] = batch[w].effects[d]
    BY <1>1, <1>2, DoneFields
  <2>2. b.todo \subseteq DOMAIN b.rows /\ DOMAIN b.rows \subseteq Event
    BY <2>1 DEF IsBatch
  <2> QED
    BY <2>1, <2>2
<1>4. /\ batch' = [v \in Worker |-> batch'[v]] /\ batch'[w] = b
      /\ \A v \in Worker : v # w => batch'[v] = batch[v] /\ batch[v] = NoBatch
  BY <1>1, <1>2 DEF IInv, TypeOK
<1>5. cursors \subseteq Cursor /\ \A c \in cursors : c.after <= ordinals'
  <2> SUFFICES ASSUME NEW c \in cursors PROVE c.after <= ordinals'
    BY DEF IInv, TypeOK
  <2>1. c.after \in Nat /\ c.after <= ordinals /\ ordinals \in Nat
    BY DEF IInv, TypeOK, Cursor
  <2> QED
    BY <2>1
<1>6. TypeOK'
  BY <1>1, <1>3, <1>4, <1>5 DEF IInv, TypeOK
<1>7. ASSUME NEW r2 \in Row, NEW n2, Agree(r2, n2)
      PROVE  Agree(r2, n2)'
  BY <1>7, RowFields DEF Agree, IInv, TypeOK
<1>8. RowsAgree'
  BY <1>7 DEF IInv, TypeOK, RowsAgree
<1>9. Published' = Published
  BY DEF Published
<1>10. BatchAgrees(b)'
  <2>1. BatchAgrees(batch[w])
    BY DEF IInv, BatchesAgree
  <2>2. ASSUME NEW d \in DOMAIN b.rows
        PROVE  Agree(b.rows[d], b.effects[d])' /\ (b.rows[d].state = "processed" => Unread(b.rows[d])')
    <3>1. CASE d = e
      BY <1>3, <1>9, <3>1 DEF Unread
    <3>2. CASE d # e
      <4>1. /\ b.rows[d] = batch[w].rows[d] /\ b.effects[d] = batch[w].effects[d]
            /\ Agree(batch[w].rows[d], batch[w].effects[d])
            /\ batch[w].rows[d].state = "processed" => Unread(batch[w].rows[d])
        BY <1>3, <2>1, <2>2, <3>2 DEF BatchAgrees
      <4>2. b.rows[d] \in Row
        BY <1>3, <2>2 DEF IsBatch
      <4> QED
        BY <1>7, <1>9, <4>1, <4>2 DEF Unread
    <3> QED
      BY <3>1, <3>2
  <2>3. \A d \in b.todo : b.rows[d].state = "pending"
    BY <1>3, <2>1 DEF BatchAgrees
  <2> QED
    BY <2>2, <2>3 DEF BatchAgrees
<1>11. BatchesAgree'
  BY <1>4, <1>10 DEF BatchesAgree, Open
<1>12. NothingSkipped'
  BY <1>9 DEF IInv, NothingSkipped
<1> QED
  BY <1>6, <1>8, <1>11, <1>12 DEF IInv

LEMMA DeliverStep ==
    ASSUME IInv, NEW w \in Worker, Deliver(w)
    PROVE  IInv'
<1>1. Open(w) /\ IsBatch(batch[w]) /\ BatchAgrees(batch[w])
  BY DEF Deliver, IInv, TypeOK, BatchesAgree, Open
<1>2. /\ row' = row /\ effects' = effects /\ lock' = lock /\ cursors' = cursors
      /\ drops' = drops /\ retries' = retries
  BY DEF Deliver
<1>3. PICK e \in Oldest(batch[w].todo) :
        LET r == batch[w].rows[e] n == batch[w].effects[e] IN
        /\ ordinals' = IF r.ordinal = 0 THEN ordinals + 1 ELSE ordinals
        /\ batch' = [batch EXCEPT ![w] = Done(batch[w], e,
               [r EXCEPT !.state = "processed", !.attempts = r.attempts + 1, !.received = TRUE,
                         !.ordinal = IF r.ordinal = 0 THEN ordinals' ELSE r.ordinal],
               IF r.received THEN n ELSE n + 1)]
  BY DEF Deliver
<1>4. e \in batch[w].todo /\ e \in DOMAIN batch[w].rows
  BY <1>1, <1>3 DEF Oldest, IsBatch
<1>5. PICK r : r = batch[w].rows[e]
  OBVIOUS
<1>6. PICK n : n = batch[w].effects[e]
  OBVIOUS
<1>7. r \in Row /\ n \in Nat
  BY <1>1, <1>4, <1>5, <1>6 DEF IsBatch
<1>8. r.state = "pending" /\ Agree(r, n)
  BY <1>1, <1>4, <1>5, <1>6 DEF BatchAgrees
<1>9. /\ n = 0 /\ ~r.received /\ r.ordinal = 0 /\ r.attempts < MaxAttempts
  BY <1>8 DEF Agree
<1>10. ordinals' = ordinals + 1 /\ ordinals \in Nat
  BY <1>3, <1>5, <1>9 DEF IInv, TypeOK
<1>11. PICK r2 : r2 = [r EXCEPT !.state = "processed", !.attempts = r.attempts + 1,
                                !.received = TRUE,
                                !.ordinal = IF r.ordinal = 0 THEN ordinals' ELSE r.ordinal]
  OBVIOUS
<1>12. r2.state = "processed" /\ r2.received /\ r2.ordinal = ordinals' /\ r2 \in Row
  <2>1. PICK a, k : a = r.attempts + 1 /\ k = ordinals'
    OBVIOUS
  <2>2. a \in 0 .. MaxAttempts /\ k \in Nat
    BY <1>7, <1>9, <1>10, <2>1, Bounds, RowFields
  <2>3. r2 = [r EXCEPT !.state = "processed", !.attempts = a, !.received = TRUE, !.ordinal = k]
    BY <1>9, <1>11, <2>1
  <2> QED
    BY <1>7, <2>1, <2>2, <2>3 DEF Row
<1>13. batch' = [batch EXCEPT ![w] = Done(batch[w], e, r2, 1)]
  <2>1. (IF r.received THEN n ELSE n + 1) = 1
    BY <1>9
  <2> QED
    BY <1>3, <1>5, <1>6, <1>11, <2>1
<1>14. Agree(r2, 1)'
  BY <1>10, <1>12 DEF Agree
<1>15. Unread(r2)
  <2>1. ASSUME NEW c \in cursors PROVE c.after < r2.ordinal
    <3>1. c.after <= ordinals /\ c.after \in Nat
      BY DEF IInv, TypeOK, Cursor
    <3> QED
      BY <1>10, <1>12, <3>1
  <2>2. ASSUME NEW d \in Published PROVE row[d].ordinal < r2.ordinal
    <3>1. row[d].ordinal <= ordinals /\ row[d] \in Row
      BY DEF IInv, RowsAgree, Agree, TypeOK, Published
    <3> QED
      BY <1>10, <1>12, <3>1, RowFields
  <2> QED
    BY <2>1, <2>2 DEF Unread
<1>16. ordinals' \in Nat /\ ordinals <= ordinals' /\ 1 \in Nat
  BY <1>10
<1> QED
  BY <1>1, <1>2, <1>4, <1>12, <1>13, <1>14, <1>15, <1>16, DoneStep

LEMMA FailStep ==
    ASSUME IInv, NEW w \in Worker, FailDelivery(w)
    PROVE  IInv'
<1>1. Open(w) /\ IsBatch(batch[w]) /\ BatchAgrees(batch[w])
  BY DEF FailDelivery, IInv, TypeOK, BatchesAgree, Open
<1>2. /\ row' = row /\ effects' = effects /\ lock' = lock /\ cursors' = cursors
      /\ drops' = drops /\ retries' = retries /\ ordinals' = ordinals
  BY DEF FailDelivery
<1>3. PICK e \in Oldest(batch[w].todo) :
        LET r == batch[w].rows[e] IN
        batch' = [batch EXCEPT ![w] = Done(batch[w], e,
            [r EXCEPT !.attempts = r.attempts + 1, !.due = FALSE,
                      !.state = IF r.attempts + 1 >= MaxAttempts THEN "failed" ELSE r.state],
            batch[w].effects[e])]
  BY DEF FailDelivery
<1>4. e \in batch[w].todo /\ e \in DOMAIN batch[w].rows
  BY <1>1, <1>3 DEF Oldest, IsBatch
<1>5. PICK r : r = batch[w].rows[e]
  OBVIOUS
<1>6. PICK n : n = batch[w].effects[e]
  OBVIOUS
<1>7. r \in Row /\ n \in Nat
  BY <1>1, <1>4, <1>5, <1>6 DEF IsBatch
<1>8. r.state = "pending" /\ Agree(r, n)
  BY <1>1, <1>4, <1>5, <1>6 DEF BatchAgrees
<1>9. r.attempts < MaxAttempts /\ r.attempts \in Nat
  BY <1>7, <1>8, RowFields DEF Agree
<1>10. PICK r2 : r2 = [r EXCEPT !.attempts = r.attempts + 1, !.due = FALSE,
                   !.state = IF r.attempts + 1 >= MaxAttempts THEN "failed" ELSE r.state]
  OBVIOUS
<1>11. /\ r2.received = r.received /\ r2.ordinal = r.ordinal /\ r2 \in Row
       /\ r2.state = "failed" \/ (r2.state = "pending" /\ r2.attempts < MaxAttempts)
  <2>1. PICK a, s : /\ a = r.attempts + 1
                    /\ s = IF r.attempts + 1 >= MaxAttempts THEN "failed" ELSE r.state
    OBVIOUS
  <2>2. /\ a \in 0 .. MaxAttempts
        /\ s = "failed" \/ (s = "pending" /\ a < MaxAttempts)
    BY <1>8, <1>9, <2>1, Bounds
  <2>3. r2 = [r EXCEPT !.attempts = a, !.due = FALSE, !.state = s]
    BY <1>10, <2>1
  <2>4. r2.attempts = a /\ r2.state = s /\ r2.received = r.received /\ r2.ordinal = r.ordinal
    BY <1>7, <2>3 DEF Row
  <2>5. s \in {"absent", "pending", "processed", "failed"}
    BY <2>2
  <2>6. r2 \in Row
    BY <1>7, <2>2, <2>3, <2>5 DEF Row
  <2> QED
    BY <2>2, <2>4, <2>6
<1>12. batch' = [batch EXCEPT ![w] = Done(batch[w], e, r2, n)]
  BY <1>3, <1>5, <1>6, <1>10
<1>13. Agree(r2, n)' /\ r2.state # "processed"
  <2>1. r2.state # "processed"
    BY <1>11
  <2>2. n = 0 /\ ~r.received /\ r.ordinal = 0 /\ r.ordinal <= ordinals
    BY <1>8 DEF Agree
  <2>3. r2.ordinal = 0 /\ r2.ordinal <= ordinals'
    BY <1>2, <1>11, <2>2
  <2>4. ~r2.received
    BY <1>11, <2>2
  <2>5. r2.state \in {"absent", "pending"} => r2.attempts < MaxAttempts
    BY <1>11
  <2> QED
    BY <2>1, <2>2, <2>3, <2>4, <2>5 DEF Agree
<1>14. ordinals' \in Nat /\ ordinals <= ordinals'
  BY <1>2 DEF IInv, TypeOK
<1> QED
  BY <1>1, <1>2, <1>4, <1>7, <1>11, <1>12, <1>13, <1>14, DoneStep

LEMMA CommitStep ==
    ASSUME IInv, NEW w \in Worker, Commit(w)
    PROVE  IInv'
<1> DEFINE b == batch[w]
<1>1. /\ Open(w) /\ b.todo = {}
      /\ row' = [e \in Event |-> IF e \in DOMAIN b.rows THEN b.rows[e] ELSE row[e]]
      /\ effects' = [e \in Event |-> IF e \in DOMAIN b.rows THEN b.effects[e] ELSE effects[e]]
      /\ batch' = [batch EXCEPT ![w] = NoBatch]
      /\ lock' = NoWorker /\ ordinals' = ordinals /\ cursors' = cursors
      /\ drops' = drops /\ retries' = retries
  BY DEF Commit
<1>2. IsBatch(b) /\ BatchAgrees(b) /\ lock = w
  BY <1>1 DEF IInv, TypeOK, BatchesAgree, Open
<1>3. /\ DOMAIN b.rows \subseteq Event
      /\ \A e \in DOMAIN b.rows : b.rows[e] \in Row /\ b.effects[e] \in Nat
  BY <1>2 DEF IsBatch
<1> HIDE DEF b
<1>4. /\ batch' = [v \in Worker |-> batch'[v]]
      /\ \A v \in Worker : batch'[v] = NoBatch
  <2>1. \A v \in Worker : v # w => batch[v] = NoBatch
    BY <1>2 DEF IInv, TypeOK
  <2> QED
    BY <1>1, <2>1 DEF IInv, TypeOK
<1>5. row' \in [Event -> Row] /\ effects' \in [Event -> Nat]
  BY <1>1, <1>3 DEF IInv, TypeOK
<1>6. TypeOK'
  BY <1>1, <1>4, <1>5 DEF IInv, TypeOK
<1>7. RowsAgree'
  <2> SUFFICES ASSUME NEW e \in Event PROVE Agree(row[e], effects[e])'
    BY DEF RowsAgree
  <2>1. CASE e \in DOMAIN b.rows
    <3>1. Agree(b.rows[e], b.effects[e])
      BY <1>2, <2>1 DEF BatchAgrees
    <3>2. row'[e] = b.rows[e] /\ effects'[e] = b.effects[e]
      BY <1>1, <2>1
    <3> QED
      BY <1>1, <3>1, <3>2 DEF Agree
  <2>2. CASE e \notin DOMAIN b.rows
    <3>1. Agree(row[e], effects[e])
      BY DEF IInv, RowsAgree
    <3>2. row'[e] = row[e] /\ effects'[e] = effects[e]
      BY <1>1, <2>2
    <3> QED
      BY <1>1, <3>1, <3>2 DEF Agree
  <2> QED
    BY <2>1, <2>2
<1>8. BatchesAgree'
  BY <1>4 DEF BatchesAgree, Open
<1>9. NothingSkipped'
  <2> SUFFICES ASSUME NEW c \in cursors, NEW e \in Event, row'[e].state = "processed",
                      row'[e].ordinal <= c.after
               PROVE  e \in c.seen
    BY <1>1 DEF NothingSkipped, Published
  <2>1. CASE e \in DOMAIN b.rows
    <3>1. row'[e] = b.rows[e] /\ row'[e] \in Row
      BY <1>1, <1>3, <2>1
    <3>2. c.after < b.rows[e].ordinal
      BY <1>2, <2>1, <3>1 DEF BatchAgrees, Unread
    <3>3. c.after \in Nat
      BY DEF IInv, TypeOK, Cursor
    <3> QED
      BY <3>1, <3>2, <3>3, RowFields
  <2>2. CASE e \notin DOMAIN b.rows
    <3>1. row'[e] = row[e]
      BY <1>1, <2>2
    <3> QED
      BY <3>1 DEF IInv, NothingSkipped, Published
  <2> QED
    BY <2>1, <2>2
<1> QED
  BY <1>6, <1>7, <1>8, <1>9 DEF IInv

LEMMA AbortStep ==
    ASSUME IInv, NEW w \in Worker, Abort(w)
    PROVE  IInv'
<1>1. /\ Open(w) /\ drops < MaxDrops /\ drops' = drops + 1
      /\ batch' = [batch EXCEPT ![w] = NoBatch] /\ lock' = NoWorker
      /\ row' = row /\ effects' = effects /\ ordinals' = ordinals /\ cursors' = cursors
      /\ retries' = retries
  BY DEF Abort
<1>2. drops' \in 0 .. MaxDrops
  BY <1>1, Bounds DEF IInv, TypeOK
<1>3. /\ batch' = [v \in Worker |-> batch'[v]]
      /\ \A v \in Worker : batch'[v] = NoBatch
  <2>1. lock = w
    BY <1>1 DEF IInv, TypeOK, Open
  <2>2. \A v \in Worker : v # w => batch[v] = NoBatch
    BY <2>1 DEF IInv, TypeOK
  <2> QED
    BY <1>1, <2>2 DEF IInv, TypeOK
<1>4. TypeOK'
  BY <1>1, <1>2, <1>3 DEF IInv, TypeOK
<1>5. BatchesAgree'
  BY <1>3 DEF BatchesAgree, Open
<1>6. Published' = Published
  BY <1>1 DEF Published
<1>7. RowsAgree' /\ NothingSkipped'
  BY <1>1, <1>6 DEF IInv, RowsAgree, Agree, NothingSkipped
<1> QED
  BY <1>4, <1>5, <1>7 DEF IInv

-----------------------------------------------------------------------------
\* Steps of the readers.

LEMMA ReadStep ==
    ASSUME IInv, NEW c \in cursors \cup {FromStart}, ReadPage(c)
    PROVE  IInv'
<1>1. /\ row' = row /\ effects' = effects /\ batch' = batch /\ lock' = lock
      /\ ordinals' = ordinals /\ drops' = drops /\ retries' = retries
  BY DEF ReadPage
<1>2. PICK last \in {row[e].ordinal : e \in Later(c)} \cup {c.after} :
        cursors' = cursors \cup
            {[after |-> last,
              seen |-> c.seen \cup {e \in Later(c) : row[e].ordinal <= last}]}
  BY DEF ReadPage
<1>3. /\ c \in Cursor /\ c.after <= ordinals /\ ordinals \in Nat
      /\ \A e \in Published : row[e].ordinal <= c.after => e \in c.seen
  <2>1. CASE c \in cursors
    BY <2>1 DEF IInv, TypeOK, NothingSkipped
  <2>2. CASE c = FromStart
    <3>1. c \in Cursor /\ c.after = 0
      BY <2>2 DEF FromStart, Cursor
    <3>2. ASSUME NEW e \in Published PROVE row[e].ordinal \in Nat /\ row[e].ordinal # 0
      <4>1. row[e] \in Row /\ row[e].ordinal # 0
        BY DEF IInv, TypeOK, RowsAgree, Agree, Published
      <4> QED
        BY <4>1, RowFields
    <3> QED
      BY <3>1, <3>2 DEF IInv, TypeOK
  <2> QED
    BY <2>1, <2>2
<1>4. Later(c) \subseteq Event /\ Later(c) \subseteq Published
  BY DEF Later, Published
<1>5. \A e \in Published : row[e].ordinal \in Nat /\ row[e].ordinal <= ordinals
  <2> TAKE e \in Published
  <2>1. row[e] \in Row /\ row[e].ordinal <= ordinals
    BY DEF IInv, TypeOK, RowsAgree, Agree, Published
  <2> QED
    BY <2>1, RowFields
<1>6. last \in Nat /\ last <= ordinals
  BY <1>2, <1>3, <1>4, <1>5 DEF Cursor
<1>7. PICK c2 : c2 = [after |-> last,
                      seen |-> c.seen \cup {e \in Later(c) : row[e].ordinal <= last}]
  OBVIOUS
<1>8. /\ c2 \in Cursor /\ c2.after = last
      /\ \A e \in Published : row[e].ordinal <= last => e \in c2.seen
  <2>1. c2.after = last /\ c2.seen = c.seen \cup {e \in Later(c) : row[e].ordinal <= last}
    BY <1>7
  <2>2. c2 \in Cursor
    BY <1>3, <1>4, <1>6, <1>7 DEF Cursor
  <2>3. ASSUME NEW e \in Published, row[e].ordinal <= last
        PROVE  e \in c2.seen
    <3>1. c.after \in Nat
      BY <1>3 DEF Cursor
    <3>2. row[e].ordinal <= c.after \/ row[e].ordinal > c.after
      BY <1>5, <3>1
    <3> QED
      BY <1>3, <2>1, <2>3, <3>2 DEF Later
  <2> QED
    BY <2>1, <2>2, <2>3
<1>9. cursors' = cursors \cup {c2}
  BY <1>2, <1>7
<1>10. TypeOK'
  <2>1. cursors' \subseteq Cursor /\ \A x \in cursors' : x.after <= ordinals
    BY <1>6, <1>8, <1>9 DEF IInv, TypeOK
  <2> QED
    BY <1>1, <2>1 DEF IInv, TypeOK
<1>11. Published' = Published
  BY <1>1 DEF Published
<1>12. NothingSkipped'
  <2>1. \A x \in cursors' : {e \in Published : row[e].ordinal <= x.after} \subseteq x.seen
    BY <1>8, <1>9 DEF IInv, NothingSkipped
  <2> QED
    BY <1>1, <1>11, <2>1 DEF NothingSkipped
<1>13. ASSUME NEW r \in Row, NEW n, Agree(r, n), r.state = "processed", Unread(r)
       PROVE  Unread(r)'
  <2>1. r.ordinal \in Nat /\ r.ordinal # 0
    BY <1>13, RowFields DEF Agree
  <2>2. last < r.ordinal
    BY <1>2, <1>4, <1>13, <2>1 DEF Unread, FromStart
  <2> QED
    BY <1>1, <1>8, <1>9, <1>11, <1>13, <2>2 DEF Unread
<1>14. BatchesAgree'
  <2> SUFFICES ASSUME NEW w \in Worker, Open(w) PROVE BatchAgrees(batch[w])'
    BY <1>1 DEF BatchesAgree, Open
  <2>1. PICK b : b = batch[w]
    OBVIOUS
  <2>2. BatchAgrees(b) /\ IsBatch(b)
    BY <2>1 DEF IInv, TypeOK, BatchesAgree, Open
  <2>3. ASSUME NEW e \in DOMAIN b.rows
        PROVE  Agree(b.rows[e], b.effects[e])' /\ (b.rows[e].state = "processed" => Unread(b.rows[e])')
    <3>1. b.rows[e] \in Row
      BY <2>2 DEF IsBatch
    <3>2. Agree(b.rows[e], b.effects[e]) /\ (b.rows[e].state = "processed" => Unread(b.rows[e]))
      BY <2>2 DEF BatchAgrees
    <3>3. Agree(b.rows[e], b.effects[e])'
      BY <1>1, <3>2 DEF Agree
    <3> QED
      BY <1>13, <3>1, <3>2, <3>3
  <2>4. BatchAgrees(b)'
    BY <2>2, <2>3 DEF BatchAgrees
  <2> QED
    BY <1>1, <2>1, <2>4
<1>15. RowsAgree'
  BY <1>1 DEF IInv, RowsAgree, Agree
<1> QED
  BY <1>10, <1>12, <1>14, <1>15 DEF IInv

LEMMA DropStep ==
    ASSUME IInv, NEW c \in cursors, DropCursor(c)
    PROVE  IInv'
<1>1. /\ row' = row /\ effects' = effects /\ batch' = batch /\ lock' = lock
      /\ ordinals' = ordinals /\ drops' = drops /\ retries' = retries
      /\ cursors' \subseteq cursors
  BY DEF DropCursor
<1>2. TypeOK'
  BY <1>1 DEF IInv, TypeOK
<1>3. Published' = Published
  BY <1>1 DEF Published
<1>4. RowsAgree' /\ NothingSkipped'
  BY <1>1, <1>3 DEF IInv, RowsAgree, Agree, NothingSkipped
<1>5. BatchesAgree'
  BY <1>1, <1>3 DEF IInv, BatchesAgree, BatchAgrees, Open, Agree, Unread
<1> QED
  BY <1>2, <1>4, <1>5 DEF IInv

-----------------------------------------------------------------------------

LEMMA Initially == Init => IInv
<1> SUFFICES ASSUME Init PROVE IInv
  OBVIOUS
<1>1. Absent \in Row
  <2>1. 0 \in 0 .. MaxAttempts
    BY Bounds
  <2> QED
    BY <2>1 DEF Absent, Row
<1>2. 0 \in 0 .. MaxDrops /\ 0 \in 0 .. MaxRetries
  BY Bounds
<1>3. TypeOK
  BY <1>1, <1>2 DEF Init, TypeOK
<1>4. Agree(Absent, 0)
  <2>1. /\ Absent.state = "absent" /\ Absent.ordinal = 0 /\ ~Absent.received
        /\ Absent.attempts = 0 /\ ordinals = 0
    BY DEF Absent, Init
  <2> QED
    BY <2>1, Bounds DEF Agree
<1>5. RowsAgree
  BY <1>4 DEF Init, RowsAgree
<1> QED
  BY <1>3, <1>5 DEF Init, IInv, BatchesAgree, Open, NothingSkipped

LEMMA Step == IInv /\ [Next]_vars => IInv'
<1> SUFFICES ASSUME IInv, [Next]_vars PROVE IInv'
  OBVIOUS
<1>1. CASE Next
  BY <1>1, CommittedRows, BeginStep, DeliverStep, FailStep, CommitStep, AbortStep, ReadStep,
     DropStep DEF Next
<1>2. CASE UNCHANGED vars
  <2>1. /\ row' = row /\ effects' = effects /\ batch' = batch /\ lock' = lock
        /\ ordinals' = ordinals /\ cursors' = cursors /\ drops' = drops /\ retries' = retries
    BY <1>2 DEF vars
  <2>2. Published' = Published
    BY <2>1 DEF Published
  <2>3. TypeOK' /\ RowsAgree' /\ NothingSkipped'
    BY <2>1, <2>2 DEF IInv, TypeOK, RowsAgree, Agree, NothingSkipped
  <2>4. BatchesAgree'
    BY <2>1, <2>2 DEF IInv, BatchesAgree, BatchAgrees, Open, Agree, Unread
  <2> QED
    BY <2>3, <2>4 DEF IInv
<1> QED
  BY <1>1, <1>2

LEMMA Invariant == Spec => []IInv
BY Initially, Step, PTL DEF Spec

\* The rows, the open batch and the cursors are well formed, and only the worker that has
\* the advisory lock has a batch open.
THEOREM TypeCorrect == Spec => []TypeOK
<1>1. IInv => TypeOK
  BY DEF IInv
<1> QED
  BY <1>1, Invariant, PTL

\* However many attempts, aborted batches and retries by hand there were, the handler has
\* taken effect once for an event that is published and never for one that is not.
THEOREM EventsHandledOnce == Spec => []HandledOnce
<1>1. IInv => HandledOnce
  BY DEF IInv, RowsAgree, Agree, HandledOnce
<1> QED
  BY <1>1, Invariant, PTL

\* However batches fail and commit between two pages, every published event up to a
\* bookmark was scanned on the way there.
THEOREM CursorsSkipNothing == Spec => []NothingSkipped
<1>1. IInv => NothingSkipped
  BY DEF IInv
<1> QED
  BY <1>1, Invariant, PTL
=============================================================================
