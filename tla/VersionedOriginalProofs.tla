---------------------- MODULE VersionedOriginalProofs ----------------------
(***************************************************************************)
(* The versioned original keeps its promises for any set of writers, keys  *)
(* and contents and for histories of any length.                           *)
(***************************************************************************)
EXTENDS VersionedOriginal, TLAPS

\* The history is never empty, so Current is always a digest.
NonEmpty == history # <<>>

\* Every receipt of an appended revision is the only one of that revision,
\* and a receipt never names a revision that does not exist yet.
IInv == TypeOK /\ NonEmpty /\ ReceiptsTruthful /\ OneCommitPerKey

\* One commit writes one new receipt, whose revision is the last one and
\* whose content is the last content.
LEMMA CommitEffect ==
    ASSUME TypeOK, NonEmpty,
           NEW w \in Writer, NEW k \in Key, NEW c \in Content,
           Commit(w, k, Revision, c)
    PROVE  /\ history' \in Seq(Content)
           /\ Len(history) \in Nat \ {0}
           /\ Len(history') \in {Len(history), Len(history) + 1}
           /\ history'[Len(history')] = c
           /\ \A i \in 1 .. Len(history) : history'[i] = history[i]
           /\ Len(history') = Len(history) => history' = history
<1>1. Len(history) \in Nat \ {0}
  BY DEF TypeOK, NonEmpty
<1>2. CASE c = Current
  BY <1>1, <1>2 DEF Commit, TypeOK, Current
<1>3. CASE c # Current
  <2>1. history' = Append(history, c)
    BY <1>3 DEF Commit
  <2> QED
    BY <1>1, <2>1 DEF TypeOK
<1> QED
  BY <1>2, <1>3

\* Type correctness: the history is a sequence of digests and the receipts
\* are well-formed in every reachable state.
THEOREM TypeCorrect ==
    ASSUME First \in Content
    PROVE  Spec => [](TypeOK /\ NonEmpty)
<1>1. Init => TypeOK /\ NonEmpty
  BY DEF Init, TypeOK, NonEmpty
<1>2. TypeOK /\ NonEmpty /\ [Next]_originalVars => TypeOK' /\ NonEmpty'
  <2> SUFFICES ASSUME TypeOK, NonEmpty, [Next]_originalVars
               PROVE  TypeOK' /\ NonEmpty'
    OBVIOUS
  <2>1. CASE UNCHANGED originalVars
    BY <2>1 DEF originalVars, TypeOK, NonEmpty
  <2>2. ASSUME NEW w \in Writer, NEW k \in Key, NEW c \in Content,
               Commit(w, k, Revision, c)
        PROVE  TypeOK' /\ NonEmpty'
    <3>1. /\ history' \in Seq(Content)
          /\ Len(history') \in Nat \ {0}
          /\ Revision \in Nat
      BY <2>2, CommitEffect DEF Revision
    <3>2. receipts' \subseteq Receipt
      BY <2>2, <3>1 DEF Commit, TypeOK, Receipt
    <3> QED
      BY <3>1, <3>2 DEF TypeOK, NonEmpty
  <2> QED
    BY <2>1, <2>2 DEF Next
<1> QED
  BY <1>1, <1>2, PTL DEF Spec

\* Receipts stay truthful and unique per key and per appended revision.
THEOREM ReceiptsCorrect ==
    ASSUME First \in Content
    PROVE  Spec => []IInv
<1>1. Init => IInv
  BY DEF Init, IInv, TypeOK, NonEmpty, ReceiptsTruthful, OneCommitPerKey
<1>2. IInv /\ (TypeOK /\ NonEmpty)' /\ [Next]_originalVars => IInv'
  <2> SUFFICES ASSUME IInv, (TypeOK /\ NonEmpty)', [Next]_originalVars
               PROVE  (ReceiptsTruthful /\ OneCommitPerKey)'
    BY DEF IInv
  <2>1. CASE UNCHANGED originalVars
    BY <2>1 DEF originalVars, IInv, ReceiptsTruthful, OneCommitPerKey
  <2>2. ASSUME NEW w \in Writer, NEW k \in Key, NEW c \in Content,
               Commit(w, k, Revision, c)
        PROVE  (ReceiptsTruthful /\ OneCommitPerKey)'
    <3> DEFINE new == [writer |-> w, key |-> k, expected |-> Revision,
                       revision |-> Len(history'), sha |-> c]
    <3>1. /\ Len(history) \in Nat \ {0}
          /\ Len(history') \in {Len(history), Len(history) + 1}
          /\ history'[Len(history')] = c
          /\ \A i \in 1 .. Len(history) : history'[i] = history[i]
      BY <2>2, CommitEffect DEF IInv
    <3>2. /\ receipts' = receipts \cup {new}
          /\ \A r \in receipts : ~(r.writer = w /\ r.key = k)
      BY <2>2 DEF Commit, ReceiptsOf
    <3>3. \A r \in receipts : r.revision \in 1 .. Len(history)
      BY DEF IInv, ReceiptsTruthful
    <3>4. ReceiptsTruthful'
      <4> SUFFICES ASSUME NEW r \in receipts'
                   PROVE  /\ r.revision \in 1 .. Len(history')
                          /\ history'[r.revision] = r.sha
                          /\ r.expected \in {r.revision, r.revision - 1} \ {0}
        BY DEF ReceiptsTruthful
      <4>1. CASE r \in receipts
        BY <3>1, <4>1 DEF IInv, ReceiptsTruthful
      <4>2. CASE r = new
        BY <3>1, <4>2 DEF Revision
      <4> QED
        BY <3>2, <4>1, <4>2
    <3>5. OneCommitPerKey'
      <4> SUFFICES ASSUME NEW r \in receipts', NEW q \in receipts'
                   PROVE  /\ (r.writer = q.writer /\ r.key = q.key) => r = q
                          /\ (/\ r.revision = q.revision
                              /\ r.expected < r.revision
                              /\ q.expected < q.revision) => r = q
        BY DEF OneCommitPerKey
      <4>1. CASE r \in receipts /\ q \in receipts
        BY <4>1 DEF IInv, OneCommitPerKey
      <4>2. CASE r = new /\ q = new
        BY <4>2
      <4>3. ASSUME NEW p \in receipts
            PROVE  /\ ~(p.writer = new.writer /\ p.key = new.key)
                   /\ ~(/\ p.revision = new.revision
                        /\ p.expected < p.revision
                        /\ new.expected < new.revision)
        BY <3>1, <3>2, <3>3 DEF Revision
      <4> QED
        BY <3>2, <4>1, <4>2, <4>3
    <3> QED
      BY <3>4, <3>5
  <2> QED
    BY <2>1, <2>2 DEF Next
<1> QED
  BY <1>1, <1>2, TypeCorrect, PTL DEF Spec
=============================================================================
