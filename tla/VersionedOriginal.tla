------------------------- MODULE VersionedOriginal -------------------------
(***************************************************************************)
(* What the server promises about one logical original, whoever writes     *)
(* to it and however often a request is repeated: its binary revisions     *)
(* form a sequence that only grows, a save is accepted only on top of the  *)
(* revision it names, and one idempotency key of one writer is committed   *)
(* at most once.  Leases, tokens, clocks and concurrency are absent here;  *)
(* OfficeServer adds them and is shown to implement this specification,    *)
(* and SyncClient runs its clients against it.                             *)
(***************************************************************************)
EXTENDS Naturals, Sequences

CONSTANTS
    Writer,    \* edit sessions, and the browser's manual-upload session
    Key,       \* idempotency keys
    Content,   \* SHA-256 digests of file contents
    First      \* digest of the file the original was created from,
               \* an element of Content

VARIABLES
    history,   \* binary_revisions: history[r] is the digest of revision r
    receipts   \* office_save_receipts

originalVars == <<history, receipts>>

Receipt == [writer: Writer, key: Key, expected: Nat, revision: Nat, sha: Content]

TypeOK ==
    /\ history \in Seq(Content)
    /\ receipts \subseteq Receipt

Revision == Len(history)
Current  == history[Len(history)]

\* session.get(OfficeSaveReceipt, (identity, key))
ReceiptsOf(w, k) == {r \in receipts : r.writer = w /\ r.key = k}

Init ==
    /\ history = <<First>>
    /\ receipts = {}

\* Slips in Commit that the properties below must notice: a receipt that names
\* the next revision even when the bytes did not change ...
CommitMiscountsRevision(w, k, expected, c) ==
    /\ ReceiptsOf(w, k) = {}
    /\ expected = Revision
    /\ history' = IF c = Current THEN history ELSE Append(history, c)
    /\ receipts' = receipts \cup
           {[writer |-> w, key |-> k, expected |-> expected,
             revision |-> expected + 1, sha |-> c]}

\* ... and a save that does not look its key up first.
CommitForgetsKey(w, k, expected, c) ==
    /\ expected = Revision
    /\ history' = IF c = Current THEN history ELSE Append(history, c)
    /\ receipts' = receipts \cup
           {[writer |-> w, key |-> k, expected |-> expected,
             revision |-> Len(history'), sha |-> c]}

(***************************************************************************)
(* The body of commit_save once its caller is authorised: an unknown key   *)
(* on the current revision appends the content, or acknowledges it in      *)
(* place when the bytes did not change, and leaves a receipt.              *)
(***************************************************************************)
Commit(w, k, expected, c) ==
    /\ ReceiptsOf(w, k) = {}
    /\ expected = Revision
    /\ history' = IF c = Current THEN history ELSE Append(history, c)
    /\ receipts' = receipts \cup
           {[writer |-> w, key |-> k, expected |-> expected,
             revision |-> Len(history'), sha |-> c]}

Next == \E w \in Writer, k \in Key, c \in Content : Commit(w, k, Revision, c)

Spec == Init /\ [][Next]_originalVars

-----------------------------------------------------------------------------
\* Every receipt tells the truth for ever: the revision it names exists, holds
\* the bytes that were sent, and is the one the client asked to write on or its
\* direct successor (commit_save's answer to a replay is built from it).
ReceiptsTruthful ==
    \A r \in receipts :
        /\ r.revision \in 1 .. Len(history)
        /\ history[r.revision] = r.sha
        /\ r.expected \in {r.revision, r.revision - 1} \ {0}

\* One idempotency key of one writer has one receipt, and two receipts never
\* claim the same appended revision: no retry and no competing writer is
\* acknowledged for bytes another save put there.
OneCommitPerKey ==
    \A r, q \in receipts :
        /\ (r.writer = q.writer /\ r.key = q.key) => r = q
        /\ (/\ r.revision = q.revision
            /\ r.expected < r.revision
            /\ q.expected < q.revision) => r = q

\* binary_revisions is append-only.
HistoryAppendOnly ==
    [][/\ Len(history') \in {Len(history), Len(history) + 1}
       /\ SubSeq(history', 1, Len(history)) = history]_history
=============================================================================
