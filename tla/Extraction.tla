----------------------------- MODULE Extraction -----------------------------
(***************************************************************************)
(* Text extraction and indexing of registry documents (content/worker.py,  *)
(* indexing.py): a file's extraction is queued by the event of its upload, *)
(* by the backlog or by hand; a worker claims it under a lease, parses it  *)
(* outside any transaction and stores the result in another one.  Workers  *)
(* die at any point, leases run out under a parser that is only slow, and  *)
(* the API's retry writes a row it has read without a lock.                *)
(*                                                                         *)
(* Each document has one file, uploaded with it.  Chunks are stored with   *)
(* the blocks they are cut from and are not told apart from them.          *)
(***************************************************************************)
EXTENDS Naturals, FiniteSets

CONSTANTS
    Doc,          \* documents with a file (a bound)
    Parser,       \* worker processes
    MaxAsked,     \* bound on the POST files/{id}/extract in flight on one file
    MaxTries,     \* MAX_ATTEMPTS: 3
    MaxEdits      \* bound on the revisions of a document

ASSUME ExtractionAssumption == MaxTries \in Nat \ {0} /\ MaxEdits \in Nat

VARIABLES
    doc,        \* documents: revision, 0 before creation, and deleted_at
    index,      \* the revision whose metadata fragments are stored, or 0
    extraction, \* content_extractions of the file
    blocks,     \* the attempt whose document_blocks are stored, or 0
    job,        \* [Parser -> the claim it is parsing, or NoJob]
    asked,      \* [Doc -> [n -> how many of them have read it failed after n attempts]]
    overtaken   \* history: documents on which a retry overwrote a later claim

contentVars == <<doc, index, extraction, blocks, job, asked, overtaken>>

NoJob == [open |-> FALSE]
Claim(d, n) == [open |-> TRUE, doc |-> d, attempt |-> n]
\* due is next_attempt_at <= now, leased is lease_until > now.
NoExtraction == [state |-> "absent", attempts |-> 0, due |-> FALSE, leased |-> FALSE]

ContentInit ==
    /\ doc = [d \in Doc |-> [revision |-> 0, deleted |-> FALSE]]
    /\ index = [d \in Doc |-> 0]
    /\ extraction = [d \in Doc |-> NoExtraction]
    /\ blocks = [d \in Doc |-> 0]
    /\ job = [w \in Parser |-> NoJob]
    /\ asked = [d \in Doc |-> [n \in 1 .. MaxTries |-> 0]]
    /\ overtaken = {}

Exists(d) == doc[d].revision > 0
LiveDoc(d) == Exists(d) /\ ~doc[d].deleted
Queued == [NoExtraction EXCEPT !.state = "pending", !.due = TRUE]

\* create, edit or upload a version of a document; delete_document.
Edit(d) ==
    /\ ~doc[d].deleted /\ doc[d].revision < MaxEdits
    /\ doc' = [doc EXCEPT ![d].revision = @ + 1]
    /\ UNCHANGED <<index, extraction, blocks, job, asked, overtaken>>

Delete(d) ==
    /\ LiveDoc(d)
    /\ doc' = [doc EXCEPT ![d].deleted = TRUE]
    /\ UNCHANGED <<index, extraction, blocks, job, asked, overtaken>>

-----------------------------------------------------------------------------
\* index_metadata of the documents in D, at the revision they have now, and
\* queue_file of their files: an extraction that exists is left alone.
IndexAndQueue(D) ==
    /\ index' = [d \in Doc |->
           IF d \in D THEN IF LiveDoc(d) THEN doc[d].revision ELSE 0 ELSE index[d]]
    /\ extraction' = [d \in Doc |->
           IF d \in D /\ LiveDoc(d) /\ extraction[d] = NoExtraction THEN Queued
           ELSE extraction[d]]
    /\ UNCHANGED <<doc, blocks, job, asked, overtaken>>

\* process_backlog: what the events of live documents did not bring about.
Behind == {d \in Doc : LiveDoc(d) /\ (index[d] # doc[d].revision \/ extraction[d] = NoExtraction)}
Backlog(w) == job[w] = NoJob /\ Behind # {} /\ IndexAndQueue(Behind)

\* Slip: a claim is lost for good with its worker.
ReclaimNothing == extraction

\* The rows of workers that did not come back in time are queued again, or given up.
Reclaimed ==
    [d \in Doc |->
        LET x == extraction[d] IN
        IF x.state = "running" /\ ~x.leased
        THEN [x EXCEPT !.state = IF x.attempts < MaxTries THEN "pending" ELSE "failed"]
        ELSE x]

Claimable(x, d) == LiveDoc(d) /\ x.state = "pending" /\ x.due /\ x.attempts < MaxTries

\* _claim
TakeClaim(w) ==
    /\ job[w] = NoJob
    /\ \/ \E d \in Doc :
           LET x == Reclaimed[d] IN
           /\ Claimable(x, d)
           /\ extraction' = [Reclaimed EXCEPT ![d] =
                  [x EXCEPT !.state = "running", !.attempts = @ + 1, !.leased = TRUE]]
           /\ job' = [job EXCEPT ![w] = Claim(d, x.attempts + 1)]
       \/ /\ \A d \in Doc : ~Claimable(Reclaimed[d], d)
          /\ Reclaimed # extraction
          /\ extraction' = Reclaimed /\ job' = job
    /\ UNCHANGED <<doc, index, blocks, asked, overtaken>>

\* Slip: a result is stored for any running extraction.
StillMineByState(c) == extraction[c.doc].state = "running"

\* The row is still in the run the claim started.
StillMine(c) ==
    /\ extraction[c.doc].state = "running"
    /\ extraction[c.doc].attempts = c.attempt

\* The state a result leaves the row in; a transient failure is tried again.
After(outcome, n) ==
    IF outcome # "transient" THEN outcome ELSE IF n < MaxTries THEN "pending" ELSE "failed"

\* process_extractions, once the parser has answered.  "closed" stands for
\* no_text, unsupported and encrypted.  Blocks have deterministic keys: storing
\* them twice fails, and the claim is left to its lease.
Finish(w, outcome) ==
    LET c == job[w] d == c.doc
        stores == StillMine(c) /\ (outcome = "completed" => blocks[d] = 0)
    IN
    /\ c # NoJob
    /\ job' = [job EXCEPT ![w] = NoJob]
    /\ extraction' =
           IF stores
           THEN [extraction EXCEPT ![d] =
                    [@ EXCEPT !.state = After(outcome, extraction[d].attempts),
                              !.due = outcome # "transient", !.leased = FALSE]]
           ELSE extraction
    /\ blocks' = IF stores /\ outcome = "completed"
                 THEN [blocks EXCEPT ![d] = c.attempt] ELSE blocks
    /\ UNCHANGED <<doc, index, asked, overtaken>>

\* The worker dies with its claim.
LoseJob(w) ==
    /\ job[w] # NoJob
    /\ job' = [job EXCEPT ![w] = NoJob]
    /\ UNCHANGED <<doc, index, extraction, blocks, asked, overtaken>>

LeaseRunsOut(d) ==
    /\ extraction[d].state = "running" /\ extraction[d].leased
    /\ extraction' = [extraction EXCEPT ![d].leased = FALSE]
    /\ UNCHANGED <<doc, index, blocks, job, asked, overtaken>>

BackoffEnds(d) ==
    /\ extraction[d].state = "pending" /\ ~extraction[d].due
    /\ extraction' = [extraction EXCEPT ![d].due = TRUE]
    /\ UNCHANGED <<doc, index, blocks, job, asked, overtaken>>

-----------------------------------------------------------------------------
\* extract, queue_file(retry=True): the row is read without a lock, and written
\* when the request commits.
AskRetry(d) ==
    LET n == extraction[d].attempts IN
    /\ LiveDoc(d)
    /\ extraction[d].state = "failed" /\ n < MaxTries
    /\ asked[d][n] < MaxAsked
    /\ asked' = [asked EXCEPT ![d][n] = @ + 1]
    /\ UNCHANGED <<doc, index, extraction, blocks, job, overtaken>>

WriteRetry(d, n) ==
    /\ asked[d][n] > 0
    /\ asked' = [asked EXCEPT ![d][n] = @ - 1]
    /\ extraction' = [extraction EXCEPT ![d].state = "pending", ![d].due = TRUE,
                                        ![d].leased = FALSE]
    /\ overtaken' = IF extraction[d].attempts # n THEN overtaken \cup {d} ELSE overtaken
    /\ UNCHANGED <<doc, index, blocks, job>>

Outcome == {"completed", "closed", "failed", "transient"}

Work(w) ==
    \/ Backlog(w) \/ TakeClaim(w) \/ LoseJob(w)
    \/ \E outcome \in Outcome : Finish(w, outcome)

Ask == \E d \in Doc : AskRetry(d) \/ \E n \in 1 .. MaxTries : WriteRetry(d, n)
TimePasses == \E d \in Doc : LeaseRunsOut(d) \/ BackoffEnds(d)

-----------------------------------------------------------------------------
\* However many workers claimed a file, died or answered late, the blocks stored
\* are those of its last claim, exactly when it is completed, and a queued file
\* can still be claimed -- unless a retry wrote over a claim it had not seen.
LastClaimDecides ==
    \A d \in Doc \ overtaken :
        LET x == extraction[d] IN
        /\ blocks[d] = IF x.state = "completed" THEN x.attempts ELSE 0
        /\ x.state = "pending" => x.attempts < MaxTries
        /\ x.attempts <= MaxTries
        /\ Cardinality({w \in Parser : job[w] = Claim(d, x.attempts)}) <= 1

\* Every document in use is in the end indexed as it is, and its file extracted or
\* reported as failed, even if its events failed, workers died and parsers hung.
ContentSettles ==
    \A d \in Doc :
        LiveDoc(d) ~>
            \/ doc[d].deleted \/ d \in overtaken
            \/ /\ index[d] = doc[d].revision
               /\ extraction[d].state \in {"completed", "closed", "failed"}
=============================================================================
