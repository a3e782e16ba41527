--------------------------- MODULE ContentPipeline --------------------------
(***************************************************************************)
(* The worker processes as a whole (main of jobs/worker.py): the same      *)
(* process delivers a batch of events, catches up on the backlog and       *)
(* parses a file, one after the other.  A committed batch has indexed the  *)
(* documents its events are about and queued their files; the events of    *)
(* other objects change no content.  The events an extraction itself emits *)
(* are such events and are not told apart from them.                       *)
(***************************************************************************)
EXTENDS OutboxFeed, Extraction

CONSTANT NoDoc

ASSUME WorkersParse == Parser = Worker /\ NoDoc \notin Doc

VARIABLE subject    \* [Event -> the document the event is about, or NoDoc]

pipelineVars == <<vars, contentVars, subject>>

PipelineInit == Init /\ ContentInit /\ subject = [e \in Event |-> NoDoc]

\* A document changes and the event of the change commits with it.
ChangeDocument(e, d) ==
    /\ Edit(d) \/ Delete(d)
    /\ Enqueue(e)
    /\ subject' = [subject EXCEPT ![e] = d]

\* A worker does one thing at a time.
Sequential == \A w \in Worker : batch[w] = NoBatch \/ job[w] = NoJob

\* The documents whose events a step of the feed has handled for good.  Their rows
\* stay locked until the batch commits, so what handle_event read is still so.
HandledNow == {subject[e] : e \in {f \in Event : effects'[f] # effects[f]}} \ {NoDoc}

FeedStep == Next /\ IndexAndQueue(HandledNow) /\ UNCHANGED subject
Idle(w) == batch[w] = NoBatch
ContentStep ==
    /\ Ask \/ TimePasses \/ \E w \in Worker : Idle(w) /\ Work(w)
    /\ UNCHANGED <<vars, subject>>

PipelineNext ==
    /\ FeedStep \/ ContentStep \/ \E e \in Event, d \in Doc : ChangeDocument(e, d)
    /\ Sequential'

\* The loop of main comes round every two seconds, whatever it raised; parsers are
\* killed after PARSER_SECONDS; backoffs and leases end.  Producers, users, readers
\* and administrators owe nothing.
Fairness ==
    /\ \A e \in Event : WF_vars(BecomeDue(e))
    /\ WF_vars(\E w \in Worker : job[w] = NoJob /\ Begin(w))
    /\ \A w \in Worker : WF_vars(Deliver(w) \/ FailDelivery(w) \/ Commit(w) \/ Abort(w))
    /\ WF_contentVars(\E w \in Worker : Idle(w) /\ Backlog(w))
    /\ WF_contentVars(\E w \in Worker : Idle(w) /\ TakeClaim(w))
    /\ \A w \in Worker :
           WF_contentVars(LoseJob(w) \/ \E outcome \in Outcome : Finish(w, outcome))
    /\ \A d \in Doc : WF_contentVars(LeaseRunsOut(d)) /\ WF_contentVars(BackoffEnds(d))

PipelineSpec == PipelineInit /\ [][PipelineNext]_pipelineVars /\ Fairness
=============================================================================
