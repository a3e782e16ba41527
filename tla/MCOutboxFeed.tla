--------------------------- MODULE MCOutboxFeed ---------------------------
(* ContentPipeline on a small instance; see MCOutboxFeed.cfg. *)
EXTENDS ContentPipeline

\* The feed is explored with MaxEvent events about other objects, and the pipeline
\* with the changes of a document only, while nobody reads the feed.
Narrow ==
    (\E d \in Doc : Exists(d))' =>
        /\ cursors' = {} /\ retries' = 0
        /\ \A e \in Event : row'[e].state # "absent" => e # MaxEvent /\ subject'[e] # NoDoc
===========================================================================
