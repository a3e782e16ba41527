------------------------ MODULE ContentPipelineProofs -----------------------
(***************************************************************************)
(* What is proved of the worker processes, whatever they are, whatever the *)
(* documents and the bounds: the feed inside the pipeline keeps all that   *)
(* OutboxFeedProofs shows of the feed alone, and the text stored of a file *)
(* is that of its last claim.                                              *)
(***************************************************************************)
EXTENDS ContentPipeline, OutboxFeedProofs, FiniteSetTheorems

-----------------------------------------------------------------------------
\* The pipeline only restrains the feed: parsing and the users' requests leave it
\* alone, and a document's change produces an event like any other.

LEMMA FeedStepOrStutter == PipelineNext => [Next]_vars
  BY DEF PipelineNext, FeedStep, ContentStep, ChangeDocument, Next

\* Each behaviour of the worker processes is one of the outbox and its feed.
THEOREM PipelineRunsTheFeed == PipelineSpec => Spec
<1>1. PipelineInit => Init
  BY DEF PipelineInit
<1>2. [PipelineNext]_pipelineVars => [Next]_vars
  BY FeedStepOrStutter DEF pipelineVars
<1> QED
  BY <1>1, <1>2, PTL DEF PipelineSpec, Spec

\* The feed's variables keep their types in the worker processes.
THEOREM PipelineTypeCorrect == PipelineSpec => []TypeOK
  BY PipelineRunsTheFeed, TypeCorrect, PTL

\* No event is handled twice, or published without having been handled, while the
\* same processes index, parse and die.
THEOREM PipelineHandlesOnce == PipelineSpec => []HandledOnce
  BY PipelineRunsTheFeed, EventsHandledOnce, PTL

\* A reader that follows its bookmarks misses no event the processes published.
THEOREM PipelineSkipsNothing == PipelineSpec => []NothingSkipped
  BY PipelineRunsTheFeed, CursorsSkipNothing, PTL

-----------------------------------------------------------------------------
\* The inductive invariant of the extractions.

ExtractionRow ==
    [state: {"absent", "pending", "running", "completed", "closed", "failed"},
     attempts: Nat, due: BOOLEAN, leased: BOOLEAN]
ClaimOf == [open: {TRUE}, doc: Doc, attempt: Nat]
Request == [1 .. MaxTries -> Nat]

ContentTypes ==
    /\ extraction \in [Doc -> ExtractionRow]
    /\ blocks \in [Doc -> Nat]
    /\ job \in [Parser -> ClaimOf \cup {NoJob}]
    /\ asked \in [Doc -> Request]
    /\ overtaken \subseteq Doc

\* A claim counts an attempt the row has counted, and no two workers parse for the
\* same one: a worker that answers late can tell that it is late.
ClaimsCounted ==
    \A w \in Parser : job[w] # NoJob => job[w].attempt <= extraction[job[w].doc].attempts
ClaimsDistinct ==
    \A w, v \in Parser : job[w] # NoJob /\ job[w] = job[v] => w = v

\* A row, its blocks and the requests that have read it: a request that has read the
\* row failed finds it failed, or queued by another request, as long as its attempts
\* are what they were.
RowDecided(x, stored, requests) ==
    /\ x.attempts <= MaxTries
    /\ x.state = "pending" => x.attempts < MaxTries
    /\ stored = IF x.state = "completed" THEN x.attempts ELSE 0
    /\ \A n \in 1 .. MaxTries : requests[n] > 0 =>
          /\ n < MaxTries /\ n <= x.attempts
          /\ x.attempts = n => x.state \in {"failed", "pending"}

RowsDecided ==
    \A d \in Doc \ overtaken : RowDecided(extraction[d], blocks[d], asked[d])

ContentInv == ContentTypes /\ ClaimsCounted /\ ClaimsDistinct /\ RowsDecided

-----------------------------------------------------------------------------
LEMMA ExtractionFields ==
    ASSUME NEW x \in ExtractionRow
    PROVE  /\ x.state \in {"absent", "pending", "running", "completed", "closed", "failed"}
           /\ x.attempts \in Nat /\ x.due \in BOOLEAN /\ x.leased \in BOOLEAN
  BY DEF ExtractionRow

LEMMA AbsentIsARow ==
    /\ NoExtraction \in ExtractionRow /\ NoExtraction.state = "absent"
    /\ NoExtraction.attempts = 0
    /\ Queued \in ExtractionRow /\ Queued.state = "pending" /\ Queued.attempts = 0
  BY DEF NoExtraction, Queued, ExtractionRow

LEMMA ClaimFields ==
    ASSUME NEW d \in Doc, NEW n \in Nat
    PROVE  /\ Claim(d, n) \in ClaimOf /\ Claim(d, n) # NoJob
           /\ Claim(d, n).doc = d /\ Claim(d, n).attempt = n
<1>1. Claim(d, n).open # NoJob.open
  BY DEF Claim, NoJob
<1> QED
  BY <1>1 DEF Claim, ClaimOf

LEMMA ClaimParts ==
    ASSUME NEW c \in ClaimOf
    PROVE  c # NoJob /\ c.doc \in Doc /\ c.attempt \in Nat
<1>1. c.open # NoJob.open
  BY DEF ClaimOf, NoJob
<1> QED
  BY <1>1 DEF ClaimOf

\* A row that keeps its attempts and does not leave a state it would have to answer for
\* stays decided.
LEMMA StillDecided ==
    ASSUME NEW x \in ExtractionRow, NEW y \in ExtractionRow, NEW stored \in Nat,
           NEW requests \in Request, RowDecided(x, stored, requests),
           y.attempts = x.attempts,
           \/ y.state = x.state
           \/ x.state = "running" /\ y.state \in {"failed", "closed"}
           \/ x.state = "running" /\ y.state = "pending" /\ x.attempts < MaxTries
    PROVE  RowDecided(y, stored, requests)
  BY ExtractionFields DEF RowDecided, Request

\* Workers that keep or drop their claims, on rows that do not lose attempts.
LEMMA ClaimsStand ==
    ASSUME ClaimsCounted, ClaimsDistinct, ContentTypes, ContentTypes',
           \A w \in Parser : job'[w] = job[w] \/ job'[w] = NoJob,
           \A d \in Doc : extraction'[d].attempts >= extraction[d].attempts
    PROVE  ClaimsCounted' /\ ClaimsDistinct'
<1>1. ClaimsDistinct'
  BY DEF ClaimsDistinct
<1>2. ASSUME NEW w \in Parser, job'[w] # NoJob
      PROVE  job'[w].attempt <= extraction'[job'[w].doc].attempts
  <2>1. job'[w] = job[w] /\ job[w] \in ClaimOf
    BY <1>2 DEF ContentTypes
  <2>2. PICK d \in Doc : d = job[w].doc
    BY <2>1, ClaimParts
  <2>3. PICK n \in Nat : n = job[w].attempt
    BY <2>1, ClaimParts
  <2>4. n <= extraction[d].attempts
    BY <1>2, <2>1, <2>2, <2>3 DEF ClaimsCounted
  <2>5. extraction[d].attempts \in Nat /\ extraction'[d].attempts \in Nat
    BY ExtractionFields DEF ContentTypes
  <2> QED
    BY <2>1, <2>2, <2>3, <2>4, <2>5
<1> QED
  BY <1>1, <1>2 DEF ClaimsCounted

-----------------------------------------------------------------------------
LEMMA QueueStep ==
    ASSUME ContentInv, NEW D, IndexAndQueue(D)
    PROVE  ContentInv'
<1>1. /\ blocks' = blocks /\ job' = job /\ asked' = asked /\ overtaken' = overtaken
      /\ extraction' = [d \in Doc |->
           IF d \in D /\ LiveDoc(d) /\ extraction[d] = NoExtraction THEN Queued
           ELSE extraction[d]]
  BY DEF IndexAndQueue
<1>2. ASSUME NEW d \in Doc
      PROVE  extraction'[d] = extraction[d] \/
             (extraction[d] = NoExtraction /\ extraction'[d] = Queued)
  BY <1>1
<1>3. ContentTypes'
  BY <1>1, AbsentIsARow DEF ContentInv, ContentTypes
<1>4. \A d \in Doc : extraction'[d].attempts >= extraction[d].attempts
  BY <1>2, AbsentIsARow, ExtractionFields DEF ContentInv, ContentTypes
<1>5. ClaimsCounted' /\ ClaimsDistinct'
  BY <1>1, <1>3, <1>4, ClaimsStand DEF ContentInv
<1>6. ASSUME NEW d \in Doc \ overtaken
      PROVE  RowDecided(extraction'[d], blocks[d], asked[d])
  <2>1. RowDecided(extraction[d], blocks[d], asked[d]) /\ asked[d] \in Request
    BY DEF ContentInv, RowsDecided, ContentTypes
  <2>2. CASE extraction[d] = NoExtraction /\ extraction'[d] = Queued
    <3>1. 0 < MaxTries /\ 0 # MaxTries
      BY ExtractionAssumption
    <3> QED
      BY <2>1, <2>2, <3>1, AbsentIsARow DEF RowDecided, Request
  <2> QED
    BY <1>2, <2>1, <2>2
<1> QED
  BY <1>1, <1>3, <1>5, <1>6 DEF ContentInv, RowsDecided

\* What the reclaiming at the head of a claim leaves of a row.
LEMMA ReclaimedRows ==
    ASSUME ContentTypes
    PROVE  /\ Reclaimed \in [Doc -> ExtractionRow]
           /\ \A d \in Doc :
                 /\ Reclaimed[d].attempts = extraction[d].attempts
                 /\ \/ Reclaimed[d].state = extraction[d].state
                    \/ extraction[d].state = "running" /\ Reclaimed[d].state = "failed"
                    \/ /\ extraction[d].state = "running" /\ Reclaimed[d].state = "pending"
                       /\ extraction[d].attempts < MaxTries
<1>1. ASSUME NEW d \in Doc
      PROVE  /\ Reclaimed[d] \in ExtractionRow
             /\ Reclaimed[d].attempts = extraction[d].attempts
             /\ \/ Reclaimed[d].state = extraction[d].state
                \/ extraction[d].state = "running" /\ Reclaimed[d].state = "failed"
                \/ /\ extraction[d].state = "running" /\ Reclaimed[d].state = "pending"
                   /\ extraction[d].attempts < MaxTries
  <2>1. PICK x \in ExtractionRow : x = extraction[d]
    BY DEF ContentTypes
  <2>2. Reclaimed[d] = IF x.state = "running" /\ ~x.leased
                       THEN [x EXCEPT !.state = IF x.attempts < MaxTries
                                                THEN "pending" ELSE "failed"]
                       ELSE x
    BY <2>1 DEF Reclaimed
  <2> QED
    BY <2>1, <2>2 DEF ExtractionRow
<1>2. Reclaimed = [d \in Doc |-> Reclaimed[d]]
  BY DEF Reclaimed
<1> QED
  BY <1>1, <1>2

\* A step that changes no more than states, due and leases of rows, and drops claims.
LEMMA NothingNewStep ==
    ASSUME ContentInv, blocks' = blocks, asked' = asked, overtaken' = overtaken,
           extraction' \in [Doc -> ExtractionRow],
           job' \in [Parser -> ClaimOf \cup {NoJob}],
           \A w \in Parser : job'[w] = job[w] \/ job'[w] = NoJob,
           \A d \in Doc :
               /\ extraction'[d].attempts = extraction[d].attempts
               /\ \/ extraction'[d].state = extraction[d].state
                  \/ /\ extraction[d].state = "running"
                     /\ extraction'[d].state \in {"failed", "closed"}
                  \/ /\ extraction[d].state = "running" /\ extraction'[d].state = "pending"
                     /\ extraction[d].attempts < MaxTries
    PROVE  ContentInv'
<1>1. ContentTypes'
  BY DEF ContentInv, ContentTypes
<1>2. \A d \in Doc : extraction'[d].attempts >= extraction[d].attempts
  BY ExtractionFields DEF ContentInv, ContentTypes
<1>3. ClaimsCounted' /\ ClaimsDistinct'
  BY <1>1, <1>2, ClaimsStand DEF ContentInv
<1>4. ASSUME NEW d \in Doc \ overtaken
      PROVE  RowDecided(extraction'[d], blocks[d], asked[d])
  <2>1. /\ RowDecided(extraction[d], blocks[d], asked[d])
        /\ asked[d] \in Request /\ blocks[d] \in Nat
        /\ extraction[d] \in ExtractionRow /\ extraction'[d] \in ExtractionRow
    BY DEF ContentInv, RowsDecided, ContentTypes
  <2> QED
    BY <2>1, StillDecided
<1> QED
  BY <1>1, <1>3, <1>4 DEF ContentInv, RowsDecided

LEMMA IdleStep ==
    ASSUME ContentInv, extraction' = extraction, blocks' = blocks, job' = job,
           asked' = asked, overtaken' = overtaken
    PROVE  ContentInv'
  BY DEF ContentInv, ContentTypes, ClaimsCounted, ClaimsDistinct, RowsDecided

LEMMA LoseStep ==
    ASSUME ContentInv, NEW w \in Parser, LoseJob(w)
    PROVE  ContentInv'
<1>1. /\ extraction' = extraction /\ blocks' = blocks /\ asked' = asked
      /\ overtaken' = overtaken /\ job' = [job EXCEPT ![w] = NoJob]
  BY DEF LoseJob
<1>2. /\ extraction' \in [Doc -> ExtractionRow]
      /\ job' \in [Parser -> ClaimOf \cup {NoJob}]
      /\ \A v \in Parser : job'[v] = job[v] \/ job'[v] = NoJob
  BY <1>1 DEF ContentInv, ContentTypes
<1> QED
  BY <1>1, <1>2, NothingNewStep

LEMMA TimeStep ==
    ASSUME ContentInv, NEW d \in Doc, LeaseRunsOut(d) \/ BackoffEnds(d)
    PROVE  ContentInv'
<1>1. /\ blocks' = blocks /\ job' = job /\ asked' = asked /\ overtaken' = overtaken
      /\ \/ extraction' = [extraction EXCEPT ![d].leased = FALSE]
         \/ extraction' = [extraction EXCEPT ![d].due = TRUE]
  BY DEF LeaseRunsOut, BackoffEnds
<1>2. PICK x \in ExtractionRow : x = extraction[d]
  BY DEF ContentInv, ContentTypes
<1>3. PICK y \in ExtractionRow :
         /\ y.state = x.state /\ y.attempts = x.attempts
         /\ extraction' = [extraction EXCEPT ![d] = y]
  <2>1. CASE extraction' = [extraction EXCEPT ![d].leased = FALSE]
    <3>1. extraction' = [extraction EXCEPT ![d] = [x EXCEPT !.leased = FALSE]]
      BY <1>2, <2>1
    <3>2. [x EXCEPT !.leased = FALSE] \in ExtractionRow
      BY <1>2 DEF ExtractionRow
    <3> QED
      BY <1>2, <3>1, <3>2 DEF ExtractionRow
  <2>2. CASE extraction' = [extraction EXCEPT ![d].due = TRUE]
    <3>1. extraction' = [extraction EXCEPT ![d] = [x EXCEPT !.due = TRUE]]
      BY <1>2, <2>2
    <3>2. [x EXCEPT !.due = TRUE] \in ExtractionRow
      BY <1>2 DEF ExtractionRow
    <3> QED
      BY <1>2, <3>1, <3>2 DEF ExtractionRow
  <2> QED
    BY <1>1, <2>1, <2>2
<1>4. /\ extraction' \in [Doc -> ExtractionRow]
      /\ job' \in [Parser -> ClaimOf \cup {NoJob}]
      /\ \A f \in Doc : /\ extraction'[f].attempts = extraction[f].attempts
                        /\ extraction'[f].state = extraction[f].state
  BY <1>1, <1>2, <1>3 DEF ContentInv, ContentTypes
<1> QED
  BY <1>1, <1>4, NothingNewStep

-----------------------------------------------------------------------------
\* A new claim is numbered after every claim there is.
LEMMA ClaimStep ==
    ASSUME ContentInv, NEW w \in Parser, TakeClaim(w)
    PROVE  ContentInv'
<1>1. /\ job[w] = NoJob
      /\ blocks' = blocks /\ asked' = asked /\ overtaken' = overtaken
  BY DEF TakeClaim
<1>r. /\ Reclaimed \in [Doc -> ExtractionRow]
      /\ \A d \in Doc :
            /\ Reclaimed[d].attempts = extraction[d].attempts
            /\ \/ Reclaimed[d].state = extraction[d].state
               \/ extraction[d].state = "running" /\ Reclaimed[d].state = "failed"
               \/ /\ extraction[d].state = "running" /\ Reclaimed[d].state = "pending"
                  /\ extraction[d].attempts < MaxTries
  BY ReclaimedRows DEF ContentInv
<1>2. CASE extraction' = Reclaimed /\ job' = job
  <2>1. job' \in [Parser -> ClaimOf \cup {NoJob}]
    BY <1>2 DEF ContentInv, ContentTypes
  <2> QED
    BY <1>1, <1>2, <1>r, <2>1, NothingNewStep
<1>3. ASSUME NEW d \in Doc, NEW x, x = Reclaimed[d], Claimable(x, d),
             extraction' = [Reclaimed EXCEPT ![d] =
                  [x EXCEPT !.state = "running", !.attempts = @ + 1, !.leased = TRUE]],
             job' = [job EXCEPT ![w] = Claim(d, x.attempts + 1)]
      PROVE  ContentInv'
  <2>1. /\ x \in ExtractionRow /\ x.state = "pending" /\ x.attempts < MaxTries
        /\ x.attempts = extraction[d].attempts
    BY <1>3, <1>r DEF Claimable
  <2>2. PICK n \in Nat : n = x.attempts
    BY <2>1, ExtractionFields
  <2>3. PICK y \in ExtractionRow :
           /\ y.state = "running" /\ y.attempts = n + 1
           /\ extraction' = [Reclaimed EXCEPT ![d] = y]
    <3>1. n + 1 \in Nat
      OBVIOUS
    <3>2. [x EXCEPT !.state = "running", !.attempts = n + 1, !.leased = TRUE] \in ExtractionRow
      BY <2>1, <3>1 DEF ExtractionRow
    <3>3. extraction' = [Reclaimed EXCEPT ![d] =
             [x EXCEPT !.state = "running", !.attempts = n + 1, !.leased = TRUE]]
      BY <1>3, <2>2
    <3> QED
      BY <2>1, <3>2, <3>3 DEF ExtractionRow
  <2>4. PICK c \in ClaimOf : /\ c = Claim(d, n + 1) /\ c.doc = d /\ c.attempt = n + 1
                             /\ c # NoJob /\ job' = [job EXCEPT ![w] = c]
    <3>1. n + 1 \in Nat
      OBVIOUS
    <3> QED
      BY <1>3, <2>2, <3>1, ClaimFields
  <2>5. ContentTypes'
    BY <1>1, <1>r, <2>3, <2>4 DEF ContentInv, ContentTypes
  <2>6. /\ extraction'[d] = y /\ job'[w] = c
        /\ \A f \in Doc : f # d => extraction'[f] = Reclaimed[f]
        /\ \A v \in Parser : v # w => job'[v] = job[v]
    BY <1>r, <2>3, <2>4 DEF ContentInv, ContentTypes
  <2>7. \A v \in Parser : v # w => job'[v] # c
    <3> SUFFICES ASSUME NEW v \in Parser, v # w, job[v] = c PROVE FALSE
      BY <2>6
    <3>1. n + 1 <= extraction[d].attempts
      BY <2>4 DEF ContentInv, ClaimsCounted
    <3> QED
      BY <2>1, <2>2, <3>1
  <2>8. ClaimsDistinct'
    BY <2>6, <2>7 DEF ContentInv, ClaimsDistinct
  <2>9. ClaimsCounted'
    <3> SUFFICES ASSUME NEW v \in Parser, job'[v] # NoJob
                 PROVE  job'[v].attempt <= extraction'[job'[v].doc].attempts
      BY DEF ClaimsCounted
    <3>1. CASE v = w
      BY <2>3, <2>4, <2>6, <3>1
    <3>2. CASE v # w
      <4>1. PICK k \in ClaimOf : k = job'[v] /\ k = job[v]
        BY <2>6, <3>2 DEF ContentInv, ContentTypes
      <4>2. PICK f \in Doc, m \in Nat : f = k.doc /\ m = k.attempt
        BY <4>1, ClaimParts
      <4>3. m <= extraction[f].attempts
        BY <4>1, <4>2, ClaimParts DEF ContentInv, ClaimsCounted
      <4>4. CASE f = d
        <5>1. m <= n + 1
          BY <2>1, <2>2, <4>3, <4>4
        <5> QED
          BY <2>3, <2>6, <4>1, <4>2, <4>4, <5>1
      <4>5. CASE f # d
        BY <1>r, <2>6, <4>1, <4>2, <4>3, <4>5
      <4> QED
        BY <4>4, <4>5
    <3> QED
      BY <3>1, <3>2
  <2>10. ASSUME NEW f \in Doc \ overtaken
         PROVE  RowDecided(extraction'[f], blocks[f], asked[f])
    <3>1. /\ RowDecided(extraction[f], blocks[f], asked[f])
          /\ asked[f] \in Request /\ blocks[f] \in Nat
          /\ extraction[f] \in ExtractionRow /\ Reclaimed[f] \in ExtractionRow
      BY <1>r DEF ContentInv, RowsDecided, ContentTypes
    <3>2. RowDecided(Reclaimed[f], blocks[f], asked[f])
      BY <1>r, <3>1, StillDecided
    <3>3. CASE f = d
      <4>1. RowDecided(x, blocks[d], asked[d]) /\ asked[d] \in Request
        BY <1>3, <3>1, <3>2, <3>3
      <4>2. blocks[d] = 0 /\ n < MaxTries /\ n + 1 <= MaxTries
        BY <2>1, <2>2, <4>1, ExtractionAssumption DEF RowDecided
      <4>3. \A m \in 1 .. MaxTries : asked[d][m] > 0 => m <= n
        BY <2>2, <4>1 DEF RowDecided
      <4>4. RowDecided(y, blocks[d], asked[d])
        BY <2>3, <4>2, <4>3, ExtractionAssumption DEF RowDecided
      <4> QED
        BY <2>6, <3>3, <4>4
    <3> QED
      BY <2>6, <3>2, <3>3
  <2> QED
    BY <1>1, <2>5, <2>8, <2>9, <2>10 DEF ContentInv, RowsDecided
<1> QED
  BY <1>2, <1>3 DEF TakeClaim

\* A result counts for the row its claim started, in the run it started, and no other.
LEMMA FinishStep ==
    ASSUME ContentInv, NEW w \in Parser, NEW outcome \in Outcome, Finish(w, outcome)
    PROVE  ContentInv'
<1>1. PICK c \in ClaimOf : c = job[w]
  BY DEF ContentInv, ContentTypes, Finish
<1>2. PICK d \in Doc : d = c.doc
  BY <1>1, ClaimParts
<1>3. PICK x \in ExtractionRow : x = extraction[d]
  BY DEF ContentInv, ContentTypes
<1>4. /\ asked' = asked /\ overtaken' = overtaken
      /\ job' = [job EXCEPT ![w] = NoJob]
  BY DEF Finish
<1>5. /\ job' \in [Parser -> ClaimOf \cup {NoJob}]
      /\ \A v \in Parser : job'[v] = job[v] \/ job'[v] = NoJob
  BY <1>4 DEF ContentInv, ContentTypes
<1>6. CASE extraction' = extraction /\ blocks' = blocks
  <2>1. extraction' \in [Doc -> ExtractionRow]
    BY <1>6 DEF ContentInv, ContentTypes
  <2> QED
    BY <1>4, <1>5, <1>6, <2>1, NothingNewStep
<1>7. CASE /\ StillMine(c) /\ (outcome = "completed" => blocks[d] = 0)
           /\ extraction' = [extraction EXCEPT ![d] =
                  [@ EXCEPT !.state = After(outcome, extraction[d].attempts),
                            !.due = outcome # "transient", !.leased = FALSE]]
           /\ blocks' = IF outcome = "completed"
                        THEN [blocks EXCEPT ![d] = c.attempt] ELSE blocks
  <2>1. x.state = "running" /\ x.attempts = c.attempt /\ x.attempts \in Nat
    BY <1>2, <1>3, <1>7, ExtractionFields DEF StillMine
  <2>2. PICK s : s = After(outcome, x.attempts)
    OBVIOUS
  <2>3. /\ s \in {"completed", "closed", "failed", "pending"}
        /\ outcome = "completed" => s = "completed"
        /\ outcome # "completed" => s # "completed"
        /\ s = "pending" => x.attempts < MaxTries
    BY <2>1, <2>2, ExtractionAssumption DEF Outcome, After
  <2>4. PICK due \in BOOLEAN : due = (outcome # "transient")
    OBVIOUS
  <2>5. PICK y \in ExtractionRow : /\ y.state = s /\ y.attempts = x.attempts
                                   /\ extraction' = [extraction EXCEPT ![d] = y]
    <3>1. extraction' = [extraction EXCEPT ![d] =
             [x EXCEPT !.state = s, !.due = due, !.leased = FALSE]]
      BY <1>3, <1>7, <2>2, <2>4
    <3>2. [x EXCEPT !.state = s, !.due = due, !.leased = FALSE] \in ExtractionRow
      BY <1>3, <2>3, <2>4 DEF ExtractionRow
    <3> QED
      BY <1>3, <3>1, <3>2 DEF ExtractionRow
  <2>6. /\ extraction' \in [Doc -> ExtractionRow] /\ extraction'[d] = y
        /\ \A f \in Doc : f # d => extraction'[f] = extraction[f]
    BY <2>5 DEF ContentInv, ContentTypes
  <2>7. CASE outcome # "completed"
    <3>1. blocks' = blocks /\ s # "completed"
      BY <1>7, <2>3, <2>7
    <3>2. \A f \in Doc :
             /\ extraction'[f].attempts = extraction[f].attempts
             /\ \/ extraction'[f].state = extraction[f].state
                \/ /\ extraction[f].state = "running"
                   /\ extraction'[f].state \in {"failed", "closed"}
                \/ /\ extraction[f].state = "running" /\ extraction'[f].state = "pending"
                   /\ extraction[f].attempts < MaxTries
      BY <1>3, <2>1, <2>3, <2>5, <2>6, <3>1
    <3> QED
      BY <1>4, <1>5, <2>6, <3>1, <3>2, NothingNewStep
  <2>8. CASE outcome = "completed"
    <3>1. /\ s = "completed" /\ blocks' = [blocks EXCEPT ![d] = c.attempt]
          /\ c.attempt \in Nat
      BY <1>7, <2>3, <2>8, ClaimParts
    <3>2. ContentTypes'
      BY <1>4, <1>5, <2>6, <3>1 DEF ContentInv, ContentTypes
    <3>3. \A f \in Doc : extraction'[f].attempts >= extraction[f].attempts
      BY <1>3, <2>5, <2>6, ExtractionFields DEF ContentInv, ContentTypes
    <3>4. ClaimsCounted' /\ ClaimsDistinct'
      BY <1>5, <3>2, <3>3, ClaimsStand DEF ContentInv
    <3>5. blocks'[d] = c.attempt /\ \A f \in Doc : f # d => blocks'[f] = blocks[f]
      BY <3>1 DEF ContentInv, ContentTypes
    <3>6. ASSUME NEW f \in Doc \ overtaken
          PROVE  RowDecided(extraction'[f], blocks'[f], asked[f])
      <4>1. RowDecided(extraction[f], blocks[f], asked[f])
        BY DEF ContentInv, RowsDecided
      <4>2. CASE f = d
        <5>1. RowDecided(x, blocks[d], asked[d])
          BY <1>3, <4>1, <4>2
        <5>2. asked[d] \in Request
          BY DEF ContentInv, ContentTypes
        <5>3. RowDecided(y, c.attempt, asked[d])
          BY <2>1, <2>5, <3>1, <5>1, <5>2 DEF RowDecided, Request
        <5> QED
          BY <2>6, <3>5, <4>2, <5>3
      <4>3. CASE f # d
        BY <2>6, <3>5, <4>1, <4>3
      <4> QED
        BY <4>2, <4>3
    <3> QED
      BY <1>4, <3>2, <3>4, <3>6 DEF ContentInv, RowsDecided
  <2> QED
    BY <2>7, <2>8
<1> QED
  BY <1>1, <1>2, <1>6, <1>7 DEF Finish

-----------------------------------------------------------------------------
LEMMA AskStep ==
    ASSUME ContentInv, NEW d \in Doc, AskRetry(d)
    PROVE  ContentInv'
<1>1. PICK n : n = extraction[d].attempts
  OBVIOUS
<1>2. /\ n \in Nat /\ n < MaxTries /\ extraction[d].state = "failed"
      /\ asked' = [asked EXCEPT ![d] = [asked[d] EXCEPT ![n] = @ + 1]]
      /\ extraction' = extraction /\ blocks' = blocks /\ job' = job
      /\ overtaken' = overtaken
  BY <1>1, ExtractionFields DEF AskRetry, ContentInv, ContentTypes
<1>3. PICK r : r = [asked[d] EXCEPT ![n] = @ + 1]
  OBVIOUS
<1>4. asked[d] \in Request /\ r \in Request
  <2>1. asked[d] \in Request
    BY DEF ContentInv, ContentTypes
  <2>2. PICK a \in Request : a = asked[d]
    BY <2>1
  <2>3. r = [m \in 1 .. MaxTries |-> IF m = n THEN a[m] + 1 ELSE a[m]]
    BY <1>3, <2>2 DEF Request
  <2>4. \A m \in 1 .. MaxTries : a[m] \in Nat
    BY <2>2 DEF Request
  <2>5. \A m \in 1 .. MaxTries : IF m = n THEN a[m] + 1 \in Nat ELSE a[m] \in Nat
    BY <2>4
  <2>6. r \in Request
    BY <2>3, <2>5 DEF Request
  <2> QED
    BY <2>1, <2>6
<1>5. /\ asked' \in [Doc -> Request] /\ asked'[d] = r
      /\ \A f \in Doc : f # d => asked'[f] = asked[f]
  BY <1>2, <1>3, <1>4 DEF ContentInv, ContentTypes
<1>6. \A m \in 1 .. MaxTries : r[m] > 0 => m = n \/ asked[d][m] > 0
  BY <1>2, <1>3, <1>4 DEF Request
<1>7. ContentTypes' /\ ClaimsCounted' /\ ClaimsDistinct'
  BY <1>2, <1>5 DEF ContentInv, ContentTypes, ClaimsCounted, ClaimsDistinct
<1>8. ASSUME NEW f \in Doc \ overtaken
      PROVE  RowDecided(extraction[f], blocks[f], asked'[f])
  <2>1. RowDecided(extraction[f], blocks[f], asked[f])
    BY DEF ContentInv, RowsDecided
  <2>2. CASE f = d
    BY <1>1, <1>2, <1>5, <1>6, <2>1, <2>2 DEF RowDecided
  <2> QED
    BY <1>5, <2>1, <2>2
<1> QED
  BY <1>2, <1>7, <1>8 DEF ContentInv, RowsDecided

\* A request that writes finds what it has read, or takes the document out of the claim.
LEMMA WriteStep ==
    ASSUME ContentInv, NEW d \in Doc, NEW n \in 1 .. MaxTries, WriteRetry(d, n)
    PROVE  ContentInv'
<1>1. /\ asked[d][n] > 0 /\ blocks' = blocks /\ job' = job
      /\ asked' = [asked EXCEPT ![d] = [asked[d] EXCEPT ![n] = @ - 1]]
      /\ overtaken' = IF extraction[d].attempts # n THEN overtaken \cup {d} ELSE overtaken
  BY DEF WriteRetry
<1>2. PICK x \in ExtractionRow : x = extraction[d]
  BY DEF ContentInv, ContentTypes
<1>3. PICK y \in ExtractionRow : /\ y.state = "pending" /\ y.attempts = x.attempts
                                 /\ extraction' = [extraction EXCEPT ![d] = y]
  <2>1. extraction' = [extraction EXCEPT ![d] =
           [x EXCEPT !.state = "pending", !.due = TRUE, !.leased = FALSE]]
    BY <1>2 DEF WriteRetry
  <2>2. [x EXCEPT !.state = "pending", !.due = TRUE, !.leased = FALSE] \in ExtractionRow
    BY DEF ExtractionRow
  <2> QED
    BY <2>1, <2>2 DEF ExtractionRow
<1>4. PICK r : r = [asked[d] EXCEPT ![n] = @ - 1]
  OBVIOUS
<1>5. /\ asked[d] \in Request /\ r \in Request
      /\ \A m \in 1 .. MaxTries : r[m] > 0 => asked[d][m] > 0
  <2>1. asked[d] \in Request
    BY DEF ContentInv, ContentTypes
  <2>2. PICK a \in Request : a = asked[d]
    BY <2>1
  <2>3. r = [m \in 1 .. MaxTries |-> IF m = n THEN a[m] - 1 ELSE a[m]] /\ a[n] > 0
    BY <1>1, <1>4, <2>2 DEF Request
  <2>4. \A m \in 1 .. MaxTries : a[m] \in Nat
    BY <2>2 DEF Request
  <2>5. \A m \in 1 .. MaxTries : IF m = n THEN a[m] - 1 \in Nat ELSE a[m] \in Nat
    BY <2>3, <2>4
  <2>6. r \in Request
    BY <2>3, <2>5 DEF Request
  <2>7. \A m \in 1 .. MaxTries : r[m] > 0 => a[m] > 0
    BY <2>3, <2>4
  <2> QED
    BY <2>2, <2>6, <2>7
<1>6. /\ asked' \in [Doc -> Request] /\ asked'[d] = r
      /\ \A f \in Doc : f # d => asked'[f] = asked[f]
  BY <1>1, <1>4, <1>5 DEF ContentInv, ContentTypes
<1>7. /\ extraction' \in [Doc -> ExtractionRow] /\ extraction'[d] = y
      /\ \A f \in Doc : f # d => extraction'[f] = extraction[f]
  BY <1>3 DEF ContentInv, ContentTypes
<1>8. ContentTypes'
  BY <1>1, <1>6, <1>7 DEF ContentInv, ContentTypes
<1>9. \A f \in Doc : extraction'[f].attempts >= extraction[f].attempts
  BY <1>2, <1>3, <1>7, ExtractionFields DEF ContentInv, ContentTypes
<1>10. ClaimsCounted' /\ ClaimsDistinct'
  BY <1>1, <1>8, <1>9, ClaimsStand DEF ContentInv
<1>11. ASSUME NEW f \in Doc \ overtaken'
       PROVE  RowDecided(extraction'[f], blocks[f], asked'[f])
  <2>1. f \in Doc \ overtaken
    BY <1>1
  <2>2. RowDecided(extraction[f], blocks[f], asked[f])
    BY <2>1 DEF ContentInv, RowsDecided
  <2>3. CASE f = d
    <3>1. x.attempts = n
      BY <1>1, <1>2, <2>3
    <3>2. RowDecided(x, blocks[d], asked[d])
      BY <1>2, <2>2, <2>3
    <3>3. x.state \in {"failed", "pending"} /\ n < MaxTries
      BY <1>1, <3>1, <3>2 DEF RowDecided
    <3>4. RowDecided(y, blocks[d], r)
      BY <1>3, <1>5, <3>1, <3>2, <3>3 DEF RowDecided
    <3> QED
      BY <1>6, <1>7, <2>3, <3>4
  <2> QED
    BY <1>6, <1>7, <2>2, <2>3
<1> QED
  BY <1>1, <1>8, <1>10, <1>11 DEF ContentInv, RowsDecided

-----------------------------------------------------------------------------
LEMMA ContentInitially == ContentInit => ContentInv
<1> SUFFICES ASSUME ContentInit PROVE ContentInv
  OBVIOUS
<1>1. ContentTypes
  BY AbsentIsARow DEF ContentInit, ContentTypes, Request
<1>2. ClaimsCounted /\ ClaimsDistinct
  BY DEF ContentInit, ClaimsCounted, ClaimsDistinct
<1>3. ASSUME NEW d \in Doc
      PROVE  RowDecided(extraction[d], blocks[d], asked[d])
  <2>1. /\ extraction[d].state = "absent" /\ extraction[d].attempts = 0 /\ blocks[d] = 0
        /\ \A n \in 1 .. MaxTries : asked[d][n] = 0
    BY AbsentIsARow DEF ContentInit
  <2> QED
    BY <2>1, ExtractionAssumption DEF RowDecided
<1> QED
  BY <1>1, <1>2, <1>3 DEF ContentInv, RowsDecided

LEMMA ContentStepKeeps == ContentInv /\ [PipelineNext]_pipelineVars => ContentInv'
<1> SUFFICES ASSUME ContentInv, [PipelineNext]_pipelineVars PROVE ContentInv'
  OBVIOUS
<1>1. CASE FeedStep
  BY <1>1, QueueStep DEF FeedStep
<1>2. CASE ContentStep
  <2>1. CASE Ask
    BY <2>1, AskStep, WriteStep DEF Ask
  <2>2. CASE TimePasses
    BY <2>2, TimeStep DEF TimePasses
  <2>3. ASSUME NEW w \in Worker, Work(w) PROVE ContentInv'
    <3>1. w \in Parser
      BY WorkersParse
    <3>2. CASE Backlog(w)
      BY <3>2, QueueStep DEF Backlog
    <3> QED
      BY <2>3, <3>1, <3>2, ClaimStep, LoseStep, FinishStep DEF Work
  <2> QED
    BY <1>2, <2>1, <2>2, <2>3 DEF ContentStep
<1>3. ASSUME NEW e \in Event, NEW d \in Doc, ChangeDocument(e, d) PROVE ContentInv'
  <2>1. /\ extraction' = extraction /\ blocks' = blocks /\ job' = job
        /\ asked' = asked /\ overtaken' = overtaken
    BY <1>3 DEF ChangeDocument, Edit, Delete
  <2> QED
    BY <2>1, IdleStep
<1>4. CASE UNCHANGED pipelineVars
  BY <1>4, IdleStep DEF pipelineVars, contentVars
<1> QED
  BY <1>1, <1>2, <1>3, <1>4 DEF PipelineNext

\* Whoever the workers are and whatever they leave undone, the text stored of a file is
\* that of its last claim, it is there exactly when the extraction is completed, a queued
\* file has tries left and at most one worker parses for the claim that counts -- unless
\* a retry wrote over a claim it had not seen.
THEOREM LastClaimAlwaysDecides == PipelineSpec => []LastClaimDecides
<1>1. PipelineInit => ContentInv
  BY ContentInitially DEF PipelineInit
<1>2. ContentInv => LastClaimDecides
  <2> SUFFICES ASSUME ContentInv, NEW d \in Doc \ overtaken
               PROVE  /\ blocks[d] = IF extraction[d].state = "completed"
                                     THEN extraction[d].attempts ELSE 0
                      /\ extraction[d].state = "pending" => extraction[d].attempts < MaxTries
                      /\ extraction[d].attempts <= MaxTries
                      /\ Cardinality({w \in Parser :
                            job[w] = Claim(d, extraction[d].attempts)}) <= 1
    BY DEF LastClaimDecides
  <2>1. RowDecided(extraction[d], blocks[d], asked[d])
    BY DEF ContentInv, RowsDecided
  <2>2. PICK n \in Nat : n = extraction[d].attempts
    BY ExtractionFields DEF ContentInv, ContentTypes
  <2> DEFINE S == {w \in Parser : job[w] = Claim(d, n)}
  <2>3. \A w, v \in S : w = v
    BY <2>2, ClaimFields DEF ContentInv, ClaimsDistinct
  <2>4. Cardinality(S) <= 1
    <3>1. CASE S = {}
      BY <3>1, FS_EmptySet
    <3>2. CASE S # {}
      <4>1. PICK w \in S : TRUE
        BY <3>2
      <4>2. S = {w}
        BY <2>3, <4>1
      <4> HIDE DEF S
      <4>3. Cardinality(S) = 1
        BY <4>2, FS_Singleton
      <4> QED
        BY <4>3
    <3> QED
      BY <3>1, <3>2
  <2> QED
    BY <2>1, <2>2, <2>4 DEF RowDecided
<1> QED
  BY <1>1, <1>2, ContentStepKeeps, PTL DEF PipelineSpec
=============================================================================
