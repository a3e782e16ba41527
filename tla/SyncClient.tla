----------------------------- MODULE SyncClient -----------------------------
(***************************************************************************)
(* One Windows user's copy of one logical original: the upload queue and   *)
(* session life of clients/acti-sync/ACTISync.Service (SyncEngine,         *)
(* LeaseResumption), run against the server side that OfficeServer models  *)
(* in detail (VersionedOriginal under one lease).                          *)
(*                                                                         *)
(* The client's HTTP calls can be answered late, lose their answer or      *)
(* arrive after the client gave up; the service can crash between any two  *)
(* durable writes; the browser, other users and Word act at any moment.    *)
(* `call` is the request the session gate is held for, so everything the   *)
(* service does to the session waits for call = Idle.  A tick is not one   *)
(* action: its requests are separate actions, because RetryAt, a transport *)
(* failure or a refusal ends it after any of them.                         *)
(*                                                                         *)
(* Time is abstract: Expire and Revoke are the server's 90-second lease    *)
(* and the end of a session's credentials, Lapse the moment the client's   *)
(* own LeaseExpiresAt passes.  The heartbeats of LeaseTick and of a        *)
(* changed presence only postpone Expire.                                  *)
(* DOCX only (no conversion input), and the working file is never deleted. *)
(***************************************************************************)
EXTENDS Naturals, Sequences

CONSTANTS
    Session,       \* office_edit_sessions of this user
    Other,         \* every other writer of the original
    Content, First,
    MaxRevision,   \* bound on the server's history
    MaxSnapshots,  \* bound on captured snapshots; their numbers are the keys
    MaxTokens,     \* bound on token rotations
    MaxLosses      \* bound on timeouts and crashes

ASSUME OtherIsNoSession == Other \notin Session
ASSUME InitialContent == First \in Content
ASSUME BoundsAreNat ==
    /\ {MaxSnapshots, MaxLosses} \subseteq Nat
    /\ {MaxRevision, MaxTokens} \subseteq Nat \ {0}

VARIABLES
    history, receipts, \* the server's original: see VersionedOriginal
    server,            \* [Session -> [phase, token]]: the edit-session rows
    holder,            \* whose lease is live: a session, Other or Nobody
    launched,          \* answer of an exchange waiting for the prior's gate
    doc,               \* the durable SessionState of the session that owns the
                       \* working copy
    work,              \* bytes of the working copy
    believes,          \* LeaseExpiresAt > UtcNow
    call,              \* the request in flight and its answer
    stray,             \* requests the client stopped waiting for
    made, losses,      \* snapshots captured; timeouts and crashes so far
    base,              \* history variable: the last revision whose bytes the
                       \* working copy descends from
    rebased            \* history variable: sessions whose acknowledged revision
                       \* was taken over from the server while their bytes
                       \* descend from an earlier one

serverVars == <<history, receipts, server, holder>>
localVars  == <<doc, work, believes>>
ghosts     == <<base, rebased>>
vars == <<serverVars, localVars, ghosts, launched, call, stray, made, losses>>

Nobody == "nobody"
NoDoc  == [session |-> "none"]
NoFile == "no file"
Idle   == [op |-> "idle"]
NoDetails == [revision |-> 0]
NoLaunch == [session |-> "none"]

ASSUME NoFileIsNoContent == NoFile \notin Content

Original == INSTANCE VersionedOriginal
    WITH Writer <- Session \cup {Other}, Key <- 1 .. MaxSnapshots + MaxRevision

Blocked == doc.status \in {"conflict", "reauth", "error"}

Snapshot == [key: 1 .. MaxSnapshots, expected: 1 .. MaxRevision, sha: Content]

\* queue[1] is Pending, queue[2] NextPending.  Status "editing" also stands for
\* opening, syncing and offline: nothing tells the four apart.  "finished" is that
\* of a prior session a launch chose before it was finished and still waits for.
Queue  == UNION {[1 .. n -> Snapshot] : n \in 0 .. 2}
Status == {"editing", "local_saved", "saved", "conflict", "reauth", "error",
           "finished"}

Doc == [session: Session, token: 1 .. MaxTokens, revision: 1 .. MaxRevision,
        ack: Content, queue: Queue, status: Status]

Launch == [session: Session, revision: 1 .. MaxRevision, sha: Content]

Failed(code)      == [code |-> code]
Ok(revision, sha) == [code |-> "ok", revision |-> revision, sha |-> sha]

Answers == {Failed(c) : c \in {"denied", "conflict", "rejected"}}
           \cup {Ok(r, c) : r \in 1 .. MaxRevision, c \in Content}

Row == [phase: {"none", "ticket", "open", "closed"}, token: 0 .. MaxTokens]

Details == [revision: 1 .. MaxRevision, sha: Content, pending: SUBSET Snapshot]
           \cup Snapshot \cup {NoDetails}

Request == [op: {"save", "resume", "renew", "heartbeat", "finish"},
            session: Session, token: 1 .. MaxTokens, details: Details,
            answer: {<<>>} \cup {<<a>> : a \in Answers}]

TypeOK ==
    /\ Original!TypeOK
    /\ server \in [Session -> Row]
    /\ holder \in Session \cup {Other, Nobody}
    /\ doc \in Doc \cup {NoDoc}
    /\ work \in Content \cup {NoFile}
    /\ believes \in BOOLEAN
    /\ made \in 0 .. MaxSnapshots /\ losses \in 0 .. MaxLosses
    /\ base \in 0 .. MaxRevision
    /\ rebased \subseteq Session
    /\ launched \in Launch \cup {NoLaunch}
    /\ call \in Request \cup {Idle}
    /\ stray \subseteq Request

Init ==
    /\ Original!Init
    /\ server = [s \in Session |-> [phase |-> "none", token |-> 0]]
    /\ holder = Nobody
    /\ launched = NoLaunch /\ doc = NoDoc /\ work = NoFile /\ believes = FALSE
    /\ call = Idle /\ stray = {}
    /\ made = 0 /\ losses = 0 /\ base = 0 /\ rebased = {}

-----------------------------------------------------------------------------
\* Around the client: other users, time, the browser and Word.

OtherHolds ==
    /\ holder \in {Nobody, Other}
    /\ holder' = IF holder = Nobody THEN Other ELSE Nobody
    /\ UNCHANGED <<history, receipts, server, localVars, ghosts, launched,
                   call, stray, made, losses>>

\* A save by another session, or a manual upload while nobody holds the lease.
OtherSaves(c) ==
    /\ holder \in {Nobody, Other}
    /\ Len(history) < MaxRevision
    /\ c # Original!Current
    /\ Original!Commit(Other, MaxSnapshots + Len(history), Len(history), c)
    /\ UNCHANGED <<server, holder, localVars, ghosts, launched, call, stray,
                   made, losses>>

Lapse ==
    /\ believes
    /\ believes' = FALSE
    /\ UNCHANGED <<serverVars, doc, work, ghosts, launched, call, stray, made, losses>>

\* The client compares a server time with its own clock, so it may believe in a
\* lease that has ended, as well as doubt one that its heartbeats keep alive.
Expire ==
    /\ holder \in Session
    /\ holder' = Nobody
    /\ UNCHANGED <<history, receipts, server, localVars, ghosts, launched,
                   call, stray, made, losses>>

\* expires_at has passed, the user logged out or lost the right to write.
Revoke(s) ==
    /\ server[s].phase \in {"ticket", "open"}
    /\ server' = [server EXCEPT ![s].phase = "closed"]
    /\ holder' = IF holder = s THEN Nobody ELSE holder
    /\ UNCHANGED <<history, receipts, localVars, ghosts, launched, call, stray,
                   made, losses>>

BrowserLaunch(s) ==
    /\ server[s].phase = "none"
    /\ holder = Nobody
    /\ server' = [server EXCEPT ![s].phase = "ticket"]
    /\ holder' = s
    /\ UNCHANGED <<history, receipts, localVars, ghosts, launched, call, stray,
                   made, losses>>

\* The finish handler keeps the file open against writes while it waits.
Edit(c) ==
    /\ doc # NoDoc /\ work \notin {NoFile, c}
    /\ call.op # "finish"
    /\ work' = c
    /\ UNCHANGED <<serverVars, doc, believes, ghosts, launched, call, stray,
                   made, losses>>

-----------------------------------------------------------------------------
\* HandleLocked "launch": exchange the ticket, then wait for the prior
\* session's gate and take its working copy and queue over.

Exchange(s) ==
    /\ launched = NoLaunch
    /\ server[s].phase = "ticket" /\ holder = s
    /\ server' = [server EXCEPT ![s] = [phase |-> "open", token |-> 1]]
    /\ \/ launched' = [session |-> s, revision |-> Original!Revision,
                       sha |-> Original!Current]
       \/ launched' = NoLaunch   \* the answer is lost
    /\ UNCHANGED <<history, receipts, holder, localVars, ghosts, call, stray,
                   made, losses>>

\* Download, into a missing working copy only.
Fetch(d) ==
    /\ work = NoFile
    /\ server[d.session] = [phase |-> "open", token |-> d.token]
    /\ holder = d.session
    /\ Original!Current = d.ack
    /\ work' = Original!Current
    /\ base' = Original!Revision
    /\ doc' = [d EXCEPT !.status = "editing"]

Fresh(l) == [session |-> l.session, token |-> 1, revision |-> l.revision,
             ack |-> l.sha, queue |-> <<>>, status |-> "editing"]

Adopted(l) ==
    IF doc = NoDoc THEN Fresh(l)
    ELSE IF doc.ack = l.sha
    THEN [Fresh(l) EXCEPT !.queue =
              [i \in DOMAIN doc.queue |-> IF i = 1
                  THEN [doc.queue[i] EXCEPT !.expected = l.revision]
                  ELSE doc.queue[i]]]
    ELSE [Fresh(l) EXCEPT !.queue = doc.queue, !.status = "conflict"]

Adopt ==
    LET l == launched d == Adopted(l)
        kin == doc # NoDoc /\ doc.ack = l.sha /\ doc.session \notin rebased IN
    /\ l # NoLaunch /\ call = Idle
    /\ launched' = NoLaunch
    /\ believes' = TRUE
    /\ \/ Fetch(d) /\ UNCHANGED rebased
       \/ /\ doc' = d
          /\ base' = IF work # NoFile /\ kin /\ l.revision > base
                     THEN l.revision ELSE base
          /\ rebased' = IF work # NoFile /\ ~kin THEN rebased \cup {l.session}
                        ELSE rebased
          /\ UNCHANGED work
    /\ UNCHANGED <<serverVars, call, stray, made, losses>>

\* No unfinished session owns the working copy any more.
Gone == doc' = NoDoc /\ work' = NoFile /\ base' = 0

\* Persist(prior) with Finished = true comes before Persist(s): a crash between
\* the two leaves no unfinished session to own the working copy and the queue.
CrashInAdopt ==
    /\ launched # NoLaunch /\ call = Idle /\ doc # NoDoc
    /\ losses < MaxLosses
    /\ losses' = losses + 1
    /\ launched' = NoLaunch
    /\ Gone
    /\ UNCHANGED <<serverVars, believes, rebased, call, stray, made>>

-----------------------------------------------------------------------------
\* The tick and the user's commands, while no request is being waited for.

Gate == doc # NoDoc /\ call = Idle /\ doc.status # "finished"

Download ==
    /\ Gate /\ ~Blocked /\ believes
    /\ Fetch(doc)
    /\ UNCHANGED <<serverVars, believes, rebased, launched, call, stray, made, losses>>

\* The hash the next snapshot is compared with.
Newest == IF doc.queue = <<>> THEN doc.ack ELSE doc.queue[Len(doc.queue)].sha

\* Slip: the newest snapshot takes the place of the one that may be on the wire.
CaptureOverPending ==
    /\ Gate /\ work \notin {NoFile, Newest}
    /\ made < MaxSnapshots
    /\ made' = made + 1
    /\ doc' = [doc EXCEPT
           !.queue = <<[key |-> made', expected |-> doc.revision, sha |-> work]>>,
           !.status = IF Blocked THEN @ ELSE "local_saved"]
    /\ UNCHANGED <<serverVars, work, believes, ghosts, launched, call, stray, losses>>

Capture ==
    /\ Gate /\ work \notin {NoFile, Newest}
    /\ made < MaxSnapshots
    /\ made' = made + 1
    /\ LET new == [key |-> made', expected |-> doc.revision, sha |-> work] IN
       doc' = [doc EXCEPT
           !.queue = IF @ = <<>> THEN <<new>> ELSE <<@[1], new>>,
           !.status = IF Blocked THEN @ ELSE "local_saved"]
    /\ UNCHANGED <<serverVars, work, believes, ghosts, launched, call, stray, losses>>

\* IPC "retry"; it also leaves "offline", which "editing" stands for.
Retry ==
    /\ Gate /\ doc.status \in {"error", "editing"}
    /\ doc' = [doc EXCEPT !.status = "local_saved"]
    /\ UNCHANGED <<serverVars, work, believes, ghosts, launched, call, stray, made, losses>>

\* IPC "open_failed" and "word_missing".
OpenFailed ==
    /\ Gate
    /\ doc' = [doc EXCEPT !.status = "error"]
    /\ UNCHANGED <<serverVars, work, believes, ghosts, launched, call, stray, made, losses>>

Send(op, details) ==
    /\ call' = [op |-> op, session |-> doc.session, token |-> doc.token,
                details |-> details, answer |-> <<>>]
    /\ UNCHANGED <<serverVars, localVars, ghosts, launched, stray, made, losses>>

Pending == {doc.queue[i] : i \in DOMAIN doc.queue \cap {1}}

SendResume ==
    /\ Gate /\ ~believes /\ doc.status \notin {"reauth", "error"}
    /\ Send("resume", [revision |-> doc.revision, sha |-> doc.ack,
                       pending |-> Pending])

\* What the tick reaches only past ResumeLease and the Blocked test; after an
\* acknowledged save the heartbeat goes out over a queue that is not empty.
Unhindered == Gate /\ believes /\ ~Blocked

SendSave   == Unhindered /\ doc.queue # <<>> /\ Send("save", doc.queue[1])
SendRenew  == Unhindered /\ doc.token < MaxTokens /\ Send("renew", NoDetails)
SendHeartbeat == Unhindered /\ Send("heartbeat", NoDetails)

\* Slip: the working copy is not hashed again before finish.
SendFinishUnhashed ==
    /\ Gate /\ ~Blocked
    /\ doc.queue = <<>>
    /\ Send("finish", NoDetails)

\* IPC "finish" and FinishClosed.
SendFinish ==
    /\ Gate /\ ~Blocked
    /\ doc.queue = <<>> /\ work = doc.ack
    /\ Send("finish", NoDetails)

-----------------------------------------------------------------------------
\* The server's handlers, in the terms of VersionedOriginal and the lease.

\* The snapshot is one of this working copy's, not of an abandoned one.
Queued(p) == doc # NoDoc /\ \E i \in DOMAIN doc.queue : doc.queue[i].key = p.key

\* The working copy now descends from the revision its snapshot became.
Descends(s, p) ==
    IF Queued(p) THEN base' = Len(history') /\ rebased' = rebased \ {s}
                 ELSE UNCHANGED ghosts

\* Slip: the last write wins, whatever lease or revision it was made under.
SaveLastWins(q, a) ==
    LET s == q.session p == q.details IN
    /\ Len(history) < MaxRevision
    /\ Original!Commit(s, p.key, Original!Revision, p.sha)
    /\ a = Ok(Len(history'), p.sha)
    /\ Descends(s, p)
    /\ UNCHANGED <<server, holder>>

\* commit_save.  "rejected" is validate_docx: a 422 and no effect.
Save(q, a) ==
    LET s == q.session p == q.details known == Original!ReceiptsOf(s, p.key) IN
    \/ /\ \/ holder # s
          \/ known = {} /\ p.expected # Original!Revision
          \/ \E r \in known : r.sha # p.sha \/ r.expected # p.expected
       /\ a = Failed("conflict") /\ UNCHANGED <<serverVars, ghosts>>
    \/ /\ holder = s
       /\ \E r \in known : /\ r.sha = p.sha /\ r.expected = p.expected
                           /\ a = Ok(r.revision, r.sha)
       /\ UNCHANGED <<serverVars, ghosts>>
    \/ /\ holder = s /\ known = {} /\ p.sha # Original!Current
       /\ a = Failed("rejected") /\ UNCHANGED <<serverVars, ghosts>>
    \/ /\ holder = s /\ Len(history) < MaxRevision
       /\ Original!Commit(s, p.key, p.expected, p.sha)
       /\ a = Ok(Len(history'), p.sha)
       /\ Descends(s, p)
       /\ UNCHANGED <<server, holder>>

BaseProved(q) ==
    LET d == q.details IN
    \/ d.revision = Original!Revision /\ d.sha = Original!Current
    \/ /\ history[d.revision] = d.sha
       /\ \E p \in d.pending : \E r \in Original!ReceiptsOf(q.session, p.key) :
           /\ p.expected = d.revision /\ r.expected = d.revision
           /\ r.sha = p.sha
           /\ r.revision = Original!Revision /\ r.sha = Original!Current

Resume(q, a) ==
    \/ /\ BaseProved(q) /\ holder \in {Nobody, q.session}
       /\ holder' = q.session
       /\ a = Ok(Original!Revision, Original!Current)
       /\ UNCHANGED <<history, receipts, server, ghosts>>
    \/ /\ ~ (BaseProved(q) /\ holder \in {Nobody, q.session})
       /\ a = Failed("conflict") /\ UNCHANGED <<serverVars, ghosts>>

\* heartbeat and renew: the lease must be live; renew rotates the token.
Extend(q, a) ==
    \/ holder # q.session /\ a = Failed("conflict") /\ UNCHANGED <<serverVars, ghosts>>
    \/ /\ holder = q.session /\ a = Ok(Original!Revision, Original!Current)
       /\ server' = IF q.op = "renew" THEN [server EXCEPT ![q.session].token = @ + 1]
                                      ELSE server
       /\ UNCHANGED <<history, receipts, holder, ghosts>>

Finish(q, a) ==
    /\ server' = [server EXCEPT ![q.session].phase = "closed"]
    /\ holder' = IF holder = q.session THEN Nobody ELSE holder
    /\ a = Ok(Original!Revision, Original!Current)
    /\ UNCHANGED <<history, receipts, ghosts>>

Handle(q, a) ==
    IF server[q.session] # [phase |-> "open", token |-> q.token]
    THEN a = Failed("denied") /\ UNCHANGED <<serverVars, ghosts>>
    ELSE \/ q.op = "save"   /\ Save(q, a)
         \/ q.op = "resume" /\ Resume(q, a)
         \/ q.op \in {"heartbeat", "renew"} /\ Extend(q, a)
         \/ q.op = "finish" /\ Finish(q, a)

Serve ==
    /\ call # Idle /\ call.answer = <<>>
    /\ \E a \in Answers : Handle(call, a) /\ call' = [call EXCEPT !.answer = <<a>>]
    /\ UNCHANGED <<localVars, launched, stray, made, losses>>

ServeStray(q) ==
    /\ \E a \in Answers : Handle(q, a)
    /\ stray' = stray \ {q}
    /\ UNCHANGED <<localVars, launched, call, made, losses>>

-----------------------------------------------------------------------------
\* What the client makes of an answer, or of none.

\* The part of the tick's catch block that maps a status code.
StatusOf(code) == CASE code = "denied" -> "reauth" [] code = "conflict" -> "conflict"
                    [] code = "rejected" -> "error"

Answered(op) == call.op = op /\ call.answer # <<>> /\ call.answer[1].code = "ok"

Idles == call' = Idle /\ UNCHANGED <<serverVars, launched, stray, made, losses, ghosts>>

\* A refused finish leaves the session as it was.
Refused ==
    /\ call # Idle /\ call.answer # <<>> /\ call.answer[1].code # "ok"
    /\ doc' = IF call.op = "finish" THEN doc
              ELSE [doc EXCEPT !.status = StatusOf(call.answer[1].code)]
    /\ Idles
    /\ UNCHANGED <<work, believes>>

\* Slips: the promoted snapshot expects the revision after the acknowledged one;
\* the first of two saves already shows the session as saved; the acknowledged
\* hash is that of the working copy, which Word may have saved since.
AcknowledgeAhead ==
    LET a == call.answer[1] rest == Tail(doc.queue) IN
    /\ Answered("save")
    /\ believes' = TRUE
    /\ doc' = [doc EXCEPT
           !.revision = a.revision, !.ack = a.sha, !.status = "editing",
           !.queue = [i \in DOMAIN rest |-> [rest[i] EXCEPT !.expected = a.revision + 1]]]
    /\ Idles
    /\ UNCHANGED work

AcknowledgeEarly ==
    LET a == call.answer[1] rest == Tail(doc.queue) IN
    /\ Answered("save")
    /\ believes' = TRUE
    /\ doc' = [doc EXCEPT
           !.revision = a.revision, !.ack = a.sha, !.status = "saved",
           !.queue = [i \in DOMAIN rest |-> [rest[i] EXCEPT !.expected = a.revision]]]
    /\ Idles
    /\ UNCHANGED work

AcknowledgeWorkingCopy ==
    LET a == call.answer[1] rest == Tail(doc.queue) IN
    /\ Answered("save")
    /\ believes' = TRUE
    /\ doc' = [doc EXCEPT
           !.revision = a.revision, !.ack = work,
           !.queue = [i \in DOMAIN rest |-> [rest[i] EXCEPT !.expected = a.revision]],
           !.status = IF rest # <<>> THEN "local_saved" ELSE "saved"]
    /\ Idles
    /\ UNCHANGED work

Acknowledge ==
    LET a == call.answer[1] p == call.details rest == Tail(doc.queue) IN
    /\ Answered("save")
    /\ \/ /\ a.sha = p.sha /\ a.revision >= doc.revision
          /\ believes' = TRUE
          /\ \E shown \in {"saved", "editing"} :
             doc' = [doc EXCEPT
                 !.revision = a.revision, !.ack = a.sha,
                 !.queue = [i \in DOMAIN rest |->
                                [rest[i] EXCEPT !.expected = a.revision]],
                 !.status = IF rest # <<>> THEN "local_saved" ELSE shown]
       \/ /\ ~ (a.sha = p.sha /\ a.revision >= doc.revision)
          /\ doc' = [doc EXCEPT !.status = "editing"]
          /\ UNCHANGED believes
    /\ Idles
    /\ UNCHANGED work

\* Slip: only the acknowledged base proves the lease, not the own lost commit.
ResumedByAckOnly ==
    LET a == call.answer[1] priorAck == a.revision = doc.revision /\ a.sha = doc.ack IN
    /\ Answered("resume")
    /\ believes' = priorAck
    /\ doc' = [doc EXCEPT !.status = IF priorAck /\ doc.queue # <<>>
                                     THEN "local_saved" ELSE "editing"]
    /\ Idles
    /\ UNCHANGED work

Resumed ==
    LET a == call.answer[1]
        priorAck  == a.revision = doc.revision /\ a.sha = doc.ack
        ownCommit == /\ doc.queue # <<>> /\ doc.queue[1].expected = doc.revision
                     /\ a.revision = doc.revision + 1 /\ a.sha = doc.queue[1].sha
    IN
    /\ Answered("resume")
    /\ believes' = (priorAck \/ ownCommit)
    /\ doc' = [doc EXCEPT !.status = IF (priorAck \/ ownCommit) /\ doc.queue # <<>>
                                     THEN "local_saved" ELSE "editing"]
    /\ Idles
    /\ UNCHANGED work

Extended ==
    /\ Answered("heartbeat") \/ Answered("renew")
    /\ believes' = TRUE
    /\ doc' = IF call.op = "renew" THEN [doc EXCEPT !.token = @ + 1] ELSE doc
    /\ Idles
    /\ UNCHANGED work

\* A launch that chose this session as its prior, and waits for its gate, takes
\* the working copy over all the same.
Finished ==
    /\ Answered("finish")
    /\ \/ Gone
       \/ /\ launched # NoLaunch
          /\ doc' = [doc EXCEPT !.status = "finished"]
          /\ UNCHANGED <<work, base>>
    /\ believes' = FALSE
    /\ call' = Idle
    /\ UNCHANGED <<serverVars, launched, stray, made, losses, rebased>>

\* The request may never arrive, arrive later, or its answer be lost.
Abandon ==
    stray' \in {stray} \cup IF call # Idle /\ call.answer = <<>>
                            THEN {stray \cup {call}} ELSE {}

TimeOut ==
    /\ call # Idle
    /\ losses < MaxLosses
    /\ losses' = losses + 1
    /\ Abandon
    /\ call' = Idle
    /\ doc' = IF call.op = "finish" THEN doc ELSE [doc EXCEPT !.status = "editing"]
    /\ UNCHANGED <<serverVars, work, believes, ghosts, launched, made>>

\* The service stops anywhere and starts again from its durable state.
Crash ==
    /\ call # Idle \/ launched # NoLaunch
    /\ losses < MaxLosses
    /\ losses' = losses + 1
    /\ Abandon
    /\ call' = Idle /\ launched' = NoLaunch
    /\ IF doc # NoDoc /\ doc.status = "finished" THEN Gone
       ELSE UNCHANGED <<doc, work, base>>
    /\ UNCHANGED <<serverVars, believes, rebased, made>>

-----------------------------------------------------------------------------
Environment ==
    \/ OtherHolds \/ Lapse \/ Expire
    \/ \E c \in Content : OtherSaves(c) \/ Edit(c)
    \/ \E s \in Session : Revoke(s) \/ BrowserLaunch(s) \/ Exchange(s)
    \/ Crash \/ CrashInAdopt \/ TimeOut
    \/ OpenFailed \/ Retry

Receive == Refused \/ Acknowledge \/ Resumed \/ Extended \/ Finished

Tick == Download \/ Capture \/ SendResume \/ SendSave \/ SendRenew
        \/ SendHeartbeat \/ SendFinish

Next ==
    \/ Environment \/ Adopt \/ Tick \/ Receive
    \/ Serve \/ \E q \in stray : ServeStray(q)

Spec == Init /\ [][Next]_vars

\* The service polls every four seconds and every request is answered or times
\* out; after a resumed lease the same tick goes on to the save, so a lapse in
\* between does not keep it from being sent.
FairSpec ==
    /\ Spec
    /\ WF_vars(Serve) /\ WF_vars(Receive)
    /\ WF_vars(SendResume) /\ SF_vars(SendSave)

-----------------------------------------------------------------------------
\* The acknowledged base the client will offer as If-Match and as proof of its
\* lease is a revision that exists, with exactly those bytes.
AckIsARevision ==
    doc # NoDoc => /\ doc.revision \in 1 .. Len(history)
                   /\ history[doc.revision] = doc.ack

\* "saved" is shown only over an empty queue: two coalesced saves are not
\* reported as synchronized when the first one is.
SavedMeansDrained ==
    doc # NoDoc /\ doc.status = "saved" => doc.queue = <<>>

\* The bytes that may already be on the wire leave the queue only once the
\* server holds a receipt for exactly them; coalescing replaces NextPending only.
PendingLeavesAcknowledged ==
    [][doc # NoDoc /\ doc.queue # <<>> /\ doc' # NoDoc
       => \/ /\ doc'.queue # <<>>
             /\ doc'.queue[1].key = doc.queue[1].key
             /\ doc'.queue[1].sha = doc.queue[1].sha
          \/ \E r \in receipts : /\ r.writer = doc.session
                                 /\ r.key = doc.queue[1].key
                                 /\ r.sha = doc.queue[1].sha]_vars

\* A session the client closes because the server finished it leaves nothing
\* local behind, even if the answer to an earlier finish was lost in between.
FinishLosesNothing ==
    [][Finished => doc.queue = <<>> /\ work = doc.ack]_vars

Appended == {r \in receipts' \ receipts : r.expected < r.revision /\ Queued(r)}

\* "Expired leases and stale revisions cannot silently overwrite"
\* (docs/architecture/ACTI_SYNC_001.md): a save of the working copy is appended
\* only to the revision the working copy descends from.
NoSilentOverwrite ==
    [][Appended # {} => base = Len(history)]_vars

\* What the code does guarantee: a save lands on bytes its author never saw
\* only in a session that took over a working copy of another revision.
OverwriteNeedsRebase ==
    [][\A r \in Appended : r.writer \notin rebased => base = Len(history)]_vars

\* "Existing working copies and pending uploads must survive upgrade and restart"
\* (docs/architecture/ACTI_SYNC_LEGACY_DOC_PLAN.md): unacknowledged saves stay
\* in an unfinished session.
PendingSurvives ==
    [][doc # NoDoc /\ doc.queue # <<>> => doc' # NoDoc]_vars

\* A queued save is acknowledged, or the session tells the user why not.
QueueDrainsOrStops ==
    (doc # NoDoc /\ doc.queue # <<>>)
        ~> (doc = NoDoc \/ doc.queue = <<>> \/ Blocked)
=============================================================================
