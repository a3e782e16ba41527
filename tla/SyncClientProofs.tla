-------------------------- MODULE SyncClientProofs --------------------------
(***************************************************************************)
(* For every set of sessions and contents and all bounds: the client and   *)
(* its server are type correct, the server's part implements the versioned *)
(* original, the acknowledged base always exists, a queued save leaves the *)
(* queue only with its receipt, finishing loses nothing, and a save lands  *)
(* on bytes its author never saw only in a session that took over a        *)
(* working copy of another revision.                                       *)
(***************************************************************************)
EXTENDS SyncClient, TLAPS

Promise == INSTANCE VersionedOriginalProofs
    WITH Writer <- Session \cup {Other}, Key <- 1 .. MaxSnapshots + MaxRevision

-----------------------------------------------------------------------------
\* The request waited for is one the unfinished session sent in its present
\* state: the gate keeps the session as it was.
CallIsOfDoc ==
    call # Idle =>
        /\ doc \in Doc /\ call.session = doc.session /\ call.token = doc.token
        /\ call.op = "save" => doc.queue # <<>> /\ call.details = doc.queue[1]
        /\ call.op = "finish" => doc.queue = <<>> /\ work = doc.ack

\* What every request on its way was made of.
WellMade(q) ==
    /\ q.op = "renew" => q.token < MaxTokens
    /\ q.op = "save"  => q.details \in Snapshot /\ q.details.key <= made

QueueMade ==
    doc \in Doc => \A i \in DOMAIN doc.queue : doc.queue[i].key <= made

ServerTyped ==
    /\ Original!TypeOK
    /\ Len(history) \in 1 .. MaxRevision
    /\ server \in [Session -> Row]
    /\ holder \in Session \cup {Other, Nobody}
    /\ base \in 0 .. MaxRevision
    /\ rebased \subseteq Session

ClientTyped ==
    /\ doc \in Doc \cup {NoDoc}
    /\ work \in Content \cup {NoFile}
    /\ believes \in BOOLEAN
    /\ made \in 0 .. MaxSnapshots /\ losses \in 0 .. MaxLosses
    /\ launched \in Launch \cup {NoLaunch}
    /\ call \in Request \cup {Idle}
    /\ stray \subseteq Request

Prepared ==
    /\ CallIsOfDoc
    /\ call # Idle => WellMade(call)
    /\ \A q \in stray : WellMade(q)
    /\ QueueMade

TypeInv == ServerTyped /\ ClientTyped /\ Prepared

LEMMA Bounds ==
    /\ MaxSnapshots \in Nat /\ MaxLosses \in Nat
    /\ MaxRevision \in Nat \ {0} /\ MaxTokens \in Nat \ {0}
    /\ First \in Content
BY BoundsAreNat, InitialContent

LEMMA QueueFacts ==
    ASSUME NEW u \in Queue
    PROVE  /\ u \in Seq(Snapshot)
           /\ Len(u) \in 0 .. 2
           /\ DOMAIN u = 1 .. Len(u)
           /\ u = <<>> <=> Len(u) = 0
           /\ \A i \in 1 .. Len(u) : u[i] \in Snapshot
<1>1. PICK n \in 0 .. 2 : u \in [1 .. n -> Snapshot]
  BY DEF Queue
<1>2. u \in Seq(Snapshot) /\ Len(u) = n
  BY <1>1
<1> QED
  BY <1>1, <1>2

LEMMA AQueue ==
    ASSUME NEW u \in Seq(Snapshot), Len(u) \in 0 .. 2
    PROVE  u \in Queue
<1>1. u \in [1 .. Len(u) -> Snapshot]
  OBVIOUS
<1> QED
  BY <1>1 DEF Queue

LEMMA SnapshotFields ==
    ASSUME NEW p \in Snapshot
    PROVE  /\ p.key \in 1 .. MaxSnapshots
           /\ p.expected \in 1 .. MaxRevision
           /\ p.sha \in Content
BY DEF Snapshot

LEMMA DocFields ==
    ASSUME NEW d \in Doc
    PROVE  /\ d.session \in Session /\ d.token \in 1 .. MaxTokens
           /\ d.revision \in 1 .. MaxRevision /\ d.ack \in Content
           /\ d.queue \in Queue /\ d.status \in Status
BY DEF Doc

LEMMA RequestFields ==
    ASSUME NEW q \in Request
    PROVE  /\ q.session \in Session /\ q.token \in 1 .. MaxTokens
           /\ q.op \in {"save", "resume", "renew", "heartbeat", "finish"}
           /\ q.details \in Details
           /\ q.answer = <<>> \/ \E a \in Answers : q.answer = <<a>>
           /\ q # Idle
BY DEF Request, Idle

\* A commit on behalf of any writer.
LEMMA CommitGrows ==
    ASSUME ServerTyped, NEW w \in Session \cup {Other},
           NEW k \in 1 .. MaxSnapshots + MaxRevision, NEW e, NEW c \in Content,
           Original!Commit(w, k, e, c)
    PROVE  /\ Original!TypeOK'
           /\ e = Len(history)
           /\ Len(history') \in {Len(history), Len(history) + 1}
           /\ history'[Len(history')] = c
           /\ \A i \in 1 .. Len(history) : history'[i] = history[i]
           /\ Original!ReceiptsOf(w, k) = {}
           /\ receipts' = receipts \cup
                  {[writer |-> w, key |-> k, expected |-> e,
                    revision |-> Len(history'), sha |-> c]}
           /\ Original!Next
<1> DEFINE new == [writer |-> w, key |-> k, expected |-> e,
                   revision |-> Len(history'), sha |-> c]
<1>1. /\ e = Len(history) /\ Original!ReceiptsOf(w, k) = {}
      /\ receipts' = receipts \cup {new}
  BY DEF Original!Commit, Original!Revision
<1>2. Len(history) \in Nat \ {0} /\ history \in Seq(Content)
  BY Bounds DEF ServerTyped, Original!TypeOK
<1>3. /\ history' \in Seq(Content)
      /\ Len(history') \in {Len(history), Len(history) + 1}
      /\ history'[Len(history')] = c
      /\ \A i \in 1 .. Len(history) : history'[i] = history[i]
  <2>1. CASE c = Original!Current
    <3>1. history' = history
      BY <2>1 DEF Original!Commit
    <3> QED
      BY <1>2, <2>1, <3>1 DEF Original!Current
  <2>2. CASE c # Original!Current
    <3>1. history' = Append(history, c)
      BY <2>2 DEF Original!Commit
    <3> QED
      BY <1>2, <3>1
  <2> QED
    BY <2>1, <2>2
<1>4. new \in Original!Receipt
  BY <1>1, <1>2, <1>3 DEF Original!Receipt
<1>5. Original!TypeOK'
  BY <1>1, <1>3, <1>4 DEF ServerTyped, Original!TypeOK
<1>6. Original!Next
  BY <1>1 DEF Original!Next, Original!Revision
<1> QED
  BY <1>1, <1>3, <1>5, <1>6

Acked(r, q, a) == /\ r.writer = q.session /\ r.key = q.details.key
                  /\ r.sha = q.details.sha
                  /\ r.sha = a.sha /\ r.revision = a.revision

\* The request is a save the server appends or acknowledges in place.
Landed(q) ==
    /\ q.op = "save" /\ Len(history) < MaxRevision
    /\ Original!Commit(q.session, q.details.key, q.details.expected, q.details.sha)
    /\ Descends(q.session, q.details)
    /\ UNCHANGED <<server, holder>>

\* What a handled request can do to the original, and what its answer says.
LEMMA HandleEffect ==
    ASSUME NEW q \in Request, NEW a, Handle(q, a)
    PROVE  /\ Landed(q) \/ UNCHANGED <<history, receipts, ghosts>>
           /\ q.op = "save" /\ a.code = "ok"
              => \E r \in receipts' : Acked(r, q, a)
           /\ \/ UNCHANGED server
              \/ /\ q.op = "renew" /\ server[q.session].token = q.token
                 /\ server' = [server EXCEPT ![q.session].token = @ + 1]
              \/ server' = [server EXCEPT ![q.session].phase = "closed"]
           /\ holder' \in {holder, q.session, Nobody}
<1>1. CASE server[q.session] # [phase |-> "open", token |-> q.token]
  BY <1>1 DEF Handle, Failed, serverVars
<1>2. CASE server[q.session] = [phase |-> "open", token |-> q.token]
  <2>1. CASE q.op = "save" /\ Save(q, a)
    <3> DEFINE p == q.details
    <3>1. CASE UNCHANGED <<serverVars, ghosts>> /\ a.code # "ok"
      BY <2>1, <3>1 DEF serverVars
    <3>2. CASE /\ \E r \in Original!ReceiptsOf(q.session, p.key) :
                     r.sha = p.sha /\ r.expected = p.expected
                     /\ a = Ok(r.revision, r.sha)
               /\ UNCHANGED <<serverVars, ghosts>>
      <4>1. PICK r \in receipts : /\ r.writer = q.session /\ r.key = p.key
                                  /\ r.sha = p.sha /\ a = Ok(r.revision, r.sha)
        BY <3>2 DEF Original!ReceiptsOf
      <4>2. Acked(r, q, a)
        BY <4>1 DEF Acked, Ok
      <4>3. \E x \in receipts' : Acked(x, q, a)
        BY <3>2, <4>1, <4>2 DEF serverVars
      <4> QED
        BY <3>2, <4>3 DEF serverVars
    <3>3. CASE /\ Len(history) < MaxRevision
               /\ Original!Commit(q.session, p.key, p.expected, p.sha)
               /\ a = Ok(Len(history'), p.sha)
               /\ Descends(q.session, p)
               /\ UNCHANGED <<server, holder>>
      <4>1. Landed(q)
        BY <2>1, <3>3 DEF Landed
      <4> DEFINE new == [writer |-> q.session, key |-> p.key,
                         expected |-> p.expected,
                         revision |-> Len(history'), sha |-> p.sha]
      <4>2. new \in receipts'
        BY <3>3 DEF Original!Commit
      <4>3. Acked(new, q, a)
        BY <3>3 DEF Acked, Ok
      <4> QED
        BY <3>3, <4>1, <4>2, <4>3
    <3> QED
      BY <2>1, <3>1, <3>2, <3>3 DEF Save, Failed
  <2>2. CASE q.op = "resume" /\ Resume(q, a)
    BY <2>2 DEF Resume, serverVars
  <2>3. CASE q.op \in {"heartbeat", "renew"} /\ Extend(q, a)
    BY <1>2, <2>3 DEF Extend, serverVars
  <2>4. CASE q.op = "finish" /\ Finish(q, a)
    BY <2>4 DEF Finish
  <2> QED
    BY <1>2, <2>1, <2>2, <2>3, <2>4 DEF Handle
<1> QED
  BY <1>1, <1>2

LEMMA HandleTyped ==
    ASSUME ServerTyped, NEW q \in Request, WellMade(q), NEW a, Handle(q, a)
    PROVE  ServerTyped' /\ Len(history') >= Len(history)
<1> USE Bounds
<1>1. q.session \in Session /\ q.token \in 1 .. MaxTokens
  BY RequestFields
<1>2. server' \in [Session -> Row]
  <2>1. server[q.session] \in Row
    BY <1>1 DEF ServerTyped
  <2>2. CASE UNCHANGED server
    BY <2>2 DEF ServerTyped
  <2>3. CASE /\ q.op = "renew" /\ server[q.session].token = q.token
             /\ server' = [server EXCEPT ![q.session].token = @ + 1]
    <3>1. server[q.session].token + 1 \in 0 .. MaxTokens
      BY <1>1, <2>3 DEF WellMade
    <3>2. [server[q.session] EXCEPT !.token = @ + 1] \in Row
      BY <2>1, <3>1 DEF Row
    <3> QED
      BY <2>3, <3>2 DEF ServerTyped
  <2>4. CASE server' = [server EXCEPT ![q.session].phase = "closed"]
    <3>1. [server[q.session] EXCEPT !.phase = "closed"] \in Row
      BY <2>1 DEF Row
    <3> QED
      BY <2>4, <3>1 DEF ServerTyped
  <2> QED
    BY <2>2, <2>3, <2>4, HandleEffect
<1>3. holder' \in Session \cup {Other, Nobody}
  BY <1>1, HandleEffect DEF ServerTyped
<1>4. CASE UNCHANGED <<history, receipts, ghosts>>
  BY <1>2, <1>3, <1>4 DEF ServerTyped, Original!TypeOK, ghosts
<1>5. CASE Landed(q)
  <2>1. /\ q.details \in Snapshot /\ q.details.key \in 1 .. MaxSnapshots
        /\ q.details.sha \in Content
    BY <1>5, SnapshotFields DEF WellMade, Landed
  <2>2. q.details.key \in 1 .. MaxSnapshots + MaxRevision
    BY <2>1
  <2>3. /\ Original!TypeOK'
        /\ Len(history') \in {Len(history), Len(history) + 1}
    BY <1>1, <1>5, <2>1, <2>2, CommitGrows DEF Landed
  <2>4. Len(history') \in 1 .. MaxRevision /\ Len(history') >= Len(history)
    BY <1>5, <2>3 DEF Landed, ServerTyped
  <2>5. base' \in 0 .. MaxRevision /\ rebased' \subseteq Session
    BY <1>5, <2>4 DEF Landed, Descends, ghosts, ServerTyped
  <2> QED
    BY <1>2, <1>3, <2>3, <2>4, <2>5 DEF ServerTyped
<1> QED
  BY <1>4, <1>5, HandleEffect

-----------------------------------------------------------------------------
\* What the client was about to do stays true while its session is untouched.
LEMMA PreparedKept ==
    ASSUME ClientTyped, Prepared, made' >= made, made' \in Nat,
           UNCHANGED <<doc, work>>,
           call' = Idle \/ UNCHANGED call,
           stray' \subseteq stray \cup (IF call = Idle THEN {} ELSE {call})
    PROVE  Prepared'
<1>1. CallIsOfDoc'
  BY DEF Prepared, CallIsOfDoc
<1>2. ASSUME NEW q, WellMade(q)
      PROVE  WellMade(q)'
  BY <1>2, SnapshotFields DEF WellMade, ClientTyped
<1>3. call' # Idle => WellMade(call)'
  <2> SUFFICES ASSUME call' # Idle PROVE WellMade(call)'
    OBVIOUS
  <2>1. call' = call /\ WellMade(call)
    BY DEF Prepared
  <2> QED
    BY <2>1, SnapshotFields DEF WellMade, ClientTyped
<1>4. \A q \in stray' : WellMade(q)'
  BY <1>2 DEF Prepared
<1>5. QueueMade'
  <2> SUFFICES ASSUME doc \in Doc, NEW i \in DOMAIN doc.queue
               PROVE  doc.queue[i].key <= made'
    BY DEF QueueMade
  <2>1. doc.queue[i] \in Snapshot
    BY DocFields, QueueFacts
  <2> QED
    BY <2>1, SnapshotFields DEF Prepared, QueueMade, ClientTyped
<1> QED
  BY <1>1, <1>3, <1>4, <1>5 DEF Prepared

\* A changed session with no request on its way.
LEMMA PreparedAnew ==
    ASSUME ClientTyped, Prepared, made' >= made, made' \in Nat,
           call' = Idle, QueueMade',
           stray' \subseteq stray \cup (IF call = Idle THEN {} ELSE {call})
    PROVE  Prepared'
<1>1. CallIsOfDoc'
  BY DEF CallIsOfDoc
<1>2. ASSUME NEW q, WellMade(q)
      PROVE  WellMade(q)'
  BY <1>2, SnapshotFields DEF WellMade, ClientTyped
<1>3. \A q \in stray' : WellMade(q)'
  BY <1>2 DEF Prepared
<1> QED
  BY <1>1, <1>3 DEF Prepared

LEMMA AnswerFields ==
    ASSUME NEW a \in Answers
    PROVE  /\ a.code = "ok" => a.revision \in 1 .. MaxRevision /\ a.sha \in Content
           /\ a.code # "ok" => StatusOf(a.code) \in {"reauth", "conflict", "error"}
<1>1. CASE \E c \in {"denied", "conflict", "rejected"} : a = Failed(c)
  BY <1>1 DEF Failed, StatusOf
<1>2. CASE \E r \in 1 .. MaxRevision, c \in Content : a = Ok(r, c)
  BY <1>2 DEF Ok
<1> QED
  BY <1>1, <1>2 DEF Answers

LEMMA AnsweredCall ==
    ASSUME ClientTyped, Prepared, call # Idle, call.answer # <<>>
    PROVE  /\ call \in Request /\ call.answer[1] \in Answers
           /\ doc \in Doc /\ call.session = doc.session
           /\ call.op = "save" => doc.queue # <<>> /\ call.details = doc.queue[1]
           /\ call.op = "finish" => doc.queue = <<>> /\ work = doc.ack
<1>1. call \in Request
  BY DEF ClientTyped
<1>2. PICK a \in Answers : call.answer = <<a>>
  BY <1>1, RequestFields
<1> QED
  BY <1>1, <1>2 DEF Prepared, CallIsOfDoc

LEMMA OkAnswer ==
    ASSUME ClientTyped, Prepared,
           NEW op \in {"save", "resume", "renew", "heartbeat", "finish"},
           Answered(op)
    PROVE  /\ call # Idle /\ call.answer # <<>> /\ call.op = op
           /\ call.answer[1].code = "ok"
           /\ call.answer[1].revision \in 1 .. MaxRevision
           /\ call.answer[1].sha \in Content
<1>1. call # Idle /\ call.answer # <<>> /\ call.op = op /\ call.answer[1].code = "ok"
  BY DEF Answered, Idle
<1>2. call.answer[1] \in Answers
  BY <1>1, AnsweredCall
<1> QED
  BY <1>1, <1>2, AnswerFields

\* Adopting a working copy keeps its snapshots and replaces its base.
LEMMA AdoptedDoc ==
    ASSUME ClientTyped, NEW l \in Launch
    PROVE  /\ Adopted(l) \in Doc
           /\ Adopted(l).session = l.session
           /\ Adopted(l).revision = l.revision /\ Adopted(l).ack = l.sha
           /\ Adopted(l).status \in {"editing", "conflict"}
           /\ doc = NoDoc => Adopted(l).queue = <<>>
           /\ doc # NoDoc =>
                /\ Len(Adopted(l).queue) = Len(doc.queue)
                /\ \A i \in 1 .. Len(doc.queue) :
                     /\ Adopted(l).queue[i].key = doc.queue[i].key
                     /\ Adopted(l).queue[i].sha = doc.queue[i].sha
                     /\ \/ Adopted(l).queue[i].expected = doc.queue[i].expected
                        \/ /\ doc.ack = l.sha
                           /\ Adopted(l).queue[i].expected = l.revision
<1> USE Bounds
<1>1. l.session \in Session /\ l.revision \in 1 .. MaxRevision /\ l.sha \in Content
  BY DEF Launch
<1>2. Fresh(l) \in Doc
  <2>1. <<>> \in Queue
    <3>1. <<>> \in Seq(Snapshot) /\ Len(<<>>) = 0 /\ 0 \in 0 .. 2
      OBVIOUS
    <3> QED
      BY <3>1, AQueue
  <2> QED
    BY <1>1, <2>1 DEF Fresh, Doc, Status
<1>3. CASE doc = NoDoc
  BY <1>2, <1>3 DEF Adopted, Fresh
<1>4. CASE doc # NoDoc
  <2>1. doc \in Doc /\ doc.queue \in Queue
    BY <1>4, DocFields DEF ClientTyped
  <2>2. /\ doc.queue \in Seq(Snapshot) /\ Len(doc.queue) \in 0 .. 2
        /\ DOMAIN doc.queue = 1 .. Len(doc.queue)
        /\ \A i \in 1 .. Len(doc.queue) : doc.queue[i] \in Snapshot
    BY <2>1, QueueFacts
  <2>3. CASE doc.ack = l.sha
    <3> DEFINE u == [i \in DOMAIN doc.queue |-> IF i = 1
                       THEN [doc.queue[i] EXCEPT !.expected = l.revision]
                       ELSE doc.queue[i]]
    <3>1. \A i \in 1 .. Len(doc.queue) :
            /\ [doc.queue[i] EXCEPT !.expected = l.revision] \in Snapshot
            /\ [doc.queue[i] EXCEPT !.expected = l.revision].key = doc.queue[i].key
            /\ [doc.queue[i] EXCEPT !.expected = l.revision].sha = doc.queue[i].sha
            /\ [doc.queue[i] EXCEPT !.expected = l.revision].expected = l.revision
      BY <1>1, <2>2 DEF Snapshot
    <3>2. \A i \in 1 .. Len(doc.queue) :
            /\ u[i] \in Snapshot /\ u[i].key = doc.queue[i].key
            /\ u[i].sha = doc.queue[i].sha
            /\ u[i].expected \in {doc.queue[i].expected, l.revision}
      BY <2>2, <3>1
    <3>3. u \in [1 .. Len(doc.queue) -> Snapshot]
      BY <2>2, <3>2
    <3>4. u \in Seq(Snapshot) /\ Len(u) = Len(doc.queue)
      BY <2>2, <3>3
    <3>5. u \in Queue
      BY <2>2, <3>4, AQueue
    <3>6. Adopted(l) = [Fresh(l) EXCEPT !.queue = u]
      BY <1>4, <2>3 DEF Adopted
    <3> HIDE DEF u
    <3>7. Adopted(l) \in Doc
      BY <1>2, <3>5, <3>6 DEF Doc
    <3> QED
      BY <1>2, <1>4, <2>3, <3>2, <3>4, <3>6, <3>7 DEF Fresh
  <2>4. CASE doc.ack # l.sha
    <3>1. Adopted(l) = [Fresh(l) EXCEPT !.queue = doc.queue, !.status = "conflict"]
      BY <1>4, <2>4 DEF Adopted
    <3>2. Adopted(l) \in Doc
      BY <1>2, <2>1, <3>1 DEF Doc, Status
    <3> QED
      BY <1>4, <3>1, <3>2 DEF Fresh
  <2> QED
    BY <2>3, <2>4
<1> QED
  BY <1>3, <1>4

\* The snapshots behind the acknowledged one move up and expect its revision.
Promoted(u, r) == [i \in DOMAIN Tail(u) |-> [Tail(u)[i] EXCEPT !.expected = r]]

LEMMA PromotedQueue ==
    ASSUME NEW u \in Queue, u # <<>>, NEW r \in 1 .. MaxRevision
    PROVE  /\ Promoted(u, r) \in Queue
           /\ Len(Promoted(u, r)) = Len(u) - 1
           /\ Promoted(u, r) = <<>> <=> Tail(u) = <<>>
           /\ \A i \in DOMAIN Promoted(u, r) :
                /\ i + 1 \in DOMAIN u
                /\ Promoted(u, r)[i].key = u[i + 1].key
                /\ Promoted(u, r)[i].sha = u[i + 1].sha
                /\ Promoted(u, r)[i].expected = r
<1>1. /\ u \in Seq(Snapshot) /\ Len(u) \in 1 .. 2 /\ DOMAIN u = 1 .. Len(u)
      /\ \A i \in 1 .. Len(u) : u[i] \in Snapshot
  BY QueueFacts
<1>2. /\ Tail(u) \in Seq(Snapshot) /\ Len(Tail(u)) = Len(u) - 1
      /\ DOMAIN Tail(u) = 1 .. Len(u) - 1
      /\ \A i \in 1 .. Len(u) - 1 : Tail(u)[i] = u[i + 1] /\ u[i + 1] \in Snapshot
  BY <1>1
<1>3. \A p \in Snapshot : /\ [p EXCEPT !.expected = r] \in Snapshot
                          /\ [p EXCEPT !.expected = r].key = p.key
                          /\ [p EXCEPT !.expected = r].sha = p.sha
                          /\ [p EXCEPT !.expected = r].expected = r
  BY DEF Snapshot
<1>4. Promoted(u, r) \in [1 .. Len(u) - 1 -> Snapshot]
  BY <1>2, <1>3 DEF Promoted
<1>5. Len(u) - 1 \in Nat /\ Len(u) - 1 \in 0 .. 2
  BY <1>1
<1>6. Promoted(u, r) \in Seq(Snapshot) /\ Len(Promoted(u, r)) = Len(u) - 1
  BY <1>4, <1>5
<1>7. Promoted(u, r) \in Queue
  BY <1>5, <1>6, AQueue
<1>8. Promoted(u, r) = <<>> <=> Tail(u) = <<>>
  BY <1>2, <1>6, <1>7, QueueFacts
<1>9. ASSUME NEW i \in DOMAIN Promoted(u, r)
      PROVE  /\ i + 1 \in DOMAIN u
             /\ Promoted(u, r)[i].key = u[i + 1].key
             /\ Promoted(u, r)[i].sha = u[i + 1].sha
             /\ Promoted(u, r)[i].expected = r
  <2>1. i \in 1 .. Len(u) - 1
    BY <1>4
  <2>2. Promoted(u, r)[i] = [u[i + 1] EXCEPT !.expected = r] /\ u[i + 1] \in Snapshot
    BY <1>2, <2>1 DEF Promoted
  <2>3. i + 1 \in DOMAIN u
    BY <1>1, <2>1
  <2> QED
    BY <1>3, <2>2, <2>3
<1> QED
  BY <1>6, <1>7, <1>8, <1>9

-----------------------------------------------------------------------------
\* Steps around the client.
LEMMA AroundTyped ==
    ASSUME TypeInv,
           \/ OtherHolds \/ Lapse \/ Expire
           \/ \E c \in Content : OtherSaves(c) \/ Edit(c)
           \/ \E s \in Session : Revoke(s) \/ BrowserLaunch(s) \/ Exchange(s)
    PROVE  TypeInv'
<1> USE Bounds
<1>1. made \in Nat
  BY DEF TypeInv, ClientTyped
<1>2. ASSUME NEW c \in Content, Edit(c)
      PROVE  TypeInv'
  <2>1. ServerTyped'
    BY <1>2 DEF Edit, TypeInv, ServerTyped, Original!TypeOK, serverVars, ghosts
  <2>2. ClientTyped'
    BY <1>2 DEF Edit, TypeInv, ClientTyped
  <2>3. CallIsOfDoc'
    BY <1>2 DEF Edit, TypeInv, Prepared, CallIsOfDoc
  <2>4. Prepared'
    BY <1>2, <2>3 DEF Edit, TypeInv, Prepared, WellMade, QueueMade
  <2> QED
    BY <2>1, <2>2, <2>4 DEF TypeInv
<1>3. ASSUME UNCHANGED <<doc, work, call, stray, made>>
      PROVE  Prepared'
  BY <1>1, <1>3, PreparedKept DEF TypeInv
<1>4. ASSUME UNCHANGED <<doc, work, call, stray, made, losses, launched, believes>>
      PROVE  ClientTyped' /\ Prepared'
  BY <1>3, <1>4 DEF TypeInv, ClientTyped
<1>5. CASE OtherHolds \/ Expire
  <2>1. ServerTyped'
    BY <1>5 DEF OtherHolds, Expire, TypeInv, ServerTyped, Original!TypeOK, ghosts
  <2>2. UNCHANGED <<doc, work, call, stray, made, losses, launched, believes>>
    BY <1>5 DEF OtherHolds, Expire, localVars
  <2> QED
    BY <1>4, <2>1, <2>2 DEF TypeInv
<1>6. CASE Lapse
  <2>1. ServerTyped'
    BY <1>6 DEF Lapse, TypeInv, ServerTyped, Original!TypeOK, ghosts, serverVars
  <2>2. ClientTyped'
    BY <1>6 DEF Lapse, TypeInv, ClientTyped
  <2>3. Prepared'
    BY <1>3, <1>6 DEF Lapse
  <2> QED
    BY <2>1, <2>2, <2>3 DEF TypeInv
<1>7. ASSUME NEW c \in Content, OtherSaves(c)
      PROVE  TypeInv'
  <2>1. Len(history) \in Nat \ {0} /\ Len(history) < MaxRevision
    BY <1>7 DEF OtherSaves, TypeInv, ServerTyped
  <2>2. MaxSnapshots + Len(history) \in 1 .. MaxSnapshots + MaxRevision
    BY <2>1
  <2>3. /\ Original!TypeOK'
        /\ Len(history') \in {Len(history), Len(history) + 1}
    BY <1>7, <2>2, CommitGrows DEF OtherSaves, TypeInv
  <2>4. ServerTyped'
    BY <1>7, <2>1, <2>3 DEF OtherSaves, TypeInv, ServerTyped, ghosts
  <2>5. UNCHANGED <<doc, work, call, stray, made, losses, launched, believes>>
    BY <1>7 DEF OtherSaves, localVars
  <2> QED
    BY <1>4, <2>4, <2>5 DEF TypeInv
<1>8. ASSUME NEW s \in Session, NEW x \in Row,
             server' = [server EXCEPT ![s] = x],
             holder' \in {holder, s, Nobody},
             UNCHANGED <<history, receipts, ghosts>>
      PROVE  ServerTyped'
  BY <1>8 DEF TypeInv, ServerTyped, Original!TypeOK, ghosts
<1>9. ASSUME NEW s \in Session, Revoke(s) \/ BrowserLaunch(s)
      PROVE  TypeInv'
  <2>1. server[s] \in Row
    BY DEF TypeInv, ServerTyped
  <2>2. /\ [server[s] EXCEPT !.phase = "closed"] \in Row
        /\ [server[s] EXCEPT !.phase = "ticket"] \in Row
    BY <2>1 DEF Row
  <2>3. \/ server' = [server EXCEPT ![s] = [server[s] EXCEPT !.phase = "closed"]]
        \/ server' = [server EXCEPT ![s] = [server[s] EXCEPT !.phase = "ticket"]]
    BY <1>9 DEF Revoke, BrowserLaunch
  <2>4. holder' \in {holder, s, Nobody} /\ UNCHANGED <<history, receipts, ghosts>>
    BY <1>9 DEF Revoke, BrowserLaunch
  <2>5. ServerTyped'
    BY <1>8, <2>2, <2>3, <2>4
  <2>6. UNCHANGED <<doc, work, call, stray, made, losses, launched, believes>>
    BY <1>9 DEF Revoke, BrowserLaunch, localVars
  <2> QED
    BY <1>4, <2>5, <2>6 DEF TypeInv
<1>10. ASSUME NEW s \in Session, Exchange(s)
       PROVE  TypeInv'
  <2>1. [phase |-> "open", token |-> 1] \in Row
    BY DEF Row
  <2>2. ServerTyped'
    BY <1>8, <1>10, <2>1 DEF Exchange
  <2>3. /\ Len(history) \in 1 .. MaxRevision
        /\ history[Len(history)] \in Content
    BY DEF TypeInv, ServerTyped, Original!TypeOK
  <2>4. [session |-> s, revision |-> Len(history),
         sha |-> history[Len(history)]] \in Launch
    BY <2>3 DEF Launch
  <2>5. launched' \in Launch \cup {NoLaunch}
    BY <1>10, <2>4 DEF Exchange, Original!Revision, Original!Current
  <2>6. UNCHANGED <<doc, work, call, stray, made, losses, believes>>
    BY <1>10 DEF Exchange, localVars
  <2>7. ClientTyped' /\ Prepared'
    BY <1>3, <2>5, <2>6 DEF TypeInv, ClientTyped
  <2> QED
    BY <2>2, <2>7 DEF TypeInv
<1> QED
  BY <1>2, <1>5, <1>6, <1>7, <1>9, <1>10

\* The server's variables and the history variables keep their types.
LEMMA ServerKept ==
    ASSUME ServerTyped, UNCHANGED serverVars,
           base' \in 0 .. MaxRevision, rebased' \subseteq Session
    PROVE  ServerTyped'
BY DEF ServerTyped, Original!TypeOK, serverVars

\* A step that changes the session with no request on its way: its queue holds
\* snapshots that were captured by then.
LEMMA SessionTyped ==
    ASSUME TypeInv, UNCHANGED <<serverVars, stray>>, call' = Idle,
           doc' \in Doc \cup {NoDoc}, work' \in Content \cup {NoFile},
           believes' \in BOOLEAN, launched' \in {launched, NoLaunch},
           made' \in made .. MaxSnapshots, losses' \in 0 .. MaxLosses,
           base' \in 0 .. MaxRevision, rebased' \subseteq Session,
           QueueMade'
    PROVE  TypeInv'
<1> USE Bounds
<1>1. made' \in Nat /\ made' >= made /\ made' \in 0 .. MaxSnapshots
  BY DEF TypeInv, ClientTyped
<1>2. ServerTyped'
  BY ServerKept DEF TypeInv
<1>3. ClientTyped'
  BY <1>1 DEF TypeInv, ClientTyped
<1>4. Prepared'
  BY <1>1, PreparedAnew DEF TypeInv
<1> QED
  BY <1>2, <1>3, <1>4 DEF TypeInv

\* The status of a session, and what goes with it, is all that changes.
LEMMA StatusTyped ==
    ASSUME TypeInv, doc \in Doc, NEW x \in Status,
           doc' = [doc EXCEPT !.status = x], UNCHANGED made
    PROVE  /\ doc' \in Doc /\ QueueMade'
           /\ doc'.queue = doc.queue /\ doc'.status = x
           /\ doc'.session = doc.session /\ doc'.token = doc.token
           /\ doc'.revision = doc.revision /\ doc'.ack = doc.ack
<1>1. /\ [doc EXCEPT !.status = x] \in Doc
      /\ [doc EXCEPT !.status = x].queue = doc.queue
      /\ [doc EXCEPT !.status = x].status = x
      /\ [doc EXCEPT !.status = x].session = doc.session
      /\ [doc EXCEPT !.status = x].token = doc.token
      /\ [doc EXCEPT !.status = x].revision = doc.revision
      /\ [doc EXCEPT !.status = x].ack = doc.ack
  BY DEF Doc
<1> QED
  BY <1>1 DEF TypeInv, Prepared, QueueMade

LEMMA FetchTyped ==
    ASSUME TypeInv, NEW d \in Doc, Fetch(d),
           \A i \in DOMAIN d.queue : d.queue[i].key <= made, made' = made
    PROVE  /\ doc' \in Doc /\ work' \in Content /\ base' \in 1 .. MaxRevision
           /\ QueueMade'
           /\ doc'.queue = d.queue /\ doc'.status = "editing"
           /\ doc'.session = d.session /\ doc'.token = d.token
           /\ doc'.revision = d.revision /\ doc'.ack = d.ack
<1>1. /\ [d EXCEPT !.status = "editing"] \in Doc
      /\ [d EXCEPT !.status = "editing"].queue = d.queue
      /\ [d EXCEPT !.status = "editing"].status = "editing"
      /\ [d EXCEPT !.status = "editing"].session = d.session
      /\ [d EXCEPT !.status = "editing"].token = d.token
      /\ [d EXCEPT !.status = "editing"].revision = d.revision
      /\ [d EXCEPT !.status = "editing"].ack = d.ack
  BY DEF Doc, Status
<1>2. doc' = [d EXCEPT !.status = "editing"] /\ work' = d.ack /\ base' = Len(history)
  BY DEF Fetch, Original!Revision
<1>3. Len(history) \in 1 .. MaxRevision
  BY DEF TypeInv, ServerTyped
<1> QED
  BY <1>1, <1>2, <1>3, DocFields DEF QueueMade

LEMMA AdoptTyped ==
    ASSUME TypeInv, Adopt
    PROVE  TypeInv'
<1> DEFINE l == launched
           d == Adopted(l)
<1> USE Bounds
<1>1. l \in Launch /\ l.session \in Session /\ l.revision \in 1 .. MaxRevision
  BY DEF Adopt, TypeInv, ClientTyped, Launch
<1>2. d \in Doc
  BY <1>1, AdoptedDoc DEF TypeInv
<1>3. \A i \in DOMAIN d.queue : d.queue[i].key <= made
  <2>1. CASE doc = NoDoc
    BY <1>1, <2>1, AdoptedDoc DEF TypeInv
  <2>2. CASE doc # NoDoc
    <3>1. doc \in Doc
      BY <2>2 DEF TypeInv, ClientTyped
    <3>2. DOMAIN doc.queue = 1 .. Len(doc.queue)
      BY <3>1, DocFields, QueueFacts
    <3>3. DOMAIN d.queue = 1 .. Len(d.queue)
      BY <1>2, DocFields, QueueFacts
    <3>4. /\ Len(d.queue) = Len(doc.queue)
          /\ \A i \in 1 .. Len(doc.queue) : d.queue[i].key = doc.queue[i].key
      BY <1>1, <2>2, AdoptedDoc DEF TypeInv
    <3>5. \A i \in DOMAIN doc.queue : doc.queue[i].key <= made
      BY <3>1 DEF TypeInv, Prepared, QueueMade
    <3> QED
      BY <3>2, <3>3, <3>4, <3>5
  <2> QED
    BY <2>1, <2>2
<1> HIDE DEF d
<1>4. /\ call' = Idle /\ launched' = NoLaunch /\ believes' \in BOOLEAN
      /\ UNCHANGED <<serverVars, stray>>
      /\ UNCHANGED <<made, losses>>
  BY DEF Adopt
<1>5. made' \in made .. MaxSnapshots /\ losses' \in 0 .. MaxLosses /\ made' = made
  BY <1>4 DEF TypeInv, ClientTyped
<1>6. \/ Fetch(d) /\ UNCHANGED rebased
      \/ /\ doc' = d /\ UNCHANGED work
         /\ base' \in {base, l.revision}
         /\ rebased' \subseteq rebased \cup {l.session}
  BY DEF Adopt, d
<1>7. CASE Fetch(d) /\ UNCHANGED rebased
  <2>1. /\ doc' \in Doc /\ work' \in Content /\ base' \in 1 .. MaxRevision
        /\ QueueMade'
    BY <1>2, <1>3, <1>5, <1>7, FetchTyped
  <2>2. rebased' \subseteq Session
    BY <1>7 DEF TypeInv, ServerTyped
  <2> QED
    BY <1>4, <1>5, <2>1, <2>2, SessionTyped
<1>8. CASE /\ doc' = d /\ UNCHANGED work
           /\ base' \in {base, l.revision}
           /\ rebased' \subseteq rebased \cup {l.session}
  <2>1. base' \in 0 .. MaxRevision /\ rebased' \subseteq Session
    BY <1>1, <1>8 DEF TypeInv, ServerTyped
  <2>2. QueueMade'
    BY <1>3, <1>5, <1>8 DEF QueueMade
  <2>3. work' \in Content \cup {NoFile}
    BY <1>8 DEF TypeInv, ClientTyped
  <2> QED
    BY <1>2, <1>4, <1>5, <1>8, <2>1, <2>2, <2>3, SessionTyped
<1> QED
  BY <1>6, <1>7, <1>8

LEMMA ATick ==
    ASSUME TypeInv, Gate
    PROVE  doc \in Doc /\ doc.queue \in Queue /\ call = Idle
BY DocFields DEF TypeInv, ClientTyped, Gate

\* What a capture puts behind the snapshot that may be on the wire.
LEMMA Captured ==
    ASSUME TypeInv, Capture
    PROVE  /\ doc \in Doc /\ doc' \in Doc /\ made' = made + 1 /\ made < MaxSnapshots
           /\ work \in Content /\ UNCHANGED <<work, believes, ghosts, serverVars>>
           /\ UNCHANGED <<launched, stray, losses>> /\ call' = Idle
           /\ doc'.session = doc.session /\ doc'.token = doc.token
           /\ doc'.revision = doc.revision /\ doc'.ack = doc.ack
           /\ doc'.status = IF Blocked THEN doc.status ELSE "local_saved"
           /\ doc'.queue # <<>>
           /\ doc.queue # <<>> => doc'.queue[1] = doc.queue[1]
           /\ \A i \in DOMAIN doc'.queue :
                \/ i \in DOMAIN doc.queue /\ doc'.queue[i] = doc.queue[i]
                \/ /\ doc'.queue[i].key = made + 1
                   /\ doc'.queue[i].expected = doc.revision
<1> DEFINE new == [key |-> made + 1, expected |-> doc.revision, sha |-> work]
           u == IF doc.queue = <<>> THEN <<new>> ELSE <<doc.queue[1], new>>
<1>1. /\ doc \in Doc /\ doc.queue \in Queue /\ call = Idle /\ made < MaxSnapshots
      /\ made' = made + 1 /\ made + 1 \in 1 .. MaxSnapshots
      /\ work \in Content
      /\ UNCHANGED <<work, believes, ghosts, serverVars>>
      /\ UNCHANGED <<call, launched, stray, losses>>
  BY ATick, Bounds DEF Capture, TypeInv, ClientTyped
<1>2. new \in Snapshot
  BY <1>1, DocFields DEF Snapshot
<1>3. doc.queue # <<>> => 1 \in DOMAIN doc.queue /\ doc.queue[1] \in Snapshot
  BY <1>1, QueueFacts
<1>4. u \in Queue
  <2>1. CASE doc.queue = <<>>
    <3>1. <<new>> \in Seq(Snapshot) /\ Len(<<new>>) \in 0 .. 2
      BY <1>2
    <3>2. <<new>> \in Queue
      BY <3>1, AQueue
    <3> QED
      BY <2>1, <3>2
  <2>2. CASE doc.queue # <<>>
    <3>1. /\ <<doc.queue[1], new>> \in Seq(Snapshot)
          /\ Len(<<doc.queue[1], new>>) \in 0 .. 2
      BY <1>2, <1>3, <2>2
    <3>2. <<doc.queue[1], new>> \in Queue
      BY <3>1, AQueue
    <3> QED
      BY <2>2, <3>2
  <2> QED
    BY <2>1, <2>2
<1>5. /\ u # <<>>
      /\ doc.queue # <<>> => u[1] = doc.queue[1]
      /\ \A i \in DOMAIN u : \/ i \in DOMAIN doc.queue /\ u[i] = doc.queue[i]
                             \/ u[i] = new
  BY <1>3
<1>6. doc' = [doc EXCEPT !.queue = u,
                         !.status = IF Blocked THEN doc.status ELSE "local_saved"]
  BY <1>1 DEF Capture
<1>7. (IF Blocked THEN doc.status ELSE "local_saved") \in Status
  BY <1>1, DocFields DEF Status
<1> DEFINE x == IF Blocked THEN doc.status ELSE "local_saved"
<1>8. \A i \in DOMAIN u : \/ i \in DOMAIN doc.queue /\ u[i] = doc.queue[i]
                          \/ u[i].key = made + 1 /\ u[i].expected = doc.revision
  BY <1>5
<1> HIDE DEF u, x
<1>9. /\ doc' \in Doc /\ doc'.queue = u /\ doc'.status = x
      /\ doc'.session = doc.session /\ doc'.token = doc.token
      /\ doc'.revision = doc.revision /\ doc'.ack = doc.ack
  BY <1>1, <1>4, <1>6, <1>7 DEF Doc, x
<1> QED
  BY <1>1, <1>5, <1>8, <1>9 DEF x

\* An acknowledgement promotes the queue, or the session is left to a retry.
LEMMA Acknowledged ==
    ASSUME TypeInv, Acknowledge
    PROVE  /\ doc \in Doc /\ doc.queue # <<>> /\ call # Idle /\ call' = Idle
           /\ call.session = doc.session /\ call.details = doc.queue[1]
           /\ UNCHANGED <<work, ghosts, serverVars>>
           /\ UNCHANGED <<launched, stray, made, losses>>
           /\ believes' \in BOOLEAN
           /\ call.answer[1].revision \in 1 .. MaxRevision
           /\ doc' \in Doc /\ doc'.session = doc.session /\ QueueMade'
           /\ \/ /\ doc'.revision = call.answer[1].revision
                 /\ doc'.ack = call.answer[1].sha
                 /\ doc'.queue = Promoted(doc.queue, call.answer[1].revision)
                 /\ doc'.status = "saved" => doc'.queue = <<>>
              \/ /\ doc'.queue = doc.queue /\ doc'.status = "editing"
                 /\ doc'.revision = doc.revision /\ doc'.ack = doc.ack
<1> DEFINE a == call.answer[1]
           u == Promoted(doc.queue, a.revision)
<1>1. Answered("save")
  BY DEF Acknowledge
<1>2. /\ call # Idle /\ call.op = "save" /\ call.answer # <<>>
      /\ a.revision \in 1 .. MaxRevision /\ a.sha \in Content
  BY <1>1, OkAnswer DEF TypeInv
<1>3. /\ doc \in Doc /\ doc.queue # <<>> /\ call.session = doc.session
      /\ call.details = doc.queue[1]
  BY <1>2, AnsweredCall DEF TypeInv
<1>4. /\ call' = Idle /\ UNCHANGED <<work, ghosts, serverVars>>
      /\ UNCHANGED <<launched, stray, made, losses>>
  BY DEF Acknowledge, Idles
<1>5. doc.queue \in Queue
  BY <1>3, DocFields
<1> HIDE DEF a
<1>6. /\ u \in Queue
      /\ u = <<>> <=> Tail(doc.queue) = <<>>
      /\ \A i \in DOMAIN u : i + 1 \in DOMAIN doc.queue
                             /\ u[i].key = doc.queue[i + 1].key
  BY <1>2, <1>3, <1>5, PromotedQueue
<1>7. \/ /\ believes' = TRUE
         /\ \E shown \in {"saved", "editing"} :
              doc' = [doc EXCEPT !.revision = a.revision, !.ack = a.sha, !.queue = u,
                        !.status = IF Tail(doc.queue) # <<>> THEN "local_saved" ELSE shown]
      \/ doc' = [doc EXCEPT !.status = "editing"] /\ UNCHANGED believes
  BY DEF Acknowledge, Promoted, a
<1>8. CASE /\ believes' = TRUE
           /\ \E shown \in {"saved", "editing"} :
              doc' = [doc EXCEPT !.revision = a.revision, !.ack = a.sha, !.queue = u,
                        !.status = IF Tail(doc.queue) # <<>> THEN "local_saved" ELSE shown]
  <2> HIDE DEF u
  <2>1. PICK x \in {"saved", "editing", "local_saved"} :
           /\ doc' = [doc EXCEPT !.revision = a.revision, !.ack = a.sha, !.queue = u,
                                 !.status = x]
           /\ x = "saved" => Tail(doc.queue) = <<>>
    BY <1>8
  <2>2. x \in Status
    BY DEF Status
  <2>3. /\ doc' \in Doc /\ doc'.revision = a.revision /\ doc'.ack = a.sha
        /\ doc'.queue = u /\ doc'.status = x /\ doc'.session = doc.session
    BY <1>2, <1>3, <1>6, <2>1, <2>2 DEF Doc
  <2>4. QueueMade'
    <3> SUFFICES ASSUME NEW i \in DOMAIN u PROVE u[i].key <= made
      BY <1>4, <2>3 DEF QueueMade
    <3> QED
      BY <1>3, <1>6 DEF TypeInv, Prepared, QueueMade
  <2> QED
    BY <1>2, <1>3, <1>4, <1>6, <1>8, <2>1, <2>3, <2>4 DEF u, a
<1>9. CASE doc' = [doc EXCEPT !.status = "editing"] /\ UNCHANGED believes
  <2>1. "editing" \in Status
    BY DEF Status
  <2>2. /\ doc' \in Doc /\ QueueMade' /\ doc'.queue = doc.queue
        /\ doc'.status = "editing" /\ doc'.session = doc.session
        /\ doc'.revision = doc.revision /\ doc'.ack = doc.ack
    BY <1>3, <1>4, <1>9, <2>1, StatusTyped
  <2>3. believes' \in BOOLEAN
    BY <1>9 DEF TypeInv, ClientTyped
  <2> QED
    BY <1>2, <1>3, <1>4, <2>2, <2>3 DEF a
<1> QED
  BY <1>7, <1>8, <1>9

\* The remaining steps that touch the session only restate its status, rotate
\* its token, fill a missing working copy or close it.
Restated ==
    /\ doc \in Doc /\ doc' \in Doc /\ QueueMade'
    /\ doc'.queue = doc.queue /\ (doc'.status = "saved" => doc.status = "saved")
    /\ doc'.session = doc.session
    /\ doc'.revision = doc.revision /\ doc'.ack = doc.ack
    /\ UNCHANGED <<work, ghosts, serverVars, launched, made>>
    /\ call' = Idle /\ believes' \in BOOLEAN

LEMMA Restates ==
    ASSUME TypeInv, Retry \/ OpenFailed \/ Refused \/ Resumed \/ Extended \/ TimeOut
    PROVE  /\ Restated /\ losses' \in losses .. MaxLosses
           /\ stray' = stray \/ Abandon
<1>1. ASSUME doc \in Doc, NEW x \in Status, doc' = [doc EXCEPT !.status = x],
             x # "saved" \/ x = doc.status,
             UNCHANGED <<work, ghosts, serverVars, launched, made>>, call' = Idle,
             believes' \in BOOLEAN
      PROVE  Restated
  BY <1>1, StatusTyped DEF Restated
<1>2. CASE Retry \/ OpenFailed
  <2>1. /\ doc \in Doc /\ call' = Idle /\ believes' \in BOOLEAN
        /\ UNCHANGED <<work, ghosts, serverVars, launched, made>>
    BY <1>2, ATick DEF Retry, OpenFailed, TypeInv, ClientTyped
  <2>2. PICK x \in {"local_saved", "error"} : doc' = [doc EXCEPT !.status = x]
    BY <1>2 DEF Retry, OpenFailed
  <2>3. x \in Status /\ x # "saved"
    BY DEF Status
  <2>4. UNCHANGED <<losses, stray>> /\ losses' \in losses .. MaxLosses
    BY <1>2, Bounds DEF Retry, OpenFailed, TypeInv, ClientTyped
  <2> QED
    BY <1>1, <2>1, <2>2, <2>3, <2>4
<1>3. CASE Refused \/ Resumed \/ Extended
  <2>1. /\ call' = Idle /\ UNCHANGED <<work, ghosts, serverVars, launched, made>>
        /\ UNCHANGED <<losses, stray>> /\ losses' \in losses .. MaxLosses
    BY <1>3, Bounds DEF Refused, Resumed, Extended, Idles, TypeInv, ClientTyped
  <2>2. /\ call # Idle /\ call \in Request /\ call.answer # <<>>
        /\ doc \in Doc /\ call.answer[1] \in Answers /\ doc.token = call.token
    BY <1>3, AnsweredCall, OkAnswer
    DEF Refused, Resumed, Extended, TypeInv, Prepared, CallIsOfDoc
  <2>3. CASE Refused
    <3>1. believes' \in BOOLEAN
      BY <2>3 DEF Refused, TypeInv, ClientTyped
    <3>2. CASE doc' = doc
      BY <2>1, <2>2, <3>1, <3>2, DocFields
      DEF Restated, TypeInv, Prepared, QueueMade
    <3>3. CASE doc' = [doc EXCEPT !.status = StatusOf(call.answer[1].code)]
      <4>1. StatusOf(call.answer[1].code) \in {"reauth", "conflict", "error"}
        BY <2>2, <2>3, AnswerFields DEF Refused
      <4>2. PICK x \in {"reauth", "conflict", "error"} : doc' = [doc EXCEPT !.status = x]
        BY <3>3, <4>1
      <4>3. x \in Status /\ x # "saved"
        BY DEF Status
      <4> QED
        BY <1>1, <2>1, <2>2, <3>1, <4>2, <4>3
    <3> QED
      BY <2>1, <2>3, <3>2, <3>3 DEF Refused
  <2>4. CASE Resumed
    <3>1. believes' \in BOOLEAN
      BY <2>4 DEF Resumed
    <3>2. PICK x \in {"local_saved", "editing"} : doc' = [doc EXCEPT !.status = x]
      BY <2>4 DEF Resumed
    <3>3. x \in Status /\ x # "saved"
      BY DEF Status
    <3> QED
      BY <1>1, <2>1, <2>2, <3>1, <3>2, <3>3
  <2>5. CASE Extended
    <3>1. believes' \in BOOLEAN
      BY <2>5 DEF Extended
    <3>2. CASE doc' = doc
      BY <2>1, <2>2, <3>1, <3>2, DocFields
      DEF Restated, TypeInv, Prepared, QueueMade
    <3>3. CASE call.op = "renew" /\ doc' = [doc EXCEPT !.token = @ + 1]
      <4>1. doc.token + 1 \in 1 .. MaxTokens
        BY <2>2, <3>3, Bounds, DocFields DEF TypeInv, Prepared, WellMade
      <4>2. /\ doc' \in Doc /\ doc'.queue = doc.queue /\ doc'.status = doc.status
            /\ doc'.session = doc.session /\ doc'.revision = doc.revision
            /\ doc'.ack = doc.ack
        BY <2>2, <3>3, <4>1 DEF Doc
      <4>3. QueueMade'
        BY <2>1, <2>2, <4>2 DEF TypeInv, Prepared, QueueMade
      <4> QED
        BY <2>1, <2>2, <3>1, <4>2, <4>3 DEF Restated
    <3> QED
      BY <2>1, <2>5, <3>2, <3>3 DEF Extended
  <2> QED
    BY <1>3, <2>3, <2>4, <2>5
<1>4. CASE TimeOut
  <2>1. /\ call # Idle /\ call' = Idle /\ believes' \in BOOLEAN
        /\ UNCHANGED <<work, ghosts, serverVars, launched, made>>
        /\ losses' \in losses .. MaxLosses /\ Abandon
    BY <1>4, Bounds DEF TimeOut, TypeInv, ClientTyped
  <2>2. doc \in Doc
    BY <2>1 DEF TypeInv, Prepared, CallIsOfDoc
  <2>3. CASE doc' = doc
    BY <2>1, <2>2, <2>3, DocFields
    DEF Restated, TypeInv, Prepared, QueueMade
  <2>4. CASE doc' = [doc EXCEPT !.status = "editing"]
    <3>1. "editing" \in Status
      BY DEF Status
    <3> QED
      BY <1>1, <2>1, <2>2, <2>4, <3>1
  <2> QED
    BY <1>4, <2>3, <2>4 DEF TimeOut
<1> QED
  BY <1>2, <1>3, <1>4

LEMMA Abandoned ==
    ASSUME TypeInv, Abandon \/ stray' = stray
    PROVE  /\ stray' \subseteq Request
           /\ stray' \subseteq stray \cup (IF call = Idle THEN {} ELSE {call})
BY DEF Abandon, TypeInv, ClientTyped

\* The session and its files go with a finish, with a crash inside Adopt, and
\* with a crash before the launch that waited for a finished session.
Closed ==
    /\ Gone /\ call' = Idle /\ believes' \in BOOLEAN
    /\ UNCHANGED <<serverVars, made, rebased>>
    /\ launched' \in {launched, NoLaunch} /\ losses' \in 0 .. MaxLosses

Stopped ==
    /\ UNCHANGED <<serverVars, doc, work, believes, made>> /\ UNCHANGED ghosts
    /\ call' = Idle /\ launched' = NoLaunch /\ losses' \in 0 .. MaxLosses

LEMMA Closes ==
    ASSUME TypeInv, CrashInAdopt \/ Finished \/ Crash
    PROVE  /\ \/ Closed
              \/ Crash /\ Stopped
              \/ Finished /\ Restated /\ losses' \in losses .. MaxLosses
           /\ stray' \subseteq Request
           /\ stray' \subseteq stray \cup (IF call = Idle THEN {} ELSE {call})
<1> USE Bounds
<1>1. losses \in 0 .. MaxLosses /\ losses \in losses .. MaxLosses /\ believes \in BOOLEAN
  BY DEF TypeInv, ClientTyped
<1>2. CASE CrashInAdopt
  <2>1. stray' = stray
    BY <1>2 DEF CrashInAdopt
  <2> QED
    BY <1>1, <1>2, <2>1, Abandoned DEF CrashInAdopt, Closed
<1>3. CASE Finished
  <2>1. /\ call' = Idle /\ stray' = stray /\ believes' \in BOOLEAN
        /\ UNCHANGED <<serverVars, launched, made, losses, rebased>>
    BY <1>3 DEF Finished
  <2>2. CASE Gone
    BY <1>1, <2>1, <2>2, Abandoned DEF Closed
  <2>3. CASE /\ doc' = [doc EXCEPT !.status = "finished"]
             /\ UNCHANGED <<work, base>>
    <3>1. doc \in Doc
      BY <1>3, OkAnswer, AnsweredCall DEF Finished, TypeInv
    <3>2. "finished" \in Status
      BY DEF Status
    <3>3. /\ doc' \in Doc /\ QueueMade' /\ doc'.queue = doc.queue
          /\ doc'.status = "finished" /\ doc'.session = doc.session
          /\ doc'.revision = doc.revision /\ doc'.ack = doc.ack
      BY <2>1, <2>3, <3>1, <3>2, StatusTyped
    <3>4. Restated
      BY <2>1, <2>3, <3>1, <3>3 DEF Restated, ghosts
    <3> QED
      BY <1>1, <1>3, <2>1, <3>4, Abandoned
  <2> QED
    BY <1>3, <2>2, <2>3 DEF Finished
<1>4. CASE Crash
  <2>1. /\ call' = Idle /\ launched' = NoLaunch /\ losses' \in 0 .. MaxLosses
        /\ UNCHANGED <<serverVars, believes, rebased, made>> /\ Abandon
    BY <1>1, <1>4 DEF Crash
  <2>2. CASE Gone
    BY <1>1, <2>1, <2>2, Abandoned DEF Closed
  <2>3. CASE UNCHANGED <<doc, work, base>>
    BY <1>1, <1>4, <2>1, <2>3, Abandoned DEF Stopped, ghosts
  <2> QED
    BY <1>4, <2>2, <2>3 DEF Crash
<1> QED
  BY <1>2, <1>3, <1>4

\* A request made of the unfinished session.
LEMMA SendTyped ==
    ASSUME TypeInv, Gate,
           NEW op \in {"save", "resume", "renew", "heartbeat", "finish"},
           NEW details \in Details, Send(op, details),
           op = "renew" => doc.token < MaxTokens,
           op = "save" => doc.queue # <<>> /\ details = doc.queue[1],
           op = "finish" => doc.queue = <<>> /\ work = doc.ack
    PROVE  TypeInv'
<1>1. doc \in Doc /\ doc.queue \in Queue /\ doc.session \in Session
      /\ doc.token \in 1 .. MaxTokens
  BY ATick, DocFields
<1>2. /\ call'.op = op /\ call'.session = doc.session /\ call'.token = doc.token
      /\ call'.details = details
      /\ call' \in Request
      /\ UNCHANGED <<doc, work, believes, made, losses, launched, stray>>
      /\ UNCHANGED serverVars /\ UNCHANGED ghosts
  BY <1>1 DEF Send, Request, localVars
<1>3. ServerTyped'
  BY <1>2, ServerKept DEF TypeInv, ServerTyped, ghosts
<1>4. ClientTyped'
  BY <1>2 DEF TypeInv, ClientTyped
<1>5. CallIsOfDoc'
  BY <1>1, <1>2 DEF CallIsOfDoc
<1>6. WellMade(call)'
  <2>1. ASSUME op = "save"
        PROVE  details \in Snapshot /\ details.key <= made
    <3>1. 1 \in DOMAIN doc.queue /\ doc.queue[1] \in Snapshot
      BY <1>1, <2>1, QueueFacts
    <3> QED
      BY <1>1, <2>1, <3>1 DEF TypeInv, Prepared, QueueMade
  <2> QED
    BY <1>2, <2>1 DEF WellMade
<1>7. (\A q \in stray : WellMade(q))' /\ QueueMade'
  BY <1>2 DEF TypeInv, Prepared, WellMade, QueueMade
<1> QED
  BY <1>3, <1>4, <1>5, <1>6, <1>7 DEF TypeInv, Prepared

LEMMA SendsTyped ==
    ASSUME TypeInv,
           SendResume \/ SendSave \/ SendRenew \/ SendHeartbeat \/ SendFinish
    PROVE  TypeInv'
<1>1. NoDetails \in Details
  BY DEF Details
<1>2. CASE SendResume
  <2>1. Gate /\ doc \in Doc /\ doc.queue \in Queue
    BY <1>2, ATick DEF SendResume
  <2>2. Pending \subseteq Snapshot
    BY <2>1, QueueFacts DEF Pending
  <2>3. [revision |-> doc.revision, sha |-> doc.ack, pending |-> Pending] \in Details
    BY <2>1, <2>2, DocFields DEF Details
  <2> QED
    BY <1>2, <2>1, <2>3, SendTyped DEF SendResume
<1>3. CASE SendSave
  <2>1. Gate /\ doc.queue # <<>> /\ Send("save", doc.queue[1])
    BY <1>3 DEF SendSave, Unhindered
  <2>2. doc.queue[1] \in Details
    BY <2>1, ATick, QueueFacts DEF Details
  <2> QED
    BY <2>1, <2>2, SendTyped
<1>4. CASE SendRenew
  BY <1>1, <1>4, SendTyped DEF SendRenew, Unhindered
<1>5. CASE SendHeartbeat
  BY <1>1, <1>5, SendTyped DEF SendHeartbeat, Unhindered
<1>6. CASE SendFinish
  BY <1>1, <1>6, SendTyped DEF SendFinish
<1> QED
  BY <1>2, <1>3, <1>4, <1>5, <1>6

\* A step at the server on behalf of one request.
LEMMA ServeStep ==
    ASSUME TypeInv, Serve \/ \E q \in stray : ServeStray(q)
    PROVE  \E q \in Request, a \in Answers :
             /\ Handle(q, a) /\ WellMade(q)
             /\ UNCHANGED <<localVars, launched, made, losses>>
             /\ \/ /\ q = call /\ call # Idle /\ call.answer = <<>>
                   /\ call' = [call EXCEPT !.answer = <<a>>] /\ UNCHANGED stray
                \/ q \in stray /\ stray' = stray \ {q} /\ UNCHANGED call
<1>1. CASE Serve
  <2>1. call \in Request /\ WellMade(call) /\ call # Idle /\ call.answer = <<>>
    BY <1>1 DEF Serve, TypeInv, ClientTyped, Prepared
  <2>2. PICK a \in Answers : Handle(call, a) /\ call' = [call EXCEPT !.answer = <<a>>]
    BY <1>1 DEF Serve
  <2> QED
    BY <1>1, <2>1, <2>2 DEF Serve
<1>2. CASE \E q \in stray : ServeStray(q)
  <2>1. PICK q \in stray : ServeStray(q)
    BY <1>2
  <2>2. PICK a \in Answers : Handle(q, a)
    BY <2>1 DEF ServeStray
  <2>3. q \in Request /\ WellMade(q)
    BY DEF TypeInv, ClientTyped, Prepared
  <2> QED
    BY <2>1, <2>2, <2>3 DEF ServeStray
<1> QED
  BY <1>1, <1>2

LEMMA ServeTyped ==
    ASSUME TypeInv, Serve \/ \E q \in stray : ServeStray(q)
    PROVE  TypeInv'
<1>1. PICK q \in Request, a \in Answers :
             /\ Handle(q, a) /\ WellMade(q)
             /\ UNCHANGED <<localVars, launched, made, losses>>
             /\ \/ /\ q = call /\ call # Idle /\ call.answer = <<>>
                   /\ call' = [call EXCEPT !.answer = <<a>>] /\ UNCHANGED stray
                \/ q \in stray /\ stray' = stray \ {q} /\ UNCHANGED call
  BY ServeStep
<1>2. ServerTyped'
  BY <1>1, HandleTyped DEF TypeInv
<1>3. UNCHANGED <<doc, work, believes, launched, made, losses>>
  BY <1>1 DEF localVars
<1>4. CASE q \in stray /\ stray' = stray \ {q} /\ UNCHANGED call
  <2>1. ClientTyped'
    BY <1>3, <1>4 DEF TypeInv, ClientTyped
  <2>2. Prepared'
    BY <1>3, <1>4, Bounds, PreparedKept DEF TypeInv, ClientTyped
  <2> QED
    BY <1>2, <2>1, <2>2 DEF TypeInv
<1>5. CASE /\ q = call /\ call # Idle /\ call.answer = <<>>
           /\ call' = [call EXCEPT !.answer = <<a>>] /\ UNCHANGED stray
  <2>1. /\ call' \in Request /\ call'.op = call.op /\ call'.session = call.session
        /\ call'.token = call.token /\ call'.details = call.details
    BY <1>1, <1>5 DEF Request
  <2>2. ClientTyped'
    BY <1>3, <1>5, <2>1 DEF TypeInv, ClientTyped
  <2>3. CallIsOfDoc'
    BY <1>3, <1>5, <2>1 DEF TypeInv, Prepared, CallIsOfDoc
  <2>4. WellMade(call)'
    BY <1>1, <1>3, <1>5, <2>1 DEF WellMade
  <2>5. (\A p \in stray : WellMade(p))' /\ QueueMade'
    BY <1>3, <1>5 DEF TypeInv, Prepared, WellMade, QueueMade
  <2> QED
    BY <1>2, <2>2, <2>3, <2>4, <2>5 DEF TypeInv, Prepared
<1> QED
  BY <1>1, <1>4, <1>5

LEMMA TypeStep ==
    ASSUME TypeInv, [Next]_vars
    PROVE  TypeInv'
<1> USE Bounds
<1>1. CASE UNCHANGED vars
  <2>1. /\ UNCHANGED <<doc, work, believes, launched, call, stray, made, losses>>
        /\ UNCHANGED serverVars /\ UNCHANGED ghosts
    BY <1>1 DEF vars, localVars
  <2>2. ServerTyped'
    BY <2>1, ServerKept DEF TypeInv, ServerTyped, ghosts
  <2>3. ClientTyped'
    BY <2>1 DEF TypeInv, ClientTyped
  <2>4. Prepared'
    BY <2>1, PreparedKept DEF TypeInv, ClientTyped
  <2> QED
    BY <2>2, <2>3, <2>4 DEF TypeInv
<1>2. /\ base \in 0 .. MaxRevision /\ rebased \subseteq Session
      /\ made \in made .. MaxSnapshots /\ losses \in 0 .. MaxLosses
      /\ believes \in BOOLEAN /\ work \in Content \cup {NoFile}
      /\ doc \in Doc \cup {NoDoc}
  BY DEF TypeInv, ServerTyped, ClientTyped
<1>3. CASE Adopt
  BY <1>3, AdoptTyped
<1>4. CASE (CrashInAdopt \/ Finished \/ Crash) /\ Closed
  <2>1. /\ stray' \subseteq Request
        /\ stray' \subseteq stray \cup (IF call = Idle THEN {} ELSE {call})
    BY <1>4, Closes
  <2>2. NoDoc \notin Doc
    BY DocFields DEF Doc, NoDoc
  <2>3. QueueMade' /\ base' \in 0 .. MaxRevision
    BY <1>4, <2>2 DEF Closed, Gone, QueueMade
  <2>4. ServerTyped'
    BY <1>2, <1>4, <2>3, ServerKept DEF TypeInv, Closed
  <2>5. ClientTyped'
    BY <1>4, <2>1 DEF TypeInv, ClientTyped, Closed, Gone
  <2>6. Prepared'
    BY <1>4, <2>1, <2>3, PreparedAnew DEF TypeInv, ClientTyped, Closed
  <2> QED
    BY <2>4, <2>5, <2>6 DEF TypeInv
<1>5. CASE Download
  <2>1. doc \in Doc /\ Fetch(doc) /\ UNCHANGED <<serverVars, believes, rebased>>
        /\ UNCHANGED <<launched, call, stray, made, losses>> /\ call = Idle
    BY <1>5, ATick DEF Download
  <2>2. \A i \in DOMAIN doc.queue : doc.queue[i].key <= made
    BY <2>1 DEF TypeInv, Prepared, QueueMade
  <2>3. doc' \in Doc /\ work' \in Content /\ base' \in 1 .. MaxRevision /\ QueueMade'
    BY <2>1, <2>2, FetchTyped
  <2> QED
    BY <1>2, <2>1, <2>3, SessionTyped
<1>6. CASE Capture
  <2>1. /\ UNCHANGED <<serverVars, stray>> /\ call' = Idle /\ doc' \in Doc
        /\ UNCHANGED <<work, believes, ghosts, launched, losses>>
        /\ made' = made + 1 /\ made < MaxSnapshots
    BY <1>6, Captured
  <2>2. QueueMade'
    <3> SUFFICES ASSUME NEW i \in DOMAIN doc'.queue PROVE doc'.queue[i].key <= made + 1
      BY <2>1 DEF QueueMade
    <3>1. CASE i \in DOMAIN doc.queue /\ doc'.queue[i] = doc.queue[i]
      <4>1. doc \in Doc /\ doc.queue[i] \in Snapshot
        BY <1>6, <3>1, Captured, DocFields, QueueFacts
      <4> QED
        BY <3>1, <4>1, SnapshotFields
        DEF TypeInv, ClientTyped, Prepared, QueueMade
    <3>2. CASE doc'.queue[i].key = made + 1
      BY <3>2 DEF TypeInv, ClientTyped
    <3> QED
      BY <1>6, <3>1, <3>2, Captured
  <2>3. made' \in made .. MaxSnapshots
    BY <2>1 DEF TypeInv, ClientTyped
  <2> QED
    BY <1>2, <2>1, <2>2, <2>3, SessionTyped DEF ghosts
<1>7. CASE Acknowledge
  <2>1. /\ doc' \in Doc /\ QueueMade' /\ call' = Idle /\ believes' \in BOOLEAN
        /\ UNCHANGED <<work, ghosts, serverVars>>
        /\ UNCHANGED <<launched, stray, made, losses>>
    BY <1>7, Acknowledged
  <2> QED
    BY <1>2, <2>1, SessionTyped DEF ghosts
<1>8. CASE \/ Retry \/ OpenFailed \/ Refused \/ Resumed \/ Extended \/ TimeOut
           \/ Finished /\ Restated /\ losses' \in losses .. MaxLosses
  <2>1. /\ Restated /\ losses' \in losses .. MaxLosses
        /\ \/ Finished
           \/ stray' = stray \/ Abandon
    BY <1>8, Restates
  <2>2. /\ doc' \in Doc /\ QueueMade' /\ call' = Idle /\ believes' \in BOOLEAN
        /\ UNCHANGED <<work, ghosts, serverVars, launched, made>>
    BY <2>1 DEF Restated
  <2>3. /\ stray' \subseteq Request
        /\ stray' \subseteq stray \cup (IF call = Idle THEN {} ELSE {call})
    BY <2>1, Abandoned, Closes
  <2>4. ServerTyped'
    BY <1>2, <2>2, ServerKept DEF TypeInv, ghosts
  <2>5. ClientTyped'
    BY <2>1, <2>2, <2>3 DEF TypeInv, ClientTyped
  <2>6. Prepared'
    BY <2>2, <2>3, PreparedAnew DEF TypeInv, ClientTyped
  <2> QED
    BY <2>4, <2>5, <2>6 DEF TypeInv
<1>9. CASE Crash /\ Stopped
  <2>1. /\ UNCHANGED <<doc, work, believes, made>> /\ UNCHANGED serverVars
        /\ UNCHANGED ghosts /\ call' = Idle /\ launched' = NoLaunch
        /\ losses' \in 0 .. MaxLosses
    BY <1>9 DEF Stopped
  <2>2. /\ stray' \subseteq Request
        /\ stray' \subseteq stray \cup (IF call = Idle THEN {} ELSE {call})
    BY <1>9, Closes
  <2>3. ServerTyped'
    BY <1>2, <2>1, ServerKept DEF TypeInv, ghosts
  <2>4. ClientTyped'
    BY <2>1, <2>2 DEF TypeInv, ClientTyped
  <2>5. Prepared'
    BY <2>1, <2>2, PreparedKept DEF TypeInv, ClientTyped
  <2> QED
    BY <2>3, <2>4, <2>5 DEF TypeInv
<1>10. CASE SendResume \/ SendSave \/ SendRenew \/ SendHeartbeat \/ SendFinish
  BY <1>10, SendsTyped
<1>11. CASE Serve \/ \E q \in stray : ServeStray(q)
  BY <1>11, ServeTyped
<1>12. CASE \/ OtherHolds \/ Lapse \/ Expire
            \/ \E c \in Content : OtherSaves(c) \/ Edit(c)
            \/ \E s \in Session : Revoke(s) \/ BrowserLaunch(s) \/ Exchange(s)
  BY <1>12, AroundTyped
<1> QED
  BY <1>1, <1>3, <1>4, <1>5, <1>6, <1>7, <1>8, <1>9, <1>10, <1>11, <1>12, Closes
  DEF Next, Environment, Tick, Receive

LEMMA InitTyped == Init => TypeInv
<1> SUFFICES ASSUME Init PROVE TypeInv
  OBVIOUS
<1> USE Bounds
<1>1. ServerTyped
  BY DEF Init, Original!Init, ServerTyped, Original!TypeOK, Nobody, Row
<1>2. ClientTyped
  <2>1. believes \in BOOLEAN
    BY DEF Init
  <2> QED
    BY <2>1 DEF Init, ClientTyped
<1>3. NoDoc \notin Doc
  BY DEF Doc, NoDoc
<1>4. Prepared
  BY <1>3 DEF Init, Prepared, CallIsOfDoc, QueueMade
<1> QED
  BY <1>1, <1>2, <1>4 DEF TypeInv

LEMMA Typed == Spec => []TypeInv
<1>1. TypeInv /\ [Next]_vars => TypeInv'
  BY TypeStep
<1> QED
  BY <1>1, InitTyped, PTL DEF Spec

\* Type correctness: sessions, queues, requests on their way and answers are
\* well-formed whatever is lost, delayed or restarted.
THEOREM TypeCorrect == Spec => []TypeOK
<1>1. TypeInv => TypeOK
  BY DEF TypeInv, TypeOK, ServerTyped, ClientTyped
<1> QED
  BY <1>1, Typed, PTL

-----------------------------------------------------------------------------
\* The original as the clients see it: it only grows, by one commit at a time.
Grown ==
    /\ Len(history') >= Len(history)
    /\ \A i \in 1 .. Len(history) : history'[i] = history[i]
    /\ receipts \subseteq receipts'

\* Every step falls under one of these: what it does to the session, to the
\* request waited for, to an exchange not yet adopted and to the original.
LEMMA StepKinds ==
    ASSUME TypeInv, [Next]_vars
    PROVE  \/ /\ \/ UNCHANGED vars \/ OtherHolds \/ Lapse \/ Expire \/ Crash
                 \/ \E c \in Content : Edit(c)
                 \/ \E s \in Session : Revoke(s) \/ BrowserLaunch(s)
              /\ UNCHANGED <<history, receipts, doc, made>> /\ UNCHANGED ghosts
              /\ call' \in {call, Idle} /\ launched' \in {launched, NoLaunch}
              /\ stray' \subseteq stray \cup (IF call = Idle THEN {} ELSE {call})
              /\ work' = work \/ (work # NoFile /\ work' # NoFile)
           \/ \E c \in Content : OtherSaves(c)
           \/ \E s \in Session : Exchange(s)
           \/ SendResume \/ SendSave \/ SendRenew \/ SendHeartbeat \/ SendFinish
           \/ Serve \/ \E q \in stray : ServeStray(q)
           \/ Adopt \/ Download \/ Capture \/ Acknowledge
           \/ /\ CrashInAdopt \/ Finished \/ Crash
              /\ UNCHANGED <<history, receipts, made, rebased>>
              /\ doc' = NoDoc /\ work' = NoFile /\ base' = 0
              /\ call' = Idle /\ launched' \in {launched, NoLaunch}
              /\ stray' \subseteq stray \cup (IF call = Idle THEN {} ELSE {call})
           \/ /\ Restated
              /\ stray' \subseteq stray \cup (IF call = Idle THEN {} ELSE {call})
<1>1. CASE UNCHANGED vars
  BY <1>1 DEF vars, serverVars, localVars, ghosts
<1>2. CASE OtherHolds \/ Lapse \/ Expire
  BY <1>2 DEF OtherHolds, Lapse, Expire, localVars, serverVars
<1>3. CASE CrashInAdopt \/ Finished \/ Crash
  BY <1>3, Closes DEF Closed, Stopped, Gone, serverVars
<1>4. ASSUME NEW c \in Content, Edit(c)
      PROVE  /\ UNCHANGED <<history, receipts, doc, made, call, launched, stray>>
             /\ UNCHANGED ghosts /\ work # NoFile /\ work' # NoFile
  BY <1>4, NoFileIsNoContent DEF Edit, serverVars
<1>5. ASSUME NEW s \in Session, Revoke(s) \/ BrowserLaunch(s)
      PROVE  /\ UNCHANGED <<history, receipts, doc, made, call, launched, stray>>
             /\ UNCHANGED ghosts /\ UNCHANGED work
  BY <1>5 DEF Revoke, BrowserLaunch, localVars
<1>6. CASE Retry \/ OpenFailed \/ Refused \/ Resumed \/ Extended \/ TimeOut
  BY <1>6, Restates, Abandoned
<1> QED
  BY <1>1, <1>2, <1>3, <1>4, <1>5, <1>6
  DEF Next, Environment, Tick, Receive

LEMMA SendEffect ==
    ASSUME TypeInv, SendResume \/ SendSave \/ SendRenew \/ SendHeartbeat \/ SendFinish
    PROVE  /\ UNCHANGED <<history, receipts, doc, work, made, launched, stray>>
           /\ UNCHANGED ghosts
           /\ doc \in Doc /\ call'.answer = <<>> /\ call'.session = doc.session
           /\ call'.op = "save" => doc.queue # <<>> /\ call'.details = doc.queue[1]
BY ATick DEF SendResume, SendSave, SendRenew, SendHeartbeat, SendFinish, Send,
   Unhindered, localVars, serverVars

\* Whose commit a step is.
LEMMA Committing ==
    ASSUME TypeInv, [Next]_vars
    PROVE  \/ UNCHANGED <<history, receipts>>
           \/ \E q \in Request : /\ Landed(q) /\ WellMade(q)
                                 /\ (q = call /\ call # Idle) \/ q \in stray
           \/ \E c \in Content : OtherSaves(c)
<1>1. CASE Serve \/ \E q \in stray : ServeStray(q)
  BY <1>1, ServeStep, HandleEffect
<1>2. CASE \E s \in Session : Exchange(s)
  BY <1>2 DEF Exchange
<1>3. CASE Adopt \/ Download \/ Capture \/ Acknowledge
  BY <1>3 DEF Adopt, Download, Capture, Acknowledge, Idles, serverVars
<1>4. CASE Restated
  BY <1>4 DEF Restated, serverVars
<1> QED
  BY <1>1, <1>2, <1>3, <1>4, StepKinds, SendEffect

LEMMA CommitOfSave ==
    ASSUME TypeInv, NEW q \in Request, Landed(q), WellMade(q)
    PROVE  /\ Original!Next /\ q.op = "save"
           /\ q.details \in Snapshot /\ q.details.key <= made
           /\ q.details.expected = Len(history)
           /\ Len(history') \in {Len(history), Len(history) + 1}
           /\ \A i \in 1 .. Len(history) : history'[i] = history[i]
           /\ receipts' = receipts \cup
                  {[writer |-> q.session, key |-> q.details.key,
                    expected |-> q.details.expected,
                    revision |-> Len(history'), sha |-> q.details.sha]}
           /\ Descends(q.session, q.details)
<1>1. /\ q.details \in Snapshot /\ q.details.key \in 1 .. MaxSnapshots
      /\ q.details.sha \in Content /\ q.details.key <= made
  BY SnapshotFields DEF WellMade, Landed
<1>2. q.details.key \in 1 .. MaxSnapshots + MaxRevision
  BY <1>1, Bounds
<1>3. q.session \in Session
  BY RequestFields
<1> QED
  BY <1>1, <1>2, <1>3, CommitGrows DEF Landed, TypeInv

LEMMA CommitOfOther ==
    ASSUME TypeInv, NEW c \in Content, OtherSaves(c)
    PROVE  /\ Original!Next
           /\ Len(history') \in {Len(history), Len(history) + 1}
           /\ \A i \in 1 .. Len(history) : history'[i] = history[i]
           /\ receipts' = receipts \cup
                  {[writer |-> Other, key |-> MaxSnapshots + Len(history),
                    expected |-> Len(history),
                    revision |-> Len(history'), sha |-> c]}
           /\ UNCHANGED <<doc, work, call, stray, made, launched>>
           /\ UNCHANGED ghosts
<1>1. Len(history) \in Nat \ {0} /\ Len(history) < MaxRevision
  BY DEF OtherSaves, TypeInv, ServerTyped
<1>2. MaxSnapshots + Len(history) \in 1 .. MaxSnapshots + MaxRevision
  BY <1>1, Bounds
<1>3. UNCHANGED <<doc, work, call, stray, made, launched>> /\ UNCHANGED ghosts
  BY DEF OtherSaves, localVars
<1> QED
  BY <1>2, <1>3, CommitGrows DEF OtherSaves, TypeInv

LEMMA StepGrows ==
    ASSUME TypeInv, [Next]_vars
    PROVE  Grown /\ [Original!Next]_(Original!originalVars)
<1>1. Len(history) \in Nat
  BY DEF TypeInv, ServerTyped
<1>2. CASE UNCHANGED <<history, receipts>>
  BY <1>1, <1>2 DEF Grown, Original!originalVars
<1>3. ASSUME NEW q \in Request, Landed(q), WellMade(q)
      PROVE  Grown /\ Original!Next
  BY <1>1, <1>3, CommitOfSave DEF Grown
<1>4. ASSUME NEW c \in Content, OtherSaves(c)
      PROVE  Grown /\ Original!Next
  BY <1>1, <1>4, CommitOfOther DEF Grown
<1> QED
  BY <1>2, <1>3, <1>4, Committing

\* The server's part of this system is the versioned original that the
\* office server implements: its promises are the clients' to rely on.
THEOREM ClientsShareTheOriginal == Spec => Original!Spec
<1>1. Init => Original!Init
  BY DEF Init
<1>2. TypeInv /\ [Next]_vars => [Original!Next]_(Original!originalVars)
  BY StepGrows
<1> QED
  BY <1>1, <1>2, Typed, PTL DEF Spec, Original!Spec

LEMMA SamePromise ==
    /\ Original!Init <=> Promise!Init
    /\ [Original!Next]_(Original!originalVars) <=> [Promise!Next]_(Promise!originalVars)
    /\ Promise!ReceiptsTruthful <=> Original!ReceiptsTruthful
BY DEF Original!Init, Promise!Init, Original!Next, Promise!Next,
       Original!Commit, Promise!Commit, Original!ReceiptsOf, Promise!ReceiptsOf,
       Original!Revision, Promise!Revision, Original!Current, Promise!Current,
       Original!originalVars, Promise!originalVars,
       Original!ReceiptsTruthful, Promise!ReceiptsTruthful

LEMMA Truthful == Spec => []Original!ReceiptsTruthful
<1>1. Promise!Spec => []Promise!IInv
  BY Bounds, Promise!ReceiptsCorrect
<1>2. Promise!IInv => Promise!ReceiptsTruthful
  BY DEF Promise!IInv
<1> QED
  BY <1>1, <1>2, SamePromise, ClientsShareTheOriginal, PTL DEF Original!Spec, Promise!Spec

-----------------------------------------------------------------------------
\* An exchange not yet adopted was answered with a revision that exists.
LaunchIsARevision ==
    launched # NoLaunch => /\ launched.revision \in 1 .. Len(history)
                           /\ history[launched.revision] = launched.sha

\* A save is answered "ok" only for a receipt of exactly that save.
AnswerIsReal ==
    call # Idle /\ Answered("save")
    => \E r \in receipts : Acked(r, call, call.answer[1])

ClientInv ==
    AckIsARevision /\ SavedMeansDrained /\ LaunchIsARevision /\ AnswerIsReal

LEMMA LaunchStep ==
    ASSUME TypeInv, LaunchIsARevision, [Next]_vars
    PROVE  LaunchIsARevision'
<1>1. Grown /\ Len(history) \in Nat \ {0}
  BY StepGrows, Bounds DEF TypeInv, ServerTyped
<1>2. Len(history') \in Nat
  BY TypeStep DEF TypeInv, ServerTyped
<1>3. CASE launched' = launched
  BY <1>1, <1>2, <1>3 DEF LaunchIsARevision, Grown
<1>4. CASE launched' = NoLaunch
  BY <1>4 DEF LaunchIsARevision
<1>5. ASSUME NEW s \in Session, Exchange(s)
      PROVE  LaunchIsARevision'
  <2>1. \/ launched' = [session |-> s, revision |-> Len(history),
                        sha |-> history[Len(history)]]
        \/ launched' = NoLaunch
    BY <1>5 DEF Exchange, Original!Revision, Original!Current
  <2>2. history' = history
    BY <1>5 DEF Exchange
  <2> QED
    BY <1>1, <2>1, <2>2 DEF LaunchIsARevision
<1>6. CASE Serve \/ \E q \in stray : ServeStray(q)
  BY <1>3, <1>6 DEF Serve, ServeStray
<1>7. CASE Adopt \/ Download \/ Capture \/ Acknowledge \/ Restated
  BY <1>3, <1>4, <1>7 DEF Adopt, Download, Capture, Acknowledge, Idles, Restated
<1> QED
  BY <1>3, <1>4, <1>5, <1>6, <1>7, StepKinds, SendEffect, CommitOfOther

LEMMA AnswerStep ==
    ASSUME TypeInv, AnswerIsReal, [Next]_vars
    PROVE  AnswerIsReal'
<1>1. Grown
  BY StepGrows
<1>2. CASE call' = Idle
  BY <1>2 DEF AnswerIsReal
<1>3. CASE call' = call
  BY <1>1, <1>3 DEF AnswerIsReal, Answered, Grown, Acked
<1>4. CASE call'.answer = <<>>
  BY <1>4 DEF AnswerIsReal, Answered
<1>5. CASE Serve \/ \E q \in stray : ServeStray(q)
  <2>1. PICK q \in Request, a \in Answers :
             /\ Handle(q, a)
             /\ \/ /\ q = call /\ call # Idle /\ call.answer = <<>>
                   /\ call' = [call EXCEPT !.answer = <<a>>]
                \/ UNCHANGED call
    BY <1>5, ServeStep
  <2>2. CASE q = call /\ call' = [call EXCEPT !.answer = <<a>>]
    <3>1. /\ call'.op = call.op /\ call'.session = call.session
          /\ call'.details = call.details /\ call'.answer = <<a>>
      BY <2>1, <2>2 DEF Request
    <3>2. SUFFICES ASSUME call.op = "save", a.code = "ok"
                   PROVE  \E r \in receipts' : Acked(r, call', a)
      BY <3>1 DEF AnswerIsReal, Answered, Acked
    <3>3. PICK r \in receipts' : Acked(r, call, a)
      BY <2>1, <2>2, <3>2, HandleEffect
    <3> QED
      BY <3>1, <3>3 DEF Acked
  <2> QED
    BY <1>3, <2>1, <2>2
<1>6. CASE Adopt \/ Download \/ Capture \/ Acknowledge \/ Restated
  BY <1>2, <1>6, ATick DEF Adopt, Download, Capture, Acknowledge, Idles, Restated
<1>7. CASE \E s \in Session : Exchange(s)
  BY <1>3, <1>7 DEF Exchange
<1> QED
  BY <1>2, <1>3, <1>4, <1>5, <1>6, <1>7, StepKinds, SendEffect, CommitOfOther

\* What a fetched or adopted session is based on.
LEMMA AdoptEffect ==
    ASSUME TypeInv, Adopt
    PROVE  /\ launched \in Launch /\ launched # NoLaunch /\ call = Idle /\ call' = Idle
           /\ doc' \in Doc /\ doc'.session = launched.session
           /\ doc'.revision = launched.revision /\ doc'.ack = launched.sha
           /\ doc'.status \in {"editing", "conflict"}
           /\ doc'.queue = Adopted(launched).queue
           /\ UNCHANGED <<history, receipts, stray, made>>
<1>1. launched \in Launch /\ launched # NoLaunch
  BY DEF Adopt, TypeInv, ClientTyped
<1>2. /\ Adopted(launched) \in Doc
      /\ Adopted(launched).session = launched.session
      /\ Adopted(launched).revision = launched.revision
      /\ Adopted(launched).ack = launched.sha
      /\ Adopted(launched).status \in {"editing", "conflict"}
  BY <1>1, AdoptedDoc DEF TypeInv
<1>3. \/ doc' = [Adopted(launched) EXCEPT !.status = "editing"]
      \/ doc' = Adopted(launched)
  BY DEF Adopt, Fetch
<1>4. /\ call = Idle /\ call' = Idle /\ UNCHANGED <<history, receipts, stray, made>>
  BY DEF Adopt, serverVars
<1>5. CASE doc' = Adopted(launched)
  BY <1>1, <1>2, <1>4, <1>5
<1>6. CASE doc' = [Adopted(launched) EXCEPT !.status = "editing"]
  <2>1. /\ doc' \in Doc /\ doc'.status = "editing"
        /\ doc'.session = Adopted(launched).session
        /\ doc'.revision = Adopted(launched).revision
        /\ doc'.ack = Adopted(launched).ack
        /\ doc'.queue = Adopted(launched).queue
    BY <1>2, <1>6 DEF Doc, Status
  <2> QED
    BY <1>1, <1>2, <1>4, <2>1
<1> QED
  BY <1>3, <1>5, <1>6

LEMMA DownloadEffect ==
    ASSUME TypeInv, Download
    PROVE  /\ doc \in Doc /\ doc' \in Doc /\ Fetch(doc) /\ call = Idle /\ call' = Idle
           /\ work = NoFile /\ base' = Len(history)
           /\ doc'.session = doc.session /\ doc'.revision = doc.revision
           /\ doc'.ack = doc.ack /\ doc'.queue = doc.queue /\ doc'.status = "editing"
           /\ UNCHANGED <<history, receipts, stray, made, rebased>>
<1>1. /\ doc \in Doc /\ Fetch(doc) /\ call = Idle /\ call' = Idle
      /\ UNCHANGED <<history, receipts, stray, made, rebased>>
  BY ATick DEF Download, serverVars
<1>2. /\ doc' = [doc EXCEPT !.status = "editing"]
      /\ work = NoFile /\ base' = Len(history)
  BY <1>1 DEF Fetch, Original!Revision
<1> QED
  BY <1>1, <1>2 DEF Doc, Status

\* How a step moves the session's base, its status and its queue.
LEMMA SessionMoves ==
    ASSUME TypeInv, [Next]_vars
    PROVE  \/ doc' = doc
           \/ doc' = NoDoc
           \/ /\ doc # NoDoc /\ doc'.revision = doc.revision /\ doc'.ack = doc.ack
              /\ doc'.queue = doc.queue
              /\ doc'.status = "saved" => doc.status = "saved"
           \/ Adopt \/ Capture \/ Acknowledge
<1>1. doc \in Doc => doc # NoDoc
  BY DEF Doc, NoDoc
<1>2. CASE Serve \/ \E q \in stray : ServeStray(q)
  BY <1>2 DEF Serve, ServeStray, localVars
<1>3. CASE \E s \in Session : Exchange(s)
  BY <1>3 DEF Exchange, localVars
<1>4. CASE Download
  BY <1>1, <1>4, DownloadEffect
<1>5. CASE Restated
  BY <1>1, <1>5 DEF Restated
<1> QED
  BY <1>2, <1>3, <1>4, <1>5, StepKinds, SendEffect, CommitOfOther

LEMMA AckStep ==
    ASSUME TypeInv, Original!ReceiptsTruthful, ClientInv, [Next]_vars
    PROVE  AckIsARevision'
<1>1. /\ Grown /\ Len(history) \in Nat
  BY StepGrows DEF TypeInv, ServerTyped
<1>2. Len(history') \in Nat
  BY TypeStep DEF TypeInv, ServerTyped
<1>3. ASSUME doc # NoDoc, doc'.revision = doc.revision, doc'.ack = doc.ack
      PROVE  AckIsARevision'
  BY <1>1, <1>2, <1>3 DEF ClientInv, AckIsARevision, Grown
<1>4. CASE doc' = doc
  BY <1>3, <1>4 DEF AckIsARevision
<1>5. CASE doc' = NoDoc
  BY <1>5 DEF AckIsARevision
<1>6. CASE Adopt
  BY <1>6, AdoptEffect DEF ClientInv, LaunchIsARevision, AckIsARevision
<1>7. CASE Capture
  BY <1>3, <1>7, Captured DEF Doc, NoDoc
<1>8. CASE Acknowledge
  <2>1. PICK r \in receipts : Acked(r, call, call.answer[1])
    BY <1>8, Acknowledged DEF ClientInv, AnswerIsReal, Acknowledge
  <2>2. /\ call.answer[1].revision \in 1 .. Len(history)
        /\ history[call.answer[1].revision] = call.answer[1].sha
    BY <2>1 DEF Original!ReceiptsTruthful, Acked
  <2>3. doc # NoDoc /\ history' = history
    BY <1>8, Acknowledged DEF serverVars, Doc, NoDoc
  <2>4. \/ doc'.revision = doc.revision /\ doc'.ack = doc.ack
        \/ /\ doc'.revision = call.answer[1].revision
           /\ doc'.ack = call.answer[1].sha
    BY <1>8, Acknowledged
  <2> QED
    BY <1>3, <2>2, <2>3, <2>4 DEF AckIsARevision
<1> QED
  BY <1>3, <1>4, <1>5, <1>6, <1>7, <1>8, SessionMoves

LEMMA SavedStep ==
    ASSUME TypeInv, SavedMeansDrained, [Next]_vars
    PROVE  SavedMeansDrained'
<1>1. CASE doc' = doc \/ doc' = NoDoc
  BY <1>1 DEF SavedMeansDrained
<1>2. CASE /\ doc # NoDoc /\ doc'.queue = doc.queue
           /\ doc'.status = "saved" => doc.status = "saved"
  BY <1>2 DEF SavedMeansDrained
<1>3. CASE Adopt
  BY <1>3, AdoptEffect DEF SavedMeansDrained
<1>4. CASE Capture
  BY <1>4, Captured DEF SavedMeansDrained, Blocked
<1>5. CASE Acknowledge
  BY <1>5, Acknowledged DEF SavedMeansDrained
<1> QED
  BY <1>1, <1>2, <1>3, <1>4, <1>5, SessionMoves

LEMMA ClientCorrect == Spec => [](TypeInv /\ Original!ReceiptsTruthful /\ ClientInv)
<1>1. Init => ClientInv
  BY DEF Init, ClientInv, AckIsARevision, SavedMeansDrained, LaunchIsARevision,
         AnswerIsReal
<1>2. TypeInv /\ Original!ReceiptsTruthful /\ ClientInv /\ [Next]_vars => ClientInv'
  BY LaunchStep, AnswerStep, AckStep, SavedStep DEF ClientInv
<1> QED
  BY <1>1, <1>2, Typed, Truthful, PTL DEF Spec

\* The base the client offers as If-Match and as proof of its lease always is
\* a revision of the original, with exactly the bytes the client holds it for.
THEOREM BaseIsReal == Spec => []AckIsARevision
<1>1. ClientInv => AckIsARevision
  BY DEF ClientInv
<1> QED
  BY <1>1, ClientCorrect, PTL

\* The user is never told "saved" over a queue that still holds a snapshot.
THEOREM SavedIsDrained == Spec => []SavedMeansDrained
<1>1. ClientInv => SavedMeansDrained
  BY DEF ClientInv
<1> QED
  BY <1>1, ClientCorrect, PTL

\* A queued snapshot that may be on the wire stays first in the queue until the
\* server holds a receipt for exactly its bytes.
THEOREM PendingIsNeverDropped == Spec => PendingLeavesAcknowledged
<1> DEFINE Leaves == doc # NoDoc /\ doc.queue # <<>> /\ doc' # NoDoc
             => \/ /\ doc'.queue # <<>>
                   /\ doc'.queue[1].key = doc.queue[1].key
                   /\ doc'.queue[1].sha = doc.queue[1].sha
                \/ \E r \in receipts : /\ r.writer = doc.session
                                       /\ r.key = doc.queue[1].key
                                       /\ r.sha = doc.queue[1].sha
<1>1. TypeInv /\ ClientInv /\ [Next]_vars => Leaves
  <2> SUFFICES ASSUME TypeInv, ClientInv, [Next]_vars,
                      doc # NoDoc, doc.queue # <<>>, doc' # NoDoc
               PROVE  Leaves
    OBVIOUS
  <2>1. CASE doc' = doc \/ doc'.queue = doc.queue
    BY <2>1
  <2>2. CASE Adopt
    <3>1. /\ launched \in Launch /\ doc'.queue = Adopted(launched).queue
          /\ doc' \in Doc /\ doc \in Doc
      BY <2>2, AdoptEffect DEF TypeInv, ClientTyped
    <3>2. Len(doc.queue) >= 1 /\ Len(doc.queue) \in Nat
      BY <3>1, DocFields, QueueFacts
    <3>3. /\ Len(doc'.queue) = Len(doc.queue)
          /\ doc'.queue[1].key = doc.queue[1].key
          /\ doc'.queue[1].sha = doc.queue[1].sha
      BY <3>1, <3>2, AdoptedDoc DEF TypeInv
    <3> QED
      BY <3>1, <3>2, <3>3, DocFields, QueueFacts
  <2>3. CASE Capture
    BY <2>3, Captured
  <2>4. CASE Acknowledge
    <3>1. PICK r \in receipts : Acked(r, call, call.answer[1])
      BY <2>4, Acknowledged DEF ClientInv, AnswerIsReal, Acknowledge
    <3>2. call.session = doc.session /\ call.details = doc.queue[1]
      BY <2>4, Acknowledged
    <3>3. /\ r.writer = doc.session /\ r.key = doc.queue[1].key
          /\ r.sha = doc.queue[1].sha
      BY <3>1, <3>2 DEF Acked
    <3> QED
      BY <3>3
  <2> QED
    BY <2>1, <2>2, <2>3, <2>4, SessionMoves
<1> QED
  BY <1>1, ClientCorrect, PTL DEF Spec, PendingLeavesAcknowledged

\* When the client drops a session because the server finished it, no snapshot
\* is queued and the working copy holds the acknowledged bytes.
THEOREM NothingLostAtFinish == Spec => FinishLosesNothing
<1>1. TypeInv /\ [Next]_vars => (Finished => doc.queue = <<>> /\ work = doc.ack)
  <2> SUFFICES ASSUME TypeInv, Finished
               PROVE  doc.queue = <<>> /\ work = doc.ack
    OBVIOUS
  <2>1. call # Idle /\ call.answer # <<>> /\ call.op = "finish"
    BY OkAnswer DEF Finished, TypeInv
  <2> QED
    BY <2>1, AnsweredCall DEF TypeInv
<1> QED
  BY <1>1, Typed, PTL DEF Spec, FinishLosesNothing

-----------------------------------------------------------------------------
\* What the working copy descends from.  Keys are never taken twice, so a
\* request or a receipt of an abandoned working copy never counts as queued.
Descended(q) ==
    q.op = "save" => /\ q.details.expected <= Len(history)
                     /\ Queued(q.details) /\ q.session \notin rebased
                        => q.details.expected <= base

ReceiptKeys == \A r \in receipts : r.key <= made \/ r.key > MaxSnapshots

OnlyFilesQueue ==
    /\ doc = NoDoc => work = NoFile
    /\ doc \in Doc /\ work = NoFile => doc.queue = <<>>

QueueDescends ==
    doc \in Doc => \A i \in DOMAIN doc.queue :
        /\ doc.queue[i].expected <= Len(history)
        /\ doc.session \notin rebased => doc.queue[i].expected <= base

DocDescends ==
    doc \in Doc /\ work # NoFile /\ doc.session \notin rebased
    => doc.revision <= base

ReceiptsDescend == \A r \in receipts : Queued(r) => r.revision <= base

BaseInv ==
    /\ base <= Len(history) /\ ReceiptKeys /\ OnlyFilesQueue
    /\ QueueDescends /\ DocDescends /\ ReceiptsDescend
    /\ call # Idle => Descended(call)
    /\ \A q \in stray : Descended(q)

KeyQueued(k) == doc # NoDoc /\ \E i \in DOMAIN doc.queue : doc.queue[i].key = k

\* Of the keys given out so far, the queue only loses some, and while one stays
\* queued the working copy does not go back to an earlier revision.
Follows ==
    \A k \in Nat : (k <= made \/ k > MaxSnapshots) /\ KeyQueued(k)'
                   => KeyQueued(k) /\ base <= base'

LEMMA Numbers ==
    ASSUME TypeInv
    PROVE  /\ base \in Nat /\ made \in Nat /\ made <= MaxSnapshots
           /\ Len(history) \in Nat \ {0}
           /\ doc # NoDoc <=> doc \in Doc
<1>1. base \in Nat /\ Len(history) \in Nat \ {0}
  BY Bounds DEF TypeInv, ServerTyped
<1>2. made \in Nat /\ made <= MaxSnapshots
  BY Bounds DEF TypeInv, ClientTyped
<1>3. NoDoc \notin Doc
  BY DEF Doc, NoDoc
<1> QED
  BY <1>1, <1>2, <1>3 DEF TypeInv, ClientTyped

LEMMA QueueNumbers ==
    ASSUME TypeInv, doc \in Doc
    PROVE  /\ DOMAIN doc.queue = 1 .. Len(doc.queue) /\ Len(doc.queue) \in Nat
           /\ doc.queue = <<>> <=> Len(doc.queue) = 0
           /\ doc.revision \in Nat /\ doc.session \in Session
           /\ \A i \in DOMAIN doc.queue :
                /\ doc.queue[i] \in Snapshot /\ doc.queue[i].expected \in Nat
                /\ doc.queue[i].key \in Nat /\ doc.queue[i].key <= made
<1>1. doc.queue \in Queue
  BY DocFields
<1>2. \A p \in Snapshot : p.expected \in Nat /\ p.key \in Nat
  BY SnapshotFields, Bounds
<1>3. /\ DOMAIN doc.queue = 1 .. Len(doc.queue) /\ Len(doc.queue) \in Nat
      /\ doc.queue = <<>> <=> Len(doc.queue) = 0
      /\ \A i \in DOMAIN doc.queue : doc.queue[i] \in Snapshot
  BY <1>1, QueueFacts
<1>4. doc.revision \in Nat /\ doc.session \in Session
  BY DocFields, Bounds
<1> QED
  BY <1>2, <1>3, <1>4 DEF TypeInv, Prepared, QueueMade

\* An untouched queue follows itself.
LEMMA SameQueueFollows ==
    ASSUME TypeInv, UNCHANGED base, doc' = doc \/ (doc # NoDoc /\ doc'.queue = doc.queue)
    PROVE  Follows
BY Numbers DEF Follows, KeyQueued

\* The requests on their way, through a step that either keeps what the working
\* copy descends from or makes it the last revision.
LEMMA RequestsDescend ==
    ASSUME TypeInv, TypeInv', BaseInv, Len(history') >= Len(history),
           \/ Follows /\ rebased \subseteq rebased'
           \/ base' = Len(history'),
           \/ call' = Idle
           \/ /\ call # Idle /\ call'.op = call.op
              /\ call'.session = call.session /\ call'.details = call.details,
           stray' \subseteq stray \cup (IF call = Idle THEN {} ELSE {call})
    PROVE  /\ call' # Idle => Descended(call)'
           /\ (\A q \in stray : Descended(q))'
<1>1. ASSUME NEW q \in Request, WellMade(q), Descended(q), q.op = "save"
      PROVE  /\ q.details.expected <= Len(history')
             /\ KeyQueued(q.details.key)' /\ q.session \notin rebased'
                => q.details.expected <= base'
  <2>1. /\ q.details.expected \in Nat /\ q.details.key \in Nat
        /\ q.details.key <= made /\ q.details.expected <= Len(history)
        /\ KeyQueued(q.details.key) /\ q.session \notin rebased
           => q.details.expected <= base
    BY <1>1, SnapshotFields, Bounds DEF WellMade, Descended, Queued, KeyQueued
  <2>2. /\ Len(history) \in Nat /\ Len(history') \in Nat /\ base \in Nat /\ base' \in Nat
    BY Numbers DEF TypeInv, ServerTyped
  <2>3. q.details.expected <= Len(history')
    BY <2>1, <2>2
  <2>4. CASE base' = Len(history')
    BY <2>3, <2>4
  <2>5. CASE Follows /\ rebased \subseteq rebased'
    <3>1. SUFFICES ASSUME KeyQueued(q.details.key)', q.session \notin rebased'
                   PROVE  q.details.expected <= base'
      BY <2>3
    <3>2. KeyQueued(q.details.key) /\ base <= base'
      BY <2>1, <2>5, <3>1 DEF Follows
    <3> QED
      BY <2>1, <2>2, <2>5, <3>1, <3>2
  <2> QED
    BY <2>4, <2>5
<1>2. \A q \in stray : q \in Request /\ WellMade(q) /\ Descended(q)
  BY DEF TypeInv, ClientTyped, Prepared, BaseInv
<1>3. call # Idle => call \in Request /\ WellMade(call) /\ Descended(call)
  BY DEF TypeInv, ClientTyped, Prepared, BaseInv
<1>4. ASSUME call' # Idle
      PROVE  Descended(call)'
  <2>1. PICK c \in Request : c = call
    BY <1>3, <1>4
  <2>2. WellMade(c) /\ Descended(c)
    BY <1>3, <1>4, <2>1
  <2>3. /\ call'.op = c.op /\ call'.session = c.session
        /\ call'.details = c.details
    BY <1>4, <2>1
  <2>4. SUFFICES ASSUME c.op = "save"
                 PROVE  /\ c.details.expected <= Len(history')
                        /\ KeyQueued(c.details.key)' /\ c.session \notin rebased'
                           => c.details.expected <= base'
    BY <2>3 DEF Descended, Queued, KeyQueued
  <2> QED
    BY <1>1, <2>2, <2>4
<1>5. ASSUME NEW q \in stray'
      PROVE  Descended(q)'
  <2>1. q \in Request /\ WellMade(q) /\ Descended(q)
    BY <1>2, <1>3
  <2>2. SUFFICES ASSUME q.op = "save"
                 PROVE  /\ q.details.expected <= Len(history')
                        /\ KeyQueued(q.details.key)' /\ q.session \notin rebased'
                           => q.details.expected <= base'
    BY DEF Descended, Queued, KeyQueued
  <2> QED
    BY <1>1, <2>1, <2>2
<1> QED
  BY <1>4, <1>5

\* The receipts, through a step that writes none.
LEMMA ReceiptsKept ==
    ASSUME TypeInv, TypeInv', BaseInv, UNCHANGED receipts, Follows, made' >= made
    PROVE  ReceiptKeys' /\ ReceiptsDescend'
<1>1. \A r \in receipts : r.key \in Nat /\ r.revision \in Nat
  BY DEF TypeInv, ServerTyped, Original!TypeOK, Original!Receipt
<1>2. /\ base \in Nat /\ made \in Nat /\ base' \in Nat /\ made' \in Nat
  BY Numbers DEF TypeInv, ServerTyped, ClientTyped
<1>3. ReceiptKeys'
  BY <1>1, <1>2 DEF BaseInv, ReceiptKeys
<1>4. ASSUME NEW r \in receipts, KeyQueued(r.key)'
      PROVE  r.revision <= base'
  <2>1. KeyQueued(r.key) /\ base <= base'
    BY <1>1, <1>4 DEF Follows, BaseInv, ReceiptKeys
  <2> QED
    BY <1>1, <1>2, <2>1 DEF BaseInv, ReceiptsDescend, Queued, KeyQueued
<1> QED
  BY <1>3, <1>4 DEF ReceiptsDescend, Queued, KeyQueued

\* What the session holds, through a step that leaves its queue and base alone.
SessionPart ==
    base <= Len(history) /\ OnlyFilesQueue /\ QueueDescends /\ DocDescends

LEMMA SessionKept ==
    ASSUME TypeInv, TypeInv', BaseInv, UNCHANGED ghosts,
           Len(history') >= Len(history),
           \/ doc' = doc
           \/ /\ doc \in Doc /\ doc' \in Doc /\ doc'.queue = doc.queue
              /\ doc'.session = doc.session /\ doc'.revision = doc.revision,
           work' = work \/ (work # NoFile /\ work' # NoFile)
    PROVE  SessionPart'
<1>1. /\ base \in Nat /\ Len(history) \in Nat /\ Len(history') \in Nat
      /\ base' = base /\ rebased' = rebased
  BY Numbers DEF TypeInv, ServerTyped, ghosts
<1>2. base' <= Len(history')
  BY <1>1 DEF BaseInv
<1>3. NoDoc \notin Doc
  BY DEF Doc, NoDoc
<1>4. OnlyFilesQueue'
  BY <1>3, Numbers DEF BaseInv, OnlyFilesQueue, TypeInv, ClientTyped
<1>5. QueueDescends'
  <2> SUFFICES ASSUME doc' \in Doc, NEW i \in DOMAIN doc'.queue
               PROVE  /\ doc'.queue[i].expected <= Len(history')
                      /\ doc'.session \notin rebased' => doc'.queue[i].expected <= base'
    BY DEF QueueDescends
  <2>1. doc \in Doc /\ doc'.queue = doc.queue /\ doc'.session = doc.session
    BY <1>3
  <2>2. doc.queue[i].expected \in Nat
    BY <2>1, QueueNumbers
  <2> QED
    BY <1>1, <2>1, <2>2 DEF BaseInv, QueueDescends
<1>6. DocDescends'
  BY <1>1, <1>3 DEF BaseInv, DocDescends
<1> QED
  BY <1>2, <1>4, <1>5, <1>6 DEF SessionPart

\* A step that writes no receipt and only restates the session.
LEMMA QuietStep ==
    ASSUME TypeInv, TypeInv', BaseInv, UNCHANGED <<history, receipts, made>>,
           UNCHANGED ghosts,
           \/ doc' = doc
           \/ /\ doc \in Doc /\ doc' \in Doc /\ doc'.queue = doc.queue
              /\ doc'.session = doc.session /\ doc'.revision = doc.revision,
           work' = work \/ (work # NoFile /\ work' # NoFile),
           \/ call' = Idle
           \/ /\ call # Idle /\ call'.op = call.op
              /\ call'.session = call.session /\ call'.details = call.details,
           stray' \subseteq stray \cup (IF call = Idle THEN {} ELSE {call})
    PROVE  BaseInv'
<1>1. /\ Len(history') >= Len(history) /\ made' >= made
      /\ UNCHANGED base /\ rebased \subseteq rebased'
  BY Numbers DEF ghosts
<1>2. Follows
  BY <1>1, Numbers, SameQueueFollows
<1>3. SessionPart'
  BY <1>1, SessionKept
<1>4. ReceiptKeys' /\ ReceiptsDescend'
  BY <1>1, <1>2, ReceiptsKept
<1>5. (call' # Idle => Descended(call)') /\ (\A q \in stray : Descended(q))'
  BY <1>1, <1>2, RequestsDescend
<1> QED
  BY <1>3, <1>4, <1>5 DEF BaseInv, SessionPart

LEMMA SendBase ==
    ASSUME TypeInv, TypeInv', BaseInv,
           SendResume \/ SendSave \/ SendRenew \/ SendHeartbeat \/ SendFinish
    PROVE  BaseInv'
<1>1. /\ UNCHANGED <<history, receipts, doc, work, made, stray>> /\ UNCHANGED ghosts
      /\ doc \in Doc /\ call'.session = doc.session
      /\ call'.op = "save" => doc.queue # <<>> /\ call'.details = doc.queue[1]
  BY SendEffect
<1>2. /\ SessionPart' /\ ReceiptKeys' /\ ReceiptsDescend'
      /\ (\A q \in stray : Descended(q))'
  BY <1>1 DEF BaseInv, SessionPart, OnlyFilesQueue, QueueDescends, DocDescends,
              ReceiptKeys, ReceiptsDescend, Descended, Queued, ghosts
<1>3. Descended(call)'
  <2>1. SUFFICES ASSUME call'.op = "save"
                 PROVE  /\ call'.details.expected <= Len(history)
                        /\ doc.session \notin rebased
                           => call'.details.expected <= base
    BY <1>1 DEF Descended, ghosts
  <2>2. 1 \in DOMAIN doc.queue
    BY <1>1, <2>1, QueueNumbers
  <2> QED
    BY <1>1, <2>1, <2>2 DEF BaseInv, QueueDescends
<1> QED
  BY <1>2, <1>3 DEF BaseInv, SessionPart

LEMMA OtherBase ==
    ASSUME TypeInv, TypeInv', BaseInv, NEW c \in Content, OtherSaves(c)
    PROVE  BaseInv'
<1> DEFINE new == [writer |-> Other, key |-> MaxSnapshots + Len(history),
                   expected |-> Len(history), revision |-> Len(history'), sha |-> c]
<1>1. /\ receipts' = receipts \cup {new}
      /\ UNCHANGED <<doc, work, call, stray, made>> /\ UNCHANGED ghosts
      /\ Len(history') \in {Len(history), Len(history) + 1}
  BY CommitOfOther
<1>2. /\ Len(history') >= Len(history) /\ UNCHANGED base /\ rebased \subseteq rebased'
      /\ new.key > MaxSnapshots /\ Len(history') \in Nat
  BY <1>1, Numbers, Bounds DEF ghosts
<1>3. SessionPart'
  BY <1>1, <1>2, SessionKept
<1>4. Follows
  BY <1>1, <1>2, SameQueueFollows
<1>5. (call' # Idle => Descended(call)') /\ (\A q \in stray : Descended(q))'
  BY <1>1, <1>2, <1>4, RequestsDescend
<1>6. ReceiptKeys'
  BY <1>1, <1>2 DEF BaseInv, ReceiptKeys
<1>7. ~Queued(new)
  BY <1>2, Numbers, QueueNumbers, Bounds DEF Queued
<1>8. ReceiptsDescend'
  <2> SUFFICES ASSUME NEW r \in receipts', Queued(r)
               PROVE  r.revision <= base
    BY <1>1 DEF ReceiptsDescend, Queued, ghosts
  <2> QED
    BY <1>1, <1>7 DEF BaseInv, ReceiptsDescend
<1> QED
  BY <1>3, <1>5, <1>6, <1>8 DEF BaseInv, SessionPart

LEMMA LandedBase ==
    ASSUME TypeInv, TypeInv', BaseInv, AckIsARevision, Original!ReceiptsTruthful,
           NEW q \in Request, WellMade(q), Landed(q),
           UNCHANGED <<doc, work, made>>,
           \/ call' = Idle
           \/ /\ call # Idle /\ call'.op = call.op
              /\ call'.session = call.session /\ call'.details = call.details,
           stray' \subseteq stray
    PROVE  BaseInv'
<1> DEFINE p == q.details
           new == [writer |-> q.session, key |-> p.key, expected |-> p.expected,
                   revision |-> Len(history'), sha |-> p.sha]
<1>1. /\ p \in Snapshot /\ p.key <= made
      /\ Len(history') \in {Len(history), Len(history) + 1}
      /\ receipts' = receipts \cup {new}
      /\ Descends(q.session, p)
  BY CommitOfSave
<1>2. /\ base \in Nat /\ Len(history) \in Nat /\ Len(history') \in Nat
      /\ Len(history') >= Len(history) /\ base <= Len(history)
  BY <1>1, Numbers DEF BaseInv
<1>3. ReceiptKeys'
  BY <1>1 DEF BaseInv, ReceiptKeys
<1>4. \/ Queued(p) /\ base' = Len(history') /\ rebased' = rebased \ {q.session}
      \/ ~Queued(p) /\ UNCHANGED ghosts
  BY <1>1 DEF Descends
<1>5. CASE ~Queued(p) /\ UNCHANGED ghosts
  <2>1. SessionPart'
    BY <1>2, <1>5, SessionKept
  <2>2. UNCHANGED base /\ UNCHANGED rebased
    BY <1>5 DEF ghosts
  <2>3. Follows
    BY <2>2, SameQueueFollows
  <2>4. (call' # Idle => Descended(call)') /\ (\A x \in stray : Descended(x))'
    BY <1>2, <2>2, <2>3, RequestsDescend
  <2>5. ~Queued(new)
    BY <1>5 DEF Queued
  <2>6. ReceiptsDescend'
    <3> SUFFICES ASSUME NEW r \in receipts', Queued(r)
                 PROVE  r.revision <= base
      BY <2>2 DEF ReceiptsDescend, Queued
    <3> QED
      BY <1>1, <2>5 DEF BaseInv, ReceiptsDescend
  <2> QED
    BY <1>3, <2>1, <2>4, <2>6 DEF BaseInv, SessionPart
<1>6. CASE Queued(p) /\ base' = Len(history') /\ rebased' = rebased \ {q.session}
  <2>1. (call' # Idle => Descended(call)') /\ (\A x \in stray : Descended(x))'
    BY <1>2, <1>6, RequestsDescend
  <2>2. ASSUME doc \in Doc
        PROVE  /\ doc.revision <= base'
               /\ \A i \in DOMAIN doc.queue : doc.queue[i].expected <= base'
    <3>1. doc.revision \in 1 .. Len(history)
      BY <2>2, Numbers DEF AckIsARevision
    <3>2. \A i \in DOMAIN doc.queue : /\ doc.queue[i].expected <= Len(history)
                                      /\ doc.queue[i].expected \in Nat
      BY <2>2, QueueNumbers DEF BaseInv, QueueDescends
    <3> QED
      BY <1>2, <1>6, <3>1, <3>2
  <2>3. SessionPart'
    BY <1>2, <1>6, <2>2
    DEF BaseInv, SessionPart, OnlyFilesQueue, QueueDescends, DocDescends
  <2>4. ReceiptsDescend'
    <3> SUFFICES ASSUME NEW r \in receipts'
                 PROVE  r.revision <= Len(history')
      BY <1>6 DEF ReceiptsDescend
    <3>1. CASE r \in receipts
      BY <1>2, <3>1 DEF Original!ReceiptsTruthful
    <3>2. CASE r = new
      BY <1>2, <3>2
    <3> QED
      BY <1>1, <3>1, <3>2
  <2> QED
    BY <1>3, <2>1, <2>3, <2>4 DEF BaseInv, SessionPart
<1> QED
  BY <1>4, <1>5, <1>6

LEMMA ServeBase ==
    ASSUME TypeInv, TypeInv', BaseInv, AckIsARevision, Original!ReceiptsTruthful,
           Serve \/ \E q \in stray : ServeStray(q)
    PROVE  BaseInv'
<1>1. PICK q \in Request, a \in Answers :
             /\ Handle(q, a) /\ WellMade(q)
             /\ UNCHANGED <<localVars, launched, made, losses>>
             /\ \/ /\ q = call /\ call # Idle /\ call.answer = <<>>
                   /\ call' = [call EXCEPT !.answer = <<a>>] /\ UNCHANGED stray
                \/ q \in stray /\ stray' = stray \ {q} /\ UNCHANGED call
  BY ServeStep
<1>2. UNCHANGED <<doc, work, made>> /\ stray' \subseteq stray
  BY <1>1 DEF localVars
<1>3. \/ call' = Idle
      \/ /\ call # Idle /\ call'.op = call.op
         /\ call'.session = call.session /\ call'.details = call.details
  BY <1>1 DEF Request
<1>4. CASE Landed(q)
  BY <1>1, <1>2, <1>3, <1>4, LandedBase
<1>5. CASE UNCHANGED <<history, receipts, ghosts>>
  <2>1. UNCHANGED <<history, receipts, made>> /\ UNCHANGED ghosts
    BY <1>2, <1>5
  <2> QED
    BY <1>2, <1>3, <2>1, QuietStep
<1> QED
  BY <1>1, <1>4, <1>5, HandleEffect

\* A new session without a queue: nothing queued before stays queued.
LEMMA NothingQueued ==
    ASSUME TypeInv', doc' = NoDoc \/ (doc' \in Doc /\ doc'.queue = <<>>)
    PROVE  Follows /\ QueueDescends'
BY DEF Follows, KeyQueued, QueueDescends, Doc, NoDoc

LEMMA DownloadBase ==
    ASSUME TypeInv, TypeInv', BaseInv, AckIsARevision, Download
    PROVE  BaseInv'
<1>1. /\ doc \in Doc /\ doc' \in Doc /\ call' = Idle /\ work = NoFile
      /\ base' = Len(history)
      /\ doc'.revision = doc.revision /\ doc'.queue = doc.queue
      /\ UNCHANGED <<history, receipts, stray, made, rebased>>
  BY DownloadEffect
<1>2. doc.queue = <<>> /\ doc.revision \in 1 .. Len(history)
  BY <1>1, Numbers DEF BaseInv, OnlyFilesQueue, AckIsARevision
<1>3. Follows /\ QueueDescends'
  BY <1>1, <1>2, NothingQueued
<1>4. Len(history') >= Len(history) /\ made' >= made /\ rebased \subseteq rebased'
  BY <1>1, Numbers
<1>5. ReceiptKeys' /\ ReceiptsDescend'
  BY <1>1, <1>3, <1>4, ReceiptsKept
<1>6. (call' # Idle => Descended(call)') /\ (\A q \in stray : Descended(q))'
  BY <1>1, <1>3, <1>4, RequestsDescend
<1>7. OnlyFilesQueue' /\ DocDescends' /\ base' <= Len(history')
  BY <1>1, <1>2, Numbers DEF OnlyFilesQueue, DocDescends, Doc, NoDoc
<1> QED
  BY <1>3, <1>5, <1>6, <1>7 DEF BaseInv

LEMMA GoneBase ==
    ASSUME TypeInv, TypeInv', BaseInv,
           UNCHANGED <<history, receipts, made, rebased>>,
           doc' = NoDoc, work' = NoFile, base' = 0, call' = Idle,
           stray' \subseteq stray \cup (IF call = Idle THEN {} ELSE {call})
    PROVE  BaseInv'
<1>1. Follows /\ QueueDescends'
  BY NothingQueued
<1>2. Len(history') >= Len(history) /\ made' >= made /\ rebased \subseteq rebased'
  BY Numbers
<1>3. ReceiptKeys' /\ ReceiptsDescend'
  BY <1>1, <1>2, ReceiptsKept
<1>4. (call' # Idle => Descended(call)') /\ (\A q \in stray : Descended(q))'
  BY <1>1, <1>2, RequestsDescend
<1>5. OnlyFilesQueue' /\ DocDescends' /\ base' <= Len(history')
  BY <1>2, Numbers DEF OnlyFilesQueue, DocDescends, Doc, NoDoc
<1> QED
  BY <1>1, <1>3, <1>4, <1>5 DEF BaseInv

LEMMA CaptureBase ==
    ASSUME TypeInv, TypeInv', BaseInv, AckIsARevision, Capture
    PROVE  BaseInv'
<1>1. /\ doc \in Doc /\ doc' \in Doc /\ made' = made + 1 /\ made < MaxSnapshots
      /\ work \in Content /\ UNCHANGED <<work, ghosts, serverVars>>
      /\ UNCHANGED stray /\ call' = Idle
      /\ doc'.session = doc.session /\ doc'.revision = doc.revision
      /\ \A i \in DOMAIN doc'.queue :
           \/ i \in DOMAIN doc.queue /\ doc'.queue[i] = doc.queue[i]
           \/ doc'.queue[i].key = made + 1 /\ doc'.queue[i].expected = doc.revision
  BY Captured
<1>2. UNCHANGED <<history, receipts, base, rebased>> /\ work # NoFile
  BY <1>1, NoFileIsNoContent DEF serverVars, ghosts
<1>3. /\ made \in Nat /\ base \in Nat /\ Len(history) \in Nat
      /\ doc.revision \in 1 .. Len(history)
  BY <1>1, Numbers DEF AckIsARevision
<1>4. Follows
  <2> SUFFICES ASSUME NEW k \in Nat, k <= made \/ k > MaxSnapshots, KeyQueued(k)'
               PROVE  KeyQueued(k)
    BY <1>2, <1>3 DEF Follows
  <2>1. PICK i \in DOMAIN doc'.queue : doc'.queue[i].key = k
    BY DEF KeyQueued
  <2>2. k # made + 1
    BY <1>1, <1>3, Bounds
  <2> QED
    BY <1>1, <2>1, <2>2, Numbers DEF KeyQueued
<1>5. ReceiptKeys' /\ ReceiptsDescend'
  BY <1>1, <1>2, <1>3, <1>4, ReceiptsKept
<1>6. (call' # Idle => Descended(call)') /\ (\A q \in stray : Descended(q))'
  BY <1>1, <1>2, <1>3, <1>4, RequestsDescend
<1>7. DocDescends' /\ base' <= Len(history')
  BY <1>1, <1>2 DEF BaseInv, DocDescends
<1>8. OnlyFilesQueue'
  BY <1>1, <1>2 DEF OnlyFilesQueue, Doc, NoDoc
<1>9. QueueDescends'
  BY <1>1, <1>2, <1>3 DEF BaseInv, QueueDescends, DocDescends
<1> QED
  BY <1>5, <1>6, <1>7, <1>8, <1>9 DEF BaseInv

LEMMA AcknowledgeBase ==
    ASSUME TypeInv, TypeInv', BaseInv, Original!ReceiptsTruthful, AnswerIsReal,
           Acknowledge
    PROVE  BaseInv'
<1> DEFINE a == call.answer[1]
           u == Promoted(doc.queue, a.revision)
<1>1. /\ doc \in Doc /\ doc.queue # <<>> /\ call # Idle /\ call' = Idle
      /\ call.session = doc.session /\ call.details = doc.queue[1]
      /\ UNCHANGED <<work, ghosts, serverVars>> /\ UNCHANGED <<stray, made>>
      /\ a.revision \in 1 .. MaxRevision
      /\ doc' \in Doc /\ doc'.session = doc.session
      /\ \/ doc'.revision = a.revision /\ doc'.queue = u
         \/ doc'.queue = doc.queue /\ doc'.revision = doc.revision
  BY Acknowledged
<1>2. UNCHANGED <<history, receipts, base, rebased>>
  BY <1>1 DEF serverVars, ghosts
<1>3. CASE doc'.queue = doc.queue /\ doc'.revision = doc.revision
  BY <1>1, <1>2, <1>3, QuietStep
<1>4. CASE doc'.revision = a.revision /\ doc'.queue = u
  <2>1. PICK r \in receipts : Acked(r, call, a)
    BY <1>1 DEF AnswerIsReal, Acknowledge
  <2>2. r.key = doc.queue[1].key /\ r.revision = a.revision
    BY <1>1, <2>1 DEF Acked
  <2>3. Queued(r)
    BY <1>1, <2>2, Numbers, QueueNumbers DEF Queued
  <2>4. a.revision <= base /\ a.revision <= Len(history)
    BY <2>2, <2>3 DEF BaseInv, ReceiptsDescend, Original!ReceiptsTruthful
  <2>5. \A i \in DOMAIN u : /\ i + 1 \in DOMAIN doc.queue
                            /\ u[i].key = doc.queue[i + 1].key
                            /\ u[i].expected = a.revision
    BY <1>1, DocFields, PromotedQueue
  <2> HIDE DEF u
  <2>6. Follows
    BY <1>1, <1>2, <1>4, <2>5, Numbers DEF Follows, KeyQueued
  <2>7. Len(history') >= Len(history) /\ made' >= made /\ rebased \subseteq rebased'
    BY <1>1, <1>2, Numbers
  <2>8. ReceiptKeys' /\ ReceiptsDescend'
    BY <1>2, <2>6, <2>7, ReceiptsKept
  <2>9. (call' # Idle => Descended(call)') /\ (\A q \in stray : Descended(q))'
    BY <1>1, <2>6, <2>7, RequestsDescend
  <2>10. DocDescends' /\ base' <= Len(history')
    BY <1>1, <1>2, <1>4, <2>4 DEF BaseInv, DocDescends
  <2>11. QueueDescends'
    BY <1>1, <1>2, <1>4, <2>4, <2>5 DEF QueueDescends
  <2>12. OnlyFilesQueue'
    BY <1>1 DEF BaseInv, OnlyFilesQueue, Doc, NoDoc
  <2> QED
    BY <2>8, <2>9, <2>10, <2>11, <2>12 DEF BaseInv
<1> QED
  BY <1>1, <1>3, <1>4

LEMMA AdoptGhosts ==
    ASSUME TypeInv, OnlyFilesQueue, Adopt
    PROVE  \/ /\ work = NoFile /\ UNCHANGED rebased
              /\ base' = Len(history) \/ (work' = NoFile /\ base' = base)
           \/ /\ work # NoFile /\ UNCHANGED work /\ doc \in Doc
              /\ doc.ack = launched.sha /\ doc.session \notin rebased
              /\ UNCHANGED rebased
              /\ base' = IF launched.revision > base THEN launched.revision ELSE base
           \/ /\ work # NoFile /\ UNCHANGED <<work, base>> /\ doc \in Doc
              /\ rebased' = rebased \cup {launched.session}
<1> DEFINE d == Adopted(launched)
           kin == doc # NoDoc /\ doc.ack = launched.sha /\ doc.session \notin rebased
<1>1. work # NoFile => doc \in Doc
  BY Numbers DEF OnlyFilesQueue
<1>2. \/ Fetch(d) /\ UNCHANGED rebased
      \/ /\ base' = IF work # NoFile /\ kin /\ launched.revision > base
                    THEN launched.revision ELSE base
         /\ rebased' = IF work # NoFile /\ ~kin THEN rebased \cup {launched.session}
                       ELSE rebased
         /\ UNCHANGED work
  BY DEF Adopt
<1>3. CASE Fetch(d) /\ UNCHANGED rebased
  BY <1>3 DEF Fetch, Original!Revision
<1> HIDE DEF d
<1>4. CASE /\ base' = IF work # NoFile /\ kin /\ launched.revision > base
                      THEN launched.revision ELSE base
           /\ rebased' = IF work # NoFile /\ ~kin THEN rebased \cup {launched.session}
                         ELSE rebased
           /\ UNCHANGED work
  BY <1>1, <1>4, Numbers
<1> QED
  BY <1>2, <1>3, <1>4

LEMMA AdoptBase ==
    ASSUME TypeInv, TypeInv', BaseInv, LaunchIsARevision, Adopt
    PROVE  BaseInv'
<1> DEFINE l == launched
<1>1. /\ l \in Launch /\ l # NoLaunch /\ call' = Idle /\ doc' \in Doc
      /\ doc'.session = l.session /\ doc'.revision = l.revision
      /\ doc'.queue = Adopted(l).queue
      /\ UNCHANGED <<history, receipts, stray, made>>
  BY AdoptEffect
<1>2. l.revision \in 1 .. Len(history) /\ Len(history) \in Nat /\ base \in Nat
  BY <1>1, Numbers DEF LaunchIsARevision
<1>3. OnlyFilesQueue
  BY DEF BaseInv
<1>4. ASSUME rebased \subseteq rebased', Follows
      PROVE  /\ ReceiptKeys' /\ ReceiptsDescend'
             /\ call' # Idle => Descended(call)'
             /\ (\A q \in stray : Descended(q))'
  <2>1. Len(history') >= Len(history) /\ made' >= made
    BY <1>1, Numbers
  <2>2. ReceiptKeys' /\ ReceiptsDescend'
    BY <1>1, <1>4, <2>1, ReceiptsKept
  <2>3. (call' # Idle => Descended(call)') /\ (\A q \in stray : Descended(q))'
    BY <1>1, <1>4, <2>1, RequestsDescend
  <2> QED
    BY <2>2, <2>3
<1>5. CASE /\ work = NoFile /\ UNCHANGED rebased
           /\ base' = Len(history) \/ (work' = NoFile /\ base' = base)
  <2>1. doc'.queue = <<>>
    <3>1. CASE doc = NoDoc
      BY <1>1, <3>1, AdoptedDoc DEF TypeInv
    <3>2. CASE doc # NoDoc
      <4>1. doc \in Doc /\ doc.queue = <<>>
        BY <1>3, <1>5, <3>2, Numbers DEF OnlyFilesQueue
      <4>2. Len(doc'.queue) = 0
        BY <1>1, <3>2, <4>1, QueueNumbers, AdoptedDoc DEF TypeInv
      <4> QED
        BY <1>1, <4>2, DocFields, QueueFacts
    <3> QED
      BY <3>1, <3>2
  <2>2. Follows /\ QueueDescends'
    BY <1>1, <2>1, NothingQueued
  <2>3. rebased \subseteq rebased'
    BY <1>5
  <2>4. DocDescends' /\ base' <= Len(history')
    BY <1>1, <1>2, <1>5 DEF BaseInv, DocDescends
  <2>5. OnlyFilesQueue'
    BY <1>1, <2>1 DEF OnlyFilesQueue, Doc, NoDoc
  <2> QED
    BY <1>4, <2>2, <2>3, <2>4, <2>5 DEF BaseInv
<1>6. CASE /\ work # NoFile /\ UNCHANGED work /\ doc \in Doc
           /\ base <= base' /\ base' <= Len(history)
           /\ rebased \subseteq rebased'
           /\ l.session \notin rebased' => /\ l.revision <= base'
                                           /\ doc.session \notin rebased
  <2>1. /\ Len(doc'.queue) = Len(doc.queue)
        /\ \A i \in 1 .. Len(doc.queue) :
             /\ doc'.queue[i].key = doc.queue[i].key
             /\ \/ doc'.queue[i].expected = doc.queue[i].expected
                \/ doc'.queue[i].expected = l.revision
    BY <1>1, <1>6, AdoptedDoc, Numbers DEF TypeInv
  <2>2. DOMAIN doc.queue = 1 .. Len(doc.queue) /\ DOMAIN doc'.queue = 1 .. Len(doc.queue)
    BY <1>1, <1>6, <2>1, DocFields, QueueFacts
  <2>3. Follows
    BY <1>6, <2>1, <2>2, Numbers DEF Follows, KeyQueued
  <2>4. QueueDescends'
    <3> SUFFICES ASSUME NEW i \in 1 .. Len(doc.queue)
                 PROVE  /\ doc'.queue[i].expected <= Len(history)
                        /\ l.session \notin rebased' => doc'.queue[i].expected <= base'
      BY <1>1, <2>2 DEF QueueDescends
    <3>1. base' \in Nat
      BY DEF TypeInv, ServerTyped
    <3>2. /\ doc.queue[i].expected \in Nat /\ doc.queue[i].expected <= Len(history)
          /\ doc.session \notin rebased => doc.queue[i].expected <= base
      BY <1>6, <2>2, QueueNumbers DEF BaseInv, QueueDescends
    <3>3. CASE doc'.queue[i].expected = l.revision
      BY <1>2, <1>6, <3>3
    <3>4. CASE doc'.queue[i].expected = doc.queue[i].expected
      BY <1>2, <1>6, <3>1, <3>2, <3>4
    <3> QED
      BY <2>1, <3>3, <3>4
  <2>5. DocDescends' /\ OnlyFilesQueue' /\ base' <= Len(history')
    BY <1>1, <1>6 DEF DocDescends, OnlyFilesQueue, Doc, NoDoc
  <2> QED
    BY <1>4, <1>6, <2>3, <2>4, <2>5 DEF BaseInv
<1>7. CASE /\ work # NoFile /\ UNCHANGED work /\ doc \in Doc
           /\ doc.session \notin rebased /\ UNCHANGED rebased
           /\ base' = IF l.revision > base THEN l.revision ELSE base
  BY <1>2, <1>6, <1>7 DEF BaseInv
<1>8. CASE /\ work # NoFile /\ UNCHANGED <<work, base>> /\ doc \in Doc
           /\ rebased' = rebased \cup {l.session}
  BY <1>2, <1>6, <1>8 DEF BaseInv
<1> QED
  BY <1>3, <1>5, <1>7, <1>8, AdoptGhosts

LEMMA BaseStep ==
    ASSUME TypeInv, TypeInv', Original!ReceiptsTruthful, ClientInv, BaseInv,
           [Next]_vars
    PROVE  BaseInv'
<1> USE DEF ClientInv
<1>1. CASE /\ UNCHANGED <<history, receipts, doc, made>> /\ UNCHANGED ghosts
           /\ call' \in {call, Idle}
           /\ stray' \subseteq stray \cup (IF call = Idle THEN {} ELSE {call})
           /\ work' = work \/ (work # NoFile /\ work' # NoFile)
  BY <1>1, QuietStep
<1>2. CASE \E c \in Content : OtherSaves(c)
  BY <1>2, OtherBase
<1>3. CASE \E s \in Session : Exchange(s)
  <2>1. /\ UNCHANGED <<history, receipts, doc, work, made, call, stray>>
        /\ UNCHANGED ghosts
    BY <1>3 DEF Exchange, localVars
  <2> QED
    BY <2>1, <1>1
<1>4. CASE SendResume \/ SendSave \/ SendRenew \/ SendHeartbeat \/ SendFinish
  BY <1>4, SendBase
<1>5. CASE Serve \/ \E q \in stray : ServeStray(q)
  BY <1>5, ServeBase
<1>6. CASE Adopt \/ Download \/ Capture \/ Acknowledge
  BY <1>6, AdoptBase, DownloadBase, CaptureBase, AcknowledgeBase
<1>7. CASE /\ UNCHANGED <<history, receipts, made, rebased>>
           /\ doc' = NoDoc /\ work' = NoFile /\ base' = 0 /\ call' = Idle
           /\ stray' \subseteq stray \cup (IF call = Idle THEN {} ELSE {call})
  BY <1>7, GoneBase
<1>8. CASE /\ Restated
           /\ stray' \subseteq stray \cup (IF call = Idle THEN {} ELSE {call})
  <2>1. UNCHANGED <<history, receipts, made>> /\ UNCHANGED ghosts
    BY <1>8 DEF Restated, serverVars
  <2> QED
    BY <1>8, <2>1, QuietStep DEF Restated
<1> QED
  BY <1>1, <1>2, <1>3, <1>4, <1>5, <1>6, <1>7, <1>8, StepKinds

LEMMA BaseCorrect == Spec => [](TypeInv /\ BaseInv)
<1>1. Init => BaseInv
  <2> SUFFICES ASSUME Init PROVE BaseInv
    OBVIOUS
  <2>1. NoDoc \notin Doc
    BY DEF Doc, NoDoc
  <2>2. base = 0 /\ Len(history) = 1
    BY DEF Init, Original!Init
  <2> QED
    BY <2>1, <2>2 DEF Init, Original!Init, BaseInv, ReceiptKeys, OnlyFilesQueue,
       QueueDescends, DocDescends, ReceiptsDescend
<1>2. /\ TypeInv /\ TypeInv' /\ Original!ReceiptsTruthful /\ ClientInv /\ BaseInv
      /\ [Next]_vars
      => BaseInv'
  BY BaseStep
<1> QED
  BY <1>1, <1>2, ClientCorrect, PTL DEF Spec

\* Unless its session took over a working copy of another revision, a save of
\* the working copy is appended only to the revision the copy descends from,
\* however late the request arrives and however often the service restarted.
THEOREM OnlyRebasedOverwrite == Spec => OverwriteNeedsRebase
<1> DEFINE Holds == \A r \in Appended : r.writer \notin rebased => base = Len(history)
<1>1. TypeInv /\ BaseInv /\ [Next]_vars => Holds
  <2> SUFFICES ASSUME TypeInv, BaseInv, [Next]_vars,
                      NEW r \in Appended, r.writer \notin rebased
               PROVE  base = Len(history)
    OBVIOUS
  <2>1. r \in receipts' /\ r \notin receipts /\ Queued(r)
    BY DEF Appended
  <2>2. /\ base \in Nat /\ Len(history) \in Nat /\ base <= Len(history)
    BY Numbers DEF BaseInv
  <2>3. ASSUME NEW q \in Request, Landed(q), WellMade(q),
               (q = call /\ call # Idle) \/ q \in stray
        PROVE  base = Len(history)
    <3>1. /\ r.key = q.details.key /\ r.writer = q.session
          /\ q.details.expected = Len(history) /\ q.op = "save"
      BY <2>1, <2>3, CommitOfSave
    <3>2. Queued(q.details)
      BY <2>1, <3>1 DEF Queued
    <3>3. Descended(q)
      BY <2>3 DEF BaseInv
    <3> QED
      BY <2>2, <3>1, <3>2, <3>3 DEF Descended
  <2>4. ASSUME NEW c \in Content, OtherSaves(c)
        PROVE  FALSE
    <3>1. r.key = MaxSnapshots + Len(history)
      BY <2>1, <2>4, CommitOfOther
    <3>2. PICK i \in DOMAIN doc.queue : doc.queue[i].key = r.key
      BY <2>1 DEF Queued
    <3>3. doc \in Doc
      BY <2>1, Numbers DEF Queued
    <3> QED
      BY <3>1, <3>2, <3>3, Numbers, QueueNumbers, Bounds
  <2> QED
    BY <2>1, <2>3, <2>4, Committing
<1> QED
  BY <1>1, BaseCorrect, PTL DEF Spec, OverwriteNeedsRebase

=============================================================================
