------------------------ MODULE OfficeServerProofs ------------------------
(***************************************************************************)
(* For every set of sessions, workers, keys, contents and every length of  *)
(* lease, token and ticket: the server is type correct, implements the     *)
(* versioned original, keeps its receipts truthful, and lets two sessions  *)
(* overlap only through a request that waited past its clock reading.      *)
(***************************************************************************)
EXTENDS OfficeServer, TLAPS

Promise == INSTANCE VersionedOriginalProofs WITH Writer <- Session \cup {Manual}

LEMMA EarlierIsNat ==
    ASSUME NEW a \in Nat, NEW b \in Nat
    PROVE  Earlier(a, b) \in Nat
BY DEF Earlier

LEMMA LeaseEndIsNat ==
    ASSUME NEW now \in Nat
    PROVE  now + LeaseSeconds \in Nat
BY TimesArePositive

\* The rows and the requests of a reachable state are well-formed.
LocalTypeOK ==
    /\ clock \in Nat
    /\ row \in [Session -> Row]
    /\ request \in [Worker -> Request \cup {NoRequest}]
    /\ late \subseteq Session

LEMMA InitRefines == Init => Original!Init
BY DEF Init

\* Every step of the server is a commit of the versioned original or leaves
\* the original alone.
LEMMA StepRefines ==
    ASSUME LocalTypeOK, [Next]_vars
    PROVE  [Original!Next]_(Original!originalVars)
<1> USE DEF Original!originalVars
<1>1. CASE UNCHANGED vars
  BY <1>1 DEF vars
<1>2. CASE Tick
  BY <1>2 DEF Tick
<1>3. ASSUME NEW s \in Session, Launch(s)
      PROVE  UNCHANGED <<history, receipts>>
  BY <1>3 DEF Launch
<1>4. ASSUME NEW w \in Worker, NEW s \in Session, Arrive(w, s)
      PROVE  UNCHANGED <<history, receipts>>
  BY <1>4 DEF Arrive
<1>5. ASSUME NEW w \in Worker,
             \/ Refuse(w) \/ Exchange(w)
             \/ \E keeps \in BOOLEAN : Heartbeat(w, keeps)
             \/ Renew(w) \/ ResumeRequest(w) \/ Finish(w)
      PROVE  UNCHANGED <<history, receipts>>
  BY <1>5 DEF Refuse, Exchange, Heartbeat, Renew, ResumeRequest, Resume, Finish
<1>6. ASSUME NEW w \in Worker, NEW k \in Key,
             NEW e \in 1 .. MaxRevision, NEW c \in Content,
             Save(w, k, e, c) \/ Replay(w, k, e, c)
      PROVE  Original!Next \/ UNCHANGED <<history, receipts>>
  <2>1. CASE Save(w, k, e, c)
    <3>1. request[w].session \in Session
      BY <2>1 DEF Save, Authentic, LocalTypeOK, Request
    <3>2. Original!Commit(request[w].session, k, Original!Revision, c)
      BY <2>1 DEF Save, Original!Commit
    <3> QED
      BY <3>1, <3>2 DEF Original!Next
  <2>2. CASE Replay(w, k, e, c)
    BY <2>2 DEF Replay
  <2> QED
    BY <1>6, <2>1, <2>2
<1>7. ASSUME NEW k \in Key, NEW e \in 1 .. MaxRevision, NEW c \in Content,
             ManualSave(k, e, c)
      PROVE  Original!Next
  <2>1. Original!Commit(Manual, k, Original!Revision, c)
    BY <1>7 DEF ManualSave, Original!Commit
  <2> QED
    BY <2>1 DEF Original!Next
<1> QED
  BY <1>1, <1>2, <1>3, <1>4, <1>5, <1>6, <1>7 DEF Next, SaveRequest

-----------------------------------------------------------------------------
LEMMA LocalTypeStep ==
    ASSUME LocalTypeOK, [Next]_vars
    PROVE  LocalTypeOK'
<1> USE TimesArePositive, EarlierIsNat DEF LocalTypeOK, Row
<1>1. CASE UNCHANGED vars
  BY <1>1 DEF vars
<1>2. CASE Tick
  BY <1>2 DEF Tick
<1>3. ASSUME NEW s \in Session, Launch(s)
      PROVE  LocalTypeOK'
  <2>1. PICK a \in AuthEnds : row' = [row EXCEPT ![s] =
               [phase |-> "ticket", lease |-> clock + TicketSeconds,
                expires |-> Earlier(a, clock + TokenSeconds),
                auth |-> a, token |-> 0, saved |-> FALSE]]
    BY <1>3 DEF Launch
  <2>2. a \in Nat /\ clock + TokenSeconds \in Nat /\ clock + TicketSeconds \in Nat
    OBVIOUS
  <2>3. Earlier(a, clock + TokenSeconds) \in Nat
    BY <2>2
  <2> HIDE EarlierIsNat
  <2>4. row' \in [Session -> Row]
    BY <2>1, <2>2, <2>3
  <2> QED
    BY <1>3, <2>4 DEF Launch
<1>4. ASSUME NEW w \in Worker, NEW s \in Session, Arrive(w, s)
      PROVE  LocalTypeOK'
  <2>1. [busy |-> TRUE, session |-> s, token |-> row[s].token, now |-> clock] \in Request
    BY DEF Request
  <2> QED
    BY <1>4, <2>1 DEF Arrive
<1>5. ASSUME NEW w \in Worker, request[w] # NoRequest
      PROVE  /\ request[w] \in Request
             /\ request[w].session \in Session
             /\ request[w].now \in Nat
             /\ request[w].token \in Nat
  BY <1>5 DEF Request
<1>6. ASSUME NEW w \in Worker, Done(w)
      PROVE  request' \in [Worker -> Request \cup {NoRequest}]
  BY <1>6 DEF Done
<1>7. ASSUME NEW w \in Worker, request[w] # NoRequest, NoteLate(w)
      PROVE  late' \subseteq Session
  BY <1>5, <1>7 DEF NoteLate
<1>8. ASSUME NEW w \in Worker, Refuse(w)
      PROVE  LocalTypeOK'
  BY <1>6, <1>8 DEF Refuse
<1>9. ASSUME NEW w \in Worker, Exchange(w)
      PROVE  LocalTypeOK'
  BY <1>5, <1>6, <1>7, <1>9 DEF Exchange
<1>10. ASSUME NEW w \in Worker, NEW keeps \in BOOLEAN, Heartbeat(w, keeps)
       PROVE  LocalTypeOK'
  <2> DEFINE s == request[w].session
  <2>1. /\ s \in Session
        /\ request[w].now + LeaseSeconds \in Nat
        /\ row[s] \in Row
        /\ request[w] # NoRequest
    BY <1>5, <1>10 DEF Heartbeat, Authentic
  <2>2. (row[s].saved /\ keeps) \in BOOLEAN
    OBVIOUS
  <2>3. row' = [row EXCEPT ![s].lease = request[w].now + LeaseSeconds,
                           ![s].saved = row[s].saved /\ keeps]
    BY <1>10 DEF Heartbeat
  <2>4. row' \in [Session -> Row]
    BY <2>1, <2>2, <2>3
  <2> QED
    BY <1>6, <1>7, <1>10, <2>1, <2>4 DEF Heartbeat
<1>11. ASSUME NEW w \in Worker, Renew(w)
       PROVE  LocalTypeOK'
  <2> DEFINE s == request[w].session
             e == Earlier(row[s].auth, request[w].now + TokenSeconds)
  <2>1. /\ s \in Session
        /\ request[w].now + LeaseSeconds \in Nat
        /\ request[w].now + TokenSeconds \in Nat
        /\ row[s] \in Row
        /\ request[w] # NoRequest
    BY <1>5, <1>11 DEF Renew, Authentic
  <2>2. e \in Nat
    BY <2>1
  <2>3. row' = [row EXCEPT ![s].lease = request[w].now + LeaseSeconds,
                           ![s].expires = e, ![s].token = row[s].token + 1]
    BY <1>11 DEF Renew
  <2> HIDE DEF e
  <2>4. row' \in [Session -> Row]
    BY <2>1, <2>2, <2>3
  <2> QED
    BY <1>6, <1>7, <1>11, <2>1, <2>4 DEF Renew
<1>12. ASSUME NEW w \in Worker, ResumeRequest(w)
       PROVE  LocalTypeOK'
  <2> DEFINE s == request[w].session
  <2>1. /\ request[w] # NoRequest
        /\ row' \in {row, [row EXCEPT ![s].lease = request[w].now + LeaseSeconds]}
        /\ Done(w)
        /\ UNCHANGED <<clock, late>>
    BY <1>12 DEF ResumeRequest, Resume, Authentic
  <2>2. /\ s \in Session
        /\ request[w].now + LeaseSeconds \in Nat
        /\ row[s] \in Row
    BY <1>5, <2>1
  <2>3. row' \in [Session -> Row]
    BY <2>1, <2>2
  <2> QED
    BY <1>6, <2>1, <2>3
<1>13. ASSUME NEW w \in Worker, SaveRequest(w)
       PROVE  LocalTypeOK'
  <2> DEFINE s == request[w].session
  <2>1. PICK k \in Key, e \in 1 .. MaxRevision, c \in Content :
            Save(w, k, e, c) \/ Replay(w, k, e, c)
    BY <1>13 DEF SaveRequest
  <2>2. /\ s \in Session
        /\ request[w].now + LeaseSeconds \in Nat
        /\ row[s] \in Row
        /\ request[w] # NoRequest
    <3>1. Authentic(w)
      BY <2>1 DEF Save, Replay
    <3>2. request[w] # NoRequest
      BY <3>1 DEF Authentic
    <3>3. s \in Session /\ request[w].now \in Nat
      BY <1>5, <3>2
    <3>4. row[s] \in Row
      BY <3>3
    <3>5. request[w].now + LeaseSeconds \in Nat
      BY <3>3, LeaseEndIsNat, Zenon
    <3> QED
      BY <3>2, <3>3, <3>4, <3>5
  <2>3. CASE Save(w, k, e, c)
    BY <1>6, <1>7, <2>2, <2>3 DEF Save
  <2>4. CASE Replay(w, k, e, c)
    <3>1. row' \in {row, [row EXCEPT ![s].saved = TRUE]}
      BY <2>4 DEF Replay
    <3>2. row' \in [Session -> Row]
      <4>1. CASE row' = row
        BY <4>1
      <4>2. CASE row' = [row EXCEPT ![s].saved = TRUE]
        BY <2>2, <4>2
      <4> QED
        BY <3>1, <4>1, <4>2
    <3> QED
      BY <1>6, <2>2, <2>4, <3>2 DEF Replay
  <2> QED
    BY <2>1, <2>3, <2>4
<1>14. ASSUME NEW w \in Worker, Finish(w)
       PROVE  LocalTypeOK'
  BY <1>5, <1>6, <1>14 DEF Finish, Authentic
<1>15. ASSUME NEW k \in Key, NEW e \in 1 .. MaxRevision, NEW c \in Content,
              ManualSave(k, e, c)
       PROVE  LocalTypeOK'
  BY <1>15 DEF ManualSave
<1> QED
  BY <1>1, <1>2, <1>3, <1>4, <1>8, <1>9, <1>10, <1>11, <1>12, <1>13, <1>14, <1>15
  DEF Next

\* Promise names the same specification as Original.
LEMMA SamePromise ==
    /\ Original!Init <=> Promise!Init
    /\ [Original!Next]_(Original!originalVars) <=> [Promise!Next]_(Promise!originalVars)
    /\ Promise!TypeOK <=> Original!TypeOK
    /\ Promise!ReceiptsTruthful <=> ReceiptsTruthful
    /\ Promise!OneCommitPerKey <=> OneCommitPerKey
BY DEF Original!Init, Promise!Init, Original!Next, Promise!Next,
       Original!Commit, Promise!Commit, Original!ReceiptsOf, Promise!ReceiptsOf,
       Original!Revision, Promise!Revision, Original!Current, Promise!Current,
       Original!originalVars, Promise!originalVars,
       Original!TypeOK, Promise!TypeOK, Original!Receipt, Promise!Receipt,
       ReceiptsTruthful, Original!ReceiptsTruthful, Promise!ReceiptsTruthful,
       OneCommitPerKey, Original!OneCommitPerKey, Promise!OneCommitPerKey

LEMMA InitLocalType == Init => LocalTypeOK
BY DEF Init, LocalTypeOK, NoRow, Row

\* The server implements the versioned original: clients may rely on the
\* abstract specification whatever the leases and the clock do.
THEOREM ImplementsOriginal == Spec => OriginalSpec
<1>1. Init => Original!Init
  BY InitRefines
<1>2. Init => LocalTypeOK
  BY InitLocalType
<1>3. LocalTypeOK /\ [Next]_vars => LocalTypeOK'
  BY LocalTypeStep
<1>4. LocalTypeOK /\ [Next]_vars => [Original!Next]_(Original!originalVars)
  BY StepRefines
<1> QED
  BY <1>1, <1>2, <1>3, <1>4, PTL DEF Spec, OriginalSpec, Original!Spec

\* Type correctness of the whole server state.
THEOREM TypeCorrect == Spec => []TypeOK
<1>1. Spec => []LocalTypeOK
  <2>1. Init => LocalTypeOK
    BY InitLocalType
  <2>2. LocalTypeOK /\ [Next]_vars => LocalTypeOK'
    BY LocalTypeStep
  <2> QED
    BY <2>1, <2>2, PTL DEF Spec
<1>2. Original!Spec => []Original!TypeOK
  <2>1. Promise!Spec => [](Promise!TypeOK /\ Promise!NonEmpty)
    BY InitialContent, Promise!TypeCorrect
  <2>2. Promise!TypeOK <=> Original!TypeOK
    BY SamePromise
  <2>3. Original!Init <=> Promise!Init
    BY SamePromise
  <2>4. [Original!Next]_(Original!originalVars) <=> [Promise!Next]_(Promise!originalVars)
    BY SamePromise
  <2> QED
    BY <2>1, <2>2, <2>3, <2>4, PTL DEF Original!Spec, Promise!Spec
<1>3. LocalTypeOK /\ Original!TypeOK => TypeOK
  BY DEF LocalTypeOK, TypeOK
<1> QED
  BY <1>1, <1>2, <1>3, ImplementsOriginal, PTL DEF OriginalSpec

\* What the abstract original promises of receipts holds of the server's.
LEMMA PromisesKept == Spec => [](ReceiptsTruthful /\ OneCommitPerKey)
<1>1. Original!Spec => [](ReceiptsTruthful /\ OneCommitPerKey)
  <2>1. Promise!Spec => []Promise!IInv
    BY InitialContent, Promise!ReceiptsCorrect
  <2>2. Promise!IInv => ReceiptsTruthful /\ OneCommitPerKey
    BY SamePromise DEF Promise!IInv
  <2>3. Original!Init <=> Promise!Init
    BY SamePromise
  <2>4. [Original!Next]_(Original!originalVars) <=> [Promise!Next]_(Promise!originalVars)
    BY SamePromise
  <2> QED
    BY <2>1, <2>2, <2>3, <2>4, PTL DEF Original!Spec, Promise!Spec
<1> QED
  BY <1>1, ImplementsOriginal, PTL DEF OriginalSpec

\* Whatever the leases do, no receipt is ever contradicted by the history.
THEOREM ServerReceiptsCorrect == Spec => []ReceiptsTruthful
  BY PromisesKept, PTL

\* However often a save is sent and whatever competes with it, its key is committed once
\* and no other save is acknowledged for the revision it appended.
THEOREM KeysCommitOnce == Spec => []OneCommitPerKey
  BY PromisesKept, PTL

-----------------------------------------------------------------------------
(***************************************************************************)
(* The lease.  A prompt extension only touches a session that is active    *)
(* already, launch and resume first see that no other one is; what remains *)
(* are the requests whose clock reading was overtaken.  Two facts about    *)
(* the rows are needed for that: a waiting request was admitted before its *)
(* browser session ended, and a launch ticket's credential outlives the    *)
(* ticket unless the browser session ends first.                           *)
(***************************************************************************)
RequestInv ==
    \A w \in Worker : request[w] # NoRequest =>
        /\ request[w].now <= clock
        /\ row[request[w].session].phase # "none"
        /\ row[request[w].session].auth > request[w].now

TicketInv ==
    \A s \in Session : row[s].phase = "ticket" =>
        row[s].expires >= row[s].auth \/ row[s].expires >= row[s].lease

LeaseInv == LocalTypeOK /\ RequestInv /\ TicketInv /\ OverlapNeedsLateRequest

\* What a handler that extends or ends one session may do to the rows.
LEMMA RequestStep ==
    ASSUME LeaseInv, NEW w \in Worker, request[w] # NoRequest,
           LocalTypeOK', Done(w), clock' = clock,
           NEW s \in Session, s = request[w].session,
           \A t \in Session \ {s} : row'[t] = row[t],
           row'[s].phase \in {"open", "finished"},
           row'[s].auth = row[s].auth
    PROVE  RequestInv' /\ TicketInv'
<1>1. RequestInv'
  <2> SUFFICES ASSUME NEW v \in Worker, request'[v] # NoRequest
               PROVE  /\ request'[v].now <= clock'
                      /\ row'[request'[v].session].phase # "none"
                      /\ row'[request'[v].session].auth > request'[v].now
    BY DEF RequestInv
  <2>1. request'[v] = request[v] /\ request[v].session \in Session
    BY DEF Done, LeaseInv, LocalTypeOK, Request
  <2> QED
    BY <2>1 DEF LeaseInv, RequestInv
<1>2. TicketInv'
  BY DEF LeaseInv, TicketInv
<1> QED
  BY <1>1, <1>2

\* If every session active after the step was active before it or is now late,
\* the step cannot create an overlap between two prompt sessions.
LEMMA NoNewActive ==
    ASSUME OverlapNeedsLateRequest, late \subseteq late',
           \A s \in Session : Active(s, clock)' => Active(s, clock) \/ s \in late'
    PROVE  OverlapNeedsLateRequest'
<1> SUFFICES ASSUME NEW s \in Session, NEW t \in Session,
                    Active(s, clock)', Active(t, clock)', s # t
             PROVE  s \in late' \/ t \in late'
  BY DEF OverlapNeedsLateRequest
<1> QED
  BY DEF OverlapNeedsLateRequest

\* If no other session is active, whatever happens to one creates no overlap.
LEMMA OnlyOneTouched ==
    ASSUME NEW s \in Session, clock' = clock,
           \A t \in Session \ {s} : ~Active(t, clock) /\ row'[t] = row[t]
    PROVE  OverlapNeedsLateRequest'
<1>1. \A t \in Session \ {s} : ~Active(t, clock)'
  BY DEF Active
<1> QED
  BY <1>1 DEF OverlapNeedsLateRequest

\* An extension of a session that was active at the request's clock reading.
LEMMA ExtensionStep ==
    ASSUME LeaseInv, NEW w \in Worker, request[w] # NoRequest, clock' = clock,
           NEW s \in Session, s = request[w].session,
           Active(s, request[w].now),
           \A t \in Session \ {s} : row'[t] = row[t],
           NoteLate(w)
    PROVE  OverlapNeedsLateRequest'
<1>1. request[w].now \in Nat /\ clock \in Nat /\ request[w].now <= clock
  BY DEF LeaseInv, LocalTypeOK, Request, RequestInv
<1>2. late \subseteq late'
  BY DEF NoteLate
<1>3. ASSUME NEW t \in Session, Active(t, clock)'
      PROVE  Active(t, clock) \/ t \in late'
  <2>1. CASE t # s
    BY <1>3, <2>1 DEF Active
  <2>2. CASE t = s /\ request[w].now < clock
    BY <2>2 DEF NoteLate
  <2>3. CASE t = s /\ request[w].now = clock
    BY <2>3
  <2> QED
    BY <1>1, <2>1, <2>2, <2>3
<1> QED
  BY <1>2, <1>3, NoNewActive DEF LeaseInv

LEMMA LeaseStep ==
    ASSUME LeaseInv, [Next]_vars
    PROVE  LeaseInv'
<1>0. LocalTypeOK /\ LocalTypeOK'
  BY LocalTypeStep DEF LeaseInv
<1>a. ASSUME NEW w \in Worker, request[w] # NoRequest
      PROVE  request[w].session \in Session /\ request[w].now \in Nat
  BY <1>0, <1>a DEF LocalTypeOK, Request
<1>1. CASE UNCHANGED vars
  BY <1>0, <1>1 DEF vars, LeaseInv, RequestInv, TicketInv, OverlapNeedsLateRequest, Active
<1>2. CASE Tick
  <2>1. RequestInv' /\ TicketInv'
    <3>1. ASSUME NEW w \in Worker, request'[w] # NoRequest
          PROVE  /\ request'[w].now <= clock'
                 /\ row'[request'[w].session].phase # "none"
                 /\ row'[request'[w].session].auth > request'[w].now
      <4>1. /\ request'[w] = request[w] /\ row' = row /\ clock' = clock + 1
            /\ request[w].now <= clock
            /\ row[request[w].session].phase # "none"
            /\ row[request[w].session].auth > request[w].now
        BY <1>2, <3>1 DEF Tick, LeaseInv, RequestInv
      <4>2. request[w].now \in Nat /\ clock \in Nat
        BY <1>0, <1>a, <3>1, <4>1 DEF LocalTypeOK
      <4> QED
        BY <4>1, <4>2
    <3>2. RequestInv'
      BY <3>1 DEF RequestInv
    <3>3. TicketInv'
      BY <1>2 DEF Tick, LeaseInv, TicketInv
    <3> QED
      BY <3>2, <3>3
  <2>2. \A s \in Session : Active(s, clock)' => Active(s, clock)
    BY <1>0, <1>2 DEF Tick, LocalTypeOK, Row, Active
  <2>3. OverlapNeedsLateRequest'
    BY <1>2, <2>2, NoNewActive DEF Tick, LeaseInv
  <2> QED
    BY <1>0, <2>1, <2>3 DEF LeaseInv
<1>3. ASSUME NEW s \in Session, Launch(s)
      PROVE  LeaseInv'
  <2>1. PICK a \in AuthEnds : row' = [row EXCEPT ![s] =
               [phase |-> "ticket", lease |-> clock + TicketSeconds,
                expires |-> Earlier(a, clock + TokenSeconds),
                auth |-> a, token |-> 0, saved |-> FALSE]]
    BY <1>3 DEF Launch
  <2>2. \A t \in Session \ {s} : row'[t] = row[t]
    BY <1>0, <2>1 DEF LocalTypeOK
  <2>3. RequestInv'
    <3>1. \A w \in Worker : request[w] # NoRequest => request[w].session # s
      BY <1>3 DEF Launch, LeaseInv, RequestInv
    <3> QED
      BY <1>3, <1>a, <2>2, <3>1 DEF Launch, LeaseInv, RequestInv
  <2>4. TicketInv'
    <3>1. row'[s].expires >= row'[s].auth \/ row'[s].expires >= row'[s].lease
      <4>1. row'[s] = [phase |-> "ticket", lease |-> clock + TicketSeconds,
                       expires |-> Earlier(a, clock + TokenSeconds),
                       auth |-> a, token |-> 0, saved |-> FALSE]
        BY <1>0, <2>1 DEF LocalTypeOK
      <4>2. a \in Nat /\ clock \in Nat
        BY <1>0, TimesArePositive DEF LocalTypeOK
      <4> QED
        BY <4>1, <4>2, TimesArePositive DEF Earlier
    <3> QED
      BY <2>2, <3>1 DEF LeaseInv, TicketInv
  <2>5. OverlapNeedsLateRequest'
    BY <1>3, <2>2, OnlyOneTouched DEF Launch
  <2> QED
    BY <1>0, <2>3, <2>4, <2>5 DEF LeaseInv
<1>4. ASSUME NEW w \in Worker, NEW s \in Session, Arrive(w, s)
      PROVE  LeaseInv'
  <2>1. \A v \in Worker \ {w} : request'[v] = request[v]
    BY <1>0, <1>4 DEF Arrive, LocalTypeOK
  <2>2. request'[w] = [busy |-> TRUE, session |-> s, token |-> row[s].token, now |-> clock]
    BY <1>0, <1>4 DEF Arrive, LocalTypeOK
  <2>3. RequestInv'
    BY <1>0, <1>4, <2>1, <2>2 DEF Arrive, LeaseInv, RequestInv, LocalTypeOK
  <2> QED
    BY <1>0, <1>4, <2>3 DEF Arrive, LeaseInv, TicketInv, OverlapNeedsLateRequest, Active
<1>5. ASSUME NEW w \in Worker, Refuse(w)
      PROVE  LeaseInv'
  <2>1. \A v \in Worker : request'[v] # NoRequest => request'[v] = request[v]
    BY <1>0, <1>5 DEF Refuse, Done, LocalTypeOK
  <2> QED
    BY <1>0, <1>5, <2>1 DEF Refuse, LeaseInv, RequestInv, TicketInv,
                            OverlapNeedsLateRequest, Active
<1>6. ASSUME NEW w \in Worker, Exchange(w)
      PROVE  LeaseInv'
  <2> DEFINE s == request[w].session
  <2>1. request[w] # NoRequest /\ s \in Session /\ request[w].now \in Nat
    BY <1>6, <1>a DEF Exchange
  <2>2. /\ \A t \in Session \ {s} : row'[t] = row[t]
        /\ row'[s].phase = "open" /\ row'[s].auth = row[s].auth
    BY <1>0, <1>6, <2>1 DEF Exchange, LocalTypeOK, Row
  <2>3. Active(s, request[w].now)
    <3>1. row[s].phase = "ticket" /\ row[s].lease > request[w].now
      BY <1>6 DEF Exchange
    <3>2. row[s].auth > request[w].now
      BY <2>1 DEF LeaseInv, RequestInv
    <3>3. row[s].expires >= row[s].auth \/ row[s].expires >= row[s].lease
      BY <2>1, <3>1 DEF LeaseInv, TicketInv
    <3>4. row[s].lease \in Nat /\ row[s].expires \in Nat /\ row[s].auth \in Nat
      BY <1>0, <2>1 DEF LocalTypeOK, Row
    <3> QED
      BY <2>1, <3>1, <3>2, <3>3, <3>4 DEF Active
  <2>a. Done(w) /\ clock' = clock
    BY <1>6 DEF Exchange
  <2>4. RequestInv' /\ TicketInv'
    BY <1>0, <2>1, <2>2, <2>a, RequestStep
  <2>5. OverlapNeedsLateRequest'
    BY <1>6, <2>1, <2>2, <2>3, ExtensionStep DEF Exchange
  <2> QED
    BY <1>0, <2>4, <2>5 DEF LeaseInv
<1>7. ASSUME NEW w \in Worker, Authentic(w), LeaseHeld(w), NoteLate(w), Done(w),
             clock' = clock,
             \A t \in Session \ {request[w].session} : row'[t] = row[t],
             row'[request[w].session].phase = "open",
             row'[request[w].session].auth = row[request[w].session].auth
      PROVE  LeaseInv'
  <2> DEFINE s == request[w].session
  <2>1. request[w] # NoRequest /\ s \in Session
    BY <1>7, <1>a DEF Authentic
  <2>2. Active(s, request[w].now)
    BY <1>7 DEF Authentic, LeaseHeld, Active
  <2>3. RequestInv' /\ TicketInv'
    BY <1>0, <1>7, <2>1, RequestStep
  <2>4. OverlapNeedsLateRequest'
    BY <1>7, <2>1, <2>2, ExtensionStep
  <2> QED
    BY <1>0, <2>3, <2>4 DEF LeaseInv
<1>8. ASSUME NEW w \in Worker,
             \/ \E keeps \in BOOLEAN : Heartbeat(w, keeps)
             \/ Renew(w)
             \/ \E k \in Key, e \in 1 .. MaxRevision, c \in Content : Save(w, k, e, c)
      PROVE  LeaseInv'
  <2> DEFINE s == request[w].session
  <2>1. /\ Authentic(w) /\ LeaseHeld(w) /\ NoteLate(w) /\ Done(w) /\ clock' = clock
    BY <1>8 DEF Heartbeat, Renew, Save
  <2>2. s \in Session /\ row[s].phase = "open"
    BY <1>a, <2>1 DEF Authentic
  <2> DEFINE OnlyStaysOpen == /\ \A t \in Session \ {s} : row'[t] = row[t]
                              /\ row'[s].phase = "open"
                              /\ row'[s].auth = row[s].auth
  <2>3. OnlyStaysOpen
    <3>1. ASSUME NEW keeps \in BOOLEAN, Heartbeat(w, keeps)
          PROVE  OnlyStaysOpen
      <4>1. PICK lease, saved :
               row' = [row EXCEPT ![s].lease = lease, ![s].saved = saved]
        BY <3>1 DEF Heartbeat
      <4> QED
        BY <1>0, <2>2, <4>1 DEF LocalTypeOK, Row
    <3>2. CASE Renew(w)
      BY <1>0, <2>2, <3>2 DEF Renew, LocalTypeOK, Row
    <3>3. ASSUME NEW k \in Key, NEW e \in 1 .. MaxRevision, NEW c \in Content,
                 Save(w, k, e, c)
          PROVE  OnlyStaysOpen
      BY <1>0, <2>2, <3>3 DEF Save, LocalTypeOK, Row
    <3> QED
      BY <1>8, <3>1, <3>2, <3>3
  <2> QED
    BY <1>7, <2>1, <2>3
<1>9. ASSUME NEW w \in Worker, ResumeRequest(w)
      PROVE  LeaseInv'
  <2> DEFINE s == request[w].session
  <2>1. /\ Authentic(w) /\ Done(w) /\ clock' = clock /\ late' = late
        /\ ~ \E t \in Session \ {s} : Active(t, request[w].now)
        /\ row' \in {row, [row EXCEPT ![s].lease = request[w].now + LeaseSeconds]}
    BY <1>9 DEF ResumeRequest, Resume
  <2>2. /\ request[w] # NoRequest /\ s \in Session /\ row[s].phase = "open"
        /\ request[w].now \in Nat /\ clock \in Nat /\ request[w].now <= clock
    BY <1>0, <1>a, <2>1 DEF Authentic, LocalTypeOK, LeaseInv, RequestInv
  <2>3. /\ \A t \in Session \ {s} : row'[t] = row[t]
        /\ row'[s].phase = "open" /\ row'[s].auth = row[s].auth
    <3>1. CASE row' = row
      BY <2>2, <3>1
    <3>2. CASE row' = [row EXCEPT ![s].lease = request[w].now + LeaseSeconds]
      BY <1>0, <2>2, <3>2 DEF LocalTypeOK, Row
    <3> QED
      BY <2>1, <3>1, <3>2
  <2>4. \A t \in Session \ {s} : ~Active(t, clock)
    BY <1>0, <2>1, <2>2 DEF Active, LocalTypeOK, Row
  <2>5. RequestInv' /\ TicketInv'
    BY <1>0, <2>1, <2>2, <2>3, RequestStep
  <2>6. OverlapNeedsLateRequest'
    BY <2>1, <2>2, <2>3, <2>4, OnlyOneTouched
  <2> QED
    BY <1>0, <2>5, <2>6 DEF LeaseInv
<1>10. ASSUME NEW w \in Worker, NEW k \in Key, NEW e \in 1 .. MaxRevision,
              NEW c \in Content, Replay(w, k, e, c)
       PROVE  LeaseInv'
  <2> DEFINE s == request[w].session
  <2>1. /\ Authentic(w) /\ Done(w) /\ clock' = clock /\ late' = late
        /\ row' \in {row, [row EXCEPT ![s].saved = TRUE]}
    BY <1>10 DEF Replay
  <2>2. request[w] # NoRequest /\ s \in Session /\ row[s].phase = "open"
    BY <1>a, <2>1 DEF Authentic
  <2>3. /\ \A t \in Session \ {s} : row'[t] = row[t]
        /\ row'[s].phase = "open" /\ row'[s].auth = row[s].auth
        /\ row'[s].lease = row[s].lease /\ row'[s].expires = row[s].expires
    <3>1. CASE row' = row
      BY <2>2, <3>1
    <3>2. CASE row' = [row EXCEPT ![s].saved = TRUE]
      BY <1>0, <2>2, <3>2 DEF LocalTypeOK, Row
    <3> QED
      BY <2>1, <3>1, <3>2
  <2>4. RequestInv' /\ TicketInv'
    BY <1>0, <2>1, <2>2, <2>3, RequestStep
  <2>5. \A t \in Session : Active(t, clock)' => Active(t, clock)
    BY <2>1, <2>2, <2>3 DEF Active
  <2>6. OverlapNeedsLateRequest'
    BY <2>1, <2>5, NoNewActive DEF LeaseInv
  <2> QED
    BY <1>0, <2>4, <2>6 DEF LeaseInv
<1>11. ASSUME NEW w \in Worker, Finish(w)
       PROVE  LeaseInv'
  <2> DEFINE s == request[w].session
  <2>1. Authentic(w) /\ Done(w) /\ clock' = clock /\ late' = late
    BY <1>11 DEF Finish
  <2>2. request[w] # NoRequest /\ s \in Session
    BY <1>a, <2>1 DEF Authentic
  <2>3. /\ \A t \in Session \ {s} : row'[t] = row[t]
        /\ row'[s].phase = "finished" /\ row'[s].auth = row[s].auth
    BY <1>0, <1>11, <2>2 DEF Finish, LocalTypeOK, Row
  <2>4. RequestInv' /\ TicketInv'
    BY <1>0, <2>1, <2>2, <2>3, RequestStep
  <2>5. \A t \in Session : Active(t, clock)' => Active(t, clock)
    BY <2>1, <2>2, <2>3 DEF Active
  <2>6. OverlapNeedsLateRequest'
    BY <2>1, <2>5, NoNewActive DEF LeaseInv
  <2> QED
    BY <1>0, <2>4, <2>6 DEF LeaseInv
<1>12. ASSUME NEW k \in Key, NEW e \in 1 .. MaxRevision, NEW c \in Content,
              ManualSave(k, e, c)
       PROVE  LeaseInv'
  BY <1>0, <1>12 DEF ManualSave, LeaseInv, RequestInv, TicketInv,
                     OverlapNeedsLateRequest, Active
<1> QED
  BY <1>1, <1>2, <1>3, <1>4, <1>5, <1>6, <1>8, <1>9, <1>10, <1>11, <1>12
  DEF Next, SaveRequest

\* Two sessions of one original are active together only if a request of one of
\* them was committed after its clock reading had gone by.
THEOREM OverlapIsAlwaysLate == Spec => []OverlapNeedsLateRequest
<1>1. Init => LeaseInv
  BY InitLocalType DEF Init, LeaseInv, RequestInv, TicketInv,
                       OverlapNeedsLateRequest, Active, NoRow
<1>2. LeaseInv /\ [Next]_vars => LeaseInv'
  BY LeaseStep
<1>3. LeaseInv => OverlapNeedsLateRequest
  BY DEF LeaseInv
<1> QED
  BY <1>1, <1>2, <1>3, PTL DEF Spec

-----------------------------------------------------------------------------
(***************************************************************************)
(* Credentials and the "saved" mark.  Tokens only rotate forward and a     *)
(* ticket is token 0, so a request whose token is not the row's can be     *)
(* neither the exchange of that ticket nor authentic.                      *)
(***************************************************************************)
TokenInv ==
    /\ \A s \in Session : row[s].phase = "ticket" => row[s].token = 0
    /\ \A w \in Worker : request[w] # NoRequest =>
        /\ row[request[w].session].phase # "none"
        /\ request[w].token <= row[request[w].session].token

CredentialInv == LocalTypeOK /\ TokenInv /\ SavedHasReceipt

\* The handlers that get their locks and change a session: they change their own
\* one, open or finish it, never set its token back, and mark it saved only with a
\* receipt of it on the books.
Handled(w, s) ==
    /\ request[w] # NoRequest /\ s = request[w].session /\ Done(w)
    /\ \A t \in Session \ {s} : row'[t] = row[t]
    /\ row'[s].phase \in {"open", "finished"} /\ row'[s].token >= row[s].token
    /\ receipts \subseteq receipts'
    /\ row'[s].saved => row[s].saved \/ \E r \in receipts' : r.writer = s

LEMMA RowFields ==
    ASSUME NEW r \in Row
    PROVE  /\ r.phase \in {"none", "ticket", "open", "finished"}
           /\ r.lease \in Nat /\ r.expires \in Nat /\ r.auth \in Nat /\ r.token \in Nat
           /\ r.saved \in BOOLEAN
  BY DEF Row

LEMMA RequestFields ==
    ASSUME LocalTypeOK, NEW w \in Worker, request[w] # NoRequest
    PROVE  /\ request[w].session \in Session /\ request[w].token \in Nat
           /\ request[w].now \in Nat
  BY DEF LocalTypeOK, Request

LEMMA HandledStep ==
    ASSUME CredentialInv, LocalTypeOK', NEW w \in Worker, NEW s \in Session, Handled(w, s)
    PROVE  CredentialInv'
<1>1. \A t \in Session : row[t].token \in Nat /\ row'[t].token \in Nat
  BY RowFields DEF CredentialInv, LocalTypeOK
<1>2. ASSUME NEW v \in Worker, request'[v] # NoRequest
      PROVE  /\ row'[request'[v].session].phase # "none"
             /\ request'[v].token <= row'[request'[v].session].token
  <2>1. request'[v] = request[v]
    BY <1>2 DEF Handled, Done, CredentialInv, LocalTypeOK
  <2>2. PICK t \in Session : t = request[v].session
    BY <1>2, <2>1, RequestFields DEF CredentialInv
  <2>3. request[v].token \in Nat /\ request[v].token <= row[t].token /\ row[t].phase # "none"
    BY <1>2, <2>1, <2>2, RequestFields DEF CredentialInv, TokenInv
  <2>4. row'[t].token >= row[t].token /\ row'[t].phase # "none"
    BY <1>1, <2>3 DEF Handled
  <2> QED
    BY <1>1, <2>1, <2>2, <2>3, <2>4
<1>3. \A t \in Session : row'[t].phase = "ticket" => row'[t].token = 0
  BY DEF CredentialInv, TokenInv, Handled
<1>4. SavedHasReceipt'
  <2> SUFFICES ASSUME NEW t \in Session, row'[t].saved
               PROVE  \E r \in receipts' : r.writer = t
    BY DEF SavedHasReceipt
  <2>1. row[t].saved \/ \E r \in receipts' : r.writer = t
    BY DEF Handled
  <2>2. row[t].saved => \E r \in receipts : r.writer = t
    BY DEF CredentialInv, SavedHasReceipt
  <2> QED
    BY <2>1, <2>2 DEF Handled
<1> QED
  BY <1>2, <1>3, <1>4 DEF CredentialInv, TokenInv

\* A save or its replay, which alone set the mark.
LEMMA SavesHandled ==
    ASSUME LocalTypeOK, NEW w \in Worker, SaveRequest(w)
    PROVE  /\ Authentic(w) /\ Handled(w, request[w].session)
<1> DEFINE s == request[w].session
<1>1. PICK k \in Key, e \in 1 .. MaxRevision, c \in Content :
          Save(w, k, e, c) \/ Replay(w, k, e, c)
  BY DEF SaveRequest
<1>2. Authentic(w) /\ Done(w)
  BY <1>1 DEF Save, Replay
<1>3. request[w] # NoRequest /\ s \in Session /\ row[s] \in Row /\ row[s].phase = "open"
  BY <1>2, RequestFields DEF Authentic, LocalTypeOK
<1>4. row[s].token \in Nat
  BY <1>3, RowFields
<1>5. CASE Save(w, k, e, c)
  <2>1. receipts \subseteq receipts' /\ \E r \in receipts' : r.writer = s
    <3>1. PICK new : /\ new.writer = s /\ receipts' = receipts \cup {new}
      BY <1>5 DEF Save, Original!Commit
    <3> QED
      BY <3>1
  <2>2. row' = [row EXCEPT ![s].lease = request[w].now + LeaseSeconds, ![s].saved = TRUE]
    BY <1>5 DEF Save
  <2>3. /\ \A t \in Session \ {s} : row'[t] = row[t]
        /\ row'[s].phase = row[s].phase /\ row'[s].token = row[s].token
    BY <1>3, <2>2 DEF LocalTypeOK, Row
  <2> QED
    BY <1>2, <1>3, <1>4, <2>1, <2>3 DEF Handled
<1>6. CASE Replay(w, k, e, c)
  <2>1. receipts' = receipts /\ \E r \in receipts' : r.writer = s
    BY <1>6 DEF Replay, Original!ReceiptsOf
  <2>2. row' = row \/ row' = [row EXCEPT ![s].saved = TRUE]
    BY <1>6 DEF Replay
  <2>3. /\ \A t \in Session \ {s} : row'[t] = row[t]
        /\ row'[s].phase = row[s].phase /\ row'[s].token = row[s].token
    BY <1>3, <2>2 DEF LocalTypeOK, Row
  <2> QED
    BY <1>2, <1>3, <1>4, <2>1, <2>3 DEF Handled
<1> QED
  BY <1>1, <1>2, <1>5, <1>6

\* Every other handler of an authentic request keeps the mark or clears it.
LEMMA OthersHandled ==
    ASSUME LocalTypeOK, NEW w \in Worker,
           \/ \E keeps \in BOOLEAN : Heartbeat(w, keeps)
           \/ Renew(w) \/ ResumeRequest(w) \/ Finish(w)
    PROVE  Authentic(w) /\ Handled(w, request[w].session)
<1> DEFINE s == request[w].session
<1>1. Authentic(w) /\ Done(w) /\ receipts' = receipts
  BY DEF Heartbeat, Renew, ResumeRequest, Resume, Finish
<1>2. request[w] # NoRequest /\ s \in Session /\ row[s] \in Row /\ row[s].phase = "open"
  BY <1>1, RequestFields DEF Authentic, LocalTypeOK
<1>3. row[s].token \in Nat
  BY <1>2, RowFields
<1>4. /\ \A t \in Session \ {s} : row'[t] = row[t]
      /\ row'[s].phase \in {"open", "finished"} /\ row'[s].token >= row[s].token
      /\ row'[s].saved => row[s].saved
  <2>1. CASE \E keeps \in BOOLEAN : Heartbeat(w, keeps)
    <3>1. PICK keeps \in BOOLEAN : row' = [row EXCEPT
             ![s].lease = request[w].now + LeaseSeconds, ![s].saved = row[s].saved /\ keeps]
      BY <2>1 DEF Heartbeat
    <3>2. PICK saved : saved = (row[s].saved /\ keeps)
      OBVIOUS
    <3>3. row' = [row EXCEPT ![s].lease = request[w].now + LeaseSeconds, ![s].saved = saved]
      BY <3>1, <3>2
    <3>4. /\ \A t \in Session \ {s} : row'[t] = row[t]
          /\ row'[s].phase = row[s].phase /\ row'[s].token = row[s].token
          /\ row'[s].saved = saved
      BY <1>2, <3>3 DEF LocalTypeOK, Row
    <3>5. row'[s].saved => row[s].saved
      BY <3>2, <3>4
    <3> QED
      BY <1>2, <1>3, <3>4, <3>5
  <2>2. CASE Renew(w)
    <3>1. PICK lease, expires : row' = [row EXCEPT
             ![s].lease = lease, ![s].expires = expires, ![s].token = @ + 1]
      BY <2>2 DEF Renew
    <3>2. /\ \A t \in Session \ {s} : row'[t] = row[t]
          /\ row'[s].phase = row[s].phase /\ row'[s].token = row[s].token + 1
          /\ row'[s].saved = row[s].saved
      BY <1>2, <3>1 DEF LocalTypeOK, Row
    <3> QED
      BY <1>2, <1>3, <3>2
  <2>3. CASE ResumeRequest(w)
    <3>1. row' = row \/ row' = [row EXCEPT ![s].lease = request[w].now + LeaseSeconds]
      BY <2>3 DEF ResumeRequest, Resume
    <3>2. /\ \A t \in Session \ {s} : row'[t] = row[t]
          /\ row'[s].phase = row[s].phase /\ row'[s].token = row[s].token
          /\ row'[s].saved = row[s].saved
      BY <1>2, <3>1 DEF LocalTypeOK, Row
    <3> QED
      BY <1>2, <1>3, <3>2
  <2>4. CASE Finish(w)
    <3>1. row' = [row EXCEPT ![s].phase = "finished", ![s].lease = request[w].now,
                             ![s].saved = FALSE]
      BY <2>4 DEF Finish
    <3>2. /\ \A t \in Session \ {s} : row'[t] = row[t]
          /\ row'[s].phase = "finished" /\ row'[s].token = row[s].token
          /\ row'[s].saved = FALSE
      BY <1>2, <3>1 DEF LocalTypeOK, Row
    <3> QED
      BY <1>3, <3>2
  <2> QED
    BY <2>1, <2>2, <2>3, <2>4
<1> QED
  BY <1>1, <1>2, <1>4 DEF Handled

LEMMA ExchangeHandled ==
    ASSUME LocalTypeOK, NEW w \in Worker, Exchange(w)
    PROVE  /\ Handled(w, request[w].session)
           /\ row[request[w].session].phase = "ticket"
<1> DEFINE s == request[w].session
<1>1. /\ request[w] # NoRequest /\ s \in Session
      /\ row[s].phase = "ticket" /\ receipts' = receipts /\ Done(w)
  BY RequestFields DEF Exchange
<1>2. /\ \A t \in Session \ {s} : row'[t] = row[t]
      /\ row'[s].phase = "open" /\ row'[s].token = row[s].token + 1
      /\ row'[s].saved = row[s].saved
  <2>1. PICK lease : row' = [row EXCEPT ![s].phase = "open", ![s].lease = lease,
                                        ![s].token = @ + 1]
    BY DEF Exchange
  <2> QED
    BY <1>1, <2>1 DEF LocalTypeOK, Row
<1>3. row'[s].token >= row[s].token
  <2>1. row[s].token \in Nat
    BY <1>1, RowFields DEF LocalTypeOK
  <2> QED
    BY <1>2, <2>1
<1>4. row'[s].saved => row[s].saved
  BY <1>2
<1> HIDE DEF s
<1>5. Handled(w, s)
  BY <1>1, <1>2, <1>3, <1>4 DEF Handled, s
<1> QED
  BY <1>1, <1>5 DEF s

LEMMA CredentialStep ==
    ASSUME CredentialInv, [Next]_vars
    PROVE  CredentialInv'
<1>0. LocalTypeOK /\ LocalTypeOK'
  BY LocalTypeStep DEF CredentialInv
<1>1. ASSUME row' = row, receipts \subseteq receipts',
             \A w \in Worker : request'[w] = request[w] \/ request'[w] = NoRequest
      PROVE  CredentialInv'
  BY <1>0, <1>1 DEF CredentialInv, TokenInv, SavedHasReceipt
<1>2. CASE UNCHANGED vars
  BY <1>1, <1>2 DEF vars
<1>3. CASE Tick
  BY <1>1, <1>3 DEF Tick
<1>4. ASSUME NEW s \in Session, Launch(s)
      PROVE  CredentialInv'
  <2>1. PICK lease, expires, a :
           row' = [row EXCEPT ![s] = [phase |-> "ticket", lease |-> lease,
                     expires |-> expires, auth |-> a, token |-> 0, saved |-> FALSE]]
    BY <1>4 DEF Launch
  <2>2. /\ row'[s].phase = "ticket" /\ row'[s].token = 0 /\ ~row'[s].saved
        /\ \A t \in Session : t # s => row'[t] = row[t]
        /\ request' = request /\ receipts' = receipts /\ row[s].phase = "none"
    BY <1>0, <1>4, <2>1 DEF Launch, LocalTypeOK
  <2>3. \A w \in Worker : request[w] # NoRequest => request[w].session # s
    BY <2>2 DEF CredentialInv, TokenInv
  <2>4. TokenInv'
    BY <1>0, <2>2, <2>3, RequestFields DEF CredentialInv, TokenInv
  <2>5. SavedHasReceipt'
    BY <2>2 DEF CredentialInv, SavedHasReceipt
  <2> QED
    BY <1>0, <2>4, <2>5 DEF CredentialInv
<1>5. ASSUME NEW w \in Worker, NEW s \in Session, Arrive(w, s)
      PROVE  CredentialInv'
  <2>1. /\ row' = row /\ receipts' = receipts /\ row[s].phase # "none"
        /\ row[s].token \in Nat
    BY <1>0, <1>5, RowFields DEF Arrive, LocalTypeOK
  <2>2. /\ request'[w].session = s /\ request'[w].token = row[s].token
        /\ \A v \in Worker : v # w => request'[v] = request[v]
    BY <1>0, <1>5 DEF Arrive, LocalTypeOK
  <2>3. TokenInv'
    BY <2>1, <2>2 DEF CredentialInv, TokenInv
  <2>4. SavedHasReceipt'
    BY <2>1 DEF CredentialInv, SavedHasReceipt
  <2> QED
    BY <1>0, <2>3, <2>4 DEF CredentialInv
<1>6. ASSUME NEW w \in Worker, Refuse(w)
      PROVE  CredentialInv'
  <2>1. /\ row' = row /\ receipts' = receipts
        /\ \A v \in Worker : request'[v] = request[v] \/ request'[v] = NoRequest
    BY <1>0, <1>6 DEF Refuse, Done, LocalTypeOK
  <2> QED
    BY <1>1, <2>1
<1>7. ASSUME NEW w \in Worker, Handled(w, request[w].session)
      PROVE  CredentialInv'
  <2>1. request[w].session \in Session
    BY <1>0, <1>7, RequestFields DEF Handled
  <2> QED
    BY <1>0, <1>7, <2>1, HandledStep
<1>8. ASSUME NEW k \in Key, NEW e \in 1 .. MaxRevision, NEW c \in Content,
             ManualSave(k, e, c)
      PROVE  CredentialInv'
  <2>1. row' = row /\ request' = request /\ receipts \subseteq receipts'
    BY <1>8 DEF ManualSave, Original!Commit
  <2> QED
    BY <1>1, <2>1
<1> QED
  BY <1>0, <1>2, <1>3, <1>4, <1>5, <1>6, <1>7, <1>8, SavesHandled, OthersHandled,
     ExchangeHandled
  DEF Next

LEMMA CredentialsHold == Spec => []CredentialInv
<1>1. Init => CredentialInv
  BY InitLocalType DEF Init, CredentialInv, TokenInv, SavedHasReceipt, NoRow
<1> QED
  BY <1>1, CredentialStep, PTL DEF Spec

\* Whatever clients report of themselves, a session is shown as saved only if it has
\* committed bytes and holds the receipt.
THEOREM SavedIsEarned == Spec => []SavedHasReceipt
<1>1. CredentialInv => SavedHasReceipt
  BY DEF CredentialInv
<1> QED
  BY <1>1, CredentialsHold, PTL

\* A request that waited for its locks while its token was rotated, or its session
\* finished, changes neither a row nor the original.
THEOREM StaleRequestsDoNothing == Spec => StaleCredentialIsInert
<1>1. ASSUME CredentialInv, [Next]_vars,
             NEW w \in Worker, request[w] # NoRequest, request'[w] = NoRequest,
             \/ row[request[w].session].phase = "finished"
             \/ row[request[w].session].token # request[w].token
      PROVE  UNCHANGED <<row, history, receipts>>
  <2>1. ~Authentic(w)
    BY <1>1 DEF Authentic
  <2>2. ~Exchange(w)
    <3> SUFFICES ASSUME Exchange(w) PROVE FALSE
      OBVIOUS
    <3>1. /\ row[request[w].session].phase = "ticket" /\ request[w].session \in Session
          /\ request[w].token \in Nat
      BY <1>1, RequestFields DEF Exchange, CredentialInv
    <3>2. row[request[w].session].token = 0 /\ request[w].token <= 0
      BY <1>1, <3>1 DEF CredentialInv, TokenInv
    <3> QED
      BY <1>1, <3>1, <3>2
  <2>3. ASSUME NEW v \in Worker, Done(v)
        PROVE  v = w
    BY <1>1, <2>3 DEF Done, CredentialInv, LocalTypeOK
  <2>4. ASSUME NEW v \in Worker, SaveRequest(v) PROVE FALSE
    <3>1. Authentic(v) /\ Done(v)
      BY <1>1, <2>4, SavesHandled DEF CredentialInv, Handled
    <3> QED
      BY <2>1, <2>3, <3>1
  <2>5. ASSUME NEW v \in Worker,
               \/ \E keeps \in BOOLEAN : Heartbeat(v, keeps)
               \/ Renew(v) \/ ResumeRequest(v) \/ Finish(v)
        PROVE  FALSE
    <3>1. Authentic(v) /\ Done(v)
      BY <1>1, <2>5, OthersHandled DEF CredentialInv, Handled
    <3> QED
      BY <2>1, <2>3, <3>1
  <2>6. ASSUME NEW v \in Worker, Exchange(v) PROVE FALSE
    BY <2>2, <2>3, <2>6 DEF Exchange
  <2>7. ASSUME NEW v \in Worker, Refuse(v) PROVE UNCHANGED <<row, history, receipts>>
    BY <2>7 DEF Refuse
  <2>8. ASSUME NEW v \in Worker, NEW s \in Session, Arrive(v, s)
        PROVE  UNCHANGED <<row, history, receipts>>
    BY <2>8 DEF Arrive
  <2>9. request' # request
    BY <1>1
  <2>10. /\ ~Tick /\ ~UNCHANGED vars /\ \A s \in Session : ~Launch(s)
         /\ \A k \in Key, e \in 1 .. MaxRevision, c \in Content : ~ManualSave(k, e, c)
    BY <2>9 DEF Tick, vars, Launch, ManualSave
  <2> QED
    BY <1>1, <2>4, <2>5, <2>6, <2>7, <2>8, <2>10 DEF Next
<1>2. CredentialInv /\ [Next]_vars =>
      [\A w \in Worker :
        LET q == request[w] IN
        (/\ q # NoRequest /\ request'[w] = NoRequest
         /\ \/ row[q.session].phase = "finished"
            \/ row[q.session].token # q.token)
        => UNCHANGED <<row, history, receipts>>]_vars
  BY <1>1
<1> QED
  BY <1>2, CredentialsHold, PTL DEF Spec, StaleCredentialIsInert
=============================================================================
