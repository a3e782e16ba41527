--------------------------- MODULE OfficeServer ---------------------------
(***************************************************************************)
(* The edit-session side of backend/app/registry/office_sync_api.py for    *)
(* one logical original: launch tickets, bearer tokens, the 90-second      *)
(* lease, saves with If-Match and Idempotency-Key, and lease resumption.   *)
(*                                                                         *)
(* Each handler is one transaction under the document -> original ->       *)
(* session row locks, so it is one atomic step, EXCEPT for the clock:      *)
(* client_context and exchange read `now` before they queue for the locks  *)
(* and compare the rows they find behind the locks with that reading.      *)
(* A request is therefore two steps, Arrive (clock and credential) and     *)
(* its commit; any number of other requests and ticks fit between.         *)
(*                                                                         *)
(* Any refusal (revoked rights, logout, bad DOCX, a failed guard) rolls    *)
(* the whole transaction back, which is Refuse.                            *)
(***************************************************************************)
EXTENDS Naturals, Sequences

CONSTANTS
    Session,       \* rows of office_edit_sessions one launch creates each
    Manual,        \* the bookkeeping session of a browser's manual uploads
    Worker,        \* server threads that can hold a request
    Key, Content, First,
    LeaseSeconds,  \* LEASE_SECONDS
    TokenSeconds,  \* TOKEN_SECONDS
    TicketSeconds, \* validity of a launch ticket
    AuthEnds,      \* expires_at of the browser sessions that may launch
    MaxClock,      \* bound on time
    MaxRevision,   \* bound on the history
    MaxToken       \* bound on token rotations

ASSUME ManualIsNoSession == Manual \notin Session
ASSUME TimesArePositive ==
    /\ TicketSeconds \in Nat \ {0}
    /\ LeaseSeconds \in Nat
    /\ TokenSeconds \in Nat
    /\ LeaseSeconds >= TicketSeconds
    /\ TokenSeconds >= LeaseSeconds
    /\ AuthEnds \subseteq Nat
    /\ MaxClock \in Nat
    /\ MaxRevision \in Nat
    /\ MaxToken \in Nat
ASSUME InitialContent == First \in Content

VARIABLES
    clock,
    history, receipts, \* see VersionedOriginal
    row,               \* [Session -> the edit-session row]
    request,           \* [Worker -> the request waiting for its locks]
    late               \* history variable: sessions whose lease was once
                       \* extended on a clock reading already out of date

vars == <<clock, history, receipts, row, request, late>>

Original == INSTANCE VersionedOriginal WITH Writer <- Session \cup {Manual}

Row == [phase: {"none", "ticket", "open", "finished"},
        lease: Nat, expires: Nat, auth: Nat, token: Nat, saved: BOOLEAN]

\* row.phase folds exchanged_at and finished_at; lease is lease_expires_at, and
\* also ticket_expires_at until the exchange (launch sets both alike); auth is
\* the originating browser session's expires_at; token counts rotations of
\* token_hash; saved is state = "saved".
NoRow == [phase |-> "none", lease |-> 0, expires |-> 0, auth |-> 0,
          token |-> 0, saved |-> FALSE]

NoRequest == [busy |-> FALSE]
Request == [busy: {TRUE}, session: Session, token: Nat, now: Nat]

TypeOK ==
    /\ clock \in Nat
    /\ Original!TypeOK
    /\ row \in [Session -> Row]
    /\ request \in [Worker -> Request \cup {NoRequest}]
    /\ late \subseteq Session

Earlier(a, b) == IF a <= b THEN a ELSE b

\* The rows active_session selects.
Active(s, now) ==
    /\ row[s].phase \in {"ticket", "open"}
    /\ row[s].lease > now
    /\ row[s].expires > now

Init ==
    /\ clock = 0
    /\ Original!Init
    /\ row = [s \in Session |-> NoRow]
    /\ request = [w \in Worker |-> NoRequest]
    /\ late = {}

Tick ==
    /\ clock < MaxClock
    /\ clock' = clock + 1
    /\ UNCHANGED <<history, receipts, row, request, late>>

\* Slip: the search for an active session is dropped.
LaunchBlindly(s) ==
    /\ row[s].phase = "none"
    /\ \E a \in AuthEnds :
        /\ a > clock
        /\ row' = [row EXCEPT ![s] =
               [phase |-> "ticket", lease |-> clock + TicketSeconds,
                expires |-> Earlier(a, clock + TokenSeconds),
                auth |-> a, token |-> 0, saved |-> FALSE]]
    /\ UNCHANGED <<clock, history, receipts, request, late>>

(***************************************************************************)
(* launch: the only handler that reads the clock after it got its locks.   *)
(***************************************************************************)
Launch(s) ==
    /\ row[s].phase = "none"
    /\ ~ \E t \in Session : Active(t, clock)
    /\ \E a \in AuthEnds :
        /\ a > clock
        /\ row' = [row EXCEPT ![s] =
               [phase |-> "ticket", lease |-> clock + TicketSeconds,
                expires |-> Earlier(a, clock + TokenSeconds),
                auth |-> a, token |-> 0, saved |-> FALSE]]
    /\ UNCHANGED <<clock, history, receipts, request, late>>

(***************************************************************************)
(* A request presents a current credential (the ticket of a new row or     *)
(* the bearer token), its browser session is alive, and it now waits for   *)
(* the document lock with the clock reading it took.                       *)
(***************************************************************************)
Arrive(w, s) ==
    /\ request[w] = NoRequest
    /\ row[s].phase # "none"
    /\ row[s].auth > clock
    /\ request' = [request EXCEPT ![w] =
           [busy |-> TRUE, session |-> s, token |-> row[s].token, now |-> clock]]
    /\ UNCHANGED <<clock, history, receipts, row, late>>

Done(w) == request' = [request EXCEPT ![w] = NoRequest]

Refuse(w) ==
    /\ request[w] # NoRequest
    /\ Done(w)
    /\ UNCHANGED <<clock, history, receipts, row, late>>

\* Slip: the token is compared before the locks only.
AuthenticOnce(w) ==
    LET q == request[w] IN
    /\ q # NoRequest
    /\ row[q.session].phase = "open"
    /\ row[q.session].expires > q.now

\* The rechecks of client_context behind the locks.
Authentic(w) ==
    LET q == request[w] IN
    /\ q # NoRequest
    /\ row[q.session].phase = "open"
    /\ row[q.session].token = q.token
    /\ row[q.session].expires > q.now

LeaseHeld(w) == row[request[w].session].lease > request[w].now

\* What an extension on an outdated clock reading leaves behind.
NoteLate(w) == late' = IF request[w].now < clock
                       THEN late \cup {request[w].session} ELSE late

Exchange(w) ==
    LET q == request[w] s == q.session IN
    /\ q # NoRequest
    /\ row[s].phase = "ticket"
    /\ row[s].lease > q.now
    /\ row' = [row EXCEPT ![s].phase = "open",
                          ![s].lease = q.now + LeaseSeconds,
                          ![s].token = @ + 1]
    /\ NoteLate(w)
    /\ Done(w)
    /\ UNCHANGED <<clock, history, receipts>>

\* Slip: the heartbeat's state is stored as it is reported.
HeartbeatClaimsSaved(w, keeps) ==
    LET q == request[w] s == q.session IN
    /\ Authentic(w) /\ LeaseHeld(w)
    /\ row' = [row EXCEPT ![s].lease = q.now + LeaseSeconds,
                          ![s].saved = keeps]
    /\ NoteLate(w)
    /\ Done(w)
    /\ UNCHANGED <<clock, history, receipts>>

\* `keeps` is data.state = "editing", which may not erase a "saved".
Heartbeat(w, keeps) ==
    LET q == request[w] s == q.session IN
    /\ Authentic(w) /\ LeaseHeld(w)
    /\ row' = [row EXCEPT ![s].lease = q.now + LeaseSeconds,
                          ![s].saved = @ /\ keeps]
    /\ NoteLate(w)
    /\ Done(w)
    /\ UNCHANGED <<clock, history, receipts>>

Renew(w) ==
    LET q == request[w] s == q.session IN
    /\ Authentic(w) /\ LeaseHeld(w)
    /\ row[s].token < MaxToken
    /\ row' = [row EXCEPT ![s].lease = q.now + LeaseSeconds,
                          ![s].expires = Earlier(row[s].auth, q.now + TokenSeconds),
                          ![s].token = @ + 1]
    /\ NoteLate(w)
    /\ Done(w)
    /\ UNCHANGED <<clock, history, receipts>>

(***************************************************************************)
(* resume: revision and sha are the client's acknowledged base, pending    *)
(* its unacknowledged save or <<>>.                                        *)
(***************************************************************************)
BaseProved(s, revision, sha, pending) ==
    \/ revision = Original!Revision /\ sha = Original!Current
    \/ \E p \in pending : \E r \in Original!ReceiptsOf(s, p.key) :
        /\ history[revision] = sha
        /\ p.expected = revision /\ r.expected = revision
        /\ r.sha = p.sha
        /\ r.sha = Original!Current
        /\ r.revision = Original!Revision

Resume(w, revision, sha, pending) ==
    LET q == request[w] s == q.session IN
    /\ Authentic(w)
    /\ BaseProved(s, revision, sha, pending)
    /\ ~ \E t \in Session \ {s} : Active(t, q.now)
    /\ row' = IF LeaseHeld(w) THEN row
              ELSE [row EXCEPT ![s].lease = q.now + LeaseSeconds]
    /\ Done(w)
    /\ UNCHANGED <<clock, history, receipts, late>>

(***************************************************************************)
(* commit_save: a known key is answered from its receipt, an unknown one   *)
(* must name the current revision.                                         *)
(***************************************************************************)
Replay(w, k, expected, c) ==
    LET q == request[w] s == q.session IN
    /\ Authentic(w) /\ LeaseHeld(w)
    /\ \E r \in Original!ReceiptsOf(s, k) :
        /\ r.sha = c /\ r.expected = expected
        /\ row' = IF r.revision = Original!Revision /\ Original!Current = c
                  THEN [row EXCEPT ![s].saved = TRUE] ELSE row
    /\ Done(w)
    /\ UNCHANGED <<clock, history, receipts, late>>

\* Slip: no compare-and-set on If-Match.
SaveAnyRevision(w, k, expected, c) ==
    LET q == request[w] s == q.session IN
    /\ Authentic(w) /\ LeaseHeld(w)
    /\ Len(history) < MaxRevision
    /\ Original!ReceiptsOf(s, k) = {} /\ expected <= Len(history)
    /\ history' = SubSeq(history, 1, expected) \o <<c>>
    /\ receipts' = receipts \cup
           {[writer |-> s, key |-> k, expected |-> expected,
             revision |-> Len(history'), sha |-> c]}
    /\ row' = [row EXCEPT ![s].lease = q.now + LeaseSeconds,
                          ![s].saved = TRUE]
    /\ NoteLate(w)
    /\ Done(w)
    /\ UNCHANGED clock

Save(w, k, expected, c) ==
    LET q == request[w] s == q.session IN
    /\ Authentic(w) /\ LeaseHeld(w)
    /\ Len(history) < MaxRevision
    /\ Original!Commit(s, k, expected, c)
    /\ row' = [row EXCEPT ![s].lease = q.now + LeaseSeconds,
                          ![s].saved = TRUE]
    /\ NoteLate(w)
    /\ Done(w)
    /\ UNCHANGED clock

\* Slip: finish writes the word of the heartbeat states.
FinishMisnamed(w) ==
    LET q == request[w] s == q.session IN
    /\ Authentic(w)
    /\ row' = [row EXCEPT ![s].phase = "saved", ![s].lease = q.now,
                          ![s].saved = FALSE]
    /\ Done(w)
    /\ UNCHANGED <<clock, history, receipts, late>>

Finish(w) ==
    LET q == request[w] s == q.session IN
    /\ Authentic(w)
    /\ row' = [row EXCEPT ![s].phase = "finished", ![s].lease = q.now,
                          ![s].saved = FALSE]
    /\ Done(w)
    /\ UNCHANGED <<clock, history, receipts, late>>

(***************************************************************************)
(* manual_version: a browser upload outside any edit session.  Its clock   *)
(* reading can be early too, which only makes it refuse more often.        *)
(***************************************************************************)
ManualSave(k, expected, c) ==
    /\ ~ \E s \in Session : Active(s, clock)
    /\ Len(history) < MaxRevision
    /\ Original!Commit(Manual, k, expected, c)
    /\ UNCHANGED <<clock, row, request, late>>

Pending == [key: Key, expected: 1 .. MaxRevision, sha: Content]

SaveRequest(w) ==
    \E k \in Key, e \in 1 .. MaxRevision, c \in Content :
        Save(w, k, e, c) \/ Replay(w, k, e, c)

ResumeRequest(w) ==
    \E e \in 1 .. Len(history), c \in Content :
    \E pending \in {{}} \cup {{p} : p \in Pending} : Resume(w, e, c, pending)

Next ==
    \/ Tick
    \/ \E s \in Session : Launch(s)
    \/ \E w \in Worker, s \in Session : Arrive(w, s)
    \/ \E w \in Worker :
        \/ Refuse(w)
        \/ Exchange(w)
        \/ \E keeps \in BOOLEAN : Heartbeat(w, keeps)
        \/ Renew(w)
        \/ ResumeRequest(w)
        \/ SaveRequest(w)
        \/ Finish(w)
    \/ \E k \in Key, e \in 1 .. MaxRevision, c \in Content : ManualSave(k, e, c)

Spec == Init /\ [][Next]_vars

-----------------------------------------------------------------------------
\* "The 90-second lease admits one editing client per original"
\* (docs/architecture/ACTI_SYNC_001.md): at no instant do two sessions that
\* active_session would select coexist.
OneActiveSession ==
    \A s, t \in Session : Active(s, clock) /\ Active(t, clock) => s = t

\* What the code does guarantee of the lease: two sessions can be active at
\* once only if one of them was extended by a request that read the clock
\* before it waited for its locks and found the time gone on when it got them.
OverlapNeedsLateRequest ==
    \A s, t \in Session :
        Active(s, clock) /\ Active(t, clock) /\ s # t => s \in late \/ t \in late

\* A session shown as "saved" did commit bytes, and its row cannot say so
\* because a client claimed it in a heartbeat.
SavedHasReceipt ==
    \A s \in Session : row[s].saved => \E r \in receipts : r.writer = s

\* "Concurrent rotation, finish or expiry is final": a request that arrived
\* with a credential since rotated, or for a session since finished, changes
\* neither a row nor the original when it gets its locks.
StaleCredentialIsInert ==
    [][\A w \in Worker :
        LET q == request[w] IN
        (/\ q # NoRequest /\ request'[w] = NoRequest
         /\ \/ row[q.session].phase = "finished"
            \/ row[q.session].token # q.token)
        => UNCHANGED <<row, history, receipts>>]_vars

\* The server implements the versioned original.
OriginalSpec == Original!Spec
ReceiptsTruthful == Original!ReceiptsTruthful
OneCommitPerKey == Original!OneCommitPerKey
=============================================================================
