----------------------------- MODULE AgentRelay -----------------------------
(***************************************************************************)
(* Browser commands relayed to Word on the user's computer: issued and     *)
(* settled by backend/app/registry/office_sync_api.py, carried by the      *)
(* agent heartbeat, executed by clients/acti-sync (AgentRelay, SyncEngine, *)
(* SessionRecovery) and its user process (HeadlessContext).                *)
(*                                                                         *)
(* One agent connection and one edit session.  Each server handler is one  *)
(* transaction, hence one step.  On the client the session gate serializes *)
(* requests: `gate` is the request that holds it and how far it got; a     *)
(* crash falls between any two of its durable writes.  Requests can be     *)
(* lost, answered late, or processed after the client stopped waiting.     *)
(*                                                                         *)
(* The connection's bearer token is a number, the count of the tokens the  *)
(* server has issued for it: only the newest is valid, and a renewal or an *)
(* exchange of a browser ticket (connect, launch) replaces it.             *)
(*                                                                         *)
(* Not here: the 512-entry cap of Completed, relay backoff, the automatic  *)
(* finish after Word closes (SyncClient), "reveal" (handled as "open").    *)
(* The working DOCX does not change once its recovery copy exists, so      *)
(* every recovery carries the same hash.                                   *)
(***************************************************************************)
EXTENDS Naturals, FiniteSets

CONSTANTS
    Command,     \* ids of office_agent_commands rows the browser may create
    Action,      \* [Command -> action]
    MaxPending,  \* the server's bound on waiting commands (20 in the code)
    MaxTokens,   \* bound on the tokens issued; after the last none lapses
    MaxCrashes   \* bound on crashes of the service and the user process

ASSUME ActionIsKnown == Action \in [Command -> {"open", "retry", "finish", "recover"}]
ASSUME BoundsAreNat ==
    MaxPending \in Nat /\ MaxTokens \in Nat \ {0} /\ MaxCrashes \in Nat

None == "none"

ASSUME NoneIsNoCommand == None \notin Command

VARIABLES
    \* server
    state,      \* [Command -> state of the row, "none" before it exists]
    past,       \* commands whose expires_at has passed on the server's clock
    ended,      \* the edit-session row's finished_at is set
    expired,    \* its expires_at has passed: the session's own token is refused
    audits,     \* document.sync.recovered events emitted
    connection, \* the agent connection: its newest token, and whether
                \* expires_at has passed
    \* network
    beat,       \* the agent heartbeat or token renewal in flight
    exchange,   \* the ticket exchange the client waits for (at, given), and
                \* the number it gave up that may still arrive
    posts,      \* finish and recover requests the server may still process
    \* client, durable
    agent,      \* AgentState: Pending, Started, Completed (as ok and failed),
                \* Results, ProtectedToken, AuthorizationRequired (paused)
    local,      \* the recovery fields of SessionState, and the copy's file
    \* client, in memory
    stale,      \* commands whose ExpiresAt has passed on the client's clock
    gate,       \* the holder of the session gate
    user,       \* the user process: commands in a pulse's answer under way,
                \* asked to start, told to act on, and acted on but not reported
    \* history
    opened,     \* [Command -> times the user process acted on the command]
    mislaid,    \* the answer that carried the newest token was lost
    crashes

tokenVars == <<connection, exchange, mislaid>>
serverVars == <<state, past, ended, expired, audits, tokenVars>>
clientVars == <<agent, local, stale, gate, user>>
vars == <<serverVars, beat, posts, clientVars, opened, crashes>>

Free == [at |-> "free"]

RowState == {"none", "pending", "succeeded", "failed", "expired"}
ConnectionState == [token: 1..MaxTokens, lapsed: BOOLEAN]
BeatState == [at: {"idle", "asked", "renewing", "answered", "renewed", "refused"},
              waiting: BOOLEAN, token: 0..MaxTokens, given: 0..MaxTokens,
              ok: SUBSET Command, failed: SUBSET Command, commands: SUBSET Command]
ExchangeState == [at: {"idle", "asked", "answered"}, given: 0..MaxTokens, late: Nat]
Post == [c: Command, fresh: BOOLEAN, connected: BOOLEAN, admitted: BOOLEAN]
AgentState == [pending: SUBSET Command, started: SUBSET Command,
               ok: SUBSET Command, failed: SUBSET Command,
               results: SUBSET Command, token: 1..MaxTokens, paused: BOOLEAN]
LocalState == [copy: BOOLEAN, command: Command \cup {None},
               retrying: BOOLEAN, reveal: BOOLEAN, finished: BOOLEAN]
GateState == {Free} \cup
    [at: {"entered", "copied", "bound", "sent", "ok", "refused", "done"},
     c: Command, prior: Command \cup {None}]
UserState == [offered: SUBSET Command, asking: SUBSET Command,
              told: SUBSET Command, acted: SUBSET Command]

TypeOK ==
    /\ state \in [Command -> RowState]
    /\ past \subseteq Command /\ stale \subseteq Command
    /\ ended \in BOOLEAN /\ expired \in BOOLEAN /\ mislaid \in BOOLEAN
    /\ audits \in Nat /\ crashes \in Nat
    /\ connection \in ConnectionState
    /\ beat \in BeatState /\ exchange \in ExchangeState
    /\ posts \subseteq Post
    /\ agent \in AgentState /\ local \in LocalState
    /\ gate \in GateState /\ user \in UserState
    /\ opened \in [Command -> Nat]

NoBeat == [at |-> "idle", waiting |-> FALSE, token |-> 0, given |-> 0,
           ok |-> {}, failed |-> {}, commands |-> {}]
NoUser == [offered |-> {}, asking |-> {}, told |-> {}, acted |-> {}]
NoExchange == [at |-> "idle", given |-> 0, late |-> 0]

Init ==
    /\ state = [c \in Command |-> "none"]
    /\ past = {} /\ ended = FALSE /\ expired = FALSE /\ audits = 0
    /\ connection = [token |-> 1, lapsed |-> FALSE]
    /\ exchange = NoExchange /\ mislaid = FALSE
    /\ beat = NoBeat /\ posts = {}
    /\ agent = [pending |-> {}, started |-> {}, ok |-> {}, failed |-> {},
                results |-> {}, token |-> 1, paused |-> FALSE]
    /\ local = [copy |-> FALSE, command |-> None, retrying |-> FALSE,
                reveal |-> FALSE, finished |-> FALSE]
    /\ stale = {} /\ gate = Free /\ user = NoUser
    /\ opened = [c \in Command |-> 0] /\ crashes = 0

Completed == agent.ok \cup agent.failed

-----------------------------------------------------------------------------
\* The server.

WithExpired(s) == [c \in Command |->
    IF s[c] = "pending" /\ c \in past THEN "expired" ELSE s[c]]

\* browser_command.  It reads the session row without a lock; a finish that
\* commits in between leaves what issuing just before it leaves.
Issue(c) ==
    LET swept == WithExpired(state) IN
    /\ state[c] = "none"
    /\ ~ended
    /\ Cardinality({d \in Command : swept[d] = "pending"}) < MaxPending
    /\ state' = [swept EXCEPT ![c] = "pending"]
    /\ UNCHANGED <<past, ended, expired, audits, tokenVars, beat, posts, clientVars, opened, crashes>>

\* The minute a command lives, on either clock; it passes only while someone
\* may still read it.
ServerMinutePasses(c) ==
    /\ state[c] = "pending" /\ c \notin past
    /\ past' = past \cup {c}
    /\ UNCHANGED <<state, ended, expired, audits, tokenVars, beat, posts, clientVars, opened, crashes>>

ClientMinutePasses(c) ==
    /\ c \in (agent.pending \cup beat.commands) \ (Completed \cup stale)
    /\ stale' = stale \cup {c}
    /\ UNCHANGED <<serverVars, beat, posts, agent, local, gate, user, opened, crashes>>

\* What agent_heartbeat makes of a command given the reported results.
\* Once the session row is finished, command_access lets through only a
\* successful result of the action that finishes it.
Settled(c) ==
    LET refused == ended /\ ~ (c \in beat.ok /\ Action[c] \in {"finish", "recover"})
    IN  IF WithExpired(state)[c] # "pending" THEN WithExpired(state)[c]
        ELSE IF refused THEN "failed"
        ELSE IF c \in beat.ok /\ Action[c] # "recover" THEN "succeeded"
        ELSE IF c \in beat.ok \cup beat.failed THEN "failed"
        ELSE "pending"

\* agent_context: the bearer is the newest token and has not expired.
Accepted(t) == t = connection.token /\ ~connection.lapsed

\* agent_heartbeat
HeartbeatArrives ==
    /\ beat.at = "asked" /\ Accepted(beat.token)
    /\ state' = [c \in Command |-> Settled(c)]
    /\ beat' = IF beat.waiting
               THEN [beat EXCEPT !.at = "answered",
                        !.commands = {c \in Command : Settled(c) = "pending"}]
               ELSE NoBeat
    /\ UNCHANGED <<past, ended, expired, audits, tokenVars, posts, clientVars, opened, crashes>>

\* A new token replaces the connection's; its answer is lost at once if no one
\* waits for it.
Rotate(awaited) ==
    /\ connection.token < MaxTokens
    /\ connection' = [token |-> connection.token + 1, lapsed |-> FALSE]
    /\ mislaid' = ~awaited

\* agent_renew
RenewArrives ==
    /\ beat.at = "renewing" /\ Accepted(beat.token)
    /\ Rotate(beat.waiting)
    /\ beat' = IF beat.waiting
               THEN [beat EXCEPT !.at = "renewed", !.given = connection.token + 1]
               ELSE NoBeat
    /\ UNCHANGED <<state, past, ended, expired, audits, exchange, posts, clientVars, opened, crashes>>

BeatRefused ==
    /\ beat.at \in {"asked", "renewing"} /\ ~Accepted(beat.token)
    /\ beat' = IF beat.waiting THEN [beat EXCEPT !.at = "refused"] ELSE NoBeat
    /\ UNCHANGED <<serverVars, posts, clientVars, opened, crashes>>

\* issue_agent_connection, for a ticket of connect or launch the client waits
\* for, or for one it gave up.
ExchangeArrives ==
    /\ \/ /\ exchange.at = "asked"
          /\ Rotate(TRUE)
          /\ exchange' = [exchange EXCEPT !.at = "answered", !.given = connection.token + 1]
       \/ /\ exchange.late > 0
          /\ Rotate(FALSE)
          /\ exchange' = [exchange EXCEPT !.late = @ - 1]
    /\ UNCHANGED <<state, past, ended, expired, audits, beat, posts, clientVars, opened, crashes>>

\* expires_at passes, with the token's quarter of an hour or the browser session.
ConnectionLapses ==
    /\ ~connection.lapsed /\ connection.token < MaxTokens
    /\ connection' = [connection EXCEPT !.lapsed = TRUE]
    /\ UNCHANGED <<state, past, ended, expired, audits, exchange, mislaid, beat, posts, clientVars, opened, crashes>>

\* expires_at of the edit session passes.  A renewal would postpone it, but
\* nothing renews a session that is blocked or still retries a recovery.
SessionExpires ==
    /\ ~expired
    /\ expired' = TRUE
    /\ UNCHANGED <<state, past, ended, audits, tokenVars, beat, posts, clientVars, opened, crashes>>

\* client_context reads the clock before it queues for its locks: a request sent
\* before the session's token expired may be let in after it.
Admitted(p) == p.admitted \/ ~expired

\* The answer reaches the client only if it is still waiting for this command.
Answer(c, outcome) ==
    gate' = IF gate # Free /\ gate.at = "sent" /\ gate.c = c
            THEN [gate EXCEPT !.at = outcome] ELSE gate

\* finish: a session row that is finished already is refused.
FinishArrives(p) ==
    /\ p \in posts /\ Action[p.c] = "finish"
    /\ posts' = posts \ {p}
    /\ \/ /\ ~ended /\ Admitted(p)
          /\ ended' = TRUE
          /\ Answer(p.c, "ok")
       \/ /\ ended \/ expired
          /\ ended' = ended
          /\ Answer(p.c, "refused")
    /\ UNCHANGED <<state, past, expired, audits, tokenVars, beat, agent, local, stale, user, opened, crashes>>

\* Slip: the exact replay is taken for a first commit.
RecoverCommitsAgain(p) ==
    /\ state[p.c] \in {"pending", "succeeded"} /\ p.fresh
    /\ Admitted(p) /\ (p.connected \/ ~connection.lapsed)
    /\ state' = [state EXCEPT ![p.c] = "succeeded"]
    /\ ended' = TRUE
    /\ audits' = audits + 1
    /\ Answer(p.c, "ok")

\* The same reading of the clock decides on the command's minute and on the
\* connection.
RecoverCommits(p) ==
    /\ state[p.c] = "pending" /\ ~ended /\ p.fresh
    /\ Admitted(p) /\ (p.connected \/ ~connection.lapsed)
    /\ state' = [state EXCEPT ![p.c] = "succeeded"]
    /\ ended' = TRUE
    /\ audits' = audits + 1
    /\ Answer(p.c, "ok")

\* Slip: the exact replay is refused like any finished session.
RecoverNeverReplays(p) ==
    /\ state[p.c] = "succeeded" /\ ended
    /\ Answer(p.c, "refused")
    /\ UNCHANGED <<state, ended, audits>>

\* A lost acknowledgement is repeated for the same command and hash.
RecoverReplays(p) ==
    /\ state[p.c] = "succeeded" /\ ended
    /\ Admitted(p) /\ (p.connected \/ ~connection.lapsed)
    /\ Answer(p.c, "ok")
    /\ UNCHANGED <<state, ended, audits>>

RecoverRefused(p) ==
    /\ \/ state[p.c] \notin {"pending", "succeeded"}
       \/ state[p.c] = "pending" /\ (ended \/ p.c \in past)
       \/ connection.lapsed \/ expired
    /\ Answer(p.c, "refused")
    /\ UNCHANGED <<state, ended, audits>>

\* recover
RecoverArrives(p) ==
    /\ p \in posts /\ Action[p.c] = "recover"
    /\ posts' = posts \ {p}
    /\ RecoverCommits(p) \/ RecoverReplays(p) \/ RecoverRefused(p)
    /\ UNCHANGED <<past, expired, tokenVars, beat, agent, local, stale, user, opened, crashes>>

LosePost(p) ==
    /\ p \in posts
    /\ posts' = posts \ {p}
    /\ UNCHANGED <<serverVars, beat, clientVars, opened, crashes>>

-----------------------------------------------------------------------------
\* The service: relay loop.

Complete(a, c, ok) ==
    [a EXCEPT !.pending = @ \ {c}, !.started = @ \ {c},
              !.ok      = IF ok THEN @ \cup {c} ELSE @ \ {c},
              !.failed  = IF ok THEN @ \ {c} ELSE @ \cup {c},
              !.results = @ \cup {c}]

\* AgentSessionTick: the results and the token are copied under the lock, the
\* HTTP calls are not.  A token close to its expiry is renewed first.
SendHeartbeat ==
    /\ beat.at = "idle" /\ ~agent.paused
    /\ \E call \in {"asked"} \cup {c \in {"renewing"} : connection.token < MaxTokens} :
        beat' = [NoBeat EXCEPT !.at = call, !.waiting = TRUE, !.token = agent.token,
                               !.ok = agent.results \cap agent.ok,
                               !.failed = agent.results \cap agent.failed]
    /\ UNCHANGED <<serverVars, posts, clientVars, opened, crashes>>

Merged ==
    LET valid == beat.commands \ stale IN
    [agent EXCEPT
        !.results = (@ \ (beat.ok \cup beat.failed)) \cup (valid \cap Completed),
        !.pending = (@ \cap (valid \cup agent.started)) \cup (valid \ Completed)]

\* Whatever a call brings is used only if the agent still has the token that
\* was sent with it.
MergeHeartbeat ==
    /\ beat.at = "answered"
    /\ agent' = IF agent.token = beat.token THEN Merged ELSE agent
    /\ beat' = NoBeat
    /\ UNCHANGED <<serverVars, posts, local, stale, gate, user, opened, crashes>>

\* The renewed token is stored, and the heartbeat follows if the user process
\* still pulses.
TakeRenewal ==
    /\ beat.at = "renewed"
    /\ IF agent.token = beat.token
       THEN /\ agent' = [agent EXCEPT !.token = beat.given]
            /\ beat' \in {NoBeat, [beat EXCEPT !.at = "asked", !.token = beat.given,
                                             !.given = 0]}
       ELSE UNCHANGED agent /\ beat' = NoBeat
    /\ UNCHANGED <<serverVars, posts, local, stale, gate, user, opened, crashes>>

\* Slip: a late refusal of an older token counts.
PauseAnyway ==
    /\ beat.at = "refused"
    /\ agent' = [agent EXCEPT !.paused = TRUE]
    /\ beat' = NoBeat
    /\ UNCHANGED <<serverVars, posts, local, stale, gate, user, opened, crashes>>

\* "A late failure for an old token must never poison a fresh browser ticket."
Pause ==
    /\ beat.at = "refused"
    /\ agent' = [agent EXCEPT !.paused = @ \/ agent.token = beat.token]
    /\ beat' = NoBeat
    /\ UNCHANGED <<serverVars, posts, local, stale, gate, user, opened, crashes>>

\* An answer that carried a token is lost.
Mislay(answer) == mislaid' = (mislaid \/ answer.given = connection.token)

\* The call or its answer is lost, or the client stops waiting.
LoseHeartbeat ==
    /\ beat.at # "idle"
    /\ beat' \in {NoBeat} \cup
           (IF beat.at \in {"asked", "renewing"}
            THEN {[beat EXCEPT !.waiting = FALSE]} ELSE {})
    /\ Mislay(beat)
    /\ UNCHANGED <<state, past, ended, expired, audits, connection, exchange, posts, clientVars, opened, crashes>>

\* Connect and launch, one at a time behind the user's launch gate.
Connect ==
    /\ exchange.at = "idle" /\ connection.token + exchange.late < MaxTokens
    /\ exchange' = [exchange EXCEPT !.at = "asked"]
    /\ UNCHANGED <<state, past, ended, expired, audits, connection, mislaid, beat, posts, clientVars, opened, crashes>>

\* SaveAgent: commands and receipts stay.
SaveAgent ==
    /\ exchange.at = "answered"
    /\ agent' = [agent EXCEPT !.token = exchange.given, !.paused = FALSE]
    /\ exchange' = [exchange EXCEPT !.at = "idle", !.given = 0]
    /\ UNCHANGED <<state, past, ended, expired, audits, connection, mislaid, beat, posts, local, stale, gate, user, opened, crashes>>

GivenUp(late) == [at |-> "idle", given |-> 0, late |-> exchange.late + late]

LoseExchange ==
    /\ exchange.at # "idle"
    /\ exchange' \in {GivenUp(0)} \cup {e \in {GivenUp(1)} : exchange.at = "asked"}
    /\ Mislay(exchange)
    /\ UNCHANGED <<state, past, ended, expired, audits, connection, beat, posts, clientVars, opened, crashes>>

-----------------------------------------------------------------------------
\* The service and the user process: "open".

\* A pulse is answered with what has not been started, without the session gate.
\* The next pulse waits for the answer, which may be late.
Pulse ==
    LET commands == agent.pending \ (stale \cup agent.started \cup Completed) IN
    /\ user.offered = {} /\ ~agent.paused /\ commands # {}
    /\ user' = [user EXCEPT !.offered = commands]
    /\ UNCHANGED <<serverVars, beat, posts, agent, local, stale, gate, opened, crashes>>

\* The answer is lost, or every command that is not executing yet is executed.
TakePulse ==
    LET executing == user.asking \cup user.told \cup user.acted IN
    /\ user.offered # {}
    /\ \E taken \in {{}, user.offered \ executing} :
        user' = [user EXCEPT !.offered = {}, !.asking = @ \cup taken]
    /\ UNCHANGED <<serverVars, beat, posts, agent, local, stale, gate, opened, crashes>>

\* FindCommand
Found(c) ==
    \/ c \in Completed
    \/ c \in agent.pending /\ (c \notin stale \/ (local.retrying /\ local.command = c))

\* Handle, before the actions: only an agent that may call the server starts.
Startable(c) == Found(c) /\ c \notin Completed \cup agent.started /\ ~agent.paused

\* The answer to command_start, unless it is lost with the service.
Tell(c, ok) ==
    \E heard \in SUBSET (IF ok THEN {c} ELSE {}) :
        user' = [user EXCEPT !.asking = @ \ {c}, !.told = @ \cup heard]

\* Handle, "command_start": durable before the user process hears of it.  A
\* completed command is answered with its receipt, whose success reads like a
\* permission to act.
CommandStart(c) ==
    /\ gate = Free /\ c \in user.asking /\ Action[c] = "open"
    /\ \/ /\ c \in Completed
          /\ Tell(c, c \in agent.ok)
          /\ UNCHANGED agent
       \/ /\ Startable(c) /\ ~local.finished
          /\ agent' = [agent EXCEPT !.started = @ \cup {c}]
          /\ Tell(c, TRUE)
       \/ /\ Startable(c) /\ local.finished
          /\ agent' = Complete(agent, c, FALSE)
          /\ Tell(c, FALSE)
    /\ UNCHANGED <<serverVars, beat, posts, local, stale, gate, opened, crashes>>

\* HeadlessContext.Execute between command_start and command_result.
UserActs(c) ==
    /\ c \in user.told
    /\ user' = [user EXCEPT !.told = @ \ {c}, !.acted = @ \cup {c}]
    /\ opened' = [opened EXCEPT ![c] = @ + 1]
    /\ UNCHANGED <<serverVars, beat, posts, agent, local, stale, gate, crashes>>

\* Slip: a report counts whatever the receipts say.
ReportsAnyway(c, ok) ==
    /\ gate = Free /\ c \in user.acted
    /\ user' = [user EXCEPT !.acted = @ \ {c}]
    /\ agent' = Complete(agent, c, ok)
    /\ UNCHANGED <<serverVars, beat, posts, local, stale, gate, opened, crashes>>

\* Handle, "command_result": a late report of an expired or completed command
\* changes nothing.
UserReports(c, ok) ==
    /\ gate = Free /\ c \in user.acted
    /\ user' = [user EXCEPT !.acted = @ \ {c}]
    /\ agent' = IF Found(c) /\ c \in agent.started
                THEN Complete(agent, c, ok) ELSE agent
    /\ UNCHANGED <<serverVars, beat, posts, local, stale, gate, opened, crashes>>

\* A request to start or a report is refused, lost, or not waited for.
UserDrops(c) ==
    /\ c \in user.asking \cup user.acted
    /\ user' = [user EXCEPT !.asking = @ \ {c}, !.acted = @ \ {c}]
    /\ UNCHANGED <<serverVars, beat, posts, agent, local, stale, gate, opened, crashes>>

-----------------------------------------------------------------------------
\* The service: "retry", "finish" and "recover" hold the session gate.

Accept(c) ==
    /\ gate = Free /\ c \in user.asking /\ Action[c] # "open" /\ Startable(c)
    /\ agent' = [agent EXCEPT !.started = @ \cup {c}]
    /\ user' = [user EXCEPT !.asking = @ \ {c}]
    /\ gate' = [at |-> "entered", c |-> c, prior |-> None]
    /\ UNCHANGED <<serverVars, beat, posts, local, stale, opened, crashes>>

\* TickSession of a session whose recovery is not acknowledged yet.
RetryRecovery ==
    /\ gate = Free /\ local.retrying /\ ~local.finished
    /\ gate' = [at |-> "entered", c |-> local.command, prior |-> None]
    /\ UNCHANGED <<serverVars, beat, posts, agent, local, stale, user, opened, crashes>>

At(step, actions) == gate # Free /\ gate.at = step /\ Action[gate.c] \in actions

\* Slip: the copy is left for later.
CopyLater ==
    /\ At("entered", {"recover"})
    /\ gate' = [gate EXCEPT !.at = "copied"]
    /\ UNCHANGED <<serverVars, beat, posts, agent, local, stale, user, opened, crashes>>

\* Recover publishes the verified copy, or verifies the one it finds, ...
Copy ==
    /\ At("entered", {"recover"})
    /\ local' = [local EXCEPT !.copy = TRUE]
    /\ gate' = [gate EXCEPT !.at = "copied"]
    /\ UNCHANGED <<serverVars, beat, posts, agent, stale, user, opened, crashes>>

\* ... binds it to the command, which may replace an earlier one, ...
Bind ==
    /\ At("copied", {"recover"})
    /\ local' = IF local.command = gate.c THEN local
                ELSE [local EXCEPT !.command = gate.c, !.retrying = TRUE]
    /\ gate' = [at |-> "bound", c |-> gate.c,
                prior |-> IF local.command = gate.c THEN None ELSE local.command]
    /\ UNCHANGED <<serverVars, beat, posts, agent, stale, user, opened, crashes>>

\* ... gives the earlier one up and asks the server to finish the session.
Send ==
    /\ At("bound", {"recover"}) \/ At("entered", {"finish"})
    /\ agent' = IF gate.prior \in agent.pending
                THEN Complete(agent, gate.prior, FALSE) ELSE agent
    /\ posts' = posts \cup {[c |-> gate.c, fresh |-> gate.c \notin past,
                          connected |-> ~connection.lapsed, admitted |-> ~expired]}
    /\ gate' = [gate EXCEPT !.at = "sent"]
    /\ UNCHANGED <<serverVars, beat, local, stale, user, opened, crashes>>

\* Slip: any answer counts.
AnsweredAtAll == At("ok", {"finish", "recover"}) \/ At("refused", {"finish", "recover"})

Acknowledged == At("ok", {"finish", "recover"})

\* The session is finished durably, then the command's receipt is.
FinishLocally ==
    /\ Acknowledged
    /\ local' = IF Action[gate.c] = "finish" THEN [local EXCEPT !.finished = TRUE]
                ELSE [local EXCEPT !.finished = TRUE, !.retrying = FALSE, !.reveal = TRUE]
    /\ gate' = [gate EXCEPT !.at = "done"]
    /\ UNCHANGED <<serverVars, beat, posts, agent, stale, user, opened, crashes>>

Succeed ==
    /\ At("done", {"finish", "recover"}) \/ At("entered", {"retry"})
    /\ agent' = Complete(agent, gate.c, TRUE)
    /\ gate' = Free
    /\ UNCHANGED <<serverVars, beat, posts, local, stale, user, opened, crashes>>

\* A refusal of the server, a lost answer, or a local check that fails (Word
\* still holds the file, unsaved work, disk errors).
GiveUp ==
    /\ \/ \E step \in {"entered", "sent", "ok", "refused"} : At(step, {"finish", "recover"})
       \/ \E step \in {"copied", "bound"} : At(step, {"recover"})
    /\ agent' = IF local.retrying THEN agent ELSE Complete(agent, gate.c, FALSE)
    /\ gate' = Free
    /\ UNCHANGED <<serverVars, beat, posts, local, stale, user, opened, crashes>>

\* Handle, "recovery_revealed": the user was shown the copy.
Reveal ==
    /\ gate = Free /\ local.reveal /\ local.finished
    /\ local.command \in agent.ok
    /\ local' = [local EXCEPT !.reveal = FALSE]
    /\ UNCHANGED <<serverVars, beat, posts, agent, stale, gate, user, opened, crashes>>

-----------------------------------------------------------------------------
\* Slip: what was started is forgotten and offered again.
ForgetStarted ==
    [agent EXCEPT !.pending = @ \ (stale \ agent.started), !.started = {}]

\* Slip: what was started is taken for done.
PassStarted ==
    LET kept == agent.pending \ (stale \ agent.started)
        lost == {c \in agent.started : c \notin kept \/ Action[c] # "recover"}
    IN  [agent EXCEPT !.pending = kept \ lost, !.started = @ \ lost,
                      !.ok = @ \cup lost, !.failed = @ \ lost, !.results = @ \cup lost]

\* InitializeAgents: a command that was started, other than a recovery, has an
\* unknown outcome and is reported failed, never replayed; then Initialize
\* settles a recovery whose session was finished before its receipt was written.
FailStarted ==
    LET kept == agent.pending \ (stale \ agent.started)
        lost == {c \in agent.started : c \notin kept \/ Action[c] # "recover"}
    IN  [agent EXCEPT !.pending = kept \ lost, !.started = @ \ lost,
                      !.ok = @ \ lost, !.failed = @ \cup lost, !.results = @ \cup lost]

\* Slip: any finished session settles its recovery command.
RestartedUnchecked ==
    IF local.finished THEN Complete(FailStarted, local.command, TRUE) ELSE FailStarted

Restarted ==
    IF /\ local.finished /\ local.command \in FailStarted.pending
       /\ Action[local.command] = "recover"
    THEN Complete(FailStarted, local.command, TRUE)
    ELSE FailStarted

\* The service crashes and starts again.
Restart ==
    /\ crashes < MaxCrashes
    /\ crashes' = crashes + 1
    /\ agent' = Restarted
    /\ gate' = Free
    /\ beat' = IF beat.at \in {"asked", "renewing"}
               THEN [beat EXCEPT !.waiting = FALSE] ELSE NoBeat
    /\ exchange' = GivenUp(IF exchange.at = "asked" THEN 1 ELSE 0)
    /\ mislaid' = (mislaid \/ connection.token \in {beat.given, exchange.given})
    /\ UNCHANGED <<state, past, ended, expired, audits, connection, posts, local, stale, user, opened>>

UserProcessDies ==
    /\ crashes < MaxCrashes
    /\ user # NoUser
    /\ crashes' = crashes + 1
    /\ user' = NoUser
    /\ UNCHANGED <<serverVars, beat, posts, agent, local, stale, gate, opened>>

Next ==
    \/ \E c \in Command :
        \/ Issue(c) \/ ServerMinutePasses(c) \/ ClientMinutePasses(c)
        \/ CommandStart(c) \/ UserActs(c) \/ UserDrops(c) \/ Accept(c)
        \/ \E ok \in BOOLEAN : UserReports(c, ok)
    \/ \E p \in posts : FinishArrives(p) \/ RecoverArrives(p) \/ LosePost(p)
    \/ SendHeartbeat \/ HeartbeatArrives \/ MergeHeartbeat \/ LoseHeartbeat
    \/ RenewArrives \/ BeatRefused \/ TakeRenewal \/ Pause
    \/ Connect \/ ExchangeArrives \/ SaveAgent \/ LoseExchange \/ ConnectionLapses
    \/ Pulse \/ TakePulse \/ SessionExpires
    \/ RetryRecovery \/ Copy \/ Bind \/ Send
    \/ FinishLocally \/ Succeed \/ GiveUp \/ Reveal
    \/ Restart \/ UserProcessDies

Spec == Init /\ [][Next]_vars

\* The poll loop ticks every session forever; a file check, a request or an
\* answer that keeps being tried does not fail every time.
FairSpec ==
    /\ Spec
    /\ WF_vars(GiveUp) /\ SF_vars(RetryRecovery)
    /\ SF_vars(Copy) /\ SF_vars(Bind) /\ SF_vars(Send)
    /\ SF_vars(\E p \in posts : RecoverArrives(p) /\ gate # Free
                              /\ gate.at = "sent" /\ gate.c = p.c)
    /\ SF_vars(FinishLocally) /\ SF_vars(Succeed)

-----------------------------------------------------------------------------
\* Properties

\* "A started native operation has uncertain outcome after a crash. Never replay
\* it." (AgentRelay.cs)  Redelivered heartbeats, late pulses, lost answers and
\* crashes of either process never make the user process act a second time on a
\* command that failed or whose outcome is unknown.  What a late pulse can
\* repeat is one that is recorded as done, once.
OnlySuccessRepeats ==
    \A c \in Command : opened[c] > 1 => opened[c] = 2 /\ c \in agent.ok

\* What the browser is shown as succeeded did happen: the document was handed
\* to Word, the session was finished on the client, or the recovery copy is on
\* disk and the server's session finished.
SuccessIsReal ==
    \A c \in Command : state[c] = "succeeded" =>
        CASE Action[c] = "open"    -> opened[c] >= 1
          [] Action[c] = "retry"   -> c \in agent.ok
          [] Action[c] = "finish"  -> local.finished
          [] Action[c] = "recover" -> ended /\ local.copy

\* The native session is finished only after the server acknowledged it, and a
\* session that is still retrying its recovery is never shown as recovered.
LocalFinishIsAcknowledged ==
    /\ local.finished => ended
    /\ local.reveal => local.finished /\ local.copy

\* However often a recovery is retried, its audit event is written once, and
\* exactly when a recovery finished the session.
OneAudit ==
    audits = Cardinality({c \in Command :
                 Action[c] = "recover" /\ state[c] = "succeeded"})
    /\ audits <= 1

\* An outcome, once the client recorded it or the server settled the row, is
\* never revised: late results, redeliveries and restarts do not change it.
OutcomesStand ==
    [][/\ agent.ok \subseteq agent'.ok /\ agent.failed \subseteq agent'.failed
       /\ \A c \in Command :
            state[c] \in {"succeeded", "failed", "expired"} => state'[c] = state[c]]_vars

\* SessionRecovery.cs: "Retry the same durable copy/hash/command after lost ACK
\* or service restart."  Once the server finished the session by a recovery, a
\* client that is still retrying retries the command the server committed; any
\* other command is refused for ever.
RetriesTheCommittedCommand ==
    (local.retrying /\ audits > 0) => state[local.command] = "succeeded"

\* A recovery the server committed is finished on the client too, whatever
\* acknowledgements were lost, as long as its replay is let in: a lapsed
\* connection refuses it until the user connects again, the expired token of the
\* edit session for good.
RecoveryCompletes ==
    (audits > 0) ~> (local.finished \/ connection.lapsed \/ expired)

\* Renewals, connects and launches that cross each other, or a refusal that is
\* late, never lock a connected agent out: it pauses only over a token the
\* server refuses, and it is without the newest token only while that is on its
\* way or because the answer that carried it was lost.
CredentialIsKept ==
    /\ agent.paused => ~Accepted(agent.token)
    /\ \/ connection.token \in {agent.token, beat.given, exchange.given}
       \/ mislaid
=============================================================================
