------------------------- MODULE AgentRelayProofs -------------------------
(***************************************************************************)
(* For every set of commands and every bound on tokens, pending commands   *)
(* and crashes: the relay is type correct, the user process acts a second  *)
(* time on no command but one recorded as done, and then only once more,   *)
(* recorded outcomes stand and are real, a recovery is audited once, the   *)
(* native session finishes only after the server did, and a connected      *)
(* agent is not locked out.                                                *)
(*                                                                         *)
(* The invariants are proved in layers, each from those before it.         *)
(***************************************************************************)
EXTENDS AgentRelay, FiniteSetTheorems, TLAPS

-----------------------------------------------------------------------------
\* Types.

\* Beside the types: a retried recovery names its command, and an answer that
\* brings a token brings one.
TypeInv ==
    /\ TypeOK
    /\ local.retrying => local.command \in Command
    /\ beat.at = "renewed" => beat.given # 0
    /\ exchange.at = "answered" => exchange.given # 0

LEMMA CompleteIsTyped ==
    ASSUME NEW a \in AgentState, NEW c \in Command, NEW ok \in BOOLEAN
    PROVE  Complete(a, c, ok) \in AgentState
BY DEF Complete, AgentState

LEMMA FailStartedIsTyped ==
    ASSUME agent \in AgentState
    PROVE  FailStarted \in AgentState
BY DEF FailStarted, AgentState

LEMMA BeatMoves ==
    ASSUME NEW b \in BeatState, NEW t \in 0 .. MaxTokens
    PROVE  /\ [b EXCEPT !.at = "renewed", !.given = t] \in BeatState
           /\ [b EXCEPT !.at = "asked", !.token = t, !.given = 0] \in BeatState
<1>1. 0 \in 0 .. MaxTokens
  BY BoundsAreNat
<1> QED
  BY <1>1 DEF BeatState

LEMMA ExchangeMoves ==
    ASSUME NEW e \in ExchangeState, NEW t \in 0 .. MaxTokens
    PROVE  /\ [e EXCEPT !.at = "answered", !.given = t] \in ExchangeState
           /\ e.late > 0 => [e EXCEPT !.late = @ - 1] \in ExchangeState
           /\ [e EXCEPT !.at = "idle", !.given = 0] \in ExchangeState
<1>1. 0 \in 0 .. MaxTokens
  BY BoundsAreNat
<1>2. [e EXCEPT !.at = "answered", !.given = t] \in ExchangeState
  BY DEF ExchangeState
<1>3. e.late > 0 => [e EXCEPT !.late = @ - 1] \in ExchangeState
  BY DEF ExchangeState
<1>4. [e EXCEPT !.at = "idle", !.given = 0] \in ExchangeState
  BY <1>1 DEF ExchangeState
<1> QED
  BY <1>2, <1>3, <1>4

LEMMA InitTyped == Init => TypeInv
<1>1. Init => /\ state \in [Command -> RowState] /\ connection \in ConnectionState
              /\ exchange \in ExchangeState /\ local \in LocalState
              /\ gate \in GateState /\ user \in UserState
  BY BoundsAreNat DEF Init, RowState, ConnectionState, ExchangeState, NoExchange,
     LocalState, GateState, NoUser, UserState
<1>2. Init => beat \in BeatState /\ agent \in AgentState
  BY BoundsAreNat DEF Init, BeatState, NoBeat, AgentState
<1>3. Init => /\ local.retrying = FALSE /\ beat.at = "idle" /\ exchange.at = "idle"
  BY DEF Init, NoBeat, NoExchange
<1>4. Init => /\ past \subseteq Command /\ stale \subseteq Command
              /\ ended \in BOOLEAN /\ expired \in BOOLEAN /\ mislaid \in BOOLEAN
              /\ posts \subseteq Post
  BY DEF Init
<1>5. Init => audits \in Nat /\ crashes \in Nat /\ opened \in [Command -> Nat]
  BY DEF Init
<1> QED
  BY <1>1, <1>2, <1>3, <1>4, <1>5 DEF TypeInv, TypeOK

LEMMA TypeStep ==
    ASSUME TypeInv, [Next]_vars
    PROVE  TypeInv'
<1> USE BoundsAreNat DEF TypeInv, TypeOK, clientVars, serverVars, tokenVars
<1>a. NoBeat \in BeatState /\ NoBeat.at = "idle"
  BY DEF NoBeat, BeatState
<1>b. \A c \in Command : WithExpired(state)[c] \in RowState
  BY DEF WithExpired, RowState
<1>1. ASSUME NEW c \in Command, Issue(c)
      PROVE  TypeInv'
  BY <1>1, <1>b DEF Issue, WithExpired, RowState
<1>2. ASSUME NEW c \in Command, ServerMinutePasses(c) \/ ClientMinutePasses(c)
      PROVE  TypeInv'
  BY <1>2 DEF ServerMinutePasses, ClientMinutePasses
<1>3. ASSUME NEW c \in Command, CommandStart(c)
      PROVE  TypeInv'
  <2>1. agent' \in {agent, [agent EXCEPT !.started = @ \cup {c}], Complete(agent, c, FALSE)}
    BY <1>3 DEF CommandStart
  <2>2. agent' \in AgentState
    <3>1. [agent EXCEPT !.started = @ \cup {c}] \in AgentState
      BY DEF AgentState
    <3>2. Complete(agent, c, FALSE) \in AgentState
      BY CompleteIsTyped
    <3> QED
      BY <2>1, <3>1, <3>2
  <2>3. PICK heard \in SUBSET {c} :
            user' = [user EXCEPT !.asking = @ \ {c}, !.told = @ \cup heard]
    BY <1>3 DEF CommandStart, Tell
  <2>4. user' \in UserState
    BY <2>3 DEF UserState
  <2> QED
    BY <1>3, <2>2, <2>4 DEF CommandStart
<1>4. ASSUME NEW c \in Command, UserActs(c)
      PROVE  TypeInv'
  <2>1. user' \in UserState
    BY <1>4 DEF UserActs, UserState
  <2>2. opened' \in [Command -> Nat]
    BY <1>4 DEF UserActs
  <2> QED
    BY <1>4, <2>1, <2>2 DEF UserActs
<1>5. ASSUME NEW c \in Command, NEW ok \in BOOLEAN, UserReports(c, ok)
      PROVE  TypeInv'
  <2>1. agent' \in AgentState
    BY <1>5, CompleteIsTyped DEF UserReports
  <2>2. user' \in UserState
    BY <1>5 DEF UserReports, UserState
  <2> QED
    BY <1>5, <2>1, <2>2 DEF UserReports
<1>6. ASSUME NEW c \in Command, Accept(c)
      PROVE  TypeInv'
  <2>1. agent' \in AgentState
    BY <1>6 DEF Accept, AgentState
  <2>2. gate' \in GateState
    BY <1>6 DEF Accept, GateState
  <2>3. user' \in UserState
    BY <1>6 DEF Accept, UserState
  <2> QED
    BY <1>6, <2>1, <2>2, <2>3 DEF Accept
<1>7. ASSUME NEW c \in Command, NEW outcome \in {"ok", "refused"}, Answer(c, outcome)
      PROVE  gate' \in GateState
  BY <1>7 DEF Answer, GateState, Free
<1>8. ASSUME NEW p \in posts, FinishArrives(p)
      PROVE  TypeInv'
  <2>1. p.c \in Command
    BY DEF Post
  <2>2. gate' \in GateState
    BY <1>7, <1>8, <2>1 DEF FinishArrives
  <2> QED
    BY <1>8, <2>2 DEF FinishArrives
<1>9. ASSUME NEW p \in posts, RecoverArrives(p)
      PROVE  TypeInv'
  <2>1. p.c \in Command
    BY DEF Post
  <2>2. state' \in [Command -> RowState]
    BY <1>9, <2>1 DEF RecoverArrives, RecoverCommits, RecoverReplays, RecoverRefused, RowState
  <2>3. ended' \in BOOLEAN /\ audits' \in Nat
    <3>1. RecoverCommits(p) \/ (ended' = ended /\ audits' = audits)
      BY <1>9 DEF RecoverArrives, RecoverReplays, RecoverRefused
    <3>2. ended' \in BOOLEAN
      BY <3>1 DEF RecoverCommits
    <3>3. audits' \in Nat
      BY <3>1 DEF RecoverCommits
    <3> QED
      BY <3>2, <3>3
  <2>4. gate' \in GateState
    BY <1>7, <1>9, <2>1 DEF RecoverArrives, RecoverCommits, RecoverReplays, RecoverRefused
  <2> QED
    BY <1>9, <2>2, <2>3, <2>4 DEF RecoverArrives
<1>10. ASSUME NEW p \in posts, LosePost(p)
       PROVE  TypeInv'
  BY <1>10 DEF LosePost
<1>11. CASE SendHeartbeat
  <2>1. PICK call \in {"asked", "renewing"} :
          beat' = [NoBeat EXCEPT !.at = call, !.waiting = TRUE, !.token = agent.token,
                                 !.ok = agent.results \cap agent.ok,
                                 !.failed = agent.results \cap agent.failed]
    BY <1>11 DEF SendHeartbeat
  <2>2. beat' = [at |-> call, waiting |-> TRUE, token |-> agent.token, given |-> 0,
                 ok |-> agent.results \cap agent.ok,
                 failed |-> agent.results \cap agent.failed, commands |-> {}]
    BY <2>1 DEF NoBeat
  <2>3. /\ agent.token \in 0 .. MaxTokens
        /\ agent.results \cap agent.ok \subseteq Command
        /\ agent.results \cap agent.failed \subseteq Command
    BY DEF AgentState
  <2>4. beat' \in BeatState /\ beat'.at # "renewed"
    BY <2>2, <2>3 DEF BeatState
  <2> QED
    BY <1>11, <2>4 DEF SendHeartbeat
<1>12. CASE HeartbeatArrives
  <2>1. \A c \in Command : Settled(c) \in RowState
    BY <1>b DEF Settled, RowState
  <2>2. beat' \in BeatState /\ beat'.at # "renewed"
    BY <1>12, <1>a DEF HeartbeatArrives, BeatState
  <2> QED
    BY <1>12, <2>1, <2>2 DEF HeartbeatArrives
<1>13. CASE MergeHeartbeat
  <2>1. Merged \in AgentState
    BY DEF Merged, Completed, AgentState, BeatState
  <2> QED
    BY <1>13, <1>a, <2>1 DEF MergeHeartbeat
<1>14. CASE LoseHeartbeat
  <2>1. beat' = NoBeat \/ /\ beat.at # "renewed"
                          /\ beat' = [beat EXCEPT !.waiting = FALSE]
    BY <1>14 DEF LoseHeartbeat
  <2>2. beat' \in BeatState /\ beat'.at # "renewed"
    BY <2>1, <1>a DEF BeatState
  <2> QED
    BY <1>14, <2>2 DEF LoseHeartbeat, Mislay
<1>15. CASE RenewArrives
  <2>1. connection' \in ConnectionState /\ connection.token + 1 \in (1 .. MaxTokens) \cap (0 .. MaxTokens)
        /\ mislaid' \in BOOLEAN
    BY <1>15, BoundsAreNat DEF RenewArrives, Rotate, ConnectionState, BeatState
  <2>2. beat' = NoBeat \/ beat' = [beat EXCEPT !.at = "renewed", !.given = connection.token + 1]
    BY <1>15 DEF RenewArrives
  <2>3. beat' \in BeatState /\ (beat'.at = "renewed" => beat'.given # 0)
    <3>1. CASE beat' = NoBeat
      BY <1>a, <3>1
    <3>2. CASE beat' = [beat EXCEPT !.at = "renewed", !.given = connection.token + 1]
      <4>1. beat' \in BeatState
        BY <2>1, <3>2, BeatMoves
      <4> QED
        BY <2>1, <3>2, <4>1 DEF BeatState
    <3> QED
      BY <2>2, <3>1, <3>2
  <2> QED
    BY <1>15, <2>1, <2>3 DEF RenewArrives
<1>16. CASE BeatRefused
  <2>1. beat' \in BeatState /\ beat'.at # "renewed"
    BY <1>16, <1>a DEF BeatRefused, BeatState
  <2> QED
    BY <1>16, <2>1 DEF BeatRefused
<1>17. CASE TakeRenewal
  <2>1. beat' = NoBeat \/ beat' = [beat EXCEPT !.at = "asked", !.token = beat.given, !.given = 0]
    BY <1>17 DEF TakeRenewal
  <2>2. beat' \in BeatState /\ beat'.at # "renewed"
    <3>1. beat.given \in 0 .. MaxTokens
      BY DEF BeatState
    <3>2. beat' \in BeatState
      BY <1>a, <2>1, <3>1, BeatMoves
    <3>3. beat'.at # "renewed"
      BY <1>a, <2>1 DEF BeatState
    <3> QED
      BY <3>2, <3>3
  <2>3. agent' = agent \/ agent' = [agent EXCEPT !.token = beat.given]
    BY <1>17 DEF TakeRenewal
  <2>4. beat.given \in 1 .. MaxTokens
    BY <1>17 DEF TakeRenewal, BeatState
  <2>5. agent' \in AgentState
    BY <2>3, <2>4 DEF AgentState
  <2> QED
    BY <1>17, <2>2, <2>5 DEF TakeRenewal
<1>18. CASE Pause
  <2>1. agent' \in AgentState
    BY <1>18 DEF Pause, AgentState
  <2> QED
    BY <1>18, <1>a, <2>1 DEF Pause
<1>19. CASE Connect
  <2>1. exchange' \in ExchangeState /\ exchange'.at # "answered"
    BY <1>19 DEF Connect, ExchangeState
  <2> QED
    BY <1>19, <2>1 DEF Connect
<1>20. CASE ExchangeArrives
  <2>1. PICK awaited \in BOOLEAN : Rotate(awaited)
    BY <1>20 DEF ExchangeArrives
  <2>2. connection' \in ConnectionState /\ connection.token + 1 \in (1 .. MaxTokens) \cap (0 .. MaxTokens)
        /\ mislaid' \in BOOLEAN
    BY <2>1 DEF Rotate, ConnectionState
  <2>3. PICK given \in 1 .. MaxTokens :
            \/ exchange' = [exchange EXCEPT !.at = "answered", !.given = given]
            \/ exchange.late > 0 /\ exchange' = [exchange EXCEPT !.late = @ - 1]
    BY <1>20, <2>2 DEF ExchangeArrives
  <2>4. exchange' \in ExchangeState /\ (exchange'.at = "answered" => exchange'.given # 0)
    <3>1. given \in 0 .. MaxTokens /\ given # 0
      OBVIOUS
    <3>2. exchange' \in ExchangeState
      BY <2>3, <3>1, ExchangeMoves
    <3> QED
      BY <2>3, <3>1, <3>2 DEF ExchangeState
  <2> QED
    BY <1>20, <2>2, <2>4 DEF ExchangeArrives
<1>21. CASE SaveAgent
  <2>0. exchange.given \in 1 .. MaxTokens
    BY <1>21 DEF SaveAgent, ExchangeState
  <2>1. agent' \in AgentState
    BY <1>21, <2>0 DEF SaveAgent, AgentState
  <2>2. exchange' \in ExchangeState /\ exchange'.at # "answered"
    BY <1>21, ExchangeMoves DEF SaveAgent, ExchangeState
  <2> QED
    BY <1>21, <2>1, <2>2 DEF SaveAgent
<1>22. ASSUME NEW late \in {0, 1}
       PROVE  GivenUp(late) \in ExchangeState /\ GivenUp(late).at # "answered"
  BY DEF GivenUp, ExchangeState
<1>23. CASE LoseExchange
  BY <1>22, <1>23 DEF LoseExchange, Mislay
<1>24. CASE ConnectionLapses
  BY <1>24 DEF ConnectionLapses, ConnectionState
<1>25. CASE RetryRecovery
  BY <1>25 DEF RetryRecovery, GateState
<1>26. CASE Copy
  <2>1. gate' \in GateState
    BY <1>26 DEF Copy, At, GateState
  <2>2. local' \in LocalState /\ local'.retrying = local.retrying
        /\ local'.command = local.command
    BY <1>26 DEF Copy, LocalState
  <2> QED
    BY <1>26, <2>1, <2>2 DEF Copy
<1>27. CASE Bind
  <2>1. gate.c \in Command
    BY <1>27 DEF Bind, At, GateState
  <2>2. local' \in LocalState /\ (local'.retrying => local'.command \in Command)
    BY <1>27, <2>1 DEF Bind, LocalState
  <2>3. gate' \in GateState
    BY <1>27, <2>1 DEF Bind, GateState, LocalState
  <2> QED
    BY <1>27, <2>2, <2>3 DEF Bind
<1>28. CASE Send
  <2>1. gate.c \in Command /\ gate' \in GateState
    BY <1>28 DEF Send, At, GateState
  <2>2. agent' \in AgentState
    <3>1. agent.pending \subseteq Command
      BY DEF AgentState
    <3> QED
      BY <1>28, <3>1, CompleteIsTyped DEF Send
  <2>3. [c |-> gate.c, fresh |-> gate.c \notin past, connected |-> ~connection.lapsed,
         admitted |-> ~expired] \in Post
    BY <2>1 DEF Post, ConnectionState
  <2>4. posts' \subseteq Post
    BY <1>28, <2>3 DEF Send
  <2> QED
    BY <1>28, <2>1, <2>2, <2>4 DEF Send
<1>29. CASE FinishLocally
  <2>1. gate' \in GateState
    BY <1>29 DEF FinishLocally, Acknowledged, At, GateState
  <2>2. local' \in LocalState /\ (local'.retrying => local'.command \in Command)
    BY <1>29 DEF FinishLocally, LocalState
  <2> QED
    BY <1>29, <2>1, <2>2 DEF FinishLocally
<1>30. CASE Succeed \/ GiveUp
  <2>1. gate.c \in Command
    BY <1>30 DEF Succeed, GiveUp, At, GateState
  <2>2. agent' \in AgentState
    BY <1>30, <2>1, CompleteIsTyped DEF Succeed, GiveUp
  <2>3. gate' \in GateState
    BY <1>30 DEF Succeed, GiveUp, GateState
  <2> QED
    BY <1>30, <2>2, <2>3 DEF Succeed, GiveUp
<1>31. CASE Reveal
  BY <1>31 DEF Reveal, LocalState
<1>32. CASE Restart
  <2>1. FailStarted \in AgentState
    BY FailStartedIsTyped
  <2>2. FailStarted.pending \subseteq Command
    BY <2>1 DEF AgentState
  <2>3. agent' \in AgentState
    BY <1>32, <2>1, <2>2, CompleteIsTyped DEF Restart, Restarted
  <2>4. beat' \in BeatState /\ beat'.at # "renewed"
    BY <1>32, <1>a DEF Restart, BeatState
  <2>5. gate' \in GateState
    BY <1>32 DEF Restart, GateState
  <2>6. exchange' \in ExchangeState /\ exchange'.at # "answered"
    BY <1>22, <1>32 DEF Restart
  <2> QED
    BY <1>32, <2>3, <2>4, <2>5, <2>6 DEF Restart
<1>33. CASE UserProcessDies
  BY <1>33 DEF UserProcessDies, NoUser, UserState
<1>34. CASE Pulse \/ TakePulse \/ \E c \in Command : UserDrops(c)
  <2>1. user' \in UserState
    <3>1. CASE Pulse
      BY <3>1 DEF Pulse, UserState, AgentState
    <3>2. CASE TakePulse
      BY <3>2 DEF TakePulse, UserState
    <3>3. CASE \E c \in Command : UserDrops(c)
      <4>1. PICK c \in Command : UserDrops(c)
        BY <3>3
      <4> QED
        BY <4>1 DEF UserDrops, UserState
    <3> QED
      BY <1>34, <3>1, <3>2, <3>3
  <2> QED
    BY <1>34, <2>1 DEF Pulse, TakePulse, UserDrops
<1>35. CASE SessionExpires
  BY <1>35 DEF SessionExpires
<1>36. CASE UNCHANGED vars
  BY <1>36 DEF vars
<1> QED
  BY <1>1, <1>2, <1>3, <1>4, <1>5, <1>6, <1>8, <1>9, <1>10, <1>11, <1>12, <1>13,
     <1>14, <1>15, <1>16, <1>17, <1>18, <1>19, <1>20, <1>21, <1>23, <1>24,
     <1>25, <1>26, <1>27, <1>28, <1>29, <1>30, <1>31, <1>32, <1>33, <1>34, <1>35,
     <1>36 DEF Next

LEMMA Typed == Spec => []TypeInv
BY InitTyped, TypeStep, PTL DEF Spec

\* Tokens, commands and receipts keep their types on both sides (the command of
\* a retried recovery and the tokens that answers carry included).
THEOREM TypeCorrect == Spec => []TypeOK
<1>1. TypeInv => TypeOK
  BY DEF TypeInv
<1> QED
  BY <1>1, Typed, PTL

-----------------------------------------------------------------------------
\* Tokens.

\* The server issues every token; a renewal renews the one it was sent with;
\* a ticket that was exchanged carries a token newer than any the client uses.
TokenOrder ==
    /\ beat.token <= agent.token /\ agent.token <= connection.token
    /\ beat.given <= connection.token /\ exchange.given <= connection.token
    /\ beat.at = "renewed" <=> beat.given # 0
    /\ beat.at = "renewed" => beat.token < beat.given
    /\ exchange.at = "answered" <=> exchange.given # 0
    /\ exchange.at = "answered" =>
          agent.token < exchange.given /\ beat.given < exchange.given

\* A paused agent calls nobody, and a refused token stays refused.
Refusals ==
    /\ agent.paused => beat.at = "idle"
    /\ beat.at = "refused" => ~Accepted(beat.token)

\* Only the token the agent still uses can be renewed into the newest one.
RenewalCounts ==
    beat.at = "renewed" /\ beat.given = connection.token => agent.token = beat.token

TokenInv == TokenOrder /\ Refusals /\ RenewalCounts /\ CredentialIsKept

LEMMA InitTokens == Init => TokenInv
BY DEF Init, NoBeat, NoExchange, TokenInv, TokenOrder, Refusals, RenewalCounts, CredentialIsKept

\* The fields the token invariant speaks of.
LEMMA TokenFields ==
    ASSUME TypeInv
    PROVE  /\ connection.token \in Nat /\ connection.token > 0
           /\ agent.token \in Nat /\ agent.token > 0
           /\ beat.token \in Nat /\ beat.given \in Nat /\ exchange.given \in Nat
           /\ connection.token < MaxTokens => connection.token + 1 \in Nat
BY BoundsAreNat DEF TypeInv, TypeOK, ConnectionState, AgentState, BeatState, ExchangeState

\* A receipt changes neither the token nor the pause.
LEMMA CompleteKeepsToken ==
    ASSUME NEW a \in AgentState, NEW c, NEW ok \in BOOLEAN
    PROVE  /\ Complete(a, c, ok).token = a.token
           /\ Complete(a, c, ok).paused = a.paused
BY DEF Complete, AgentState

TokenUnchanged ==
    /\ connection' = connection /\ exchange' = exchange /\ mislaid' = mislaid
    /\ beat' = beat /\ agent'.token = agent.token /\ agent'.paused = agent.paused

LEMMA TokenStutter ==
    ASSUME TokenInv, TokenUnchanged
    PROVE  TokenInv'
BY DEF TokenUnchanged, TokenInv, TokenOrder, Refusals, RenewalCounts, CredentialIsKept, Accepted

\* No step of the session gate, the user process or the rows touches a token.
LEMMA OthersKeepTokens ==
    ASSUME TypeInv, [Next]_vars,
           ~ \/ SendHeartbeat \/ HeartbeatArrives \/ MergeHeartbeat \/ LoseHeartbeat
             \/ RenewArrives \/ BeatRefused \/ TakeRenewal \/ Pause
             \/ Connect \/ ExchangeArrives \/ SaveAgent \/ LoseExchange \/ ConnectionLapses
             \/ Restart
    PROVE  TokenUnchanged
<1> USE DEF TokenUnchanged, clientVars, serverVars, tokenVars
<1>a. agent \in AgentState
  BY DEF TypeInv, TypeOK
<1>1. ASSUME NEW c \in Command,
             Issue(c) \/ ServerMinutePasses(c) \/ ClientMinutePasses(c) \/ UserActs(c)
      PROVE  TokenUnchanged
  BY <1>1 DEF Issue, ServerMinutePasses, ClientMinutePasses, UserActs
<1>2. ASSUME NEW c \in Command, CommandStart(c) \/ Accept(c)
      PROVE  TokenUnchanged
  <2>1. agent' \in {agent, Complete(agent, c, FALSE), [agent EXCEPT !.started = @ \cup {c}]}
    BY <1>2 DEF CommandStart, Accept
  <2>2. CASE agent' = Complete(agent, c, FALSE)
    BY <1>a, <1>2, <2>2, CompleteKeepsToken DEF CommandStart, Accept
  <2>3. CASE agent' = [agent EXCEPT !.started = @ \cup {c}]
    BY <1>a, <1>2, <2>3 DEF CommandStart, Accept, AgentState
  <2>4. CASE agent' = agent
    BY <1>2, <2>4 DEF CommandStart, Accept
  <2> QED
    BY <2>1, <2>2, <2>3, <2>4
<1>3. ASSUME NEW c \in Command, NEW ok \in BOOLEAN, UserReports(c, ok)
      PROVE  TokenUnchanged
  BY <1>a, <1>3, CompleteKeepsToken DEF UserReports
<1>4. ASSUME NEW p \in posts, FinishArrives(p) \/ RecoverArrives(p) \/ LosePost(p)
      PROVE  TokenUnchanged
  BY <1>4 DEF FinishArrives, RecoverArrives, LosePost
<1>5. CASE RetryRecovery \/ Reveal \/ UserProcessDies
  BY <1>5 DEF RetryRecovery, Reveal, UserProcessDies
<1>9. CASE Pulse \/ TakePulse \/ SessionExpires \/ \E c \in Command : UserDrops(c)
  BY <1>9 DEF Pulse, TakePulse, SessionExpires, UserDrops
<1>8. CASE Copy \/ Bind \/ FinishLocally
  BY <1>8 DEF Copy, Bind, FinishLocally
<1>6. CASE Send \/ Succeed \/ GiveUp
  <2>1. \/ agent' = agent
        \/ \E c \in {gate.c, gate.prior}, ok \in BOOLEAN : agent' = Complete(agent, c, ok)
    BY <1>6 DEF Send, Succeed, GiveUp
  <2>2. agent'.token = agent.token /\ agent'.paused = agent.paused
    BY <1>a, <2>1, CompleteKeepsToken
  <2> QED
    BY <1>6, <2>2 DEF Send, Succeed, GiveUp
<1>7. CASE UNCHANGED vars
  BY <1>7 DEF vars
<1> QED
  BY <1>1, <1>2, <1>3, <1>4, <1>5, <1>6, <1>7, <1>8, <1>9 DEF Next

LEMMA RestartKeepsToken ==
    ASSUME TypeInv, Restart
    PROVE  agent'.token = agent.token /\ agent'.paused = agent.paused
<1>1. agent \in AgentState
  BY DEF TypeInv, TypeOK
<1>2. FailStarted \in AgentState
  BY <1>1, FailStartedIsTyped
<1>3. FailStarted.token = agent.token /\ FailStarted.paused = agent.paused
  BY <1>1 DEF FailStarted, AgentState
<1> QED
  BY <1>2, <1>3, CompleteKeepsToken DEF Restart, Restarted

LEMMA TokenStep ==
    ASSUME TypeInv, TokenInv, [Next]_vars
    PROVE  TokenInv'
<1> USE TokenFields
<1> USE DEF TokenInv, TokenOrder, Refusals, RenewalCounts, CredentialIsKept, Accepted,
            clientVars, serverVars, tokenVars
<1>a. /\ agent \in AgentState /\ beat \in BeatState
      /\ exchange \in ExchangeState /\ connection \in ConnectionState
  BY DEF TypeInv, TypeOK
<1>b. NoBeat.at = "idle" /\ NoBeat.token = 0 /\ NoBeat.given = 0
  BY DEF NoBeat
<1>1. CASE SendHeartbeat
  <2>1. beat'.at \in {"asked", "renewing"} /\ beat'.token = agent.token /\ beat'.given = 0
    BY <1>1 DEF SendHeartbeat, NoBeat
  <2> QED
    BY <1>1, <2>1 DEF SendHeartbeat
<1>2. CASE HeartbeatArrives
  <2>1. \/ beat' = NoBeat
        \/ beat'.at = "answered" /\ beat'.token = beat.token /\ beat'.given = beat.given
    BY <1>a, <1>2 DEF HeartbeatArrives, BeatState
  <2> QED
    BY <1>2, <1>b, <2>1 DEF HeartbeatArrives
<1>3. CASE MergeHeartbeat
  <2>1. agent'.token = agent.token /\ agent'.paused = agent.paused
    BY <1>a, <1>3 DEF MergeHeartbeat, Merged, AgentState
  <2> QED
    BY <1>3, <1>b, <2>1 DEF MergeHeartbeat
<1>4. CASE LoseHeartbeat
  <2>1. \/ beat' = NoBeat
        \/ /\ beat.at \in {"asked", "renewing"} /\ beat'.at = beat.at
           /\ beat'.token = beat.token /\ beat'.given = beat.given
    BY <1>a, <1>4 DEF LoseHeartbeat, BeatState
  <2>2. mislaid \/ beat.given = connection.token => mislaid'
    BY <1>4 DEF LoseHeartbeat, Mislay
  <2>3. connection' = connection /\ exchange' = exchange /\ agent' = agent
    BY <1>4 DEF LoseHeartbeat
  <2> QED
    BY <1>b, <2>1, <2>2, <2>3
<1>5. CASE RenewArrives
  <2>1. /\ connection.token < MaxTokens
        /\ connection'.token = connection.token + 1 /\ connection'.lapsed = FALSE
        /\ ~beat.waiting => mislaid'
        /\ beat.at = "renewing" /\ beat.token = connection.token
        /\ exchange' = exchange /\ agent' = agent
    BY <1>5 DEF RenewArrives, Rotate
  <2>2. \/ beat.waiting /\ beat'.at = "renewed" /\ beat'.token = beat.token
           /\ beat'.given = connection.token + 1
        \/ ~beat.waiting /\ beat' = NoBeat
    BY <1>a, <1>5 DEF RenewArrives, BeatState
  <2> QED
    BY <1>b, <2>1, <2>2
<1>6. CASE BeatRefused
  <2>1. \/ beat' = NoBeat
        \/ beat'.at = "refused" /\ beat'.token = beat.token /\ beat'.given = beat.given
    BY <1>a, <1>6 DEF BeatRefused, BeatState
  <2> QED
    BY <1>6, <1>b, <2>1 DEF BeatRefused
<1>7. CASE TakeRenewal
  <2>1. CASE agent.token = beat.token
    <3>1. agent'.token = beat.given /\ agent'.paused = agent.paused
      BY <1>a, <1>7, <2>1 DEF TakeRenewal, AgentState
    <3>2. \/ beat' = NoBeat
          \/ beat'.at = "asked" /\ beat'.token = beat.given /\ beat'.given = 0
      BY <1>a, <1>7, <2>1 DEF TakeRenewal, BeatState
    <3> QED
      BY <1>7, <1>b, <3>1, <3>2 DEF TakeRenewal
  <2>2. CASE agent.token # beat.token
    BY <1>7, <1>b, <2>2 DEF TakeRenewal
  <2> QED
    BY <2>1, <2>2
<1>8. CASE Pause
  <2>1. /\ agent'.token = agent.token
        /\ agent'.paused => agent.paused \/ agent.token = beat.token
    BY <1>a, <1>8 DEF Pause, AgentState
  <2>2. /\ beat.at = "refused" /\ beat' = NoBeat
        /\ connection' = connection /\ exchange' = exchange /\ mislaid' = mislaid
    BY <1>8 DEF Pause
  <2> QED
    BY <1>b, <2>1, <2>2
<1>9. CASE Connect
  <2>1. exchange'.at = "asked" /\ exchange'.given = exchange.given
    BY <1>a, <1>9 DEF Connect, ExchangeState
  <2> QED
    BY <1>9, <2>1 DEF Connect
<1>10. CASE ExchangeArrives
  <2>1. /\ connection.token < MaxTokens
        /\ connection'.token = connection.token + 1 /\ connection'.lapsed = FALSE
        /\ beat' = beat /\ agent' = agent
    BY <1>10 DEF ExchangeArrives, Rotate
  <2>2. \/ exchange'.at = "answered" /\ exchange'.given = connection.token + 1
        \/ mislaid' = TRUE /\ exchange'.at = exchange.at /\ exchange'.given = exchange.given
    BY <1>a, <1>10 DEF ExchangeArrives, Rotate, ExchangeState
  <2> QED
    BY <2>1, <2>2
<1>11. CASE SaveAgent
  <2>1. agent'.token = exchange.given /\ agent'.paused = FALSE
    BY <1>a, <1>11 DEF SaveAgent, AgentState
  <2>2. exchange'.at = "idle" /\ exchange'.given = 0
    BY <1>a, <1>11 DEF SaveAgent, ExchangeState
  <2> QED
    BY <1>11, <2>1, <2>2 DEF SaveAgent
<1>12. CASE LoseExchange
  <2>1. exchange'.at = "idle" /\ exchange'.given = 0
    BY <1>12 DEF LoseExchange, GivenUp
  <2>2. mislaid \/ exchange.given = connection.token => mislaid'
    BY <1>12 DEF LoseExchange, Mislay
  <2>3. connection' = connection /\ beat' = beat /\ agent' = agent
    BY <1>12 DEF LoseExchange
  <2> QED
    BY <2>1, <2>2, <2>3
<1>13. CASE ConnectionLapses
  <2>1. connection'.token = connection.token /\ connection'.lapsed
    BY <1>a, <1>13 DEF ConnectionLapses, ConnectionState
  <2> QED
    BY <1>13, <2>1 DEF ConnectionLapses
<1>14. CASE Restart
  <2>1. exchange'.at = "idle" /\ exchange'.given = 0
    BY <1>14 DEF Restart, GivenUp
  <2>2. \/ beat' = NoBeat
        \/ /\ beat.at \in {"asked", "renewing"} /\ beat'.at = beat.at
           /\ beat'.token = beat.token /\ beat'.given = beat.given
    BY <1>a, <1>14 DEF Restart, BeatState
  <2>3. /\ mislaid \/ connection.token \in {beat.given, exchange.given} => mislaid'
        /\ connection' = connection
    BY <1>14 DEF Restart
  <2> QED
    BY <1>14, <1>b, <2>1, <2>2, <2>3, RestartKeepsToken
<1> QED
  BY <1>1, <1>2, <1>3, <1>4, <1>5, <1>6, <1>7, <1>8, <1>9, <1>10, <1>11, <1>12, <1>13,
     <1>14, OthersKeepTokens, TokenStutter

LEMMA TokensCorrect == Spec => []TokenInv
BY InitTokens, TokenStep, Typed, PTL DEF Spec

\* Renewals, connects and launches that cross each other, and late refusals,
\* never lock a connected agent out: whatever is lost or late, it pauses only
\* over a token the server refuses, and if it misses the newest token, that is
\* on its way or its answer was lost.
THEOREM NeverLockedOut == Spec => []CredentialIsKept
<1>1. TokenInv => CredentialIsKept
  BY DEF TokenInv
<1> QED
  BY <1>1, TokensCorrect, PTL

-----------------------------------------------------------------------------
\* Commands on the client.

\* A command is pending or completed, not both, and completed one way; what was
\* started is pending.
Filed ==
    /\ agent.started \subseteq agent.pending
    /\ agent.pending \cap Completed = {}
    /\ agent.ok \cap agent.failed = {}

\* A heartbeat reports a success only if it was recorded.
Reported == beat.ok \subseteq agent.ok

\* A recovery that is still retried is bound to a started command, and so is
\* the holder of the gate; an earlier command it replaces is another one.
Bound ==
    /\ local.retrying => Action[local.command] = "recover"
    /\ local.retrying /\ ~local.finished => local.command \in agent.started
    /\ gate # Free =>
          /\ gate.c \in agent.started /\ gate.prior # gate.c
          /\ Action[gate.c] # "open"
          /\ gate.at = "bound" /\ Action[gate.c] = "recover" => local.command = gate.c
          /\ gate.at = "done" => local.finished
          /\ gate.at = "entered" => gate.prior = None

\* What the user process was told or did was started before.  It is told a
\* second time only of a command recorded as done, by the one pulse that was
\* under way before the command was started.
Told ==
    /\ \A c \in user.told \cup user.acted : Action[c] = "open"
    /\ \A c \in user.acted : opened[c] > 0
    /\ user.asking \cap user.told = {}
    /\ \A c \in Command :
          /\ c \in user.told \/ opened[c] > 0 => c \in agent.started \cup Completed
          /\ c \in user.told /\ opened[c] > 0 =>
                opened[c] = 1 /\ c \in agent.ok /\ c \notin user.offered
          /\ c \in user.asking \cap user.offered => opened[c] = 0
          /\ opened[c] > 1 =>
                /\ opened[c] = 2 /\ c \in agent.ok
                /\ c \notin user.told \cup user.asking \cup user.offered

ClientInv == Filed /\ Reported /\ Bound /\ Told

\* What every step does to the receipts: outcomes stay, and what was started
\* stays started until it is completed.
Advance ==
    /\ agent.ok \subseteq agent'.ok /\ agent.failed \subseteq agent'.failed
    /\ agent.started \subseteq agent'.started \cup Completed'
    /\ Filed'

LEMMA InitClient == Init => ClientInv
BY DEF Init, NoBeat, NoUser, ClientInv, Filed, Reported, Bound, Told, Completed, Free

LEMMA AgentSets ==
    ASSUME TypeInv
    PROVE  /\ agent \in AgentState
           /\ agent.pending \subseteq Command /\ agent.started \subseteq Command
           /\ agent.ok \subseteq Command /\ agent.failed \subseteq Command
BY DEF TypeInv, TypeOK, AgentState

LEMMA CompleteFields ==
    ASSUME NEW a \in AgentState, NEW c
    PROVE  /\ Complete(a, c, TRUE).pending = a.pending \ {c}
           /\ Complete(a, c, TRUE).started = a.started \ {c}
           /\ Complete(a, c, TRUE).ok = a.ok \cup {c}
           /\ Complete(a, c, TRUE).failed = a.failed \ {c}
           /\ Complete(a, c, FALSE).pending = a.pending \ {c}
           /\ Complete(a, c, FALSE).started = a.started \ {c}
           /\ Complete(a, c, FALSE).ok = a.ok \ {c}
           /\ Complete(a, c, FALSE).failed = a.failed \cup {c}
BY DEF Complete, AgentState

\* A pending command is completed.
LEMMA SettleAdvances ==
    ASSUME TypeInv, Filed,
           NEW c \in agent.pending, NEW ok \in BOOLEAN, agent' = Complete(agent, c, ok)
    PROVE  Advance /\ agent'.started = agent.started \ {c}
<1>0. agent \in AgentState
  BY AgentSets
<1>1. /\ agent'.pending = agent.pending \ {c} /\ agent'.started = agent.started \ {c}
      /\ \/ agent'.ok = agent.ok \cup {c} /\ agent'.failed = agent.failed \ {c}
         \/ agent'.ok = agent.ok \ {c} /\ agent'.failed = agent.failed \cup {c}
  <2>1. CASE ok = TRUE
    BY <1>0, <2>1, CompleteFields
  <2>2. CASE ok = FALSE
    BY <1>0, <2>2, CompleteFields
  <2> QED
    BY <2>1, <2>2
<1> QED
  BY <1>1 DEF Advance, Filed, Completed

\* A pending command is started.
LEMMA StartAdvances ==
    ASSUME TypeInv, Filed,
           NEW c \in agent.pending, agent' = [agent EXCEPT !.started = @ \cup {c}]
    PROVE  Advance /\ agent'.started = agent.started \cup {c}
<1>1. /\ agent'.pending = agent.pending /\ agent'.started = agent.started \cup {c}
      /\ agent'.ok = agent.ok /\ agent'.failed = agent.failed
  BY AgentSets DEF AgentState
<1> QED
  BY <1>1 DEF Advance, Filed, Completed

\* The receipts stay, and the pending commands are merged with the server's.
LEMMA MergeAdvances ==
    ASSUME TypeInv, Filed, agent' = Merged
    PROVE  Advance /\ agent'.started = agent.started
<1>1. /\ agent'.started = agent.started
      /\ agent'.ok = agent.ok /\ agent'.failed = agent.failed
      /\ agent'.pending = (agent.pending \cap ((beat.commands \ stale) \cup agent.started))
                            \cup ((beat.commands \ stale) \ Completed)
  BY AgentSets DEF AgentState, Merged
<1> QED
  BY <1>1 DEF Advance, Filed, Completed

LEMMA SameAdvances ==
    ASSUME TypeInv, Filed,
           agent'.pending = agent.pending, agent'.started = agent.started,
           agent'.ok = agent.ok, agent'.failed = agent.failed
    PROVE  Advance
BY DEF Advance, Filed, Completed

LEMMA CompletedFields ==
    ASSUME NEW a \in AgentState, NEW c, agent' = Complete(a, c, TRUE)
    PROVE  /\ agent'.pending = a.pending \ {c} /\ agent'.started = a.started \ {c}
           /\ agent'.ok = a.ok \cup {c} /\ agent'.failed = a.failed \ {c}
BY CompleteFields

LEMMA FailedFields ==
    ASSUME NEW a \in AgentState, NEW c, agent' = Complete(a, c, FALSE)
    PROVE  agent'.ok \subseteq a.ok
<1>1. agent'.ok = a.ok \ {c}
  BY CompleteFields
<1> QED
  BY <1>1

\* After a restart only recoveries are still started.
LEMMA RestartAdvances ==
    ASSUME TypeInv, Filed, agent' = Restarted
    PROVE  /\ Advance
           /\ \A c \in agent.started :
                 Action[c] = "recover" /\ ~local.finished => c \in agent'.started
<1> DEFINE kept == agent.pending \ (stale \ agent.started)
           lost == {c \in agent.started : c \notin kept \/ Action[c] # "recover"}
<1>1. /\ FailStarted.pending = kept \ lost /\ FailStarted.started = agent.started \ lost
      /\ FailStarted.ok = agent.ok \ lost /\ FailStarted.failed = agent.failed \cup lost
  BY AgentSets DEF FailStarted, AgentState
<1>2. /\ agent.ok \subseteq FailStarted.ok /\ agent.failed \subseteq FailStarted.failed
      /\ agent.started \subseteq FailStarted.started \cup FailStarted.failed
      /\ FailStarted.started \subseteq FailStarted.pending
      /\ FailStarted.pending \cap (FailStarted.ok \cup FailStarted.failed) = {}
      /\ FailStarted.ok \cap FailStarted.failed = {}
      /\ \A c \in agent.started : Action[c] = "recover" => c \in FailStarted.started
  BY <1>1 DEF Filed, Completed
<1>3. CASE agent' = FailStarted
  BY <1>2, <1>3 DEF Advance, Filed, Completed
<1>4. CASE /\ local.finished /\ local.command \in FailStarted.pending
           /\ agent' = Complete(FailStarted, local.command, TRUE)
  <2>1. FailStarted \in AgentState
    BY AgentSets, FailStartedIsTyped
  <2>2. PICK c \in FailStarted.pending : agent' = Complete(FailStarted, c, TRUE)
    BY <1>4
  <2>3. /\ agent'.pending = FailStarted.pending \ {c}
        /\ agent'.started = FailStarted.started \ {c}
        /\ agent'.ok = FailStarted.ok \cup {c}
        /\ agent'.failed = FailStarted.failed \ {c}
    BY <2>1, <2>2, CompletedFields
  <2>4. /\ agent.ok \subseteq agent'.ok
        /\ c \notin agent.failed /\ agent.failed \subseteq agent'.failed
    BY <1>2, <2>2, <2>3
  <2>5. agent.started \subseteq agent'.started \cup (agent'.ok \cup agent'.failed)
    BY <1>2, <2>3
  <2>6. /\ agent'.started \subseteq agent'.pending
        /\ agent'.pending \cap (agent'.ok \cup agent'.failed) = {}
    BY <1>2, <2>3
  <2>7. agent'.ok \cap agent'.failed = {}
    BY <1>2, <2>3
  <2> QED
    BY <1>4, <2>4, <2>5, <2>6, <2>7 DEF Advance, Filed, Completed
<1> QED
  BY <1>3, <1>4 DEF Restarted

LEMMA StepAdvances ==
    ASSUME TypeInv, ClientInv, [Next]_vars
    PROVE  Advance
<1> USE DEF clientVars, serverVars, tokenVars
<1>a. Filed
  BY DEF ClientInv
<1>b. agent' = agent => Advance
  BY <1>a, SameAdvances
<1>1. ASSUME NEW c \in Command,
             Issue(c) \/ ServerMinutePasses(c) \/ ClientMinutePasses(c) \/ UserActs(c)
      PROVE  Advance
  BY <1>1, <1>b DEF Issue, ServerMinutePasses, ClientMinutePasses, UserActs
<1>2. ASSUME NEW c \in Command, CommandStart(c) \/ Accept(c)
      PROVE  Advance
  BY <1>2, <1>a, <1>b, SettleAdvances, StartAdvances
     DEF CommandStart, Accept, Startable, Found
<1>3. ASSUME NEW c \in Command, NEW ok \in BOOLEAN, UserReports(c, ok)
      PROVE  Advance
  BY <1>3, <1>a, <1>b, SettleAdvances DEF UserReports, Filed
<1>4. ASSUME NEW p \in posts, FinishArrives(p) \/ RecoverArrives(p) \/ LosePost(p)
      PROVE  Advance
  BY <1>4, <1>b DEF FinishArrives, RecoverArrives, LosePost
<1>5. CASE MergeHeartbeat
  BY <1>5, <1>a, <1>b, MergeAdvances DEF MergeHeartbeat
<1>6. CASE \/ SendHeartbeat \/ HeartbeatArrives \/ RenewArrives \/ BeatRefused
           \/ LoseHeartbeat
  BY <1>6, <1>b DEF SendHeartbeat, HeartbeatArrives, RenewArrives, BeatRefused, LoseHeartbeat
<1>7. CASE TakeRenewal
  <2>1. agent' = agent \/ agent' = [agent EXCEPT !.token = beat.given]
    BY <1>7 DEF TakeRenewal
  <2> QED
    BY <2>1, <1>a, AgentSets, SameAdvances DEF AgentState
<1>8. CASE Pause \/ SaveAgent
  <2>1. /\ agent'.pending = agent.pending /\ agent'.started = agent.started
        /\ agent'.ok = agent.ok /\ agent'.failed = agent.failed
    BY <1>8, AgentSets DEF Pause, SaveAgent, AgentState
  <2> QED
    BY <2>1, <1>a, SameAdvances
<1>9. CASE Connect \/ ExchangeArrives \/ LoseExchange \/ ConnectionLapses
  BY <1>9, <1>b DEF Connect, ExchangeArrives, LoseExchange, ConnectionLapses
<1>10. CASE RetryRecovery \/ Reveal \/ UserProcessDies
  BY <1>10, <1>b DEF RetryRecovery, Reveal, UserProcessDies
<1>16. CASE Pulse \/ TakePulse \/ SessionExpires \/ \E c \in Command : UserDrops(c)
  BY <1>16, <1>b DEF Pulse, TakePulse, SessionExpires, UserDrops
<1>11. CASE Copy \/ Bind \/ FinishLocally
  BY <1>11, <1>b DEF Copy, Bind, FinishLocally
<1>12. CASE Send
  BY <1>12, <1>a, <1>b, SettleAdvances DEF Send
<1>13. CASE Succeed \/ GiveUp
  <2>1. gate.c \in agent.pending
    BY <1>13 DEF Succeed, GiveUp, At, ClientInv, Bound, Filed
  <2> QED
    BY <1>13, <2>1, <1>a, <1>b, SettleAdvances DEF Succeed, GiveUp
<1>14. CASE Restart
  BY <1>14, <1>a, RestartAdvances DEF Restart
<1>15. CASE UNCHANGED vars
  BY <1>15, <1>b DEF vars
<1> QED
  BY <1>1, <1>2, <1>3, <1>4, <1>5, <1>6, <1>7, <1>8, <1>9, <1>10, <1>11, <1>12, <1>13,
     <1>14, <1>15, <1>16 DEF Next

\* A step that leaves the user process alone.
LEMMA ToldStutter ==
    ASSUME TypeInv, ClientInv, Advance, user' = user, opened' = opened
    PROVE  Told'
<1>1. user.told \subseteq Command /\ user.acted \subseteq Command
  BY DEF TypeInv, TypeOK, UserState
<1> QED
  BY <1>1 DEF ClientInv, Told, Advance, Completed

\* A step that leaves the gate and the recovery alone and completes neither's
\* command.
LEMMA BoundStutter ==
    ASSUME ClientInv, gate' = gate, local' = local,
           gate # Free => gate.c \in agent'.started,
           local.retrying /\ ~local.finished => local.command \in agent'.started
    PROVE  Bound'
BY DEF ClientInv, Bound

LEMMA ReportedStutter ==
    ASSUME ClientInv, Advance, beat' = beat \/ beat'.ok = beat.ok \/ beat'.ok = {}
    PROVE  Reported'
BY DEF ClientInv, Reported, Advance

\* The commands that hold the gate or the recovery are not those of the user
\* process.
LEMMA StartedStays ==
    ASSUME ClientInv, agent.started \subseteq agent'.started
    PROVE  /\ gate # Free => gate.c \in agent'.started
           /\ local.retrying /\ ~local.finished => local.command \in agent'.started
BY DEF ClientInv, Bound

LEMMA UntoldStays ==
    ASSUME user \in UserState, NEW c, Tell(c, FALSE)
    PROVE  user'.told = user.told
BY DEF Tell, UserState

LEMMA ClientStep ==
    ASSUME TypeInv, ClientInv, [Next]_vars
    PROVE  ClientInv'
<1> USE DEF clientVars, serverVars, tokenVars
<1>a. Advance /\ Filed'
  BY StepAdvances DEF Advance
<1>b. /\ Filed /\ Reported /\ Bound /\ Told
  BY DEF ClientInv
<1>c. /\ user.told \subseteq Command /\ user.acted \subseteq Command
      /\ user.asking \subseteq Command /\ user.offered \subseteq Command
      /\ user \in UserState /\ opened \in [Command -> Nat]
  BY DEF TypeInv, TypeOK, UserState
<1>d. agent \in AgentState /\ beat \in BeatState /\ local \in LocalState /\ gate \in GateState
  BY DEF TypeInv, TypeOK
<1>e. ASSUME agent' = agent, gate' = gate, local' = local
      PROVE  Bound'
  BY <1>b, <1>e, StartedStays, BoundStutter
<1>f. ASSUME user' = user, opened' = opened, agent' = agent, gate' = gate, local' = local,
             beat' = beat \/ beat'.ok = beat.ok \/ beat'.ok = {}
      PROVE  ClientInv'
  BY <1>a, <1>e, <1>f, ToldStutter, ReportedStutter DEF ClientInv
<1>g. ASSUME user' = user, opened' = opened, beat' = beat, Bound'
      PROVE  ClientInv'
  BY <1>a, <1>g, ToldStutter, ReportedStutter DEF ClientInv
<1>1. ASSUME NEW c \in Command, Issue(c) \/ ServerMinutePasses(c) \/ ClientMinutePasses(c)
      PROVE  ClientInv'
  BY <1>1, <1>f DEF Issue, ServerMinutePasses, ClientMinutePasses
<1>2. ASSUME NEW c \in Command, CommandStart(c)
      PROVE  ClientInv'
  <2>1. PICK heard \in SUBSET {c} :
            user' = [user EXCEPT !.asking = @ \ {c}, !.told = @ \cup heard]
    BY <1>2 DEF CommandStart, Tell
  <2>2. /\ user'.offered = user.offered /\ user'.acted = user.acted
        /\ user'.asking = user.asking \ {c} /\ user'.told = user.told \cup heard
        /\ opened' = opened /\ c \in user.asking /\ Action[c] = "open"
    BY <1>2, <1>c, <2>1 DEF CommandStart, UserState
  <2>3. CASE agent' = agent /\ c \in Completed
    <3>1. heard # {} => c \in agent.ok
      <4>1. c \notin user.told
        BY <1>b, <2>2 DEF Told
      <4>2. Tell(c, c \in agent.ok)
        BY <1>2, <2>3 DEF CommandStart, Startable
      <4>3. CASE c \notin agent.ok
        <5>1. Tell(c, FALSE)
          BY <4>2, <4>3 DEF Tell
        <5> QED
          BY <1>c, <2>2, <4>1, <5>1, UntoldStays
      <4> QED
        BY <4>3
    <3>2. Told'
      BY <1>b, <1>c, <2>2, <2>3, <3>1 DEF Told, Completed
    <3>3. Bound'
      BY <1>2, <1>e, <2>3 DEF CommandStart
    <3> QED
      BY <1>2, <1>a, <3>2, <3>3, ReportedStutter DEF CommandStart, ClientInv
  <2>4. CASE Startable(c)
    <3>1. c \in agent.pending /\ c \notin agent.started /\ c \notin Completed
      BY <2>4 DEF Startable, Found
    <3>2. \/ agent' = Complete(agent, c, FALSE) /\ user'.told = user.told
          \/ agent' = [agent EXCEPT !.started = @ \cup {c}]
      BY <1>2, <1>c, <3>1, UntoldStays DEF CommandStart
    <3>3. agent.started \subseteq agent'.started
      BY <1>b, <3>1, <3>2, SettleAdvances, StartAdvances
    <3>4. user'.told = user.told \/ c \in agent'.started
      BY <1>b, <3>1, <3>2, StartAdvances
    <3>5. opened[c] = 0
      BY <1>b, <1>c, <3>1 DEF Told
    <3>6. Told'
      BY <1>a, <1>b, <1>c, <2>2, <3>4, <3>5 DEF Told, Advance, Completed
    <3>7. Bound'
      BY <1>2, <3>3, StartedStays, BoundStutter DEF CommandStart
    <3> QED
      BY <1>2, <1>a, <3>6, <3>7, ReportedStutter DEF CommandStart, ClientInv
  <2> QED
    BY <1>2, <2>3, <2>4 DEF CommandStart
<1>3. ASSUME NEW c \in Command, UserActs(c)
      PROVE  ClientInv'
  <2>1. /\ c \in user.told /\ opened' = [opened EXCEPT ![c] = @ + 1]
        /\ user'.told = user.told \ {c} /\ user'.acted = user.acted \cup {c}
        /\ agent' = agent /\ gate' = gate /\ local' = local /\ beat' = beat
    BY <1>3 DEF UserActs
  <2>2. /\ user'.asking = user.asking /\ user'.offered = user.offered
        /\ Action[c] = "open" /\ c \in agent.started \cup Completed
        /\ c \notin user.asking
        /\ opened[c] = 0 \/ (opened[c] = 1 /\ c \in agent.ok /\ c \notin user.offered)
    BY <1>3, <1>b, <1>c, <2>1 DEF UserActs, Told, UserState
  <2>3. /\ opened'[c] = opened[c] + 1
        /\ \A d \in Command : d # c => opened'[d] = opened[d]
    BY <1>c, <2>1
  <2>4. Told'
    BY <1>b, <1>c, <2>1, <2>2, <2>3 DEF Told, Completed
  <2> QED
    BY <1>a, <1>e, <2>1, <2>4, ReportedStutter DEF ClientInv
<1>4. ASSUME NEW c \in Command, NEW ok \in BOOLEAN, UserReports(c, ok)
      PROVE  ClientInv'
  <2>1. /\ gate = Free /\ c \in user.acted /\ gate' = gate /\ local' = local
        /\ beat' = beat /\ opened' = opened
        /\ \/ agent' = agent
           \/ c \in agent.pending /\ agent' = Complete(agent, c, ok)
    BY <1>4, <1>b DEF UserReports, Filed
  <2>2. Action[c] = "open"
    BY <1>b, <2>1 DEF Told
  <2>3. agent' = agent \/ agent'.started = agent.started \ {c}
    BY <1>b, <2>1, SettleAdvances
  <2>4. Bound'
    BY <1>b, <2>1, <2>2, <2>3, BoundStutter DEF Bound
  <2>5. /\ user'.told = user.told /\ user'.acted = user.acted \ {c}
        /\ user'.asking = user.asking /\ user'.offered = user.offered
    BY <1>4, <1>c DEF UserReports, UserState
  <2>6. Told'
    BY <1>a, <1>b, <1>c, <2>1, <2>5 DEF Told, Advance, Completed
  <2> QED
    BY <1>a, <2>1, <2>4, <2>6, ReportedStutter DEF ClientInv
<1>5. ASSUME NEW c \in Command, Accept(c)
      PROVE  ClientInv'
  <2>1. /\ c \in agent.pending /\ Action[c] # "open" /\ local' = local
        /\ agent' = [agent EXCEPT !.started = @ \cup {c}]
        /\ gate' = [at |-> "entered", c |-> c, prior |-> None]
    BY <1>5 DEF Accept, Startable, Found
  <2>2. agent'.started = agent.started \cup {c}
    BY <1>b, <2>1, StartAdvances
  <2>3. Bound'
    BY <1>b, <2>1, <2>2, NoneIsNoCommand DEF Bound
  <2>4. /\ user'.told = user.told /\ user'.acted = user.acted
        /\ user'.asking = user.asking \ {c} /\ user'.offered = user.offered
        /\ opened' = opened /\ beat' = beat
    BY <1>5, <1>c DEF Accept, UserState
  <2>5. Told'
    BY <1>a, <1>b, <1>c, <2>4 DEF Told, Advance, Completed
  <2> QED
    BY <1>a, <2>3, <2>4, <2>5, ReportedStutter DEF ClientInv
<1>6. ASSUME NEW p \in posts, FinishArrives(p) \/ RecoverArrives(p)
      PROVE  ClientInv'
  <2>1. PICK outcome \in {"ok", "refused"} : Answer(p.c, outcome)
    BY <1>6 DEF FinishArrives, RecoverArrives, RecoverCommits, RecoverReplays, RecoverRefused
  <2>2. \/ gate' = gate
        \/ /\ gate # Free /\ gate'.at = outcome
           /\ gate'.c = gate.c /\ gate'.prior = gate.prior
    BY <1>d, <2>1 DEF Answer, GateState
  <2>3. agent' = agent /\ local' = local /\ user' = user /\ opened' = opened /\ beat' = beat
    BY <1>6 DEF FinishArrives, RecoverArrives
  <2>4. Bound'
    BY <1>b, <2>2, <2>3 DEF Bound
  <2> QED
    BY <1>g, <2>3, <2>4
<1>7. ASSUME NEW p \in posts, LosePost(p)
      PROVE  ClientInv'
  BY <1>7, <1>f DEF LosePost
<1>8. CASE SendHeartbeat
  <2>1. beat'.ok = agent.results \cap agent.ok
    BY <1>8 DEF SendHeartbeat, NoBeat
  <2>2. agent' = agent /\ gate' = gate /\ local' = local /\ user' = user /\ opened' = opened
    BY <1>8 DEF SendHeartbeat
  <2>3. Reported'
    BY <2>1, <2>2 DEF Reported
  <2> QED
    BY <1>a, <1>e, <2>2, <2>3, ToldStutter DEF ClientInv
<1>9. CASE HeartbeatArrives \/ RenewArrives \/ BeatRefused \/ LoseHeartbeat
  <2>1. beat'.ok = beat.ok \/ beat'.ok = {}
    <3>1. CASE beat' = NoBeat
      BY <3>1 DEF NoBeat
    <3>2. CASE beat' # NoBeat
      BY <1>9, <1>d, <3>2
         DEF HeartbeatArrives, RenewArrives, BeatRefused, LoseHeartbeat, BeatState
    <3> QED
      BY <3>1, <3>2
  <2> QED
    BY <1>9, <1>f, <2>1 DEF HeartbeatArrives, RenewArrives, BeatRefused, LoseHeartbeat
<1>10. CASE MergeHeartbeat
  <2>1. agent'.started = agent.started
    BY <1>10, <1>b, MergeAdvances DEF MergeHeartbeat
  <2>2. Bound'
    BY <1>10, <2>1, StartedStays, BoundStutter DEF MergeHeartbeat
  <2>3. beat'.ok = {}
    BY <1>10 DEF MergeHeartbeat, NoBeat
  <2> QED
    BY <1>10, <1>a, <2>2, <2>3, ToldStutter, ReportedStutter DEF MergeHeartbeat, ClientInv
<1>11. CASE TakeRenewal \/ Pause \/ SaveAgent
  <2>1. agent'.started = agent.started
    BY <1>11, <1>d DEF TakeRenewal, Pause, SaveAgent, AgentState
  <2>2. Bound'
    BY <1>11, <2>1, StartedStays, BoundStutter DEF TakeRenewal, Pause, SaveAgent
  <2>3. beat'.ok = {} \/ beat'.ok = beat.ok
    <3>1. \/ beat' = NoBeat \/ beat' = beat
          \/ beat' = [beat EXCEPT !.at = "asked", !.token = beat.given, !.given = 0]
      BY <1>11 DEF TakeRenewal, Pause, SaveAgent
    <3>2. [beat EXCEPT !.at = "asked", !.token = beat.given, !.given = 0].ok = beat.ok
      BY <1>d DEF BeatState
    <3>3. NoBeat.ok = {}
      BY DEF NoBeat
    <3> QED
      BY <3>1, <3>2, <3>3, Zenon
  <2>4. user' = user /\ opened' = opened
    BY <1>11 DEF TakeRenewal, Pause, SaveAgent
  <2> QED
    BY <1>a, <2>2, <2>3, <2>4, ToldStutter, ReportedStutter DEF ClientInv
<1>12. CASE Connect \/ ExchangeArrives \/ LoseExchange \/ ConnectionLapses
  BY <1>12, <1>f DEF Connect, ExchangeArrives, LoseExchange, ConnectionLapses
<1>13. CASE RetryRecovery
  <2>1. /\ local.retrying /\ ~local.finished /\ local' = local /\ agent' = agent
        /\ gate' = [at |-> "entered", c |-> local.command, prior |-> None]
    BY <1>13 DEF RetryRecovery
  <2>2. local.command \in Command
    BY <2>1 DEF TypeInv
  <2>3. Bound'
    BY <1>b, <2>1, <2>2, NoneIsNoCommand DEF Bound
  <2> QED
    BY <1>13, <1>g, <2>3 DEF RetryRecovery
<1>14. CASE Copy
  <2>1. /\ gate # Free /\ gate'.at = "copied" /\ gate'.c = gate.c /\ gate'.prior = gate.prior
        /\ local'.retrying = local.retrying /\ local'.command = local.command
        /\ local'.finished = local.finished /\ agent' = agent
    BY <1>14, <1>d DEF Copy, At, GateState, LocalState
  <2>2. Bound'
    BY <1>b, <2>1 DEF Bound
  <2> QED
    BY <1>14, <1>g, <2>2 DEF Copy
<1>15. CASE Bind
  <2>1. /\ gate # Free /\ Action[gate.c] = "recover" /\ agent' = agent
        /\ gate'.at = "bound" /\ gate'.c = gate.c
        /\ local.command = gate.c => gate'.prior = None
        /\ local.command # gate.c => gate'.prior = local.command
    BY <1>15 DEF Bind, At
  <2>2. /\ local'.command = gate.c
        /\ (local' = local) \/ (local'.retrying /\ local'.finished = local.finished)
    BY <1>15, <1>d DEF Bind, LocalState
  <2>3. gate.c \in Command
    BY <1>d, <2>1 DEF GateState
  <2>4. Bound'
    BY <1>b, <2>1, <2>2, <2>3, NoneIsNoCommand DEF Bound
  <2> QED
    BY <1>15, <1>g, <2>4 DEF Bind
<1>16. CASE Send
  <2>1. /\ gate # Free /\ gate'.at = "sent" /\ gate'.c = gate.c /\ gate'.prior = gate.prior
        /\ local' = local
        /\ gate.at = "entered" \/ (gate.at = "bound" /\ Action[gate.c] = "recover")
        /\ \/ agent' = agent
           \/ gate.prior \in agent.pending /\ agent' = Complete(agent, gate.prior, FALSE)
    BY <1>16, <1>d DEF Send, At, GateState
  <2>2. agent' = agent \/ agent'.started = agent.started \ {gate.prior}
    BY <1>b, <2>1, SettleAdvances
  <2>3. Bound'
    <3>1. gate.at = "entered" => agent' = agent
      BY <1>b, <2>1, AgentSets, NoneIsNoCommand DEF Bound
    <3> QED
      BY <1>b, <2>1, <2>2, <3>1 DEF Bound
  <2> QED
    BY <1>16, <1>g, <2>3 DEF Send
<1>17. CASE FinishLocally
  <2>1. /\ gate # Free /\ gate'.at = "done" /\ gate'.c = gate.c /\ gate'.prior = gate.prior
        /\ agent' = agent
    BY <1>17, <1>d DEF FinishLocally, Acknowledged, At, GateState
  <2>2. /\ local'.finished /\ local'.command = local.command
        /\ local'.retrying => local.retrying
    BY <1>17, <1>d DEF FinishLocally, LocalState
  <2>3. Bound'
    BY <1>b, <2>1, <2>2 DEF Bound
  <2> QED
    BY <1>17, <1>g, <2>3 DEF FinishLocally
<1>18. CASE Succeed \/ GiveUp
  <2>1. gate # Free /\ gate' = Free /\ local' = local
    BY <1>18 DEF Succeed, GiveUp, At
  <2>2. gate.c \in agent.pending
    BY <1>b, <2>1 DEF Bound, Filed
  <2>3. agent' = agent \/ agent'.started = agent.started \ {gate.c}
    BY <1>18, <1>b, <2>2, SettleAdvances DEF Succeed, GiveUp
  <2>4. local.retrying /\ ~local.finished /\ agent' # agent => local.command # gate.c
    BY <1>18, <1>b DEF Succeed, GiveUp, At, Bound
  <2>5. Bound'
    BY <1>b, <2>1, <2>3, <2>4 DEF Bound
  <2> QED
    BY <1>18, <1>g, <2>5 DEF Succeed, GiveUp
<1>19. CASE Reveal
  <2>1. /\ gate' = gate /\ agent' = agent /\ local'.finished = local.finished
        /\ local'.retrying = local.retrying /\ local'.command = local.command
    BY <1>19, <1>d DEF Reveal, LocalState
  <2>2. Bound'
    BY <1>b, <2>1 DEF Bound
  <2> QED
    BY <1>19, <1>g, <2>2 DEF Reveal
<1>20. CASE Restart
  <2>1. gate' = Free /\ local' = local /\ user' = user /\ opened' = opened
    BY <1>20 DEF Restart
  <2>2. \A c \in agent.started :
            Action[c] = "recover" /\ ~local.finished => c \in agent'.started
    BY <1>20, <1>b, RestartAdvances DEF Restart
  <2>3. Bound'
    BY <1>b, <2>1, <2>2 DEF Bound
  <2>4. beat'.ok = beat.ok \/ beat'.ok = {}
    BY <1>20, <1>d DEF Restart, NoBeat, BeatState
  <2> QED
    BY <1>a, <2>1, <2>3, <2>4, ToldStutter, ReportedStutter DEF ClientInv
<1>21. CASE UserProcessDies \/ Pulse \/ TakePulse \/ \E c \in Command : UserDrops(c)
  <2>1. /\ opened' = opened /\ agent' = agent
        /\ gate' = gate /\ local' = local /\ beat' = beat
    BY <1>21 DEF UserProcessDies, Pulse, TakePulse, UserDrops
  <2>2. ASSUME UserProcessDies
       PROVE  Told'
    BY <1>b, <2>1, <2>2 DEF UserProcessDies, NoUser, Told, Completed
  <2>3. ASSUME Pulse
       PROVE  Told'
    <3>1. /\ user'.told = user.told /\ user'.acted = user.acted
          /\ user'.asking = user.asking
          /\ user'.offered \cap (agent.started \cup Completed) = {}
      BY <1>c, <2>3 DEF Pulse, UserState
    <3> QED
      BY <1>b, <1>c, <2>1, <3>1 DEF Told, Completed
  <2>4. ASSUME TakePulse
       PROVE  Told'
    <3>1. /\ user'.told = user.told /\ user'.acted = user.acted /\ user'.offered = {}
          /\ user'.asking \subseteq user.asking \cup (user.offered \ user.told)
      BY <1>c, <2>4 DEF TakePulse, UserState
    <3> QED
      BY <1>b, <1>c, <2>1, <3>1 DEF Told, Completed
  <2>5. ASSUME NEW c \in Command, UserDrops(c)
       PROVE  Told'
    <3>1. /\ user'.told = user.told /\ user'.acted \subseteq user.acted
          /\ user'.offered = user.offered /\ user'.asking \subseteq user.asking
      BY <1>c, <2>5 DEF UserDrops, UserState
    <3> QED
      BY <1>b, <1>c, <2>1, <3>1 DEF Told, Completed
  <2>6. Told'
    BY <1>21, <2>2, <2>3, <2>4, <2>5
  <2> QED
    BY <1>a, <1>e, <2>1, <2>6, ReportedStutter DEF ClientInv
<1>23. CASE SessionExpires
  BY <1>23, <1>f DEF SessionExpires
<1>22. CASE UNCHANGED vars
  BY <1>22, <1>f DEF vars
<1> QED
  BY <1>1, <1>2, <1>3, <1>4, <1>5, <1>6, <1>7, <1>8, <1>9, <1>10, <1>11, <1>12, <1>13,
     <1>14, <1>15, <1>16, <1>17, <1>18, <1>19, <1>20, <1>21, <1>22, <1>23 DEF Next

LEMMA ClientCorrect == Spec => []ClientInv
BY InitClient, ClientStep, Typed, PTL DEF Spec

\* Whatever heartbeats are redelivered, pulses late, answers lost and processes
\* restarted, the user process never acts again on a command that failed or
\* whose outcome is unknown; on one that is recorded as done it acts once more
\* at most.
THEOREM UncertainNeverReplayed == Spec => []OnlySuccessRepeats
<1>1. ClientInv => OnlySuccessRepeats
  BY DEF ClientInv, Told, OnlySuccessRepeats
<1> QED
  BY <1>1, ClientCorrect, PTL

RowsStand ==
    \A c \in Command :
        state[c] \in {"succeeded", "failed", "expired"} => state'[c] = state[c]

LEMMA StepKeepsRows ==
    ASSUME TypeInv, [Next]_vars
    PROVE  RowsStand
<1> USE DEF RowsStand, clientVars, serverVars, tokenVars
<1>a. state \in [Command -> RowState] /\ posts \subseteq Post
  BY DEF TypeInv, TypeOK
<1>1. ASSUME NEW c \in Command, Issue(c)
      PROVE  RowsStand
  BY <1>1, <1>a DEF Issue, WithExpired
<1>2. CASE HeartbeatArrives
  BY <1>2, <1>a DEF HeartbeatArrives, Settled, WithExpired
<1>3. ASSUME NEW p \in posts, RecoverArrives(p)
      PROVE  RowsStand
  <2>1. p.c \in Command
    BY <1>a DEF Post
  <2> QED
    BY <1>3, <1>a, <2>1 DEF RecoverArrives, RecoverCommits, RecoverReplays, RecoverRefused
<1>4. ASSUME NEW c \in Command,
             \/ ServerMinutePasses(c) \/ ClientMinutePasses(c) \/ CommandStart(c)
             \/ UserActs(c) \/ UserDrops(c) \/ Accept(c)
      PROVE  RowsStand
  BY <1>4 DEF ServerMinutePasses, ClientMinutePasses, CommandStart, UserActs, UserDrops,
     Accept
<1>5. ASSUME NEW c \in Command, NEW ok \in BOOLEAN, UserReports(c, ok)
      PROVE  RowsStand
  BY <1>5 DEF UserReports
<1>6. ASSUME NEW p \in posts, FinishArrives(p) \/ LosePost(p)
      PROVE  RowsStand
  BY <1>6 DEF FinishArrives, LosePost
<1>7. CASE SendHeartbeat \/ MergeHeartbeat \/ LoseHeartbeat \/ RenewArrives
           \/ BeatRefused \/ TakeRenewal \/ Pause
  BY <1>7 DEF SendHeartbeat, MergeHeartbeat, LoseHeartbeat, RenewArrives,
     BeatRefused, TakeRenewal, Pause
<1>8. CASE Connect \/ ExchangeArrives \/ SaveAgent \/ LoseExchange \/ ConnectionLapses
  BY <1>8 DEF Connect, ExchangeArrives, SaveAgent, LoseExchange, ConnectionLapses
<1>9. CASE RetryRecovery \/ Copy \/ Bind \/ Send
  BY <1>9 DEF RetryRecovery, Copy, Bind, Send
<1>10. CASE FinishLocally \/ Succeed \/ GiveUp \/ Reveal \/ Restart \/ UserProcessDies
  BY <1>10 DEF FinishLocally, Succeed, GiveUp, Reveal, Restart, UserProcessDies
<1>12. CASE Pulse \/ TakePulse \/ SessionExpires
  BY <1>12 DEF Pulse, TakePulse, SessionExpires
<1>11. CASE UNCHANGED vars
  BY <1>11 DEF vars
<1> QED
  BY <1>1, <1>2, <1>3, <1>4, <1>5, <1>6, <1>7, <1>8, <1>9, <1>10, <1>11,
     <1>12 DEF Next

\* An outcome is never revised: no redelivery, late result or restart changes a
\* receipt of the client or a settled row of the server.
THEOREM OutcomesNeverRevised == Spec => OutcomesStand
<1>1. TypeInv /\ ClientInv /\ [Next]_vars =>
        [/\ agent.ok \subseteq agent'.ok /\ agent.failed \subseteq agent'.failed
         /\ \A c \in Command :
              state[c] \in {"succeeded", "failed", "expired"} => state'[c] = state[c]]_vars
  BY StepAdvances, StepKeepsRows DEF Advance, RowsStand
<1> QED
  BY <1>1, Typed, ClientCorrect, PTL DEF Spec, OutcomesStand

-----------------------------------------------------------------------------
\* Sessions.

\* From its second step on a recovery has its copy on disk, and an accepted
\* finish or recovery has finished the server's session.
Progress ==
    /\ gate # Free /\ Action[gate.c] = "recover" /\ gate.at # "entered" => local.copy
    /\ gate # Free /\ gate.at \in {"ok", "done"} => ended
    /\ gate # Free /\ Action[gate.c] = "retry" => gate.at = "entered"
    /\ \A p \in posts : Action[p.c] = "recover" => local.copy

\* What the client recorded as done was done.
ReceiptsReal ==
    \A c \in agent.ok :
        /\ Action[c] = "open" => opened[c] >= 1
        /\ Action[c] \in {"finish", "recover"} => local.finished

\* SuccessIsReal, action by action.
RowsReal ==
    \A c \in Command : state[c] = "succeeded" =>
        /\ Action[c] = "open" => opened[c] >= 1
        /\ Action[c] = "retry" => c \in agent.ok
        /\ Action[c] = "finish" => local.finished
        /\ Action[c] = "recover" => ended /\ local.copy

\* The server's session is finished by one recovery at most, and then audited.
Recovered(c) == Action[c] = "recover" /\ state[c] = "succeeded"
Audited ==
    /\ \A c, d \in Command : Recovered(c) /\ Recovered(d) => c = d
    /\ audits = IF \E c \in Command : Recovered(c) THEN 1 ELSE 0
    /\ \A c \in Command : Recovered(c) => ended

SessionInv == Progress /\ LocalFinishIsAcknowledged /\ ReceiptsReal /\ RowsReal /\ Audited

LEMMA InitSession == Init => SessionInv
BY DEF Init, SessionInv, Progress, LocalFinishIsAcknowledged, ReceiptsReal, RowsReal,
   Audited, Recovered, Free

LEMMA RowsRealMeansSuccess ==
    ASSUME RowsReal
    PROVE  SuccessIsReal
<1> SUFFICES ASSUME NEW c \in Command, state[c] = "succeeded"
             PROVE  CASE Action[c] = "open"    -> opened[c] >= 1
                      [] Action[c] = "retry"   -> c \in agent.ok
                      [] Action[c] = "finish"  -> local.finished
                      [] Action[c] = "recover" -> ended /\ local.copy
  BY DEF SuccessIsReal
<1>1. /\ Action[c] = "open" => opened[c] >= 1
      /\ Action[c] = "retry" => c \in agent.ok
      /\ Action[c] = "finish" => local.finished
      /\ Action[c] = "recover" => ended /\ local.copy
  BY DEF RowsReal
<1>2. Action[c] \in {"open", "retry", "finish", "recover"}
  BY ActionIsKnown
<1>3. CASE Action[c] = "open"
  BY <1>1, <1>3
<1>4. CASE Action[c] = "retry"
  BY <1>1, <1>4
<1>5. CASE Action[c] = "finish"
  BY <1>1, <1>5
<1>6. CASE Action[c] = "recover"
  BY <1>1, <1>6
<1> QED
  BY <1>2, <1>3, <1>4, <1>5, <1>6

\* What has happened stays so.
Lasting ==
    /\ ended => ended'
    /\ local.copy => local'.copy
    /\ local.finished => local'.finished
    /\ \A c \in Command : opened[c] >= 1 => opened'[c] >= 1

LEMMA RowsStutter ==
    ASSUME TypeInv, SessionInv, Advance, Lasting, state' = state, audits' = audits
    PROVE  RowsReal' /\ Audited'
BY DEF SessionInv, RowsReal, Audited, Recovered, Advance, Lasting

LEMMA SessionStep ==
    ASSUME TypeInv, ClientInv, SessionInv, [Next]_vars
    PROVE  SessionInv'
<1> USE DEF clientVars, serverVars, tokenVars
<1>a. /\ Progress /\ LocalFinishIsAcknowledged /\ ReceiptsReal /\ RowsReal /\ Audited
      /\ Filed /\ Reported /\ Bound /\ Told
  BY DEF ClientInv, SessionInv
<1>b. /\ local \in LocalState /\ gate \in GateState /\ agent \in AgentState
      /\ state \in [Command -> RowState] /\ opened \in [Command -> Nat]
      /\ posts \subseteq Post /\ agent.ok \subseteq Command
  BY AgentSets DEF TypeInv, TypeOK
<1>c. Advance
  BY StepAdvances
<1>s. ASSUME local' = local, ended => ended', gate' = gate, posts' \subseteq posts
      PROVE  Progress' /\ LocalFinishIsAcknowledged'
  BY <1>a, <1>s DEF Progress, LocalFinishIsAcknowledged
<1>d. ASSUME state' = state, audits' = audits, ended' = ended, local' = local,
             gate' = gate, posts' \subseteq posts, opened' = opened, ReceiptsReal'
      PROVE  SessionInv'
  <2>1. Lasting
    BY <1>d DEF Lasting
  <2> QED
    BY <1>c, <1>d, <1>s, <2>1, RowsStutter DEF SessionInv
<1>e. ASSUME agent'.ok \subseteq agent.ok, local' = local, opened' = opened
      PROVE  ReceiptsReal'
  BY <1>a, <1>e DEF ReceiptsReal
<1>f. ASSUME state' = state, audits' = audits, ended' = ended, local' = local,
             opened' = opened, ReceiptsReal', Progress'
      PROVE  SessionInv'
  <2>1. Lasting
    BY <1>f DEF Lasting
  <2>2. LocalFinishIsAcknowledged'
    BY <1>a, <1>f DEF LocalFinishIsAcknowledged
  <2> QED
    BY <1>c, <1>f, <2>1, <2>2, RowsStutter DEF SessionInv
\* The rows.
<1>1. ASSUME NEW c \in Command, Issue(c)
      PROVE  SessionInv'
  <2>1. \A d \in Command : state'[d] = "succeeded" <=> state[d] = "succeeded"
    BY <1>1, <1>b DEF Issue, WithExpired
  <2>2. /\ ended' = ended /\ audits' = audits /\ local' = local /\ agent' = agent
        /\ opened' = opened /\ gate' = gate /\ posts' = posts
    BY <1>1 DEF Issue
  <2>3. RowsReal'
    BY <1>a, <2>1, <2>2 DEF RowsReal
  <2>4. Audited'
    BY <1>a, <2>1, <2>2 DEF Audited, Recovered
  <2> QED
    BY <1>e, <1>s, <2>2, <2>3, <2>4 DEF SessionInv
<1>2. CASE HeartbeatArrives
  <2>1. \A d \in Command : state'[d] = "succeeded" =>
            state[d] = "succeeded" \/ (d \in agent.ok /\ Action[d] # "recover")
    BY <1>2, <1>a, <1>b DEF HeartbeatArrives, Settled, WithExpired, Reported
  <2>2. \A d \in Command : state[d] = "succeeded" => state'[d] = "succeeded"
    BY StepKeepsRows DEF RowsStand
  <2>3. /\ ended' = ended /\ audits' = audits /\ local' = local /\ agent' = agent
        /\ opened' = opened /\ gate' = gate /\ posts' = posts
    BY <1>2 DEF HeartbeatArrives
  <2>4. RowsReal'
    BY <1>a, <2>1, <2>3 DEF RowsReal, ReceiptsReal
  <2>5. Audited'
    BY <1>a, <2>1, <2>2, <2>3 DEF Audited, Recovered
  <2> QED
    BY <1>e, <1>s, <2>3, <2>4, <2>5 DEF SessionInv
\* The session requests.
<1>3. ASSUME NEW p \in posts, NEW outcome \in {"ok", "refused"},
             Answer(p.c, outcome), local' = local, posts' = posts \ {p},
             ended => ended', outcome = "ok" => ended'
      PROVE  Progress' /\ LocalFinishIsAcknowledged'
  <2>1. \/ gate' = gate
        \/ gate # Free /\ gate.at = "sent" /\ gate'.at = outcome /\ gate'.c = gate.c
    BY <1>3, <1>b DEF Answer, GateState
  <2> QED
    BY <1>3, <1>a, <2>1 DEF Progress, LocalFinishIsAcknowledged
<1>4. ASSUME NEW p \in posts, FinishArrives(p)
      PROVE  SessionInv'
  <2>1. /\ ended => ended'
        /\ local' = local /\ opened' = opened /\ agent' = agent
        /\ state' = state /\ audits' = audits /\ posts' = posts \ {p}
        /\ \E outcome \in {"ok", "refused"} :
              Answer(p.c, outcome) /\ (outcome = "ok" => ended')
    BY <1>4 DEF FinishArrives
  <2>2. Lasting
    BY <2>1 DEF Lasting
  <2>3. Progress' /\ LocalFinishIsAcknowledged'
    BY <1>3, <2>1
  <2> QED
    BY <1>c, <1>e, <2>1, <2>2, <2>3, RowsStutter DEF SessionInv
<1>5. ASSUME NEW p \in posts, RecoverArrives(p)
      PROVE  SessionInv'
  <2>1. /\ local' = local /\ opened' = opened /\ agent' = agent /\ posts' = posts \ {p}
        /\ p.c \in Command /\ Action[p.c] = "recover"
    BY <1>5, <1>b DEF RecoverArrives, Post
  <2>2. CASE RecoverCommits(p)
    <3>1. /\ ~ended /\ ended' /\ Answer(p.c, "ok") /\ state[p.c] = "pending"
      BY <2>2 DEF RecoverCommits
    <3>2. /\ state'[p.c] = "succeeded"
          /\ \A d \in Command : d # p.c => state'[d] = state[d]
      BY <1>b, <2>1, <2>2 DEF RecoverCommits
    <3>3. local.copy
      BY <1>a, <2>1 DEF Progress
    <3>4. RowsReal'
      BY <1>a, <2>1, <3>1, <3>2, <3>3 DEF RowsReal
    <3>5. ~ \E d \in Command : Recovered(d)
      BY <1>a, <3>1 DEF Audited
    <3>6. audits' = 1
      BY <1>a, <2>2, <3>5 DEF RecoverCommits, Audited
    <3>7. Audited'
      BY <2>1, <3>1, <3>2, <3>5, <3>6 DEF Audited, Recovered
    <3>8. Progress' /\ LocalFinishIsAcknowledged'
      BY <1>3, <2>1, <3>1
    <3> QED
      BY <1>e, <2>1, <3>4, <3>7, <3>8 DEF SessionInv
  <2>3. CASE RecoverReplays(p) \/ RecoverRefused(p)
    <3>1. PICK outcome \in {"ok", "refused"} :
             Answer(p.c, outcome) /\ (outcome = "ok" => ended)
      BY <2>3 DEF RecoverReplays, RecoverRefused
    <3>2. state' = state /\ ended' = ended /\ audits' = audits
      BY <2>3 DEF RecoverReplays, RecoverRefused
    <3>3. Progress'
      BY <1>3, <2>1, <3>1, <3>2
    <3> QED
      BY <1>e, <1>f, <2>1, <3>2, <3>3
  <2> QED
    BY <1>5, <2>2, <2>3 DEF RecoverArrives
<1>6. ASSUME NEW p \in posts, LosePost(p)
      PROVE  SessionInv'
  BY <1>6, <1>d, <1>e DEF LosePost
\* The user process.
<1>7. ASSUME NEW c \in Command, CommandStart(c)
      PROVE  SessionInv'
  <2>1. agent' \in {agent, Complete(agent, c, FALSE), [agent EXCEPT !.started = @ \cup {c}]}
    BY <1>7 DEF CommandStart
  <2>2. agent'.ok \subseteq agent.ok
    <3>1. CASE agent' = Complete(agent, c, FALSE)
      BY <1>b, <3>1, FailedFields
    <3>2. CASE agent' = [agent EXCEPT !.started = @ \cup {c}]
      BY <1>b, <3>2 DEF AgentState
    <3> QED
      BY <2>1, <3>1, <3>2
  <2> QED
    BY <1>7, <1>d, <1>e, <2>2 DEF CommandStart
<1>8. ASSUME NEW c \in Command, UserActs(c)
      PROVE  SessionInv'
  <2>1. /\ c \in user.told /\ opened' = [opened EXCEPT ![c] = @ + 1]
        /\ agent' = agent /\ gate' = gate /\ local' = local /\ posts' = posts
        /\ state' = state /\ ended' = ended /\ audits' = audits
    BY <1>8 DEF UserActs
  <2>2. c \in Command /\ opened[c] \in Nat
    BY <1>b
  <2>3. \A d \in Command : opened[d] >= 1 => opened'[d] >= 1
    BY <1>b, <2>1, <2>2
  <2>4. Lasting /\ ReceiptsReal'
    BY <1>a, <1>b, <2>1, <2>3 DEF Lasting, ReceiptsReal
  <2> QED
    BY <1>c, <1>s, <2>1, <2>4, RowsStutter DEF SessionInv
<1>9. ASSUME NEW c \in Command, NEW ok \in BOOLEAN, UserReports(c, ok)
      PROVE  SessionInv'
  <2>1. opened[c] >= 1 /\ Action[c] = "open"
    BY <1>9, <1>a, <1>b DEF UserReports, Told
  <2>2. agent'.ok \subseteq agent.ok \cup {c}
    <3>1. \/ agent' = agent \/ agent' = Complete(agent, c, TRUE)
          \/ agent' = Complete(agent, c, FALSE)
      BY <1>9 DEF UserReports
    <3> QED
      BY <1>b, <3>1, CompletedFields, FailedFields
  <2>3. ReceiptsReal'
    BY <1>9, <1>a, <2>1, <2>2 DEF UserReports, ReceiptsReal
  <2> QED
    BY <1>9, <1>d, <2>3 DEF UserReports
<1>10. CASE UserProcessDies \/ Pulse \/ TakePulse \/ \E c \in Command : UserDrops(c)
  BY <1>10, <1>d, <1>e DEF UserProcessDies, Pulse, TakePulse, UserDrops
\* The session gate.
<1>11. ASSUME NEW c \in Command, Accept(c)
       PROVE  SessionInv'
  <2>1. agent'.ok = agent.ok /\ gate'.at = "entered" /\ gate'.c = c
    BY <1>11, <1>b DEF Accept, AgentState
  <2>2. /\ local' = local /\ opened' = opened /\ posts' = posts
        /\ state' = state /\ ended' = ended /\ audits' = audits
    BY <1>11 DEF Accept
  <2>3. Progress'
    BY <1>a, <2>1, <2>2 DEF Progress
  <2> QED
    BY <1>e, <1>f, <2>1, <2>2, <2>3
<1>12. CASE RetryRecovery
  <2>1. agent' = agent /\ gate'.at = "entered" /\ gate'.c = local.command
    BY <1>12 DEF RetryRecovery
  <2>2. /\ local' = local /\ opened' = opened /\ posts' = posts
        /\ state' = state /\ ended' = ended /\ audits' = audits
    BY <1>12 DEF RetryRecovery
  <2>3. Progress'
    BY <1>a, <2>1, <2>2 DEF Progress
  <2> QED
    BY <1>e, <1>f, <2>1, <2>2, <2>3
<1>13. CASE Copy \/ Bind
  <2>1. /\ gate # Free /\ Action[gate.c] = "recover" /\ gate'.c = gate.c
        /\ gate'.at \in {"copied", "bound"}
        /\ local'.copy = TRUE
        /\ local'.reveal = local.reveal /\ local'.finished = local.finished
    <3>1. CASE Copy
      BY <1>b, <3>1 DEF Copy, At, GateState, LocalState
    <3>2. CASE Bind
      BY <1>a, <1>b, <3>2 DEF Bind, At, GateState, LocalState, Progress
    <3> QED
      BY <1>13, <3>1, <3>2
  <2>2. /\ agent' = agent /\ opened' = opened /\ posts' = posts
        /\ state' = state /\ ended' = ended /\ audits' = audits
    BY <1>13 DEF Copy, Bind
  <2>3. Progress' /\ LocalFinishIsAcknowledged' /\ ReceiptsReal' /\ Lasting
    BY <1>a, <2>1, <2>2 DEF Progress, LocalFinishIsAcknowledged, ReceiptsReal, Lasting
  <2> QED
    BY <1>c, <2>2, <2>3, RowsStutter DEF SessionInv
<1>14. CASE Send
  <2>1. /\ gate # Free /\ gate'.at = "sent" /\ gate'.c = gate.c
        /\ gate.at = "bound" \/ Action[gate.c] # "recover"
        /\ Action[gate.c] # "retry"
        /\ \A p \in posts' : p \in posts \/ p.c = gate.c
    BY <1>14, <1>b DEF Send, At, GateState
  <2>2. /\ local' = local /\ opened' = opened
        /\ state' = state /\ ended' = ended /\ audits' = audits
    BY <1>14 DEF Send
  <2>3. Progress'
    BY <1>a, <2>1, <2>2 DEF Progress
  <2>4. agent'.ok \subseteq agent.ok
    <3>1. agent' = agent \/ agent' = Complete(agent, gate.prior, FALSE)
      BY <1>14 DEF Send
    <3> QED
      BY <1>b, <3>1, CompletedFields, FailedFields
  <2> QED
    BY <1>e, <1>f, <2>2, <2>3, <2>4
<1>15. CASE FinishLocally
  <2>1. /\ gate # Free /\ gate.at = "ok" /\ gate'.at = "done" /\ gate'.c = gate.c
        /\ local'.copy = local.copy /\ local'.finished
        /\ local'.reveal => local.reveal \/ Action[gate.c] = "recover"
        /\ Action[gate.c] # "retry"
    BY <1>15, <1>b DEF FinishLocally, Acknowledged, At, GateState, LocalState
  <2>2. /\ agent' = agent /\ opened' = opened /\ posts' = posts
        /\ state' = state /\ ended' = ended /\ audits' = audits
    BY <1>15 DEF FinishLocally
  <2>3. Progress' /\ LocalFinishIsAcknowledged' /\ ReceiptsReal' /\ Lasting
    BY <1>a, <2>1, <2>2 DEF Progress, LocalFinishIsAcknowledged, ReceiptsReal, Lasting
  <2> QED
    BY <1>c, <2>2, <2>3, RowsStutter DEF SessionInv
<1>16. CASE Succeed \/ GiveUp
  <2>1. /\ gate # Free /\ gate' = Free /\ local' = local /\ opened' = opened /\ posts' = posts
        /\ state' = state /\ ended' = ended /\ audits' = audits
    BY <1>16 DEF Succeed, GiveUp, At
  <2>2. Progress'
    BY <1>a, <2>1 DEF Progress
  <2>3. ReceiptsReal'
    <3>1. CASE Succeed
      <4>1. agent'.ok = agent.ok \cup {gate.c}
        BY <1>b, <3>1, CompletedFields, FailedFields DEF Succeed
      <4>2. /\ Action[gate.c] # "open"
            /\ Action[gate.c] \in {"finish", "recover"} => local.finished
        BY <1>a, <3>1 DEF Succeed, At, Bound
      <4> QED
        BY <1>a, <2>1, <4>1, <4>2 DEF ReceiptsReal
    <3>2. CASE GiveUp
      <4>1. agent' = agent \/ agent' = Complete(agent, gate.c, FALSE)
        BY <3>2 DEF GiveUp
      <4>2. agent'.ok \subseteq agent.ok
        BY <1>b, <4>1, CompletedFields, FailedFields
      <4> QED
        BY <1>e, <2>1, <4>2
    <3> QED
      BY <1>16, <3>1, <3>2
  <2> QED
    BY <1>f, <2>1, <2>2, <2>3
<1>17. CASE Reveal
  <2>1. /\ local'.copy = local.copy /\ local'.finished = local.finished /\ ~local'.reveal
    BY <1>17, <1>b DEF Reveal, LocalState
  <2>2. /\ agent' = agent /\ opened' = opened /\ posts' = posts /\ gate' = gate
        /\ state' = state /\ ended' = ended /\ audits' = audits
    BY <1>17 DEF Reveal
  <2>3. Progress' /\ LocalFinishIsAcknowledged' /\ ReceiptsReal' /\ Lasting
    BY <1>a, <2>1, <2>2 DEF Progress, LocalFinishIsAcknowledged, ReceiptsReal, Lasting
  <2> QED
    BY <1>c, <2>2, <2>3, RowsStutter DEF SessionInv
<1>18. CASE Restart
  <2>1. /\ gate' = Free /\ local' = local /\ opened' = opened /\ posts' = posts
        /\ state' = state /\ ended' = ended /\ audits' = audits
    BY <1>18 DEF Restart
  <2>2. Progress'
    BY <1>a, <2>1 DEF Progress
  <2>3. FailStarted.ok \subseteq agent.ok /\ FailStarted \in AgentState
    BY <1>b, FailStartedIsTyped DEF FailStarted, AgentState
  <2>4. \/ agent' = FailStarted
        \/ /\ agent' = Complete(FailStarted, local.command, TRUE)
           /\ local.finished /\ Action[local.command] = "recover"
    BY <1>18 DEF Restart, Restarted
  <2>5. \/ agent'.ok \subseteq agent.ok
        \/ /\ agent'.ok \subseteq agent.ok \cup {local.command}
           /\ local.finished /\ Action[local.command] = "recover"
    <3>1. CASE agent' = FailStarted
      BY <2>3, <3>1
    <3>2. CASE agent' = Complete(FailStarted, local.command, TRUE)
      <4>1. agent'.ok = FailStarted.ok \cup {local.command}
        BY <2>3, <3>2, CompletedFields
      <4> QED
        BY <2>3, <2>4, <4>1
    <3> QED
      BY <2>4, <3>1, <3>2
  <2>6. ReceiptsReal'
    BY <1>a, <2>1, <2>5 DEF ReceiptsReal
  <2> QED
    BY <1>f, <2>1, <2>2, <2>6
\* The heartbeat, the tokens and the clocks.
<1>19. ASSUME NEW c \in Command, ServerMinutePasses(c) \/ ClientMinutePasses(c)
       PROVE  SessionInv'
  BY <1>19, <1>d, <1>e DEF ServerMinutePasses, ClientMinutePasses
<1>20. CASE SendHeartbeat \/ LoseHeartbeat \/ RenewArrives \/ BeatRefused
  BY <1>20, <1>d, <1>e DEF SendHeartbeat, LoseHeartbeat, RenewArrives, BeatRefused
<1>21. CASE MergeHeartbeat \/ TakeRenewal \/ Pause \/ SaveAgent
  <2>1. agent'.ok = agent.ok
    BY <1>21, <1>b DEF MergeHeartbeat, Merged, TakeRenewal, Pause, SaveAgent, AgentState
  <2> QED
    BY <1>21, <1>d, <1>e, <2>1 DEF MergeHeartbeat, TakeRenewal, Pause, SaveAgent
<1>22. CASE Connect \/ ExchangeArrives \/ LoseExchange \/ ConnectionLapses \/ SessionExpires
  BY <1>22, <1>d, <1>e
     DEF Connect, ExchangeArrives, LoseExchange, ConnectionLapses, SessionExpires
<1>23. CASE UNCHANGED vars
  BY <1>23, <1>d, <1>e DEF vars
<1> QED
  BY <1>1, <1>2, <1>4, <1>5, <1>6, <1>7, <1>8, <1>9, <1>10, <1>11, <1>12, <1>13, <1>14,
     <1>15, <1>16, <1>17, <1>18, <1>19, <1>20, <1>21, <1>22, <1>23 DEF Next

LEMMA SessionCorrect == Spec => []SessionInv
BY InitSession, SessionStep, Typed, ClientCorrect, PTL DEF Spec

\* What the browser is shown as succeeded did happen on the client.
THEOREM SuccessesHappened == Spec => []SuccessIsReal
<1>1. SessionInv => SuccessIsReal
  BY RowsRealMeansSuccess DEF SessionInv
<1> QED
  BY <1>1, SessionCorrect, PTL

\* The native session is finished only after the server acknowledged it, and a
\* copy is offered to the user only of a finished session.
THEOREM FinishedAfterTheServer == Spec => []LocalFinishIsAcknowledged
<1>1. SessionInv => LocalFinishIsAcknowledged
  BY DEF SessionInv
<1> QED
  BY <1>1, SessionCorrect, PTL

\* However often a recovery is sent, committed and replayed, the audit has one
\* event exactly when a recovery finished the session.
THEOREM AuditedOnce == Spec => []OneAudit
<1>1. ASSUME SessionInv
      PROVE  OneAudit
  <2> DEFINE S == {c \in Command : Action[c] = "recover" /\ state[c] = "succeeded"}
  <2>1. \A c, d \in S : c = d
    BY <1>1 DEF SessionInv, Audited, Recovered
  <2>2. audits = IF S # {} THEN 1 ELSE 0
    BY <1>1 DEF SessionInv, Audited, Recovered
  <2>3. CASE S = {}
    BY <2>2, <2>3, FS_EmptySet DEF OneAudit
  <2>4. CASE S # {}
    <3>1. PICK c : c \in S
      BY <2>4
    <3>2. S = {c}
      BY <2>1, <3>1
    <3>3. Cardinality(S) = 1
      BY <3>2, FS_Singleton
    <3> QED
      BY <2>2, <2>4, <3>3 DEF OneAudit
  <2> QED
    BY <2>3, <2>4
<1> QED
  BY <1>1, SessionCorrect, PTL
=============================================================================
