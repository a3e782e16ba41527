--------------------------- MODULE MCAgentRelay ---------------------------
(* AgentRelay on small sets of commands; see the MCAgentRelay*.cfg files. *)
EXTENDS AgentRelay

CONSTANTS open, finish, retry, recover, again

Actions ==
    [c \in Command |->
        CASE c = open -> "open" [] c = finish -> "finish" [] c = retry -> "retry"
          [] OTHER -> "recover"]

\* Bounds on interleavings.  The edit session's token expires while a request of
\* the session is under way: before that its expiry changes nothing.
ExpiresInFlight == expired' # expired => posts # {}

\* The browser asks to finish or to retry, not both in one behaviour.
OneOfTwo == {c \in Command \ {open} : state'[c] # "none"} # Command \ {open}

NarrowCommands == ExpiresInFlight /\ OneOfTwo

\* Tokens are replaced before the first command exists, which is issued once no
\* call for a token is under way; a pulse is answered at once.  A connection
\* lapses, and calls are refused and paused over, at any time; but either it
\* lapses behind the first command or the session's token expires, not both.
NoCommand == \A c \in Command : state[c] = "none"
TokensAtRest == exchange = NoExchange /\ beat.at \notin {"renewing", "renewed"}
NarrowRecovery ==
    /\ <<connection.token, exchange, beat.at = "renewing">> #
           <<connection'.token, exchange', beat'.at = "renewing">> => NoCommand
    /\ NoCommand /\ state' # state => TokensAtRest
    /\ user.offered # {} => user'.offered = {}
    /\ ExpiresInFlight
    /\ ~ (expired' /\ connection'.lapsed)
=============================================================================
