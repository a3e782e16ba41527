------------------------------ MODULE EventLog ------------------------------
(***************************************************************************)
(* What the service event feed promises its readers: one log that only     *)
(* grows at its end, in which no event stands twice, and bookmarks that    *)
(* are positions in it.  A reader who follows its bookmarks therefore      *)
(* meets every event, whatever becomes of events, workers or cursors in    *)
(* between.  OutboxFeed is shown to implement this.                        *)
(***************************************************************************)
EXTENDS Naturals, Sequences

CONSTANT Event

VARIABLES
    log,       \* the processed events in delivery order
    bookmarks  \* how much of the log each live cursor has behind it

logVars == <<log, bookmarks>>

NoRepeats(s) == \A i, j \in 1 .. Len(s) : s[i] = s[j] => i = j

Init ==
    /\ log = <<>>
    /\ bookmarks = {}

Publish ==
    /\ log' \in Seq(Event)
    /\ Len(log') > Len(log)
    /\ SubSeq(log', 1, Len(log)) = log
    /\ NoRepeats(log')
    /\ UNCHANGED bookmarks

\* A page read from the start or from a bookmark leaves a later bookmark.
Read ==
    /\ \E from \in bookmarks \cup {0} : \E to \in from .. Len(log) :
           bookmarks' = bookmarks \cup {to}
    /\ UNCHANGED log

Forget ==
    /\ bookmarks' \subseteq bookmarks
    /\ UNCHANGED log

Next == Publish \/ Read \/ Forget

Spec == Init /\ [][Next]_logVars
=============================================================================
