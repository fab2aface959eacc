---------------------------- MODULE RequestReply ----------------------------
(***************************************************************************)
(* What the server promises a client on each connection, with the read     *)
(* loop, the handler goroutines, the sending mutex and the Context pool     *)
(* abstracted away: requests are consumed in the order they were written,  *)
(* each request that was read is answered at most once (in any order, as   *)
(* the handlers finish), nothing is written after the server closed the    *)
(* connection, and the server closes it once it has read everything the   *)
(* client wrote before hanging up.  ServerConn implements this module      *)
(* under the refinement mapping defined there.                             *)
(***************************************************************************)
EXTENDS Naturals, Sequences

CONSTANTS
    Conns,     \* connections
    MaxReq,    \* requests a client writes on one connection
    CanFail    \* a failing read hook or codec may end the read loop early

VARIABLES
    sent,      \* sent[c]: requests the client wrote on c
    hup,       \* hup[c]: the client hung up
    read,      \* read[c]: requests the server has consumed, in order
    open,      \* open[c]: the server has not closed c
    out        \* out[c]: sequence numbers of the responses written on c

vars == <<sent, hup, read, open, out>>

Answers(c) == {out[c][i] : i \in DOMAIN out[c]}

Init ==
    /\ sent = [c \in Conns |-> 0]
    /\ hup = [c \in Conns |-> FALSE]
    /\ read = [c \in Conns |-> 0]
    /\ open = [c \in Conns |-> TRUE]
    /\ out = [c \in Conns |-> <<>>]

Send(c) ==
    /\ ~hup[c] /\ sent[c] < MaxReq
    /\ sent' = [sent EXCEPT ![c] = @ + 1]
    /\ UNCHANGED <<hup, read, open, out>>

Hangup(c) ==
    /\ ~hup[c]
    /\ hup' = [hup EXCEPT ![c] = TRUE]
    /\ UNCHANGED <<sent, read, open, out>>

\* The server consumes the next request the client wrote.
Read(c) ==
    /\ open[c] /\ read[c] < sent[c]
    /\ read' = [read EXCEPT ![c] = @ + 1]
    /\ UNCHANGED <<sent, hup, open, out>>

\* A complete response to request s, read and not yet answered.
Answer(c, s) ==
    /\ open[c] /\ s \in 1..read[c] /\ s \notin Answers(c)
    /\ out' = [out EXCEPT ![c] = Append(@, s)]
    /\ UNCHANGED <<sent, hup, read, open>>

\* The server sees the EOF after the last request and closes the connection.
CloseEOF(c) ==
    /\ open[c] /\ hup[c] /\ read[c] = sent[c]
    /\ open' = [open EXCEPT ![c] = FALSE]
    /\ UNCHANGED <<sent, hup, read, out>>

\* A failing hook or codec read ends the loop at any point.
Abort(c) ==
    /\ CanFail /\ open[c]
    /\ open' = [open EXCEPT ![c] = FALSE]
    /\ UNCHANGED <<sent, hup, read, out>>

Next ==
    \E c \in Conns :
        \/ Send(c) \/ Hangup(c) \/ Read(c) \/ CloseEOF(c) \/ Abort(c)
        \/ \E s \in 1..MaxReq : Answer(c, s)

\* The server reads what is on the wire, answers what it read while the
\* connection is open, and closes a connection the client is done with.
Spec ==
    /\ Init /\ [][Next]_vars
    /\ \A c \in Conns :
         /\ WF_vars(Read(c)) /\ WF_vars(CloseEOF(c))
         /\ \A s \in 1..MaxReq : WF_vars(Answer(c, s))
=============================================================================
