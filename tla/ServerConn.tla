----------------------------- MODULE ServerConn -----------------------------
(***************************************************************************)
(* The server side of one or more connections (server/server.go,          *)
(* server/server_context.go): the accept loop of ServeListener with its   *)
(* PostConnAccept hooks, the per-connection read loop of ServeConn,        *)
(* readRequest with its header/body reads and plugin hooks, the handler    *)
(* goroutine spawned per request (call), sendResponse serialised by the    *)
(* per-connection `sending` mutex, writeResponse with its error-code       *)
(* prefix, and the sync.Pool of Context objects shared by all connections. *)
(*                                                                         *)
(* The client side is an environment: it appends requests with increasing *)
(* sequence numbers to the connection and may hang up.  The wire from the *)
(* server to the client is an append-only log of frames, a response being *)
(* a header frame followed by a body frame.                                *)
(***************************************************************************)
EXTENDS Naturals, Sequences, FiniteSets

CONSTANTS
    Conns,       \* connections the listener returns
    Ctxs,        \* Context objects the pool can ever allocate
    Paths,       \* service paths clients ask for
    Registered,  \* the paths present in serviceMap
    MaxReq,      \* requests a client sends on one connection
    Faults       \* the hook and codec steps that may fail in this model

\* The steps of readRequestHeader, readRequestBody and writeResponse that can
\* fail; each name is also the ErrorType the code records for that failure.
FaultPoints == {"PreReadRequestHeader", "ReadRequestHeader",
                "PostReadRequestHeader", "PreReadRequestBody",
                "ReadRequestBody", "PostReadRequestBody", "PreWriteResponse"}

\* The ErrorType values ctx.rpcErrorType takes (common.ErrorType); "None" is
\* the zero value of a freshly allocated Context.
ErrorTypes == FaultPoints \cup {"InvalidServiceMethod", "NotFoundService", "None"}

\* What the text of resp.Error says: a server-side failure, or the error a
\* handler returned (or the panic it raised, recovered by Service.Call).
Messages == ErrorTypes \cup {"Handler"}

\* The accept loop's hook point; a failure records no ErrorType.
AcceptFault == "PostConnAccept"

InvalidURI == "invalid"          \* a serviceMethod URIParse rejects
URIs == Paths \cup {InvalidURI}
Seqs == 1..MaxReq
NoCtx == "noctx"
NoConn == "noconn"

ASSUME ServerAssumption ==
    /\ Registered \subseteq Paths
    /\ InvalidURI \notin Paths
    /\ NoCtx \notin Ctxs
    /\ NoConn \notin Conns
    /\ MaxReq \in Nat
    /\ Faults \subseteq FaultPoints \cup {AcceptFault}

VARIABLES
    reqs,      \* reqs[c][s]: serviceMethod of request s the client wrote on c
    hup,       \* hup[c]: the client closed its side of c
    rpos,      \* rpos[c]: requests of reqs[c] the read loop has consumed
    open,      \* open[c]: ServeConn on c has not yet called conn.Close()
    wire,      \* wire[c]: frames the server wrote on c
    sending,   \* sending[c]: the goroutine (request seq) holding c's mutex
    pc,        \* pc[c][s]: where the goroutine serving request s of c is
    tctx,      \* tctx[c][s]: the Context that goroutine uses
    tsync,     \* tsync[c][s]: the read loop itself is sending this response
    pool,      \* Contexts put back into contextPool
    fresh,     \* Contexts contextPool.New has not yet allocated
    cConn,     \* ctx.codecConn
    cSeq,      \* ctx.req.Seq (copied to ctx.resp.Seq by sendResponse)
    cService,  \* ctx.service != nil
    cErrType,  \* ctx.rpcErrorType
    cRespErr,  \* ctx.resp.Error, by what its text reports
    acc        \* acc[c]: c not yet accepted, served by ServeConn, or dropped

vars == <<reqs, hup, rpos, open, wire, sending, pc, tctx, tsync, pool, fresh,
          cConn, cSeq, cService, cErrType, cRespErr, acc>>

Header == [kind : {"hdr"}, seq : Seqs, type : ErrorTypes, msg : Messages]
\* The body written after a header: the reply (the value the handler computed
\* for request `of`), the invalidRequest placeholder, or nil (`of` = 0).
Body == [kind : {"body"}, val : {"reply", "placeholder", "nil"}, of : 0..MaxReq]
Phases == {"idle", "handler", "respond", "body", "done"}
AcceptStates == {"pending", "serving", "dropped"}
NoHolder == 0

TypeOK ==
    /\ reqs \in [Conns -> Seq(URIs)]
    /\ \A c \in Conns : Len(reqs[c]) <= MaxReq
    /\ hup \in [Conns -> BOOLEAN]
    /\ rpos \in [Conns -> 0..MaxReq]
    /\ open \in [Conns -> BOOLEAN]
    /\ wire \in [Conns -> Seq(Header \cup Body)]
    /\ sending \in [Conns -> Seqs \cup {NoHolder}]
    /\ pc \in [Conns -> [Seqs -> Phases]]
    /\ tctx \in [Conns -> [Seqs -> Ctxs \cup {NoCtx}]]
    /\ tsync \in [Conns -> [Seqs -> BOOLEAN]]
    /\ pool \in SUBSET Ctxs
    /\ fresh \in SUBSET Ctxs
    /\ cConn \in [Ctxs -> Conns \cup {NoConn}]
    /\ cSeq \in [Ctxs -> 0..MaxReq]
    /\ cService \in [Ctxs -> BOOLEAN]
    /\ cErrType \in [Ctxs -> ErrorTypes]
    /\ cRespErr \in [Ctxs -> Messages]
    /\ acc \in [Conns -> AcceptStates]

Init ==
    /\ reqs = [c \in Conns |-> <<>>]
    /\ hup = [c \in Conns |-> FALSE]
    /\ rpos = [c \in Conns |-> 0]
    /\ open = [c \in Conns |-> TRUE]
    /\ wire = [c \in Conns |-> <<>>]
    /\ sending = [c \in Conns |-> NoHolder]
    /\ pc = [c \in Conns |-> [s \in Seqs |-> "idle"]]
    /\ tctx = [c \in Conns |-> [s \in Seqs |-> NoCtx]]
    /\ tsync = [c \in Conns |-> [s \in Seqs |-> FALSE]]
    /\ pool = {}
    /\ fresh = Ctxs
    /\ cConn = [x \in Ctxs |-> NoConn]
    /\ cSeq = [x \in Ctxs |-> 0]
    /\ cService = [x \in Ctxs |-> FALSE]
    /\ cErrType = [x \in Ctxs |-> "None"]
    /\ cRespErr = [x \in Ctxs |-> "None"]
    /\ acc = [c \in Conns |-> "pending"]

-----------------------------------------------------------------------------
(* server.getContext: contextPool.Get() hands out a pooled Context or a new  *)
(* one, then resets every field except rpcErrorType and path.                *)
Available == pool \cup fresh

\* The read loop of c is inside sendResponse for a request it failed itself.
LoopWaiting(c) ==
    \E s \in Seqs : tsync[c][s] /\ pc[c][s] \in {"respond", "body"}

LoopReady(c) == acc[c] = "serving" /\ open[c] /\ ~LoopWaiting(c)

\* How readRequestHeader ends once the codec has decoded a header: "ok", or
\* the ErrorType it records (URIParse, PostReadRequestHeader, serviceMap).
HeaderOutcomes(uri) ==
    IF uri = InvalidURI THEN {"InvalidServiceMethod"}
    ELSE ({"PostReadRequestHeader"} \cap Faults)
         \cup {IF uri \in Registered THEN "ok" ELSE "NotFoundService"}

\* How readRequestBody ends: "ok", or the ErrorType of the failing step.
BodyOutcomes ==
    {"ok"} \cup ({"PreReadRequestBody", "ReadRequestBody",
                  "PostReadRequestBody"} \cap Faults)

ReadRequest(c) ==
    /\ LoopReady(c)
    /\ rpos[c] < Len(reqs[c])
    /\ LET s == rpos[c] + 1 IN
       \E x \in Available, hdr \in HeaderOutcomes(reqs[c][s]),
          body \in BodyOutcomes :
         LET failed == hdr # "ok" \/ body # "ok"
             msg == IF hdr # "ok" THEN hdr ELSE body
             type == IF body # "ok" THEN body ELSE hdr
         IN
         /\ rpos' = [rpos EXCEPT ![c] = s]
         /\ pool' = pool \ {x}
         /\ fresh' = fresh \ {x}
         /\ cConn' = [cConn EXCEPT ![x] = c]
         /\ cSeq' = [cSeq EXCEPT ![x] = s]
         /\ cService' = [cService EXCEPT ![x] = (hdr = "ok")]
         /\ cErrType' = [cErrType EXCEPT ![x] = IF failed THEN type ELSE @]
         /\ cRespErr' = [cRespErr EXCEPT ![x] = IF failed THEN msg ELSE "None"]
         /\ tctx' = [tctx EXCEPT ![c][s] = x]
         /\ pc' = [pc EXCEPT ![c][s] = IF failed THEN "respond" ELSE "handler"]
         /\ tsync' = [tsync EXCEPT ![c][s] = failed]
    /\ UNCHANGED <<reqs, hup, open, wire, sending, acc>>

ReadFail(c) ==
    /\ LoopReady(c)
    /\ \E x \in Available, type \in {"PreReadRequestHeader", "ReadRequestHeader"} :
         /\ \/ type = "PreReadRequestHeader" /\ type \in Faults
            \/ type = "ReadRequestHeader" /\ hup[c] /\ rpos[c] = Len(reqs[c])
            \/ type = "ReadRequestHeader" /\ type \in Faults
                  /\ rpos[c] < Len(reqs[c])
         /\ pool' = pool \cup {x}
         /\ fresh' = fresh \ {x}
         /\ cConn' = [cConn EXCEPT ![x] = NoConn]
         /\ cSeq' = [cSeq EXCEPT ![x] = 0]
         /\ cService' = [cService EXCEPT ![x] = FALSE]
         /\ cErrType' = [cErrType EXCEPT ![x] = type]
         /\ cRespErr' = [cRespErr EXCEPT ![x] = "None"]
    /\ open' = [open EXCEPT ![c] = FALSE]
    /\ UNCHANGED <<reqs, hup, rpos, wire, sending, pc, tctx, tsync, acc>>

(* server.call: the handler goroutine runs ctx.service.Call, which returns   *)
(* nil or an error (a panic is recovered into an error), and sendResponse    *)
(* sets resp.Error to the error text before taking the lock.                 *)
Call(c, s) ==
    /\ pc[c][s] = "handler"
    /\ \E herr \in BOOLEAN :
         cRespErr' = [cRespErr EXCEPT ![tctx[c][s]] = IF herr THEN "Handler" ELSE "None"]
    /\ pc' = [pc EXCEPT ![c][s] = "respond"]
    /\ UNCHANGED <<reqs, hup, rpos, open, wire, sending, tctx, tsync, pool,
                   fresh, cConn, cSeq, cService, cErrType, acc>>

\* Appends frame f to the connection ctx.codecConn if it is still open; a
\* write on a closed connection fails and is only logged.
Emit(x, f) ==
    wire' = IF cConn[x] \in Conns /\ open[cConn[x]]
            THEN [wire EXCEPT ![cConn[x]] = Append(@, f)]
            ELSE wire

\* Mutant: sendResponse writes without taking the sending mutex.
WriteHeaderNoLock(c, s) ==
    /\ pc[c][s] = "respond"
    /\ LET x == tctx[c][s] IN
       Emit(x, [kind |-> "hdr", seq |-> cSeq[x],
                type |-> IF cRespErr[x] = "None" THEN "None" ELSE cErrType[x],
                msg |-> cRespErr[x]])
    /\ sending' = [sending EXCEPT ![c] = s]
    /\ pc' = [pc EXCEPT ![c][s] = "body"]
    /\ UNCHANGED <<reqs, hup, rpos, open, tctx, tsync, pool, fresh, cConn,
                   cSeq, cService, cErrType, cRespErr, acc>>

\* Mutant: putContext moved before writeResponse, so the Context is back in
\* the pool while its response is still being written.
WriteHeaderEarlyPut(c, s) ==
    /\ pc[c][s] = "respond"
    /\ sending[c] = NoHolder
    /\ LET x == tctx[c][s] IN
       /\ Emit(x, [kind |-> "hdr", seq |-> cSeq[x],
                   type |-> IF cRespErr[x] = "None" THEN "None" ELSE cErrType[x],
                   msg |-> cRespErr[x]])
       /\ pool' = pool \cup {x}
    /\ sending' = [sending EXCEPT ![c] = s]
    /\ pc' = [pc EXCEPT ![c][s] = "body"]
    /\ UNCHANGED <<reqs, hup, rpos, open, tctx, tsync, fresh, cConn,
                   cSeq, cService, cErrType, cRespErr, acc>>

(* sendResponse takes sending.Lock(); writeResponse runs the PreWriteResponse*)
(* hooks (a failure replaces resp.Error and drops the body), prefixes a     *)
(* non-empty resp.Error with rpcErrorType and the codec writes the header.   *)
WriteHeader(c, s) ==
    /\ pc[c][s] = "respond"
    /\ sending[c] = NoHolder
    /\ LET x == tctx[c][s] IN
       \E pre \in {"ok"} \cup ({"PreWriteResponse"} \cap Faults) :
         LET type == IF pre = "ok" THEN cErrType[x] ELSE pre
             msg == IF pre = "ok" THEN cRespErr[x] ELSE pre
         IN /\ cErrType' = [cErrType EXCEPT ![x] = type]
            /\ cRespErr' = [cRespErr EXCEPT ![x] = msg]
            /\ Emit(x, [kind |-> "hdr", seq |-> cSeq[x],
                        type |-> IF msg = "None" THEN "None" ELSE type,
                        msg |-> msg])
    /\ sending' = [sending EXCEPT ![c] = s]
    /\ pc' = [pc EXCEPT ![c][s] = "body"]
    /\ UNCHANGED <<reqs, hup, rpos, open, tctx, tsync, pool, fresh, cConn,
                   cSeq, cService, acc>>

\* The body writeResponse hands the codec: the reply, the invalidRequest
\* placeholder for an error response, or nil after PreWriteResponse failed.
ReplyBody(x, s) ==
    CASE cRespErr[x] = "None" -> [kind |-> "body", val |-> "reply", of |-> s]
      [] cRespErr[x] = "PreWriteResponse" -> [kind |-> "body", val |-> "nil", of |-> 0]
      [] OTHER -> [kind |-> "body", val |-> "placeholder", of |-> 0]

(* The codec writes the body; the PostWriteResponse hooks run (their error  *)
(* is only logged); sending.Unlock(); putContext clears codecConn and puts  *)
(* the Context back into the pool.                                           *)
WriteBody(c, s) ==
    /\ pc[c][s] = "body"
    /\ LET x == tctx[c][s] IN
       /\ Emit(x, ReplyBody(x, s))
       /\ pool' = pool \cup {x}
       /\ cConn' = [cConn EXCEPT ![x] = NoConn]
    /\ sending' = [sending EXCEPT ![c] = NoHolder]
    /\ pc' = [pc EXCEPT ![c][s] = "done"]
    /\ UNCHANGED <<reqs, hup, rpos, open, tctx, tsync, fresh, cSeq, cService,
                   cErrType, cRespErr, acc>>

\* The client writes request s with serviceMethod u on c.
ClientSend(c) ==
    /\ ~hup[c]
    /\ Len(reqs[c]) < MaxReq
    /\ \E u \in URIs : reqs' = [reqs EXCEPT ![c] = Append(@, u)]
    /\ UNCHANGED <<hup, rpos, open, wire, sending, pc, tctx, tsync, pool, fresh,
                   cConn, cSeq, cService, cErrType, cRespErr, acc>>

\* The client closes the connection: the server's next header read sees EOF.
ClientHangup(c) ==
    /\ ~hup[c]
    /\ hup' = [hup EXCEPT ![c] = TRUE]
    /\ UNCHANGED <<reqs, rpos, open, wire, sending, pc, tctx, tsync, pool, fresh,
                   cConn, cSeq, cService, cErrType, cRespErr, acc>>

(* ServeListener, one iteration: lis.Accept() returns c and the            *)
(* PostConnAccept hooks run; on an error the loop logs it and continues,   *)
(* without closing c, otherwise it starts `go server.ServeConn(conn)`.      *)
Accept(c) ==
    /\ acc[c] = "pending"
    /\ \E r \in {"serving"} \cup IF AcceptFault \in Faults THEN {"dropped"} ELSE {} :
         acc' = [acc EXCEPT ![c] = r]
    /\ UNCHANGED <<reqs, hup, rpos, open, wire, sending, pc, tctx, tsync, pool,
                   fresh, cConn, cSeq, cService, cErrType, cRespErr>>

Next ==
    \/ \E c \in Conns :
         \/ Accept(c) \/ ReadRequest(c) \/ ReadFail(c)
         \/ ClientSend(c) \/ ClientHangup(c)
    \/ \E c \in Conns, s \in Seqs :
         Call(c, s) \/ WriteHeader(c, s) \/ WriteBody(c, s)

(* Goroutines are scheduled fairly: the accept loop takes every pending     *)
(* connection, and the read loop reads a request on the wire, or the EOF   *)
(* after the client hung up.  sync.Mutex switches to starvation mode, so a goroutine   *)
(* blocked on sending.Lock() gets it even if others keep taking it: strong   *)
(* fairness for WriteHeader.  The client is not obliged to do anything.      *)
Fairness ==
    /\ \A c \in Conns : WF_vars(Accept(c)) /\ WF_vars(ReadRequest(c)) /\ WF_vars(ReadFail(c))
    /\ \A c \in Conns, s \in Seqs :
         /\ WF_vars(Call(c, s))
         /\ SF_vars(WriteHeader(c, s))
         /\ WF_vars(WriteBody(c, s))

Spec == Init /\ [][Next]_vars /\ Fairness

-----------------------------------------------------------------------------
(* Properties.                                                               *)

Live(c, s) == pc[c][s] \in {"handler", "respond", "body"}

IsHeader(f) == f.kind = "hdr"

\* The body that belongs after header h: the reply of request h.seq, the
\* placeholder of an error response, or nil when PreWriteResponse failed.
BodyFor(h) ==
    CASE h.msg = "None" -> [kind |-> "body", val |-> "reply", of |-> h.seq]
      [] h.msg = "PreWriteResponse" -> [kind |-> "body", val |-> "nil", of |-> 0]
      [] OTHER -> [kind |-> "body", val |-> "placeholder", of |-> 0]

(* Responses from concurrently running handler goroutines never interleave  *)
(* on a connection and never mix up their Contexts: the frames written on c *)
(* alternate header, body, and each body is the one sendResponse computed   *)
(* for the request that header names (sending mutex, context pool).         *)
ResponseFraming ==
    \A c \in Conns : \A i \in 1..Len(wire[c]) :
        IF i % 2 = 1 THEN IsHeader(wire[c][i])
        ELSE wire[c][i] = BodyFor(wire[c][i - 1])

(* A Context drawn from contextPool belongs to one in-flight request until  *)
(* putContext returns it: no two goroutines share one, and none is in the   *)
(* pool while a goroutine still uses it (getContext, sendResponse order).   *)
ContextExclusive ==
    \A c, d \in Conns, s, t \in Seqs :
        /\ Live(c, s) => tctx[c][s] \notin pool \cup fresh
        /\ Live(c, s) /\ Live(d, t) /\ <<c, s>> # <<d, t>>
              => tctx[c][s] # tctx[d][t]

(* The inductive invariant behind ContextExclusive: requests not yet read   *)
(* have no goroutine, and a live goroutine's Context still carries the      *)
(* sequence number of the request it serves (getContext only resets        *)
(* Contexts that are in the pool).                                           *)
ServerInv ==
    /\ TypeOK
    /\ \A c \in Conns, s \in Seqs : s > rpos[c] => pc[c][s] = "idle"
    /\ \A c \in Conns, s \in Seqs :
         Live(c, s) => tctx[c][s] \in Ctxs /\ cSeq[tctx[c][s]] = s
    /\ ContextExclusive

\* The ErrorType a response's error text calls for: the failing step, or the
\* zero ErrorType for an error the handler itself returned.
ExpectedType(msg) == IF msg = "Handler" THEN "None" ELSE msg

(* The numeric prefix writeResponse puts on resp.Error names the kind of    *)
(* the failure the message reports (spec: the client recovers the error     *)
(* taxonomy from it; getContext must reset every field of a pooled Context). *)
ErrorCodeMatches ==
    \A c \in Conns : \A i \in 1..Len(wire[c]) :
        IsHeader(wire[c][i]) /\ wire[c][i].msg # "None"
            => wire[c][i].type = ExpectedType(wire[c][i].msg)

(* Spec, accept loop: a connection whose PostConnAccept hook fails is       *)
(* dropped.  Every connection the client has hung up on is eventually      *)
(* closed by the server -- by ServeConn after the EOF, or by the accept     *)
(* loop when it drops the connection -- so no descriptor is leaked.        *)
ConnReleased ==
    \A c \in Conns : hup[c] ~> ~open[c]
-----------------------------------------------------------------------------
(* Refinement mapping onto RequestReply: a request counts as written once   *)
(* it is in reqs, as read once the read loop consumed it, and as answered  *)
(* once both frames of its response are on the wire; the read loop can end *)
(* early only if a header read step may fail.                               *)
Responses(c) == [k \in 1..(Len(wire[c]) \div 2) |-> wire[c][2 * k - 1].seq]

Abstract == INSTANCE RequestReply WITH
    sent <- [c \in Conns |-> Len(reqs[c])],
    read <- rpos,
    out <- [c \in Conns |-> Responses(c)],
    CanFail <- {"PreReadRequestHeader", "ReadRequestHeader"} \cap Faults # {}

=============================================================================
