-------------------------- MODULE ServerConnProofs --------------------------
(***************************************************************************)
(* Proofs about ServerConn for every value of the constants: the server   *)
(* keeps its variables well typed, and a Context taken from contextPool   *)
(* belongs to exactly one in-flight request until putContext returns it. *)
(* Both follow from the inductive invariant ServerInv.                    *)
(***************************************************************************)
EXTENDS ServerConn, TLAPS

USE ServerAssumption

\* The parts of ServerInv, named so that the steps below can cite them.
Idle == \A c \in Conns, s \in Seqs : s > rpos[c] => pc[c][s] = "idle"
Owned == \A c \in Conns, s \in Seqs :
            Live(c, s) => tctx[c][s] \in Ctxs /\ cSeq[tctx[c][s]] = s

LEMMA InvParts == ServerInv <=> TypeOK /\ Idle /\ Owned /\ ContextExclusive
  BY DEF ServerInv, Idle, Owned

LEMMA InitInv == Init => ServerInv
  <1> SUFFICES ASSUME Init PROVE ServerInv
    OBVIOUS
  <1>1. TypeOK
    BY DEF Init, TypeOK, ErrorTypes, Messages, Phases, NoHolder, AcceptStates
  <1>2. Idle /\ Owned /\ ContextExclusive
    BY DEF Init, Idle, Owned, ContextExclusive, Live
  <1>3. QED
    BY <1>1, <1>2, InvParts

LEMMA ReadRequestInv ==
  ASSUME ServerInv, NEW c \in Conns, ReadRequest(c)
  PROVE  ServerInv'
  <1> DEFINE s == rpos[c] + 1
  <1>a. TypeOK /\ Idle /\ Owned /\ ContextExclusive
    BY InvParts
  <1>b. rpos[c] < Len(reqs[c]) /\ UNCHANGED <<reqs, hup, open, wire, sending, acc>>
    BY DEF ReadRequest
  <1>c. s \in Seqs
    BY <1>a, <1>b DEF TypeOK, Seqs
  <1>0. /\ TypeOK /\ Idle /\ Owned /\ ContextExclusive
        /\ s \in Seqs /\ rpos[c] < Len(reqs[c])
        /\ UNCHANGED <<reqs, hup, open, wire, sending, acc>>
    BY <1>a, <1>b, <1>c
  <1>1. PICK x \in Available, hdr \in HeaderOutcomes(reqs[c][s]),
             body \in BodyOutcomes :
          /\ rpos' = [rpos EXCEPT ![c] = s]
          /\ pool' = pool \ {x}
          /\ fresh' = fresh \ {x}
          /\ cConn' = [cConn EXCEPT ![x] = c]
          /\ cSeq' = [cSeq EXCEPT ![x] = s]
          /\ cService' = [cService EXCEPT ![x] = (hdr = "ok")]
          /\ cErrType' = [cErrType EXCEPT ![x] =
                IF hdr # "ok" \/ body # "ok"
                THEN IF body # "ok" THEN body ELSE hdr ELSE @]
          /\ cRespErr' = [cRespErr EXCEPT ![x] =
                IF hdr # "ok" \/ body # "ok"
                THEN IF hdr # "ok" THEN hdr ELSE body ELSE "None"]
          /\ tctx' = [tctx EXCEPT ![c][s] = x]
          /\ pc' = [pc EXCEPT ![c][s] =
                IF hdr # "ok" \/ body # "ok" THEN "respond" ELSE "handler"]
          /\ tsync' = [tsync EXCEPT ![c][s] = (hdr # "ok" \/ body # "ok")]
    BY DEF ReadRequest
  <1>2. x \in Ctxs /\ x \notin pool' \cup fresh'
    BY <1>0, <1>1 DEF Available, TypeOK
  <1>3. /\ hdr \in ErrorTypes \cup {"ok"}
        /\ body \in ErrorTypes \cup {"ok"}
    BY <1>1 DEF HeaderOutcomes, BodyOutcomes, ErrorTypes, FaultPoints
  <1>4. TypeOK'
    <2> USE <1>0, <1>1, <1>2 DEF TypeOK
    <2>1. rpos' \in [Conns -> 0..MaxReq]
      OBVIOUS
    <2>2. /\ cConn' \in [Ctxs -> Conns \cup {NoConn}]
          /\ cSeq' \in [Ctxs -> 0..MaxReq]
          /\ cService' \in [Ctxs -> BOOLEAN]
      OBVIOUS
    <2>3. /\ cErrType' \in [Ctxs -> ErrorTypes]
          /\ cRespErr' \in [Ctxs -> Messages]
      <3>1. (IF hdr # "ok" \/ body # "ok"
             THEN IF body # "ok" THEN body ELSE hdr ELSE cErrType[x]) \in ErrorTypes
        BY <1>3
      <3>2. (IF hdr # "ok" \/ body # "ok"
             THEN IF hdr # "ok" THEN hdr ELSE body ELSE "None") \in Messages
        BY <1>3 DEF Messages, ErrorTypes
      <3>3. QED
        BY <3>1, <3>2
    <2>4. /\ tctx' \in [Conns -> [Seqs -> Ctxs \cup {NoCtx}]]
          /\ pc' \in [Conns -> [Seqs -> Phases]]
          /\ tsync' \in [Conns -> [Seqs -> BOOLEAN]]
      <3>1. tctx' \in [Conns -> [Seqs -> Ctxs \cup {NoCtx}]]
        OBVIOUS
      <3>2. pc' \in [Conns -> [Seqs -> Phases]]
        BY DEF Phases
      <3>3. tsync' \in [Conns -> [Seqs -> BOOLEAN]]
        OBVIOUS
      <3>4. QED
        BY <3>1, <3>2, <3>3
    <2>5. pool' \in SUBSET Ctxs /\ fresh' \in SUBSET Ctxs
      OBVIOUS
    <2>6. QED
      BY <2>1, <2>2, <2>3, <2>4, <2>5
  <1>5. Idle'
    <2> SUFFICES ASSUME NEW d \in Conns, NEW t \in Seqs, t > rpos'[d]
                 PROVE  pc'[d][t] = "idle"
      BY DEF Idle
    <2>1. <<d, t>> # <<c, s>> /\ t > rpos[d]
      BY <1>0, <1>1 DEF TypeOK, Seqs
    <2>2. pc'[d][t] = pc[d][t]
      BY <2>1, <1>0, <1>1 DEF TypeOK
    <2>3. QED
      BY <2>1, <2>2, <1>0 DEF Idle
  <1>6. Owned'
    <2> SUFFICES ASSUME NEW d \in Conns, NEW t \in Seqs, Live(d, t)'
                 PROVE  tctx'[d][t] \in Ctxs /\ cSeq'[tctx'[d][t]] = t
      BY DEF Owned
    <2>1. CASE <<d, t>> = <<c, s>>
      BY <2>1, <1>0, <1>1, <1>2 DEF TypeOK
    <2>2. CASE <<d, t>> # <<c, s>>
      <3>1. Live(d, t) /\ tctx'[d][t] = tctx[d][t]
        BY <2>2, <1>0, <1>1 DEF Live, TypeOK
      <3>2. tctx[d][t] \in Ctxs /\ cSeq[tctx[d][t]] = t /\ tctx[d][t] # x
        BY <3>1, <1>0, <1>1 DEF Owned, ContextExclusive, Available
      <3>3. QED
        BY <3>1, <3>2, <1>0, <1>1 DEF TypeOK
    <2>3. QED
      BY <2>1, <2>2
  <1>7. ContextExclusive'
    <2> SUFFICES ASSUME NEW d \in Conns, NEW e \in Conns,
                        NEW t \in Seqs, NEW u \in Seqs
                 PROVE  /\ Live(d, t)' => tctx'[d][t] \notin pool' \cup fresh'
                        /\ Live(d, t)' /\ Live(e, u)' /\ <<d, t>> # <<e, u>>
                              => tctx'[d][t] # tctx'[e][u]
      BY DEF ContextExclusive
    <2>1. ASSUME NEW f \in Conns, NEW v \in Seqs, Live(f, v)', <<f, v>> # <<c, s>>
          PROVE  /\ Live(f, v) /\ tctx'[f][v] = tctx[f][v]
                 /\ tctx[f][v] \notin pool \cup fresh
                 /\ tctx[f][v] # x
      BY <2>1, <1>0, <1>1 DEF Live, TypeOK, ContextExclusive, Available
    <2>2. ASSUME NEW f \in Conns, NEW v \in Seqs, <<f, v>> = <<c, s>>
          PROVE  tctx'[f][v] = x
      BY <2>2, <1>0, <1>1 DEF TypeOK
    <2>3. QED
      BY <2>1, <2>2, <1>0, <1>1, <1>2 DEF ContextExclusive
  <1>8. QED
    BY <1>4, <1>5, <1>6, <1>7 DEF ServerInv, Idle, Owned

LEMMA ReadFailInv ==
  ASSUME ServerInv, NEW c \in Conns, ReadFail(c)
  PROVE  ServerInv'
  <1>0. TypeOK /\ Idle /\ Owned /\ ContextExclusive
    BY InvParts
  <1>1. PICK x \in Available,
             type \in {"PreReadRequestHeader", "ReadRequestHeader"} :
          /\ pool' = pool \cup {x}
          /\ fresh' = fresh \ {x}
          /\ cConn' = [cConn EXCEPT ![x] = NoConn]
          /\ cSeq' = [cSeq EXCEPT ![x] = 0]
          /\ cService' = [cService EXCEPT ![x] = FALSE]
          /\ cErrType' = [cErrType EXCEPT ![x] = type]
          /\ cRespErr' = [cRespErr EXCEPT ![x] = "None"]
    BY DEF ReadFail
  <1>2. /\ open' = [open EXCEPT ![c] = FALSE]
        /\ UNCHANGED <<reqs, hup, rpos, wire, sending, pc, tctx, tsync, acc>>
    BY DEF ReadFail
  <1>3. x \in Ctxs /\ pool' \cup fresh' = pool \cup fresh
    BY <1>0, <1>1 DEF Available, TypeOK
  <1>4. TypeOK'
    BY <1>0, <1>1, <1>2, <1>3 DEF TypeOK, ErrorTypes, FaultPoints, Messages
  <1>5. \A d \in Conns, t \in Seqs : Live(d, t) => tctx[d][t] # x
    BY <1>0, <1>1 DEF ContextExclusive, Available
  <1>6. Idle' /\ Owned' /\ ContextExclusive'
    BY <1>0, <1>1, <1>2, <1>3, <1>5 DEF Idle, Owned, ContextExclusive, Live, TypeOK
  <1>7. QED
    BY <1>4, <1>6 DEF ServerInv, Idle, Owned

LEMMA CallInv ==
  ASSUME ServerInv, NEW c \in Conns, NEW s \in Seqs, Call(c, s)
  PROVE  ServerInv'
  <1>0. TypeOK /\ Idle /\ Owned /\ ContextExclusive
    BY InvParts
  <1>1. tctx[c][s] \in Ctxs
    BY <1>0 DEF Call, Owned, Live
  <1>2. PICK herr \in BOOLEAN :
          cRespErr' = [cRespErr EXCEPT ![tctx[c][s]] =
                         IF herr THEN "Handler" ELSE "None"]
    BY DEF Call
  <1>3. TypeOK'
    <2>1. cRespErr' \in [Ctxs -> Messages]
      BY <1>0, <1>1, <1>2 DEF TypeOK, Messages, ErrorTypes
    <2>2. pc' \in [Conns -> [Seqs -> Phases]]
      BY <1>0 DEF Call, TypeOK, Phases
    <2>3. QED
      BY <1>0, <2>1, <2>2 DEF Call, TypeOK
  <1>4. Idle' /\ Owned' /\ ContextExclusive'
    BY <1>0 DEF Call, Idle, Owned, ContextExclusive, Live, TypeOK
  <1>5. QED
    BY <1>3, <1>4 DEF ServerInv, Idle, Owned

LEMMA WriteHeaderInv ==
  ASSUME ServerInv, NEW c \in Conns, NEW s \in Seqs, WriteHeader(c, s)
  PROVE  ServerInv'
  <1> DEFINE x == tctx[c][s]
  <1>0. TypeOK /\ Idle /\ Owned /\ ContextExclusive
    BY InvParts
  <1>1. x \in Ctxs /\ cSeq[x] = s /\ pc[c][s] = "respond"
    BY <1>0 DEF WriteHeader, Owned, Live
  <1>2. PICK pre \in {"ok"} \cup ({"PreWriteResponse"} \cap Faults) :
          LET type == IF pre = "ok" THEN cErrType[x] ELSE pre
              msg == IF pre = "ok" THEN cRespErr[x] ELSE pre
          IN /\ cErrType' = [cErrType EXCEPT ![x] = type]
             /\ cRespErr' = [cRespErr EXCEPT ![x] = msg]
             /\ Emit(x, [kind |-> "hdr", seq |-> cSeq[x],
                         type |-> IF msg = "None" THEN "None" ELSE type,
                         msg |-> msg])
    BY DEF WriteHeader
  <1>3. /\ sending' = [sending EXCEPT ![c] = s]
        /\ pc' = [pc EXCEPT ![c][s] = "body"]
        /\ UNCHANGED <<acc, reqs, hup, rpos, open, tctx, tsync, pool, fresh, cConn,
                       cSeq, cService>>
    BY DEF WriteHeader
  <1>4. /\ (IF pre = "ok" THEN cErrType[x] ELSE pre) \in ErrorTypes
        /\ (IF pre = "ok" THEN cRespErr[x] ELSE pre) \in Messages
    BY <1>0, <1>1, <1>2 DEF TypeOK, ErrorTypes, Messages, FaultPoints
  <1>5. wire' \in [Conns -> Seq(Header \cup Body)]
    <2> DEFINE msg == IF pre = "ok" THEN cRespErr[x] ELSE pre
               type == IF pre = "ok" THEN cErrType[x] ELSE pre
               h == [kind |-> "hdr", seq |-> cSeq[x],
                     type |-> IF msg = "None" THEN "None" ELSE type, msg |-> msg]
    <2>1. h \in Header
      BY <1>1, <1>4 DEF Header, ErrorTypes
    <2>2. wire' = IF cConn[x] \in Conns /\ open[cConn[x]]
                  THEN [wire EXCEPT ![cConn[x]] = Append(@, h)] ELSE wire
      BY <1>2 DEF Emit
    <2>3. CASE cConn[x] \in Conns /\ open[cConn[x]]
      <3>1. Append(wire[cConn[x]], h) \in Seq(Header \cup Body)
        BY <2>1, <2>3, <1>0 DEF TypeOK
      <3>2. QED
        BY <3>1, <2>2, <2>3, <1>0 DEF TypeOK
    <2>4. CASE ~(cConn[x] \in Conns /\ open[cConn[x]])
      BY <2>2, <2>4, <1>0 DEF TypeOK
    <2>5. QED
      BY <2>3, <2>4
  <1>6. TypeOK'
    BY <1>0, <1>1, <1>2, <1>3, <1>4, <1>5 DEF TypeOK, Phases
  <1>7. Idle' /\ Owned' /\ ContextExclusive'
    BY <1>0, <1>1, <1>3 DEF Idle, Owned, ContextExclusive, Live, TypeOK
  <1>8. QED
    BY <1>6, <1>7 DEF ServerInv, Idle, Owned

LEMMA WriteBodyInv ==
  ASSUME ServerInv, NEW c \in Conns, NEW s \in Seqs, WriteBody(c, s)
  PROVE  ServerInv'
  <1> DEFINE x == tctx[c][s]
  <1>0. TypeOK /\ Idle /\ Owned /\ ContextExclusive
    BY InvParts
  <1>1. x \in Ctxs /\ pc[c][s] = "body"
    BY <1>0 DEF WriteBody, Owned, Live
  <1>2. /\ Emit(x, ReplyBody(x, s))
        /\ pool' = pool \cup {x}
        /\ cConn' = [cConn EXCEPT ![x] = NoConn]
        /\ sending' = [sending EXCEPT ![c] = NoHolder]
        /\ pc' = [pc EXCEPT ![c][s] = "done"]
        /\ UNCHANGED <<acc, reqs, hup, rpos, open, tctx, tsync, fresh, cSeq,
                       cService, cErrType, cRespErr>>
    BY DEF WriteBody
  <1>3. ReplyBody(x, s) \in Body
    BY DEF ReplyBody, Body, Seqs
  <1>4. wire' \in [Conns -> Seq(Header \cup Body)]
    BY <1>0, <1>2, <1>3 DEF Emit, TypeOK
  <1>5. TypeOK'
    BY <1>0, <1>1, <1>2, <1>4 DEF TypeOK, Phases, NoHolder
  <1>6. \A d \in Conns, t \in Seqs : Live(d, t) /\ <<d, t>> # <<c, s>>
           => tctx[d][t] # x
    BY <1>0, <1>1 DEF ContextExclusive, Live
  <1>7. Idle' /\ Owned' /\ ContextExclusive'
    BY <1>0, <1>1, <1>2, <1>6 DEF Idle, Owned, ContextExclusive, Live, TypeOK
  <1>8. QED
    BY <1>5, <1>7 DEF ServerInv, Idle, Owned

LEMMA ClientInv ==
  ASSUME ServerInv, NEW c \in Conns, ClientSend(c) \/ ClientHangup(c)
  PROVE  ServerInv'
  <1>0. TypeOK /\ Idle /\ Owned /\ ContextExclusive
    BY InvParts
  <1>1. TypeOK'
    <2>1. CASE ClientSend(c)
      <3>1. PICK u \in URIs : reqs' = [reqs EXCEPT ![c] = Append(@, u)]
        BY <2>1 DEF ClientSend
      <3>2. Len(reqs[c]) < MaxReq
        BY <2>1 DEF ClientSend
      <3>3. reqs' \in [Conns -> Seq(URIs)] /\ \A d \in Conns : Len(reqs'[d]) <= MaxReq
        BY <3>1, <3>2, <1>0 DEF TypeOK
      <3>4. QED
        BY <3>3, <2>1, <1>0 DEF ClientSend, TypeOK
    <2>2. CASE ClientHangup(c)
      BY <2>2, <1>0 DEF ClientHangup, TypeOK
    <2>3. QED
      BY <2>1, <2>2
  <1>2. Idle' /\ Owned' /\ ContextExclusive'
    BY <1>0 DEF ClientSend, ClientHangup, Idle, Owned, ContextExclusive, Live
  <1>3. QED
    BY <1>1, <1>2 DEF ServerInv, Idle, Owned

LEMMA AcceptInv ==
  ASSUME ServerInv, NEW c \in Conns, Accept(c)
  PROVE  ServerInv'
  <1>0. TypeOK /\ Idle /\ Owned /\ ContextExclusive
    BY InvParts
  <1>1. acc' \in [Conns -> AcceptStates]
    BY <1>0 DEF Accept, TypeOK, AcceptStates
  <1>2. TypeOK'
    BY <1>0, <1>1 DEF Accept, TypeOK
  <1>3. Idle' /\ Owned' /\ ContextExclusive'
    BY <1>0 DEF Accept, Idle, Owned, ContextExclusive, Live
  <1>4. QED
    BY <1>2, <1>3 DEF ServerInv, Idle, Owned

LEMMA NextInv == ServerInv /\ [Next]_vars => ServerInv'
  <1> SUFFICES ASSUME ServerInv, [Next]_vars PROVE ServerInv'
    OBVIOUS
  <1>1. CASE \E c \in Conns : ReadRequest(c)
    BY <1>1, ReadRequestInv
  <1>2. CASE \E c \in Conns : ReadFail(c)
    BY <1>2, ReadFailInv
  <1>3. CASE \E c \in Conns : ClientSend(c) \/ ClientHangup(c)
    BY <1>3, ClientInv
  <1>4. CASE \E c \in Conns, s \in Seqs : Call(c, s)
    BY <1>4, CallInv
  <1>5. CASE \E c \in Conns, s \in Seqs : WriteHeader(c, s)
    BY <1>5, WriteHeaderInv
  <1>6. CASE \E c \in Conns, s \in Seqs : WriteBody(c, s)
    BY <1>6, WriteBodyInv
  <1>7. CASE UNCHANGED vars
    BY <1>7 DEF vars, ServerInv, TypeOK, Idle, Owned, ContextExclusive, Live
  <1>8. CASE \E c \in Conns : Accept(c)
    BY <1>8, AcceptInv
  <1>9. QED
    BY <1>1, <1>2, <1>3, <1>4, <1>5, <1>6, <1>7, <1>8 DEF Next

(* The server's state stays well typed in every behaviour: in particular    *)
(* every frame written on a connection is a header carrying the sequence    *)
(* number of a request, or a body (ServeConn, sendResponse, writeResponse). *)
THEOREM TypeCorrect == Spec => []TypeOK
  <1>1. ServerInv => TypeOK
    BY DEF ServerInv
  <1>2. QED
    BY <1>1, InitInv, NextInv, PTL DEF Spec

(* A Context taken from contextPool by getContext is used by one request    *)
(* only, and is not back in the pool, until sendResponse's putContext: no   *)
(* two goroutines of any connections ever share one.                        *)
THEOREM ContextsExclusive == Spec => []ContextExclusive
  <1>1. ServerInv => ContextExclusive
    BY DEF ServerInv
  <1>2. QED
    BY <1>1, InitInv, NextInv, PTL DEF Spec

(* The whole inductive invariant holds in every behaviour: a request the   *)
(* read loop has not reached has no goroutine, and the Context of every     *)
(* running goroutine is its own, records that request's sequence number and *)
(* is shared with no other goroutine nor left in contextPool.               *)
THEOREM ServerInvariant == Spec => []ServerInv
  BY InitInv, NextInv, PTL DEF Spec

=============================================================================
