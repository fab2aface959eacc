------------------------- MODULE ServerFramingProofs -------------------------
(***************************************************************************)
(* Proof that the responses on every connection are framed: the frames the *)
(* server writes alternate header and body, and each body is the one       *)
(* writeResponse computes for the request its header names, for any number *)
(* of connections, Contexts and requests.                                  *)
(*                                                                         *)
(* ResponseFraming is not inductive by itself: a step that writes a header *)
(* or a body must know where on the wire the connection stands.  The      *)
(* strengthening says that the `sending` mutex of c is held exactly by the *)
(* goroutine between its header and its body, that while c is open and the *)
(* mutex is free the wire holds whole responses, that the holder's header  *)
(* is the last frame and carries its request's seq and resp.Error, and     *)
(* that a running goroutine's Context is bound to its own connection.      *)
(***************************************************************************)
EXTENDS ServerConnProofs, SequenceTheorems

USE ServerAssumption

\* sendResponse holds c's sending mutex exactly between writing the header
\* and writing the body.
SendingHolder ==
    \A c \in Conns, s \in Seqs : pc[c][s] = "body" <=> sending[c] = s

\* getContext's codecConn of a running goroutine is its own connection.
CtxConn ==
    \A c \in Conns, s \in Seqs : Live(c, s) => cConn[tctx[c][s]] = c

\* With the mutex free, an open connection carries whole responses.
EvenWhenFree ==
    \A c \in Conns : open[c] /\ sending[c] = NoHolder => Len(wire[c]) % 2 = 0

\* The mutex holder's header is the last frame of its open connection.
HeaderPending ==
    \A c \in Conns, s \in Seqs :
        open[c] /\ pc[c][s] = "body" =>
            LET n == Len(wire[c]) IN
            /\ n % 2 = 1
            /\ IsHeader(wire[c][n])
            /\ wire[c][n].seq = s
            /\ wire[c][n].msg = cRespErr[tctx[c][s]]

\* The frames of w alternate header and body, each body matching its header.
Framed(w) ==
    \A i \in 1..Len(w) :
        IF i % 2 = 1 THEN IsHeader(w[i]) ELSE w[i] = BodyFor(w[i - 1])

FramingInv ==
    /\ ServerInv /\ ResponseFraming
    /\ SendingHolder /\ CtxConn /\ EvenWhenFree /\ HeaderPending

LEMMA InitFraming == Init => FramingInv
  <1> SUFFICES ASSUME Init PROVE FramingInv
    OBVIOUS
  <1>1. ServerInv
    BY InitInv
  <1>2. \A c \in Conns : wire[c] = <<>> /\ sending[c] = NoHolder
    BY DEF Init
  <1>3. \A c \in Conns, s \in Seqs : pc[c][s] = "idle" /\ s # NoHolder
    BY DEF Init, Seqs, NoHolder
  <1>4. \A c \in Conns : Len(wire[c]) = 0
    BY <1>2
  <1>6. ResponseFraming
    BY <1>4 DEF ResponseFraming
  <1>7. EvenWhenFree
    <2> SUFFICES ASSUME NEW c \in Conns PROVE Len(wire[c]) % 2 = 0
      BY DEF EvenWhenFree
    <2>1. Len(wire[c]) = 0
      BY <1>4
    <2> QED
      BY <2>1
  <1>5. SendingHolder /\ CtxConn /\ HeaderPending
    BY <1>2, <1>3 DEF SendingHolder, CtxConn, HeaderPending, Live
  <1> QED
    BY <1>1, <1>5, <1>6, <1>7 DEF FramingInv

(* A step that writes no frame and takes or releases no mutex keeps the    *)
(* framing when it closes connections only, moves no goroutine into or out *)
(* of its body phase, leaves the Context and resp.Error of a goroutine in  *)
(* that phase alone, and keeps running goroutines bound to their Contexts. *)
LEMMA QuietStep ==
  ASSUME FramingInv, ServerInv',
         UNCHANGED <<wire, sending>>,
         \A c \in Conns : open'[c] => open[c],
         \A c \in Conns, s \in Seqs : pc'[c][s] = "body" <=> pc[c][s] = "body",
         \A c \in Conns, s \in Seqs : pc[c][s] = "body" =>
            /\ tctx'[c][s] = tctx[c][s]
            /\ cRespErr'[tctx[c][s]] = cRespErr[tctx[c][s]],
         CtxConn'
  PROVE  FramingInv'
  <1>1. ResponseFraming'
    BY DEF FramingInv, ResponseFraming
  <1>2. SendingHolder'
    BY DEF FramingInv, SendingHolder
  <1>3. EvenWhenFree'
    BY DEF FramingInv, EvenWhenFree
  <1>4. HeaderPending'
    <2> SUFFICES ASSUME NEW c \in Conns, NEW s \in Seqs, open'[c], pc'[c][s] = "body"
                 PROVE  LET n == Len(wire'[c]) IN
                          /\ n % 2 = 1
                          /\ IsHeader(wire'[c][n])
                          /\ wire'[c][n].seq = s
                          /\ wire'[c][n].msg = cRespErr'[tctx'[c][s]]
      BY DEF HeaderPending
    <2>1. open[c] /\ pc[c][s] = "body"
      OBVIOUS
    <2>2. LET n == Len(wire[c]) IN
            /\ n % 2 = 1
            /\ IsHeader(wire[c][n])
            /\ wire[c][n].seq = s
            /\ wire[c][n].msg = cRespErr[tctx[c][s]]
      BY <2>1 DEF FramingInv, HeaderPending
    <2>3. cRespErr'[tctx'[c][s]] = cRespErr[tctx[c][s]]
      BY <2>1
    <2> QED
      BY <2>2, <2>3
  <1> QED
    BY <1>1, <1>2, <1>3, <1>4 DEF FramingInv

\* The parts of ServerInv and their types that the steps below use.
LEMMA Facts ==
  ASSUME FramingInv
  PROVE  /\ TypeOK /\ Idle /\ Owned /\ ContextExclusive
         /\ pc \in [Conns -> [Seqs -> Phases]]
         /\ tctx \in [Conns -> [Seqs -> Ctxs \cup {NoCtx}]]
         /\ cConn \in [Ctxs -> Conns \cup {NoConn}]
         /\ cRespErr \in [Ctxs -> Messages]
         /\ open \in [Conns -> BOOLEAN]
  BY InvParts DEF FramingInv, TypeOK

LEMMA ReadRequestFraming ==
  ASSUME FramingInv, ServerInv', NEW c \in Conns, ReadRequest(c)
  PROVE  FramingInv'
  <1> DEFINE s == rpos[c] + 1
  <1>0. /\ TypeOK /\ Idle /\ Owned /\ ContextExclusive
        /\ pc \in [Conns -> [Seqs -> Phases]]
        /\ tctx \in [Conns -> [Seqs -> Ctxs \cup {NoCtx}]]
        /\ cConn \in [Ctxs -> Conns \cup {NoConn}]
        /\ cRespErr \in [Ctxs -> Messages]
    BY Facts
  <1>1. rpos[c] < Len(reqs[c]) /\ UNCHANGED <<wire, sending, open>>
    BY DEF ReadRequest
  <1>a. s \in Seqs
    BY <1>0, <1>1 DEF TypeOK, Seqs, s
  <1>b. rpos[c] \in Nat
    BY <1>0 DEF TypeOK
  <1>2. s \in Seqs /\ pc[c][s] = "idle"
    BY <1>0, <1>a, <1>b DEF Idle, s
  <1>3. PICK x \in Available :
          /\ cConn' = [cConn EXCEPT ![x] = c]
          /\ \E v : cRespErr' = [cRespErr EXCEPT ![x] = v]
          /\ tctx' = [tctx EXCEPT ![c][s] = x]
          /\ \E ph \in {"respond", "handler"} : pc' = [pc EXCEPT ![c][s] = ph]
    BY DEF ReadRequest
  <1>4. \A d \in Conns, t \in Seqs : Live(d, t) => tctx[d][t] # x
    BY <1>0, <1>3 DEF ContextExclusive, Available
  <1>5. \A d \in Conns, t \in Seqs : pc'[d][t] = "body" <=> pc[d][t] = "body"
    BY <1>0, <1>2, <1>3
  <1>6. \A d \in Conns, t \in Seqs : pc[d][t] = "body" =>
            /\ tctx'[d][t] = tctx[d][t]
            /\ cRespErr'[tctx[d][t]] = cRespErr[tctx[d][t]]
    BY <1>0, <1>2, <1>3, <1>4 DEF Live
  <1>7. CtxConn'
    <2> SUFFICES ASSUME NEW d \in Conns, NEW t \in Seqs, Live(d, t)'
                 PROVE  cConn'[tctx'[d][t]] = d
      BY DEF CtxConn
    <2>1. CASE <<d, t>> = <<c, s>>
      <3>1. d = c /\ t = s
        BY <2>1
      <3>2. x \in Ctxs
        BY <1>0 DEF TypeOK, Available
      <3>3. tctx'[c][s] = x
        BY <1>0, <1>2, <1>3
      <3>4. cConn'[x] = c
        BY <1>0, <1>3, <3>2
      <3> QED
        BY <3>1, <3>3, <3>4
    <2>2. CASE <<d, t>> # <<c, s>>
      <3>1. Live(d, t) /\ tctx'[d][t] = tctx[d][t]
        BY <1>0, <1>2, <1>3, <2>2 DEF Live
      <3>2. tctx[d][t] # x
        BY <1>4, <3>1
      <3>3. cConn[tctx[d][t]] = d
        BY <3>1 DEF FramingInv, CtxConn
      <3>4. tctx[d][t] \in Ctxs
        BY <1>0, <3>1 DEF Owned
      <3> QED
        BY <1>0, <1>3, <3>1, <3>2, <3>3, <3>4
    <2> QED
      BY <2>1, <2>2
  <1> QED
    BY <1>1, <1>5, <1>6, <1>7, QuietStep

LEMMA ReadFailFraming ==
  ASSUME FramingInv, ServerInv', NEW c \in Conns, ReadFail(c)
  PROVE  FramingInv'
  <1>0. /\ TypeOK /\ Idle /\ Owned /\ ContextExclusive
        /\ cConn \in [Ctxs -> Conns \cup {NoConn}]
        /\ cRespErr \in [Ctxs -> Messages]
        /\ open \in [Conns -> BOOLEAN]
    BY Facts
  <1>1. /\ open' = [open EXCEPT ![c] = FALSE]
        /\ UNCHANGED <<wire, sending, pc, tctx>>
    BY DEF ReadFail
  <1>2. PICK x \in Available :
          /\ cConn' = [cConn EXCEPT ![x] = NoConn]
          /\ \E v : cRespErr' = [cRespErr EXCEPT ![x] = v]
    BY DEF ReadFail
  <1>3. \A d \in Conns, t \in Seqs : Live(d, t) =>
            /\ tctx[d][t] # x /\ tctx[d][t] \in Ctxs
            /\ cConn'[tctx[d][t]] = cConn[tctx[d][t]]
            /\ cRespErr'[tctx[d][t]] = cRespErr[tctx[d][t]]
    BY <1>0, <1>2 DEF ContextExclusive, Available, Owned
  <1>4. \A d \in Conns : open'[d] => open[d]
    BY <1>0, <1>1
  <1>5. CtxConn'
    BY <1>1, <1>3 DEF FramingInv, CtxConn, Live
  <1> QED
    BY <1>1, <1>3, <1>4, <1>5, QuietStep DEF Live

LEMMA CallFraming ==
  ASSUME FramingInv, ServerInv', NEW c \in Conns, NEW s \in Seqs, Call(c, s)
  PROVE  FramingInv'
  <1>0. /\ TypeOK /\ Idle /\ Owned /\ ContextExclusive
        /\ pc \in [Conns -> [Seqs -> Phases]]
        /\ cRespErr \in [Ctxs -> Messages]
    BY Facts
  <1>1. /\ pc[c][s] = "handler" /\ pc' = [pc EXCEPT ![c][s] = "respond"]
        /\ \E v : cRespErr' = [cRespErr EXCEPT ![tctx[c][s]] = v]
        /\ UNCHANGED <<wire, sending, open, tctx, cConn>>
    BY DEF Call
  <1>2. \A d \in Conns, t \in Seqs : pc'[d][t] = "body" <=> pc[d][t] = "body"
    BY <1>0, <1>1
  <1>3. \A d \in Conns, t \in Seqs : pc[d][t] = "body" =>
            cRespErr'[tctx[d][t]] = cRespErr[tctx[d][t]]
    <2> SUFFICES ASSUME NEW d \in Conns, NEW t \in Seqs, pc[d][t] = "body"
                 PROVE  cRespErr'[tctx[d][t]] = cRespErr[tctx[d][t]]
      OBVIOUS
    <2>1. Live(d, t) /\ Live(c, s) /\ <<d, t>> # <<c, s>>
      BY <1>1 DEF Live
    <2>2. tctx[d][t] # tctx[c][s] /\ tctx[d][t] \in Ctxs
      BY <1>0, <2>1 DEF ContextExclusive, Owned
    <2> QED
      BY <1>0, <1>1, <2>2
  <1>4. \A d \in Conns, t \in Seqs : Live(d, t)' => Live(d, t)
    BY <1>0, <1>1 DEF Live
  <1>5. CtxConn'
    BY <1>1, <1>4 DEF FramingInv, CtxConn
  <1> QED
    BY <1>1, <1>2, <1>3, <1>5, QuietStep

LEMMA EnvFraming ==
  ASSUME FramingInv, ServerInv', NEW c \in Conns,
         ClientSend(c) \/ ClientHangup(c) \/ Accept(c)
  PROVE  FramingInv'
  <1>1. UNCHANGED <<wire, sending, open, pc, tctx, cConn, cRespErr>>
    BY DEF ClientSend, ClientHangup, Accept
  <1>2. CtxConn'
    BY <1>1 DEF FramingInv, CtxConn, Live
  <1> QED
    BY <1>1, <1>2, QuietStep

LEMMA FramingPerConn == ResponseFraming <=> \A c \in Conns : Framed(wire[c])
  BY DEF ResponseFraming, Framed

(* Appending a header after whole responses, or after a header the body    *)
(* that belongs to it, keeps a wire framed.                                 *)
LEMMA AppendFramed ==
  ASSUME NEW S, NEW w \in Seq(S), NEW f \in S, Framed(w),
         Len(w) % 2 # 1 => IsHeader(f),
         Len(w) % 2 = 1 => f = BodyFor(w[Len(w)])
  PROVE  Framed(Append(w, f))
  <1> SUFFICES ASSUME NEW i \in 1..Len(Append(w, f))
               PROVE  IF i % 2 = 1 THEN IsHeader(Append(w, f)[i])
                      ELSE Append(w, f)[i] = BodyFor(Append(w, f)[i - 1])
    BY DEF Framed
  <1>1. /\ Len(Append(w, f)) = Len(w) + 1 /\ Len(w) \in Nat
        /\ \A k \in 1..Len(w) : Append(w, f)[k] = w[k]
        /\ Append(w, f)[Len(w) + 1] = f
    BY AppendProperties, LenProperties
  <1>2. CASE i <= Len(w)
    <2>1. IF i % 2 = 1 THEN IsHeader(w[i]) ELSE w[i] = BodyFor(w[i - 1])
      BY <1>1, <1>2 DEF Framed
    <2>2. Append(w, f)[i] = w[i]
      BY <1>1, <1>2
    <2>3. i % 2 = 0 => Append(w, f)[i - 1] = w[i - 1]
      BY <1>1, <1>2
    <2> QED
      BY <2>1, <2>2, <2>3
  <1>3. CASE i = Len(w) + 1
    <2>1. Append(w, f)[i] = f
      BY <1>1, <1>3
    <2>2. i % 2 = 1 <=> Len(w) % 2 # 1
      BY <1>1, <1>3
    <2>3. i % 2 = 0 => i - 1 = Len(w) /\ Len(w) \in 1..Len(w)
      BY <1>1, <1>3
    <2>4. i % 2 = 0 => Append(w, f)[i - 1] = w[Len(w)]
      BY <1>1, <2>3
    <2> QED
      BY <2>1, <2>2, <2>4
  <1> QED
    BY <1>1, <1>2, <1>3

\* The facts about the goroutine that writes a frame for request s of c.
LEMMA WriterFacts ==
  ASSUME FramingInv, NEW c \in Conns, NEW s \in Seqs,
         pc[c][s] \in {"respond", "body"}
  PROVE  LET x == tctx[c][s] IN
         /\ x \in Ctxs /\ cSeq[x] = s /\ cConn[x] = c
         /\ \A d \in Conns, t \in Seqs :
              Live(d, t) /\ <<d, t>> # <<c, s>> => tctx[d][t] # x /\ tctx[d][t] \in Ctxs
  <1>0. Owned /\ ContextExclusive /\ CtxConn /\ Live(c, s)
    BY Facts DEF FramingInv, Live
  <1> QED
    BY <1>0 DEF Owned, ContextExclusive, CtxConn

\* A length with even parity is not odd.
LEMMA EvenNotOdd ==
  ASSUME NEW n \in Nat, n % 2 = 0
  PROVE  n % 2 # 1
  BY SMT

LEMMA WriteHeaderFraming ==
  ASSUME FramingInv, ServerInv', NEW c \in Conns, NEW s \in Seqs, WriteHeader(c, s)
  PROVE  FramingInv'
  <1> DEFINE x == tctx[c][s]
  <1>0. /\ TypeOK /\ Idle /\ Owned /\ ContextExclusive
        /\ pc \in [Conns -> [Seqs -> Phases]]
        /\ tctx \in [Conns -> [Seqs -> Ctxs \cup {NoCtx}]]
        /\ cRespErr \in [Ctxs -> Messages]
        /\ open \in [Conns -> BOOLEAN]
        /\ wire \in [Conns -> Seq(Header \cup Body)]
        /\ sending \in [Conns -> Seqs \cup {NoHolder}]
    BY Facts DEF TypeOK
  <1>1. /\ pc[c][s] = "respond" /\ sending[c] = NoHolder
        /\ sending' = [sending EXCEPT ![c] = s]
        /\ pc' = [pc EXCEPT ![c][s] = "body"]
        /\ UNCHANGED <<open, tctx, cConn>>
    BY DEF WriteHeader
  <1>2. /\ x \in Ctxs /\ cSeq[x] = s /\ cConn[x] = c
        /\ \A d \in Conns, t \in Seqs :
              Live(d, t) /\ <<d, t>> # <<c, s>> => tctx[d][t] # x /\ tctx[d][t] \in Ctxs
    BY <1>1, WriterFacts
  <1>3. PICK h \in Header \cup Body :
          /\ IsHeader(h) /\ h.seq = s /\ h.msg = cRespErr'[x]
          /\ cRespErr' = [cRespErr EXCEPT ![x] = h.msg]
          /\ wire' = IF open[c] THEN [wire EXCEPT ![c] = Append(wire[c], h)] ELSE wire
    <2>1. PICK pre \in {"ok"} \cup ({"PreWriteResponse"} \cap Faults) :
            LET type == IF pre = "ok" THEN cErrType[x] ELSE pre
                msg == IF pre = "ok" THEN cRespErr[x] ELSE pre
            IN /\ cRespErr' = [cRespErr EXCEPT ![x] = msg]
               /\ Emit(x, [kind |-> "hdr", seq |-> cSeq[x],
                           type |-> IF msg = "None" THEN "None" ELSE type,
                           msg |-> msg])
      BY DEF WriteHeader
    <2> DEFINE msg == IF pre = "ok" THEN cRespErr[x] ELSE pre
               type == IF pre = "ok" THEN cErrType[x] ELSE pre
               hd == [kind |-> "hdr", seq |-> cSeq[x],
                      type |-> IF msg = "None" THEN "None" ELSE type, msg |-> msg]
    <2>2. /\ msg \in Messages /\ type \in ErrorTypes
      BY <1>0, <1>2 DEF TypeOK, ErrorTypes, Messages, FaultPoints
    <2>3. hd \in Header /\ IsHeader(hd) /\ hd.seq = s /\ hd.msg = msg
      BY <1>2, <2>2 DEF Header, ErrorTypes, IsHeader
    <2>4. cRespErr' = [cRespErr EXCEPT ![x] = msg] /\ cRespErr'[x] = msg
      BY <1>0, <1>2, <2>1
    <2>5. wire' = IF open[c] THEN [wire EXCEPT ![c] = Append(wire[c], hd)] ELSE wire
      BY <1>2, <2>1 DEF Emit
    <2> QED
      BY <2>3, <2>4, <2>5
  <1>4. s # NoHolder /\ \A t \in Seqs : pc[c][t] # "body"
    BY <1>1 DEF FramingInv, SendingHolder, NoHolder, Seqs
  <1>5. \A d \in Conns \ {c} : wire'[d] = wire[d] /\ sending'[d] = sending[d]
    BY <1>0, <1>1, <1>3
  <1>6. \A d \in Conns, t \in Seqs : pc[d][t] = "body" =>
            cRespErr'[tctx[d][t]] = cRespErr[tctx[d][t]]
    BY <1>0, <1>1, <1>2, <1>3, <1>4 DEF Live
  <1>7. open[c] => /\ wire'[c] = Append(wire[c], h)
                   /\ Len(wire[c]) % 2 = 0
    BY <1>0, <1>1, <1>3 DEF FramingInv, EvenWhenFree
  <1>8. ResponseFraming'
    <2> SUFFICES ASSUME NEW d \in Conns PROVE Framed(wire'[d])
      BY DEF ResponseFraming, Framed
    <2>1. Framed(wire[d])
      BY FramingPerConn DEF FramingInv
    <2>2. CASE d = c /\ open[c]
      <3>1. wire[c] \in Seq(Header \cup Body) /\ Framed(wire[c])
        BY <1>0, <2>1, <2>2
      <3>2. Len(wire[c]) % 2 # 1 /\ IsHeader(h)
        <4>1. Len(wire[c]) % 2 = 0
          BY <1>7, <2>2
        <4>2. Len(wire[c]) % 2 # 1
          <5>1. Len(wire[c]) \in Nat
            BY <3>1, LenProperties
          <5> QED
            BY <4>1, <5>1, EvenNotOdd, Zenon
        <4>3. IsHeader(h)
          BY <1>3, Zenon
        <4> QED
          BY <4>2, <4>3
      <3>3. Framed(Append(wire[c], h))
        BY <1>3, <3>1, <3>2, AppendFramed
      <3> QED
        BY <1>7, <2>2, <3>3
    <2>3. CASE ~(d = c /\ open[c])
      BY <1>3, <1>5, <2>1, <2>3
    <2> QED
      BY <2>2, <2>3
  <1>9. SendingHolder'
    BY <1>0, <1>1, <1>4 DEF FramingInv, SendingHolder
  <1>10. CtxConn'
    BY <1>0, <1>1 DEF FramingInv, CtxConn, Live
  <1>11. EvenWhenFree'
    BY <1>0, <1>1, <1>4, <1>5 DEF FramingInv, EvenWhenFree
  <1>12. HeaderPending'
    <2> SUFFICES ASSUME NEW d \in Conns, NEW t \in Seqs, open'[d], pc'[d][t] = "body"
                 PROVE  LET n == Len(wire'[d]) IN
                          /\ n % 2 = 1
                          /\ IsHeader(wire'[d][n])
                          /\ wire'[d][n].seq = t
                          /\ wire'[d][n].msg = cRespErr'[tctx'[d][t]]
      BY DEF HeaderPending
    <2>1. CASE d = c
      <3>1. t = s /\ open[c]
        BY <1>0, <1>1, <1>4, <2>1
      <3>2. wire'[c] = Append(wire[c], h) /\ Len(wire[c]) \in Nat
        BY <1>0, <1>7, <3>1
      <3>3. Len(wire'[c]) = Len(wire[c]) + 1 /\ wire'[c][Len(wire'[c])] = h
        BY <1>0, <1>3, <3>2, AppendProperties
      <3>5. Len(wire[c]) % 2 = 0
        BY <1>7, <3>1
      <3>6. \A k \in Nat : k % 2 = 0 => (k + 1) % 2 = 1
        OBVIOUS
      <3>4. Len(wire'[c]) % 2 = 1
        BY <3>2, <3>3, <3>5, <3>6
      <3> QED
        BY <1>1, <1>3, <2>1, <3>1, <3>3, <3>4
    <2>2. CASE d # c
      <3>1. open[d] /\ pc[d][t] = "body" /\ wire'[d] = wire[d]
        BY <1>0, <1>1, <1>5, <2>2
      <3>2. cRespErr'[tctx[d][t]] = cRespErr[tctx[d][t]]
        BY <1>6, <3>1
      <3>3. LET n == Len(wire[d]) IN
              /\ n % 2 = 1
              /\ IsHeader(wire[d][n])
              /\ wire[d][n].seq = t
              /\ wire[d][n].msg = cRespErr[tctx[d][t]]
        BY <3>1 DEF FramingInv, HeaderPending
      <3> QED
        BY <1>1, <3>1, <3>2, <3>3
    <2> QED
      BY <2>1, <2>2
  <1> QED
    BY <1>8, <1>9, <1>10, <1>11, <1>12 DEF FramingInv

\* The body writeResponse computes from a Context is the one its header
\* calls for.
LEMMA ReplyMatchesHeader ==
  ASSUME NEW x, NEW s, NEW h, h.seq = s, h.msg = cRespErr[x]
  PROVE  BodyFor(h) = ReplyBody(x, s)
  BY DEF BodyFor, ReplyBody

LEMMA WriteBodyFraming ==
  ASSUME FramingInv, ServerInv', NEW c \in Conns, NEW s \in Seqs, WriteBody(c, s)
  PROVE  FramingInv'
  <1> DEFINE x == tctx[c][s]
             b == ReplyBody(x, s)
  <1>0. /\ TypeOK /\ Idle /\ Owned /\ ContextExclusive
        /\ pc \in [Conns -> [Seqs -> Phases]]
        /\ tctx \in [Conns -> [Seqs -> Ctxs \cup {NoCtx}]]
        /\ cConn \in [Ctxs -> Conns \cup {NoConn}]
        /\ open \in [Conns -> BOOLEAN]
        /\ wire \in [Conns -> Seq(Header \cup Body)]
        /\ sending \in [Conns -> Seqs \cup {NoHolder}]
    BY Facts DEF TypeOK
  <1>1. /\ pc[c][s] = "body"
        /\ Emit(x, b)
        /\ cConn' = [cConn EXCEPT ![x] = NoConn]
        /\ sending' = [sending EXCEPT ![c] = NoHolder]
        /\ pc' = [pc EXCEPT ![c][s] = "done"]
        /\ UNCHANGED <<open, tctx, cRespErr>>
    BY DEF WriteBody
  <1>2. /\ x \in Ctxs /\ cSeq[x] = s /\ cConn[x] = c
        /\ \A d \in Conns, t \in Seqs :
              Live(d, t) /\ <<d, t>> # <<c, s>> => tctx[d][t] # x /\ tctx[d][t] \in Ctxs
    BY <1>1, WriterFacts
  <1>3. wire' = IF open[c] THEN [wire EXCEPT ![c] = Append(wire[c], b)] ELSE wire
    BY <1>1, <1>2 DEF Emit
  <1>4. sending[c] = s /\ s # NoHolder /\ \A t \in Seqs \ {s} : pc[c][t] # "body"
    BY <1>1 DEF FramingInv, SendingHolder, NoHolder, Seqs
  <1>5. \A d \in Conns \ {c} : wire'[d] = wire[d] /\ sending'[d] = sending[d]
    BY <1>0, <1>1, <1>3
  <1>6. b \in Header \cup Body
    BY DEF ReplyBody, Body, Seqs
  <1>7. open[c] =>
          /\ wire'[c] = Append(wire[c], b)
          /\ Len(wire[c]) \in Nat /\ Len(wire[c]) % 2 = 1
          /\ b = BodyFor(wire[c][Len(wire[c])])
    <2> SUFFICES ASSUME open[c]
                 PROVE  /\ wire'[c] = Append(wire[c], b)
                        /\ Len(wire[c]) \in Nat /\ Len(wire[c]) % 2 = 1
                        /\ b = BodyFor(wire[c][Len(wire[c])])
      OBVIOUS
    <2>1. /\ Len(wire[c]) % 2 = 1
          /\ wire[c][Len(wire[c])].seq = s
          /\ wire[c][Len(wire[c])].msg = cRespErr[x]
      BY <1>1 DEF FramingInv, HeaderPending
    <2>2. BodyFor(wire[c][Len(wire[c])]) = b
      BY <2>1, ReplyMatchesHeader
    <2> QED
      BY <1>0, <1>3, <2>1, <2>2
  <1>8. ResponseFraming'
    <2> SUFFICES ASSUME NEW d \in Conns PROVE Framed(wire'[d])
      BY DEF ResponseFraming, Framed
    <2>1. Framed(wire[d])
      BY FramingPerConn DEF FramingInv
    <2>2. CASE d = c /\ open[c]
      <3>1. /\ wire[c] \in Seq(Header \cup Body)
            /\ Len(wire[c]) \in Nat /\ Len(wire[c]) % 2 = 1
            /\ b = BodyFor(wire[c][Len(wire[c])])
            /\ wire'[c] = Append(wire[c], b)
        BY <1>0, <1>7, <2>2
      <3>3. Framed(Append(wire[c], b))
        BY <1>6, <2>1, <2>2, <3>1, AppendFramed
      <3> QED
        BY <2>2, <3>1, <3>3
    <2>3. CASE ~(d = c /\ open[c])
      BY <1>3, <1>5, <2>1, <2>3
    <2> QED
      BY <2>2, <2>3
  <1>9. SendingHolder'
    <2> SUFFICES ASSUME NEW d \in Conns, NEW t \in Seqs
                 PROVE  pc'[d][t] = "body" <=> sending'[d] = t
      BY DEF SendingHolder
    <2>1. t # NoHolder
      BY DEF NoHolder, Seqs
    <2>2. CASE d = c
      BY <1>0, <1>1, <1>4, <2>1, <2>2
    <2>3. CASE d # c
      BY <1>0, <1>1, <2>3 DEF FramingInv, SendingHolder
    <2> QED
      BY <2>2, <2>3
  <1>10. CtxConn'
    BY <1>0, <1>1, <1>2 DEF FramingInv, CtxConn, Live
  <1>11. EvenWhenFree'
    <2> SUFFICES ASSUME NEW d \in Conns, open'[d], sending'[d] = NoHolder
                 PROVE  Len(wire'[d]) % 2 = 0
      BY DEF EvenWhenFree
    <2>1. CASE d = c
      <3>1. open[c] /\ wire'[c] = Append(wire[c], b)
            /\ Len(wire[c]) \in Nat /\ Len(wire[c]) % 2 = 1
        BY <1>1, <1>7, <2>1
      <3>2. Len(wire'[c]) = Len(wire[c]) + 1
        BY <1>0, <1>6, <3>1, AppendProperties
      <3>3. \A k \in Nat : k % 2 = 1 => (k + 1) % 2 = 0
        OBVIOUS
      <3> QED
        BY <2>1, <3>1, <3>2, <3>3
    <2>2. CASE d # c
      BY <1>1, <1>5, <2>2 DEF FramingInv, EvenWhenFree
    <2> QED
      BY <2>1, <2>2
  <1>12. HeaderPending'
    <2> SUFFICES ASSUME NEW d \in Conns, NEW t \in Seqs, open'[d], pc'[d][t] = "body"
                 PROVE  LET n == Len(wire'[d]) IN
                          /\ n % 2 = 1
                          /\ IsHeader(wire'[d][n])
                          /\ wire'[d][n].seq = t
                          /\ wire'[d][n].msg = cRespErr'[tctx'[d][t]]
      BY DEF HeaderPending
    <2>1. d # c
      BY <1>0, <1>1, <1>4
    <2>2. open[d] /\ pc[d][t] = "body" /\ wire'[d] = wire[d]
      BY <1>0, <1>1, <1>5, <2>1
    <2>3. LET n == Len(wire[d]) IN
            /\ n % 2 = 1
            /\ IsHeader(wire[d][n])
            /\ wire[d][n].seq = t
            /\ wire[d][n].msg = cRespErr[tctx[d][t]]
      BY <2>2 DEF FramingInv, HeaderPending
    <2> QED
      BY <1>1, <2>2, <2>3
  <1> QED
    BY <1>8, <1>9, <1>10, <1>11, <1>12 DEF FramingInv

(* Every step of the server and of its clients keeps FramingInv.            *)
LEMMA NextFraming == FramingInv /\ [Next]_vars => FramingInv'
  <1> SUFFICES ASSUME FramingInv, [Next]_vars PROVE FramingInv'
    OBVIOUS
  <1>0. ServerInv'
    BY NextInv DEF FramingInv
  <1>1. CASE \E c \in Conns : ReadRequest(c)
    BY <1>0, <1>1, ReadRequestFraming
  <1>2. CASE \E c \in Conns : ReadFail(c)
    BY <1>0, <1>2, ReadFailFraming
  <1>3. CASE \E c \in Conns : ClientSend(c) \/ ClientHangup(c) \/ Accept(c)
    BY <1>0, <1>3, EnvFraming
  <1>4. CASE \E c \in Conns, s \in Seqs : Call(c, s)
    BY <1>0, <1>4, CallFraming
  <1>5. CASE \E c \in Conns, s \in Seqs : WriteHeader(c, s)
    BY <1>0, <1>5, WriteHeaderFraming
  <1>6. CASE \E c \in Conns, s \in Seqs : WriteBody(c, s)
    BY <1>0, <1>6, WriteBodyFraming
  <1>7. CASE UNCHANGED vars
    <2>1. CtxConn'
      BY <1>7 DEF vars, FramingInv, CtxConn, Live
    <2> QED
      BY <1>0, <1>7, <2>1, QuietStep DEF vars
  <1> QED
    BY <1>1, <1>2, <1>3, <1>4, <1>5, <1>6, <1>7 DEF Next

(* However the handler goroutines of one or of several connections are     *)
(* scheduled, however many Contexts the pool recycles between them and      *)
(* whichever read, hook or write fails, the frames sendResponse writes on   *)
(* a connection alternate header and body, and each body is the one         *)
(* writeResponse computed for the request its header names.                 *)
THEOREM ResponsesFramed == Spec => []ResponseFraming
  <1>1. FramingInv => ResponseFraming
    BY DEF FramingInv
  <1>2. Init => FramingInv
    BY InitFraming
  <1> QED
    BY <1>1, <1>2, NextFraming, PTL DEF Spec
=============================================================================
