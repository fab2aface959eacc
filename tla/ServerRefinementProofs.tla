----------------------- MODULE ServerRefinementProofs -----------------------
(***************************************************************************)
(* ServerConn implements the safety part of RequestReply: under the        *)
(* refinement mapping of ServerConn, every initial state is an initial     *)
(* state of RequestReply and every step of the read loop, of a handler     *)
(* goroutine, of the accept loop or of the client is a RequestReply step   *)
(* or leaves the mapped state unchanged.                                   *)
(***************************************************************************)
EXTENDS ServerFramingProofs

USE ServerAssumption

\* The sequence numbers of the complete responses on a wire w, in order:
\* the header of the k-th response is frame 2k - 1.
Resp(w) == [k \in 1..(Len(w) \div 2) |-> w[2 * k - 1].seq]

\* Every complete response on the wire answers a request whose goroutine has
\* finished: sendResponse writes the body last and then the goroutine ends.
AnsweredDone ==
    \A c \in Conns : \A k \in DOMAIN Responses(c) :
        Responses(c)[k] \in Seqs /\ pc[c][Responses(c)[k]] = "done"

RefInv == FramingInv /\ AnsweredDone

\* Responses(c) is Resp of the connection's wire.
LEMMA ResponsesResp == \A c \in Conns : Responses(c) = Resp(wire[c])
  BY DEF Responses, Resp

(* A header written after whole responses adds no complete response.       *)
LEMMA RespAppendHeader ==
  ASSUME NEW S, NEW w \in Seq(S), NEW f \in S, Len(w) % 2 = 0
  PROVE  Resp(Append(w, f)) = Resp(w)
  <1>1. /\ Len(Append(w, f)) = Len(w) + 1 /\ Len(w) \in Nat
        /\ \A k \in 1..Len(w) : Append(w, f)[k] = w[k]
    BY AppendProperties, LenProperties
  <1>2. (Len(w) + 1) \div 2 = Len(w) \div 2
    BY <1>1
  <1>3. \A k \in 1..(Len(w) \div 2) : 2 * k - 1 \in 1..Len(w)
    BY <1>1
  <1> QED
    BY <1>1, <1>2, <1>3 DEF Resp

(* The body written after a pending header completes one more response,    *)
(* the one that header names.                                               *)
LEMMA RespAppendBody ==
  ASSUME NEW S, NEW w \in Seq(S), NEW f \in S, Len(w) % 2 = 1
  PROVE  Resp(Append(w, f)) = Append(Resp(w), w[Len(w)].seq)
  <1>1. /\ Len(Append(w, f)) = Len(w) + 1 /\ Len(w) \in Nat
        /\ \A k \in 1..Len(w) : Append(w, f)[k] = w[k]
    BY AppendProperties, LenProperties
  <1> DEFINE m == Len(w) \div 2
  <1>2. m \in Nat /\ (Len(w) + 1) \div 2 = m + 1 /\ 2 * (m + 1) - 1 = Len(w)
    BY <1>1
  <1>3. \A k \in 1..(m + 1) : 2 * k - 1 \in 1..Len(w)
    BY <1>1, <1>2
  <1>4. Resp(w) \in Seq({Resp(w)[k] : k \in 1..m}) /\ Len(Resp(w)) = m
    BY <1>2 DEF Resp
  <1>5. Append(Resp(w), w[Len(w)].seq) =
          [k \in 1..(m + 1) |-> IF k <= m THEN Resp(w)[k] ELSE w[Len(w)].seq]
    BY <1>2, <1>4, AppendProperties
  <1>6. Resp(Append(w, f)) = [k \in 1..(m + 1) |-> Append(w, f)[2 * k - 1].seq]
    BY <1>1, <1>2 DEF Resp
  <1>7. \A k \in 1..(m + 1) :
          Append(w, f)[2 * k - 1].seq = IF k <= m THEN Resp(w)[k] ELSE w[Len(w)].seq
    BY <1>1, <1>2, <1>3 DEF Resp
  <1> QED
    BY <1>5, <1>6, <1>7

(* A step that completes no response and never takes a finished goroutine  *)
(* back keeps AnsweredDone.                                                 *)
LEMMA QuietAnswered ==
  ASSUME AnsweredDone,
         \A c \in Conns : Responses(c)' = Responses(c),
         \A c \in Conns, t \in Seqs : pc[c][t] = "done" => pc'[c][t] = "done"
  PROVE  AnsweredDone'
  BY DEF AnsweredDone

(* A step that leaves the requests, the read positions, the connections and *)
(* the complete responses alone is a stuttering step of RequestReply.       *)
LEMMA MappedStutter ==
  ASSUME UNCHANGED <<reqs, hup, rpos, open>>,
         \A c \in Conns : Responses(c)' = Responses(c)
  PROVE  UNCHANGED Abstract!vars
  BY DEF Abstract!vars

\* The parts of RefInv and their types that the steps below use.
LEMMA RefFacts ==
  ASSUME RefInv
  PROVE  /\ FramingInv /\ AnsweredDone /\ Idle
         /\ reqs \in [Conns -> Seq(URIs)]
         /\ \A c \in Conns : Len(reqs[c]) <= MaxReq
         /\ rpos \in [Conns -> 0..MaxReq]
         /\ pc \in [Conns -> [Seqs -> Phases]]
         /\ wire \in [Conns -> Seq(Header \cup Body)]
         /\ open \in [Conns -> BOOLEAN]
         /\ hup \in [Conns -> BOOLEAN]
  BY Facts DEF RefInv, TypeOK

(* The client's steps are RequestReply's Send and Hangup; the accept loop   *)
(* changes nothing RequestReply sees.                                       *)
LEMMA EnvRef ==
  ASSUME RefInv, NEW c \in Conns, ClientSend(c) \/ ClientHangup(c) \/ Accept(c)
  PROVE  AnsweredDone' /\ [Abstract!Next]_Abstract!vars
  <1>0. /\ reqs \in [Conns -> Seq(URIs)] /\ hup \in [Conns -> BOOLEAN]
        /\ AnsweredDone
    BY RefFacts
  <1>1. UNCHANGED <<wire, pc>>
    BY DEF ClientSend, ClientHangup, Accept
  <1>2. \A d \in Conns : Responses(d)' = Responses(d)
    BY <1>1 DEF Responses
  <1>3. AnsweredDone'
    BY <1>0, <1>1, <1>2, QuietAnswered
  <1>4. CASE ClientSend(c)
    <2>1. PICK u \in URIs : reqs' = [reqs EXCEPT ![c] = Append(@, u)]
      BY <1>4 DEF ClientSend
    <2>2. Len(reqs'[c]) = Len(reqs[c]) + 1
          /\ \A d \in Conns \ {c} : reqs'[d] = reqs[d]
      BY <1>0, <2>1
    <2>3. Abstract!Send(c)
      BY <1>0, <1>4, <1>2, <2>2 DEF ClientSend, Abstract!Send
    <2> QED
      BY <1>3, <2>3 DEF Abstract!Next
  <1>5. CASE ClientHangup(c)
    <2>1. Abstract!Hangup(c)
      BY <1>5, <1>2 DEF ClientHangup, Abstract!Hangup
    <2> QED
      BY <1>3, <2>1 DEF Abstract!Next
  <1>6. CASE Accept(c)
    BY <1>2, <1>3, <1>6, MappedStutter DEF Accept
  <1> QED
    BY <1>4, <1>5, <1>6

(* An iteration of the read loop that reads a request is RequestReply's     *)
(* Read: the goroutine it starts belongs to a request nobody answered.      *)
LEMMA ReadRequestRef ==
  ASSUME RefInv, NEW c \in Conns, ReadRequest(c)
  PROVE  AnsweredDone' /\ [Abstract!Next]_Abstract!vars
  <1> DEFINE s == rpos[c] + 1
  <1>0. /\ AnsweredDone /\ Idle
        /\ reqs \in [Conns -> Seq(URIs)]
        /\ \A d \in Conns : Len(reqs[d]) <= MaxReq
        /\ rpos \in [Conns -> 0..MaxReq]
        /\ pc \in [Conns -> [Seqs -> Phases]]
    BY RefFacts
  <1>1. /\ LoopReady(c) /\ rpos[c] < Len(reqs[c])
        /\ rpos' = [rpos EXCEPT ![c] = s]
        /\ \E v : pc' = [pc EXCEPT ![c][s] = v]
        /\ UNCHANGED <<reqs, hup, open, wire>>
    BY DEF ReadRequest, s
  <1>2. s \in Seqs /\ pc[c][s] = "idle"
    BY <1>0, <1>1 DEF Idle, Seqs, s
  <1>3. \A d \in Conns, t \in Seqs : pc[d][t] = "done" => pc'[d][t] = "done"
    BY <1>0, <1>1, <1>2
  <1>4. \A d \in Conns : Responses(d)' = Responses(d)
    BY <1>1 DEF Responses
  <1>5. Abstract!Read(c)
    BY <1>0, <1>1, <1>4 DEF LoopReady, Abstract!Read, s
  <1> QED
    BY <1>0, <1>3, <1>4, <1>5, QuietAnswered DEF Abstract!Next

(* A read loop that breaks is RequestReply's CloseEOF when the codec saw    *)
(* the EOF after every request, and its Abort when a header step failed.    *)
LEMMA ReadFailRef ==
  ASSUME RefInv, NEW c \in Conns, ReadFail(c)
  PROVE  AnsweredDone' /\ [Abstract!Next]_Abstract!vars
  <1>0. AnsweredDone
    BY RefFacts
  <1>1. /\ LoopReady(c)
        /\ open' = [open EXCEPT ![c] = FALSE]
        /\ UNCHANGED <<reqs, hup, rpos, wire, pc>>
    BY DEF ReadFail
  <1>2. \A d \in Conns : Responses(d)' = Responses(d)
    BY <1>1 DEF Responses
  <1>3. AnsweredDone'
    BY <1>0, <1>1, <1>2, QuietAnswered
  <1>4. PICK type \in {"PreReadRequestHeader", "ReadRequestHeader"} :
          \/ type = "PreReadRequestHeader" /\ type \in Faults
          \/ type = "ReadRequestHeader" /\ hup[c] /\ rpos[c] = Len(reqs[c])
          \/ type = "ReadRequestHeader" /\ type \in Faults
                /\ rpos[c] < Len(reqs[c])
    BY DEF ReadFail
  <1>5. CASE type \in Faults
    <2>1. Abstract!Abort(c)
      BY <1>1, <1>2, <1>4, <1>5 DEF LoopReady, Abstract!Abort
    <2> QED
      BY <1>3, <2>1 DEF Abstract!Next
  <1>6. CASE type \notin Faults
    <2>1. hup[c] /\ rpos[c] = Len(reqs[c])
      BY <1>4, <1>6
    <2>2. Abstract!CloseEOF(c)
      BY <1>1, <1>2, <2>1 DEF LoopReady, Abstract!CloseEOF
    <2> QED
      BY <1>3, <2>2 DEF Abstract!Next
  <1> QED
    BY <1>5, <1>6

(* A handler goroutine's ctx.service.Call changes nothing RequestReply sees.*)
LEMMA CallRef ==
  ASSUME RefInv, NEW c \in Conns, NEW s \in Seqs, Call(c, s)
  PROVE  AnsweredDone' /\ [Abstract!Next]_Abstract!vars
  <1>0. AnsweredDone /\ pc \in [Conns -> [Seqs -> Phases]]
    BY RefFacts
  <1>1. /\ pc[c][s] = "handler" /\ pc' = [pc EXCEPT ![c][s] = "respond"]
        /\ UNCHANGED <<reqs, hup, rpos, open, wire>>
    BY DEF Call
  <1>2. \A d \in Conns, t \in Seqs : pc[d][t] = "done" => pc'[d][t] = "done"
    BY <1>0, <1>1
  <1>3. \A d \in Conns : Responses(d)' = Responses(d)
    BY <1>1 DEF Responses
  <1> QED
    BY <1>0, <1>1, <1>2, <1>3, QuietAnswered, MappedStutter

(* sendResponse's header goes to the goroutine's own connection, if open.   *)
LEMMA HeaderWire ==
  ASSUME FramingInv, NEW c \in Conns, NEW s \in Seqs, WriteHeader(c, s)
  PROVE  \E h \in Header :
           wire' = IF open[c] THEN [wire EXCEPT ![c] = Append(wire[c], h)] ELSE wire
  <1> DEFINE x == tctx[c][s]
  <1>0. /\ TypeOK /\ cRespErr \in [Ctxs -> Messages]
    BY Facts
  <1>1. pc[c][s] = "respond"
    BY DEF WriteHeader
  <1>2. x \in Ctxs /\ cSeq[x] = s /\ cConn[x] = c
    BY <1>1, WriterFacts
  <1>3. PICK pre \in {"ok"} \cup ({"PreWriteResponse"} \cap Faults) :
          LET type == IF pre = "ok" THEN cErrType[x] ELSE pre
              msg == IF pre = "ok" THEN cRespErr[x] ELSE pre
          IN Emit(x, [kind |-> "hdr", seq |-> cSeq[x],
                      type |-> IF msg = "None" THEN "None" ELSE type,
                      msg |-> msg])
    BY DEF WriteHeader
  <1> DEFINE msg == IF pre = "ok" THEN cRespErr[x] ELSE pre
             type == IF pre = "ok" THEN cErrType[x] ELSE pre
             hd == [kind |-> "hdr", seq |-> cSeq[x],
                    type |-> IF msg = "None" THEN "None" ELSE type, msg |-> msg]
  <1>4. msg \in Messages /\ type \in ErrorTypes
    BY <1>0, <1>2 DEF TypeOK, ErrorTypes, Messages, FaultPoints
  <1>5. hd \in Header
    BY <1>2, <1>4 DEF Header, ErrorTypes
  <1>6. wire' = IF open[c] THEN [wire EXCEPT ![c] = Append(wire[c], hd)] ELSE wire
    BY <1>2, <1>3 DEF Emit
  <1> QED
    BY <1>5, <1>6

(* Taking the sending mutex and writing a header completes no response.     *)
LEMMA WriteHeaderRef ==
  ASSUME RefInv, NEW c \in Conns, NEW s \in Seqs, WriteHeader(c, s)
  PROVE  AnsweredDone' /\ [Abstract!Next]_Abstract!vars
  <1>0. /\ FramingInv /\ AnsweredDone
        /\ pc \in [Conns -> [Seqs -> Phases]]
        /\ wire \in [Conns -> Seq(Header \cup Body)]
        /\ open \in [Conns -> BOOLEAN]
    BY RefFacts
  <1>1. /\ pc[c][s] = "respond" /\ sending[c] = NoHolder
        /\ pc' = [pc EXCEPT ![c][s] = "body"]
        /\ UNCHANGED <<reqs, hup, rpos, open>>
    BY DEF WriteHeader
  <1>2. PICK h \in Header :
          wire' = IF open[c] THEN [wire EXCEPT ![c] = Append(wire[c], h)] ELSE wire
    BY <1>0, HeaderWire
  <1>3. open[c] => Len(wire[c]) % 2 = 0
    BY <1>0, <1>1 DEF FramingInv, EvenWhenFree
  <1>4. \A d \in Conns : Responses(d)' = Responses(d)
    <2> SUFFICES ASSUME NEW d \in Conns PROVE Resp(wire'[d]) = Resp(wire[d])
      BY DEF Responses, Resp
    <2>1. CASE d = c /\ open[c]
      <3>1. wire'[c] = Append(wire[c], h) /\ Len(wire[c]) % 2 = 0
        BY <1>0, <1>2, <1>3, <2>1
      <3> QED
        BY <1>0, <2>1, <3>1, RespAppendHeader
    <2>2. CASE ~(d = c /\ open[c])
      BY <1>0, <1>2, <2>2
    <2> QED
      BY <2>1, <2>2
  <1>5. \A d \in Conns, t \in Seqs : pc[d][t] = "done" => pc'[d][t] = "done"
    BY <1>0, <1>1
  <1> QED
    BY <1>0, <1>1, <1>4, <1>5, QuietAnswered, MappedStutter

(* Completing the response to request s of c keeps AnsweredDone when the    *)
(* goroutine of s has finished.                                              *)
LEMMA GrowAnswered ==
  ASSUME AnsweredDone, NEW c \in Conns, NEW s \in Seqs,
         wire \in [Conns -> Seq(Header \cup Body)],
         Responses(c)' = Append(Responses(c), s),
         \A d \in Conns \ {c} : Responses(d)' = Responses(d),
         pc'[c][s] = "done",
         \A d \in Conns, t \in Seqs : pc[d][t] = "done" => pc'[d][t] = "done"
  PROVE  AnsweredDone'
  <1> DEFINE R == Responses(c)
  <1>1. R \in Seq(Seqs)
    <2>1. DOMAIN R = 1..(Len(wire[c]) \div 2) /\ Len(wire[c]) \div 2 \in Nat
      BY DEF Responses, R
    <2>2. \A k \in DOMAIN R : R[k] \in Seqs
      BY DEF AnsweredDone, R
    <2>3. R \in [1..(Len(wire[c]) \div 2) -> Seqs]
      BY <2>1, <2>2 DEF Responses, R
    <2> QED
      BY <2>1, <2>3, SeqDef
  <1>2. /\ DOMAIN Append(R, s) = 1..(Len(R) + 1)
        /\ \A k \in 1..Len(R) : Append(R, s)[k] = R[k]
        /\ Append(R, s)[Len(R) + 1] = s
        /\ DOMAIN R = 1..Len(R)
    BY <1>1, AppendProperties
  <1>3. \A k \in 1..Len(R) : R[k] \in Seqs /\ pc[c][R[k]] = "done"
    BY <1>2 DEF AnsweredDone, R
  <1>4. \A k \in 1..(Len(R) + 1) :
          Append(R, s)[k] \in Seqs /\ pc'[c][Append(R, s)[k]] = "done"
    BY <1>2, <1>3
  <1>5. \A k \in DOMAIN Responses(c)' :
          Responses(c)'[k] \in Seqs /\ pc'[c][Responses(c)'[k]] = "done"
    BY <1>2, <1>4 DEF R
  <1> SUFFICES ASSUME NEW d \in Conns, NEW k \in DOMAIN Responses(d)'
               PROVE  Responses(d)'[k] \in Seqs /\ pc'[d][Responses(d)'[k]] = "done"
    BY DEF AnsweredDone
  <1>6. CASE d = c
    BY <1>5, <1>6
  <1>7. CASE d # c
    <2>1. Responses(d)' = Responses(d)
      BY <1>7
    <2>2. Responses(d)[k] \in Seqs /\ pc[d][Responses(d)[k]] = "done"
      BY <2>1 DEF AnsweredDone
    <2> QED
      BY <2>1, <2>2
  <1> QED
    BY <1>6, <1>7

(* Writing the body completes the response to s on an open connection: that *)
(* is RequestReply's Answer(c, s), for a request the read loop consumed and  *)
(* nobody answered yet; on a closed connection nothing reaches the wire.     *)
LEMMA WriteBodyRef ==
  ASSUME RefInv, NEW c \in Conns, NEW s \in Seqs, WriteBody(c, s)
  PROVE  AnsweredDone' /\ [Abstract!Next]_Abstract!vars
  <1> DEFINE x == tctx[c][s]
             b == ReplyBody(x, s)
  <1>0. /\ FramingInv /\ AnsweredDone /\ Idle
        /\ rpos \in [Conns -> 0..MaxReq]
        /\ pc \in [Conns -> [Seqs -> Phases]]
        /\ wire \in [Conns -> Seq(Header \cup Body)]
        /\ open \in [Conns -> BOOLEAN]
    BY RefFacts
  <1>1. /\ pc[c][s] = "body"
        /\ Emit(x, b)
        /\ pc' = [pc EXCEPT ![c][s] = "done"]
        /\ UNCHANGED <<reqs, hup, rpos, open>>
    BY DEF WriteBody
  <1>2. cConn[x] = c
    BY <1>0, <1>1, WriterFacts
  <1>3. wire' = IF open[c] THEN [wire EXCEPT ![c] = Append(wire[c], b)] ELSE wire
    BY <1>1, <1>2 DEF Emit
  <1>4. b \in Header \cup Body
    BY DEF ReplyBody, Body, Seqs
  <1>5. /\ \A d \in Conns, t \in Seqs : pc[d][t] = "done" => pc'[d][t] = "done"
        /\ pc'[c][s] = "done"
    BY <1>0, <1>1
  <1>6. \A d \in Conns \ {c} : Responses(d)' = Responses(d)
    BY <1>0, <1>3 DEF Responses
  <1>7. CASE ~open[c]
    <2>1. \A d \in Conns : Responses(d)' = Responses(d)
      BY <1>3, <1>7 DEF Responses
    <2> QED
      BY <1>0, <1>1, <1>5, <2>1, QuietAnswered, MappedStutter
  <1>8. CASE open[c]
    <2>1. /\ Len(wire[c]) % 2 = 1
          /\ wire[c][Len(wire[c])].seq = s
      BY <1>0, <1>1, <1>8 DEF FramingInv, HeaderPending
    <2>2. Responses(c)' = Append(Responses(c), s)
      <3>1. wire'[c] = Append(wire[c], b)
        BY <1>0, <1>3, <1>8
      <3>2. Resp(Append(wire[c], b)) = Append(Resp(wire[c]), s)
        BY <1>0, <1>4, <2>1, RespAppendBody
      <3> QED
        BY <3>1, <3>2 DEF Responses, Resp
    <2>3. AnsweredDone'
      BY <1>0, <1>5, <1>6, <2>2, GrowAnswered
    <2>4. s \in 1..rpos[c]
      <3>1. ~(s > rpos[c])
        BY <1>0, <1>1 DEF Idle
      <3>2. rpos[c] \in Nat /\ s \in 1..MaxReq
        BY <1>0 DEF Seqs
      <3> QED
        BY <3>1, <3>2
    <2>5. \A k \in DOMAIN Responses(c) : Responses(c)[k] # s
      BY <1>0, <1>1 DEF AnsweredDone
    <2>6. Abstract!Answer(c, s)
      BY <1>1, <1>6, <1>8, <2>2, <2>4, <2>5 DEF Abstract!Answer, Abstract!Answers
    <2>7. s \in 1..MaxReq
      BY DEF Seqs
    <2> QED
      BY <2>3, <2>6, <2>7 DEF Abstract!Next
  <1> QED
    BY <1>7, <1>8

\* The initial state satisfies RefInv and maps to RequestReply's initial state.
LEMMA InitRef == Init => RefInv /\ Abstract!Init
  <1> SUFFICES ASSUME Init PROVE RefInv /\ Abstract!Init
    OBVIOUS
  <1>1. FramingInv
    BY InitFraming
  <1>2. \A c \in Conns : Responses(c) = <<>>
    BY DEF Init, Responses
  <1>3. AnsweredDone
    BY <1>2 DEF AnsweredDone
  <1>4. Abstract!Init
    BY <1>2 DEF Init, Abstract!Init
  <1> QED
    BY <1>1, <1>3, <1>4 DEF RefInv

(* Every step of ServerConn keeps RefInv and is a RequestReply step under   *)
(* the refinement mapping, or leaves the mapped state unchanged.             *)
LEMMA NextRef == RefInv /\ [Next]_vars => RefInv' /\ [Abstract!Next]_Abstract!vars
  <1> SUFFICES ASSUME RefInv, [Next]_vars
               PROVE  RefInv' /\ [Abstract!Next]_Abstract!vars
    OBVIOUS
  <1>0. FramingInv'
    BY NextFraming DEF RefInv
  <1>1. AnsweredDone' /\ [Abstract!Next]_Abstract!vars
    <2>1. CASE \E c \in Conns : ReadRequest(c)
      BY <2>1, ReadRequestRef
    <2>2. CASE \E c \in Conns : ReadFail(c)
      BY <2>2, ReadFailRef
    <2>3. CASE \E c \in Conns : ClientSend(c) \/ ClientHangup(c) \/ Accept(c)
      BY <2>3, EnvRef
    <2>4. CASE \E c \in Conns, s \in Seqs : Call(c, s)
      BY <2>4, CallRef
    <2>5. CASE \E c \in Conns, s \in Seqs : WriteHeader(c, s)
      BY <2>5, WriteHeaderRef
    <2>6. CASE \E c \in Conns, s \in Seqs : WriteBody(c, s)
      BY <2>6, WriteBodyRef
    <2>7. CASE UNCHANGED vars
      <3>1. \A c \in Conns : Responses(c)' = Responses(c)
        BY <2>7 DEF vars, Responses
      <3>2. AnsweredDone'
        BY <2>7, <3>1, QuietAnswered DEF vars, RefInv
      <3> QED
        BY <2>7, <3>1, <3>2, MappedStutter DEF vars
    <2> QED
      BY <2>1, <2>2, <2>3, <2>4, <2>5, <2>6, <2>7 DEF Next
  <1> QED
    BY <1>0, <1>1 DEF RefInv

\* The safety part of RequestReply's specification, under the mapping.
AbstractSafety == Abstract!Init /\ [][Abstract!Next]_Abstract!vars

(* Whatever the interleaving of the read loop, the handler goroutines, the  *)
(* accept loop and the clients of any number of connections, and whichever  *)
(* hook or codec step fails: requests are consumed in the order the client  *)
(* wrote them, a response is completed only for a request the read loop has *)
(* consumed, never twice for one request and never after conn.Close(), and  *)
(* the read loop stops only at the EOF after the last request or on a       *)
(* failing header read (ServeConn, call, sendResponse, the sending mutex).   *)
THEOREM ImplementsRequestReplySafety == Spec => AbstractSafety
  <1>1. Init => RefInv /\ Abstract!Init
    BY InitRef
  <1>2. RefInv /\ [Next]_vars => RefInv' /\ [Abstract!Next]_Abstract!vars
    BY NextRef
  <1> QED
    BY <1>1, <1>2, PTL DEF Spec, AbstractSafety
=============================================================================
