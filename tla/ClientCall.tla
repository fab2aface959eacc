----------------------------- MODULE ClientCall -----------------------------
(***************************************************************************)
(* Client.Call (client/client.go) under each FailMode, for several         *)
(* goroutines calling concurrently, Client.Go and Client.Close.  All calls *)
(* go through one Selector (NewClient takes it as an argument, so Client   *)
(* values with different FailModes may share it); MaxTry is common to them.*)
(*                                                                         *)
(* The Selector and the Invoker are not part of client.go; they are        *)
(* modelled from their contract in the spec: Select returns a cached live  *)
(* invoker or dials a new one through the client's factory (which can      *)
(* fail), HandleFailed closes an invoker and evicts it from the cache,     *)
(* List returns the cached invokers, and an invoker's call completes with  *)
(* nil or an error, always with ErrShutdown once the invoker is closed.    *)
(***************************************************************************)
EXTENDS Naturals, Sequences, FiniteSets

CONSTANTS
    Callers,      \* goroutines calling client.Call
    Endpoints,    \* the selector's endpoints
    Mode,         \* Mode[p]: the FailModes the Client that p calls may have
    MaxTry,       \* client.MaxTry
    MaxInvokers   \* invokers the factory may create in one behaviour

Modes == {"Failover", "Failfast", "Failtry", "Broadcast", "Forking"}
Invokers == 1..MaxInvokers
Nil == 0          \* the nil Invoker
Open == "open"    \* closedBy of an invoker nobody has closed
NoEndpoint == "none"
ClientClose == "close"     \* closedBy value when Client.Close closed it

ASSUME ClientAssumption ==
    /\ Mode \in [Callers -> SUBSET Modes \ {{}}]
    /\ MaxTry \in Nat \ {0}
    /\ MaxInvokers \in Nat
    /\ {Open, ClientClose} \cap Callers = {}

VARIABLES
    mode,       \* mode[p]: the FailMode NewClient gave the Client p calls
    ninv,       \* invokers created so far
    invEp,      \* invEp[i]: the endpoint invoker i is connected to
    closedBy,   \* closedBy[i]: who closed invoker i (Open while it is open)
    cache,      \* cache[e]: the selector's invoker for e, or Nil
    cpc,        \* cpc[p]: where goroutine p is in Call
    tries,      \* the loop counter of Failover / Failtry
    cur,        \* the local `invoker` of Call
    cerr,       \* the local `err` of Call
    attempts,   \* attempts[p]: invoker.Call invocations made by p
    won,        \* won[p]: some invoker call made by p returned nil
    result,     \* what Call returned to p
    pend,       \* pend[p]: invokers whose call from p's fan-out is in flight
    done,       \* done[p]: results buffered in the fan-out's done channel
    dcap,       \* dcap[p]: the capacity the done channel was made with
    left,       \* the `l` counter of invokerBroadCast / invokerForking
    allOk,      \* allOk[p]: every fan-out call of p received so far was nil
    todo        \* todo[p]: endpoints selector.List has still to visit for p

vars == <<mode, ninv, invEp, closedBy, cache, cpc, tries, cur, cerr, attempts, won,
          result, pend, done, dcap, left, allOk, todo>>

Closers == Callers \cup {ClientClose}
Phases == {"idle", "loop", "call", "handle", "list", "collect", "wait", "done"}

TypeOK ==
    /\ mode \in [Callers -> Modes]
    /\ ninv \in 0..MaxInvokers
    /\ invEp \in [Invokers -> Endpoints \cup {NoEndpoint}]
    /\ closedBy \in [Invokers -> Closers \cup {Open}]
    /\ cache \in [Endpoints -> Invokers \cup {Nil}]
    /\ cpc \in [Callers -> Phases]
    /\ tries \in [Callers -> Nat]
    /\ cur \in [Callers -> Invokers \cup {Nil}]
    /\ cerr \in [Callers -> BOOLEAN]
    /\ attempts \in [Callers -> Nat]
    /\ won \in [Callers -> BOOLEAN]
    /\ result \in [Callers -> {"none", "ok", "err"}]
    /\ pend \in [Callers -> SUBSET Invokers]
    /\ done \in [Callers -> Seq(BOOLEAN)]
    /\ dcap \in [Callers -> 0..MaxInvokers]
    /\ left \in [Callers -> 0..MaxInvokers]
    /\ allOk \in [Callers -> BOOLEAN]
    /\ todo \in [Callers -> SUBSET Endpoints]

Init ==
    /\ mode \in {f \in [Callers -> Modes] : \A p \in Callers : f[p] \in Mode[p]}
    /\ ninv = 0
    /\ invEp = [i \in Invokers |-> NoEndpoint]
    /\ closedBy = [i \in Invokers |-> Open]
    /\ cache = [e \in Endpoints |-> Nil]
    /\ cpc = [p \in Callers |-> "idle"]
    /\ tries = [p \in Callers |-> 0]
    /\ cur = [p \in Callers |-> Nil]
    /\ cerr = [p \in Callers |-> FALSE]
    /\ attempts = [p \in Callers |-> 0]
    /\ won = [p \in Callers |-> FALSE]
    /\ result = [p \in Callers |-> "none"]
    /\ pend = [p \in Callers |-> {}]
    /\ done = [p \in Callers |-> <<>>]
    /\ dcap = [p \in Callers |-> 0]
    /\ left = [p \in Callers |-> 0]
    /\ allOk = [p \in Callers |-> TRUE]
    /\ todo = [p \in Callers |-> {}]
-----------------------------------------------------------------------------
(* The selector contract (spec 4.5): a lazy cache of one invoker per        *)
(* endpoint; a missing one is dialled through the factory, which may fail  *)
(* (and always fails once MaxInvokers invokers exist).                     *)

NewInvoker == ninv + 1

\* The factory dials endpoint e and the selector caches the new invoker.
Dial(e) ==
    /\ ninv < MaxInvokers
    /\ ninv' = NewInvoker
    /\ invEp' = [invEp EXCEPT ![NewInvoker] = e]
    /\ cache' = [cache EXCEPT ![e] = NewInvoker]

\* The outcomes an invoker call on invoker i may complete with (TRUE: nil
\* error); a closed invoker answers ErrShutdown.
Outcomes(i) == IF closedBy[i] = Open THEN BOOLEAN ELSE {FALSE}

-----------------------------------------------------------------------------
(* Client.Call.                                                             *)

\* Mutant: the retry loop runs once more than MaxTry.
CallOffByOne(p) ==
    /\ cpc[p] = "idle"
    /\ cpc' = [cpc EXCEPT ![p] = "loop"]
    /\ tries' = [tries EXCEPT ![p] = MaxTry + 1]
    /\ UNCHANGED <<mode, ninv, invEp, closedBy, cache, cur, cerr, attempts, won,
                   result, pend, done, dcap, left, allOk, todo>>

\* Call's dispatch on FailMode: Broadcast and Forking start with
\* selector.List, Failover and Failtry enter their retry loop, and Failfast
\* matches no branch and returns its zero err.
Call(p) ==
    /\ cpc[p] = "idle"
    /\ CASE mode[p] \in {"Broadcast", "Forking"} ->
              /\ cpc' = [cpc EXCEPT ![p] = "list"]
              /\ todo' = [todo EXCEPT ![p] = Endpoints]
              /\ UNCHANGED <<tries, result>>
         [] mode[p] \in {"Failover", "Failtry"} ->
              /\ cpc' = [cpc EXCEPT ![p] = "loop"]
              /\ tries' = [tries EXCEPT ![p] = MaxTry]
              /\ UNCHANGED <<todo, result>>
         [] mode[p] = "Failfast" ->
              /\ cpc' = [cpc EXCEPT ![p] = "done"]
              /\ result' = [result EXCEPT ![p] = "ok"]
              /\ UNCHANGED <<tries, todo>>
    /\ UNCHANGED <<mode, ninv, invEp, closedBy, cache, cur, cerr, attempts, won,
                   pend, done, dcap, left, allOk>>

\* Mutant: the loop returns nil when it runs out of tries.
LoopExitNil(p) ==
    /\ cpc[p] = "loop"
    /\ tries[p] = 0
    /\ cpc' = [cpc EXCEPT ![p] = "done"]
    /\ result' = [result EXCEPT ![p] = "ok"]
    /\ UNCHANGED <<mode, ninv, invEp, closedBy, cache, tries, cur, cerr, attempts,
                   won, pend, done, dcap, left, allOk, todo>>

\* The retry loop is out of tries: Call returns the last err.
LoopExit(p) ==
    /\ cpc[p] = "loop"
    /\ tries[p] = 0
    /\ cpc' = [cpc EXCEPT ![p] = "done"]
    /\ result' = [result EXCEPT ![p] = IF cerr[p] THEN "err" ELSE "ok"]
    /\ UNCHANGED <<mode, ninv, invEp, closedBy, cache, tries, cur, cerr, attempts,
                   won, pend, done, dcap, left, allOk, todo>>

\* Mutant: a failed Select is retried without the tries > 0 loop condition.
LoopSelectUnguarded(p) ==
    /\ cpc[p] = "loop"
    /\ \E e \in Endpoints :
          /\ cache[e] = Nil
          /\ cur' = [cur EXCEPT ![p] = Nil]
          /\ cerr' = [cerr EXCEPT ![p] = TRUE]
          /\ tries' = [tries EXCEPT ![p] = @ - 1]
    /\ UNCHANGED <<mode, ninv, invEp, closedBy, cache, cpc, attempts, won, result,
                   pend, done, dcap, left, allOk, todo>>

\* One iteration's selector.Select (every Failover iteration; a Failtry
\* iteration only while its invoker is nil).  A Select error ends the
\* iteration: `continue` under Failover, the skipped `invoker != nil` block
\* under Failtry.
LoopSelect(p) ==
    /\ cpc[p] = "loop"
    /\ tries[p] > 0
    /\ mode[p] = "Failover" \/ cur[p] = Nil
    /\ \E e \in Endpoints :
          \/ /\ cache[e] # Nil
             /\ cur' = [cur EXCEPT ![p] = cache[e]]
             /\ cerr' = [cerr EXCEPT ![p] = FALSE]
             /\ cpc' = [cpc EXCEPT ![p] = "call"]
             /\ UNCHANGED <<ninv, invEp, cache, tries>>
          \/ /\ cache[e] = Nil
             /\ Dial(e)
             /\ cur' = [cur EXCEPT ![p] = NewInvoker]
             /\ cerr' = [cerr EXCEPT ![p] = FALSE]
             /\ cpc' = [cpc EXCEPT ![p] = "call"]
             /\ UNCHANGED tries
          \/ /\ cache[e] = Nil
             /\ cur' = [cur EXCEPT ![p] = Nil]
             /\ cerr' = [cerr EXCEPT ![p] = TRUE]
             /\ tries' = [tries EXCEPT ![p] = @ - 1]
             /\ UNCHANGED <<ninv, invEp, cache, cpc>>
    /\ UNCHANGED <<mode, closedBy, attempts, won, result, pend, done, dcap, left,
                   allOk, todo>>

\* Mutant: every mode keeps the invoker of the previous iteration.
LoopReuseAnyMode(p) ==
    /\ cpc[p] = "loop"
    /\ tries[p] > 0
    /\ cur[p] # Nil
    /\ cpc' = [cpc EXCEPT ![p] = "call"]
    /\ UNCHANGED <<mode, ninv, invEp, closedBy, cache, tries, cur, cerr, attempts,
                   won, result, pend, done, dcap, left, allOk, todo>>

\* A Failtry iteration whose invoker is not nil calls it again without
\* selecting, although HandleFailed closed it in the previous iteration.
LoopReuse(p) ==
    /\ cpc[p] = "loop"
    /\ tries[p] > 0
    /\ mode[p] = "Failtry"
    /\ cur[p] # Nil
    /\ cpc' = [cpc EXCEPT ![p] = "call"]
    /\ UNCHANGED <<mode, ninv, invEp, closedBy, cache, tries, cur, cerr, attempts,
                   won, result, pend, done, dcap, left, allOk, todo>>

\* err = invoker.Call(...): nil returns nil from Call, an error goes on to
\* HandleFailed.
Invoke(p) ==
    /\ cpc[p] = "call"
    /\ attempts' = [attempts EXCEPT ![p] = @ + 1]
    /\ \E ok \in Outcomes(cur[p]) :
          /\ cerr' = [cerr EXCEPT ![p] = ~ok]
          /\ won' = [won EXCEPT ![p] = @ \/ ok]
          /\ cpc' = [cpc EXCEPT ![p] = IF ok THEN "done" ELSE "handle"]
          /\ result' = [result EXCEPT ![p] = IF ok THEN "ok" ELSE @]
    /\ UNCHANGED <<mode, ninv, invEp, closedBy, cache, tries, cur, pend, done, dcap,
                   left, allOk, todo>>

\* selector.HandleFailed(invoker) closes and evicts it; then tries--.
HandleFailed(p) ==
    /\ cpc[p] = "handle"
    /\ closedBy' = [closedBy EXCEPT ![cur[p]] = IF @ = Open THEN p ELSE @]
    /\ cache' = [e \in Endpoints |-> IF cache[e] = cur[p] THEN Nil ELSE cache[e]]
    /\ tries' = [tries EXCEPT ![p] = @ - 1]
    /\ cpc' = [cpc EXCEPT ![p] = "loop"]
    /\ UNCHANGED <<mode, ninv, invEp, cur, cerr, attempts, won, result, pend, done,
                   dcap, left, allOk, todo>>
\* One endpoint of selector.List for invokerBroadCast / invokerForking: its
\* cached invoker, a newly dialled one, or none when the dial fails.  pend
\* collects the snapshot until the fan-out starts.
List(p) ==
    /\ cpc[p] = "list"
    /\ \E e \in todo[p] :
          /\ todo' = [todo EXCEPT ![p] = @ \ {e}]
          /\ \/ /\ cache[e] # Nil
                /\ pend' = [pend EXCEPT ![p] = @ \cup {cache[e]}]
                /\ UNCHANGED <<ninv, invEp, cache>>
             \/ /\ cache[e] = Nil
                /\ Dial(e)
                /\ pend' = [pend EXCEPT ![p] = @ \cup {NewInvoker}]
             \/ /\ cache[e] = Nil
                /\ UNCHANGED <<ninv, invEp, cache, pend>>
    /\ UNCHANGED <<mode, closedBy, cpc, tries, cur, cerr, attempts, won, result,
                   done, dcap, left, allOk>>

\* Mutant: the done channel is made one slot short.
FanOutShort(p) ==
    /\ cpc[p] = "list"
    /\ todo[p] = {}
    /\ pend[p] # {}
    /\ dcap' = [dcap EXCEPT ![p] = Cardinality(pend[p]) - 1]
    /\ left' = [left EXCEPT ![p] = Cardinality(pend[p])]
    /\ cpc' = [cpc EXCEPT ![p] = "collect"]
    /\ UNCHANGED <<mode, ninv, invEp, closedBy, cache, tries, cur, cerr, attempts,
                   won, result, pend, done, allOk, todo>>

\* List has returned: an empty list returns nil at once; otherwise
\* done = make(chan *Call, l) and invoker.Go(..., done) for every invoker.
FanOut(p) ==
    /\ cpc[p] = "list"
    /\ todo[p] = {}
    /\ IF pend[p] = {}
       THEN /\ cpc' = [cpc EXCEPT ![p] = "done"]
            /\ result' = [result EXCEPT ![p] = "ok"]
            /\ UNCHANGED <<dcap, left>>
       ELSE /\ dcap' = [dcap EXCEPT ![p] = Cardinality(pend[p])]
            /\ left' = [left EXCEPT ![p] = Cardinality(pend[p])]
            /\ cpc' = [cpc EXCEPT ![p] = "collect"]
            /\ UNCHANGED result
    /\ UNCHANGED <<mode, ninv, invEp, closedBy, cache, tries, cur, cerr, attempts,
                   won, pend, done, allOk, todo>>

\* Invoker i completes the call p's fan-out made on it and sends it on the
\* done channel, whether or not p still receives from it.
Complete(p, i) ==
    /\ cpc[p] \notin {"idle", "list"}
    /\ i \in pend[p]
    /\ \E ok \in Outcomes(i) :
          done' = [done EXCEPT ![p] = Append(@, ok)]
    /\ pend' = [pend EXCEPT ![p] = @ \ {i}]
    /\ UNCHANGED <<mode, ninv, invEp, closedBy, cache, cpc, tries, cur, cerr,
                   attempts, won, result, dcap, left, allOk, todo>>

\* The receive step shared by both loops: call := <-done.
Receive(p) ==
    /\ done[p] # <<>>
    /\ done' = [done EXCEPT ![p] = Tail(@)]
    /\ won' = [won EXCEPT ![p] = @ \/ Head(done[p])]
    /\ allOk' = [allOk EXCEPT ![p] = @ /\ Head(done[p])]

\* Mutant: invokerBroadCast does not look at call.Error.
CollectBroadcastBlind(p) ==
    /\ mode[p] = "Broadcast"
    /\ cpc[p] = "collect"
    /\ Receive(p)
    /\ left' = [left EXCEPT ![p] = @ - 1]
    /\ cpc' = [cpc EXCEPT ![p] = IF left[p] = 1 THEN "done" ELSE "collect"]
    /\ result' = [result EXCEPT ![p] = IF left[p] = 1 THEN "ok" ELSE @]
    /\ UNCHANGED <<mode, ninv, invEp, closedBy, cache, tries, cur, cerr, attempts,
                   pend, dcap, todo>>

\* invokerBroadCast's loop: an error returns at once, with the other calls
\* still in flight; l successes return nil.
CollectBroadcast(p) ==
    /\ mode[p] = "Broadcast"
    /\ cpc[p] = "collect"
    /\ Receive(p)
    /\ IF Head(done[p])
       THEN /\ left' = [left EXCEPT ![p] = @ - 1]
            /\ cpc' = [cpc EXCEPT ![p] = IF left[p] = 1 THEN "done" ELSE "collect"]
            /\ result' = [result EXCEPT ![p] = IF left[p] = 1 THEN "ok" ELSE @]
       ELSE /\ cpc' = [cpc EXCEPT ![p] = "done"]
            /\ result' = [result EXCEPT ![p] = "err"]
            /\ UNCHANGED left
    /\ UNCHANGED <<mode, ninv, invEp, closedBy, cache, tries, cur, cerr, attempts,
                   pend, dcap, todo>>

\* Mutant: invokerForking's loop does not count failed calls down.
CollectForkingNoCount(p) ==
    /\ mode[p] = "Forking"
    /\ cpc[p] = "collect"
    /\ Receive(p)
    /\ cpc' = [cpc EXCEPT ![p] = IF Head(done[p]) THEN "done" ELSE "collect"]
    /\ result' = [result EXCEPT ![p] = IF Head(done[p]) THEN "ok" ELSE @]
    /\ UNCHANGED <<mode, ninv, invEp, closedBy, cache, tries, cur, cerr, attempts,
                   pend, dcap, left, todo>>

\* invokerForking's loop: a success returns nil at once; l failures return
\* "all invokers return Error".
CollectForking(p) ==
    /\ mode[p] = "Forking"
    /\ cpc[p] = "collect"
    /\ Receive(p)
    /\ IF Head(done[p])
       THEN /\ cpc' = [cpc EXCEPT ![p] = "done"]
            /\ result' = [result EXCEPT ![p] = "ok"]
            /\ UNCHANGED left
       ELSE /\ left' = [left EXCEPT ![p] = @ - 1]
            /\ cpc' = [cpc EXCEPT ![p] = IF left[p] = 1 THEN "done" ELSE "collect"]
            /\ result' = [result EXCEPT ![p] = IF left[p] = 1 THEN "err" ELSE @]
    /\ UNCHANGED <<mode, ninv, invEp, closedBy, cache, tries, cur, cerr, attempts,
                   pend, dcap, todo>>

\* Client.Go: selector.Select(); on an error the Call is completed at once
\* on done (allocated with capacity 1 when nil), otherwise invoker.Go sends
\* the request and the invoker completes it later.
Go(p) ==
    /\ cpc[p] = "idle"
    /\ cpc' = [cpc EXCEPT ![p] = "wait"]
    /\ dcap' = [dcap EXCEPT ![p] = 1]
    /\ \E e \in Endpoints :
          \/ /\ cache[e] # Nil
             /\ pend' = [pend EXCEPT ![p] = {cache[e]}]
             /\ UNCHANGED <<ninv, invEp, cache, done>>
          \/ /\ cache[e] = Nil
             /\ Dial(e)
             /\ pend' = [pend EXCEPT ![p] = {NewInvoker}]
             /\ UNCHANGED done
          \/ /\ cache[e] = Nil
             /\ done' = [done EXCEPT ![p] = <<FALSE>>]
             /\ UNCHANGED <<ninv, invEp, cache, pend>>
    /\ UNCHANGED <<mode, closedBy, tries, cur, cerr, attempts, won, result, left,
                   allOk, todo>>

\* The goroutine that called Go receives its Call from done.
GoDone(p) ==
    /\ cpc[p] = "wait"
    /\ Receive(p)
    /\ cpc' = [cpc EXCEPT ![p] = "done"]
    /\ result' = [result EXCEPT ![p] = IF Head(done[p]) THEN "ok" ELSE "err"]
    /\ UNCHANGED <<mode, ninv, invEp, closedBy, cache, tries, cur, cerr, attempts,
                   pend, dcap, left, todo>>

\* Client.Close: HandleFailed then Close on every invoker the selector
\* lists; the client stays usable and later selections dial again.
Close ==
    /\ \E e \in Endpoints : cache[e] # Nil
    /\ closedBy' = [i \in Invokers |->
                      IF closedBy[i] = Open /\ \E e \in Endpoints : cache[e] = i
                      THEN ClientClose ELSE closedBy[i]]
    /\ cache' = [e \in Endpoints |-> Nil]
    /\ UNCHANGED <<mode, ninv, invEp, cpc, tries, cur, cerr, attempts, won, result,
                   pend, done, dcap, left, allOk, todo>>

\* The steps of goroutine p inside Call.
Step(p) ==
    \/ LoopExit(p) \/ LoopSelect(p) \/ LoopReuse(p) \/ Invoke(p)
    \/ HandleFailed(p) \/ List(p) \/ FanOut(p)
    \/ CollectBroadcast(p) \/ CollectForking(p) \/ GoDone(p)

Next ==
    \/ \E p \in Callers : Call(p) \/ Go(p) \/ Step(p)
    \/ \E p \in Callers, i \in Invokers : Complete(p, i)
    \/ Close

(* A runnable goroutine is eventually scheduled, and an invoker call       *)
(* eventually completes: with the server's response, a write failure, or   *)
(* the teardown of its connection (the codec wrapper's timeouts).           *)
Fairness ==
    /\ \A p \in Callers : WF_vars(Step(p))
    /\ \A p \in Callers, i \in Invokers : WF_vars(Complete(p, i))

Spec == Init /\ [][Next]_vars /\ Fairness
-----------------------------------------------------------------------------
(* Properties.                                                               *)

(* Spec 4.6 and its invariants: a Call that returns nil under Failover,    *)
(* Failtry or Failfast made an invoker call that returned nil (the retry   *)
(* loop returns nil only from a successful attempt; Failfast is a single   *)
(* attempt).                                                                *)
SuccessWitnessed ==
    \A p \in Callers :
        mode[p] \in {"Failover", "Failtry", "Failfast"} /\ result[p] = "ok"
            => won[p]

(* Spec 4.6, Forking: the call succeeds when ANY invoker does -- a nil     *)
(* from invokerForking means that some fan-out call returned nil.          *)
ForkingSuccessWitnessed ==
    \A p \in Callers : mode[p] = "Forking" /\ result[p] = "ok" => won[p]

(* Spec invariant: Broadcast succeeds only when every invoker returned     *)
(* nil -- invokerBroadCast returns nil only after receiving l results, all *)
(* of them without error.                                                   *)
BroadcastAllOk ==
    \A p \in Callers :
        mode[p] = "Broadcast" /\ result[p] = "ok" => allOk[p] /\ left[p] = 0

(* Spec invariant: Call's retry loop never makes more than MaxTry invoker  *)
(* calls, counting the calls that fail and the Selects that fail.          *)
AttemptsBounded ==
    \A p \in Callers : attempts[p] <= MaxTry

(* Spec 4.6, Failover: after each failed call HandleFailed is invoked so   *)
(* that Select returns a different invoker -- a later attempt of the same  *)
(* Call never goes to an invoker that Call has closed itself.               *)
FailoverRetryFresh ==
    \A p \in Callers :
        mode[p] = "Failover" /\ cpc[p] = "call" => closedBy[cur[p]] # p

(* Spec 4.6, Failtry: the attempts go to the same invoker, which must      *)
(* therefore still be usable -- no Failtry attempt calls a closed invoker.  *)
FailtryRetryUsable ==
    \A p \in Callers :
        mode[p] = "Failtry" /\ cpc[p] = "call" => closedBy[cur[p]] = Open

(* The fan-out's done channel, made with capacity l, always has room for   *)
(* the invokers' sends, also after the caller has returned early and no    *)
(* longer receives.                                                         *)
DoneRoom ==
    \A p \in Callers : Len(done[p]) <= dcap[p]

(* Every Call returns -- the retry loop runs out, or the fan-out loop      *)
(* receives enough results -- and every Call made with Go is delivered on  *)
(* its done channel.                                                        *)
CallReturns ==
    \A p \in Callers : cpc[p] # "idle" ~> cpc[p] = "done"
=============================================================================
