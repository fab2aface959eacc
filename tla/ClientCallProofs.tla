-------------------------- MODULE ClientCallProofs --------------------------
(***************************************************************************)
(* Proofs, for every number of callers, endpoints, tries and invokers, of  *)
(* two properties of Client.Call that the client run checks on a small     *)
(* instance: the retry loop never makes more than MaxTry invoker calls    *)
(* (AttemptsBounded), and a Failover retry never goes to an invoker the    *)
(* same Call has closed (FailoverRetryFresh).                              *)
(***************************************************************************)
EXTENDS ClientCall, TLAPS

\* The attempt budget of goroutine p: every iteration of the retry loop
\* consumes one of the tries, and at most one invoker call is made per
\* iteration; the fan-out and Go paths make no invoker call of this kind.
Budget(p) ==
    /\ cpc[p] \in {"idle", "list", "collect", "wait"} => attempts[p] = 0
    /\ cpc[p] \in {"loop", "call"} => attempts[p] + tries[p] <= MaxTry
    /\ cpc[p] \in {"call", "handle"} => tries[p] >= 1
    /\ cpc[p] = "handle" => attempts[p] + tries[p] <= MaxTry + 1
    /\ cpc[p] = "done" => attempts[p] <= MaxTry

(* The inductive invariant: besides the budget, invokers the factory has   *)
(* not created yet are open, every invoker in the selector's cache is open *)
(* (HandleFailed and Client.Close evict what they close), and a Failover   *)
(* goroutine about to call holds an invoker it has not closed itself.      *)
ClientInv ==
    /\ mode \in [Callers -> Modes]
    /\ ninv \in 0..MaxInvokers
    /\ cpc \in [Callers -> Phases]
    /\ tries \in [Callers -> 0..MaxTry]
    /\ attempts \in [Callers -> Nat]
    /\ cur \in [Callers -> 0..ninv]
    /\ closedBy \in [Invokers -> Closers \cup {Open}]
    /\ cache \in [Endpoints -> 0..ninv]
    /\ todo \in [Callers -> SUBSET Endpoints]
    /\ \A i \in Invokers : i > ninv => closedBy[i] = Open
    /\ \A e \in Endpoints : cache[e] # Nil => closedBy[cache[e]] = Open
    /\ \A p \in Callers : Budget(p)
    /\ \A p \in Callers :
         mode[p] = "Failover" /\ cpc[p] = "call"
             => cur[p] # Nil /\ closedBy[cur[p]] # p
USE DEF Nil, Open, Invokers, ClientClose

LEMMA InitClientInv == Init => ClientInv
  BY ClientAssumption DEF Init, ClientInv, Budget, Phases


(* What the factory's dial preserves: the new invoker is one nobody has    *)
(* closed, so the cache still holds open invokers only.                    *)
LEMMA DialInv ==
  ASSUME ClientInv, NEW e \in Endpoints, ninv < MaxInvokers, ninv' = ninv + 1,
         cache' = [cache EXCEPT ![e] = ninv + 1], closedBy' = closedBy
  PROVE  /\ ninv' \in 0..MaxInvokers
         /\ cache' \in [Endpoints -> 0..ninv']
         /\ closedBy'[ninv + 1] = Open
         /\ \A i \in Invokers : i > ninv' => closedBy'[i] = Open
         /\ \A d \in Endpoints : cache'[d] # Nil => closedBy'[cache'[d]] = Open
  <1>1. ninv \in 0..MaxInvokers /\ ninv + 1 \in Invokers
    BY ClientAssumption DEF ClientInv
  <1>2. closedBy[ninv + 1] = Open
    BY <1>1 DEF ClientInv
  <1>3. cache' \in [Endpoints -> 0..ninv']
    BY <1>1, ClientAssumption DEF ClientInv
  <1>4. \A d \in Endpoints : cache'[d] # Nil => closedBy'[cache'[d]] = Open
    <2> SUFFICES ASSUME NEW d \in Endpoints, cache'[d] # Nil
                 PROVE  closedBy'[cache'[d]] = Open
      OBVIOUS
    <2>1. CASE d = e
      BY <1>2, <2>1 DEF ClientInv
    <2>2. CASE d # e
      BY <2>2 DEF ClientInv
    <2>3. QED
      BY <2>1, <2>2
  <1>5. \A i \in Invokers : i > ninv' => closedBy'[i] = Open
    BY DEF ClientInv
  <1>6. QED
    BY <1>1, <1>2, <1>3, <1>4, <1>5

LEMMA CallStep ==
  ASSUME ClientInv, NEW p \in Callers, Call(p)
  PROVE  ClientInv'
  <1>0. /\ cpc[p] = "idle"
        /\ UNCHANGED <<mode, ninv, invEp, closedBy, cache, cur, cerr, attempts>>
    BY DEF Call
  <1>1. CASE mode[p] \in {"Broadcast", "Forking"}
    <2>1. /\ cpc' = [cpc EXCEPT ![p] = "list"] /\ UNCHANGED tries
          /\ todo' = [todo EXCEPT ![p] = Endpoints]
      BY <1>1 DEF Call
    <2>2. QED
      BY <1>0, <2>1 DEF ClientInv, Budget, Phases
  <1>2. CASE mode[p] \in {"Failover", "Failtry"}
    <2>1. /\ cpc' = [cpc EXCEPT ![p] = "loop"] /\ tries' = [tries EXCEPT ![p] = MaxTry]
          /\ UNCHANGED todo
      BY <1>2 DEF Call
    <2>2. QED
      BY <1>0, <2>1, ClientAssumption DEF ClientInv, Budget, Phases
  <1>3. CASE mode[p] = "Failfast"
    <2>1. /\ cpc' = [cpc EXCEPT ![p] = "done"] /\ UNCHANGED <<tries, todo>>
      BY <1>3 DEF Call
    <2>2. QED
      BY <1>0, <2>1, ClientAssumption DEF ClientInv, Budget, Phases
  <1>4. QED
    BY <1>1, <1>2, <1>3 DEF ClientInv, Modes

LEMMA GoStep ==
  ASSUME ClientInv, NEW p \in Callers, Go(p)
  PROVE  ClientInv'
  <1>0. /\ cpc[p] = "idle" /\ cpc' = [cpc EXCEPT ![p] = "wait"]
        /\ UNCHANGED <<mode, closedBy, tries, cur, attempts, todo>>
    BY DEF Go
  <1>1. PICK e \in Endpoints :
          \/ UNCHANGED <<ninv, cache>>
          \/ /\ ninv < MaxInvokers /\ ninv' = ninv + 1
             /\ cache' = [cache EXCEPT ![e] = ninv + 1]
    BY DEF Go, Dial, NewInvoker
  <1>2. CASE UNCHANGED <<ninv, cache>>
    BY <1>0, <1>2 DEF ClientInv, Budget, Phases
  <1>3. CASE /\ ninv < MaxInvokers /\ ninv' = ninv + 1
             /\ cache' = [cache EXCEPT ![e] = ninv + 1]
    <2>1. /\ ninv' \in 0..MaxInvokers
          /\ cache' \in [Endpoints -> 0..ninv']
          /\ \A i \in Invokers : i > ninv' => closedBy'[i] = Open
          /\ \A d \in Endpoints : cache'[d] # Nil => closedBy'[cache'[d]] = Open
      BY <1>0, <1>3, DialInv
    <2>2. QED
      BY <1>0, <1>3, <2>1 DEF ClientInv, Budget, Phases
  <1>4. QED
    BY <1>1, <1>2, <1>3

LEMMA LoopExitStep ==
  ASSUME ClientInv, NEW p \in Callers, LoopExit(p)
  PROVE  ClientInv'
  BY ClientAssumption DEF ClientInv, Budget, LoopExit, Phases

LEMMA LoopSelectStep ==
  ASSUME ClientInv, NEW p \in Callers, LoopSelect(p)
  PROVE  ClientInv'
  <1>0. /\ cpc[p] = "loop" /\ tries[p] > 0
        /\ UNCHANGED <<mode, closedBy, attempts, todo>>
    BY DEF LoopSelect
  <1>1. PICK e \in Endpoints :
          \/ /\ cache[e] # Nil
             /\ cur' = [cur EXCEPT ![p] = cache[e]]
             /\ cpc' = [cpc EXCEPT ![p] = "call"]
             /\ UNCHANGED <<ninv, cache, tries>>
          \/ /\ ninv < MaxInvokers /\ ninv' = ninv + 1
             /\ cache' = [cache EXCEPT ![e] = ninv + 1]
             /\ cur' = [cur EXCEPT ![p] = ninv + 1]
             /\ cpc' = [cpc EXCEPT ![p] = "call"]
             /\ UNCHANGED tries
          \/ /\ cur' = [cur EXCEPT ![p] = Nil]
             /\ tries' = [tries EXCEPT ![p] = @ - 1]
             /\ UNCHANGED <<ninv, cache, cpc>>
    BY DEF LoopSelect, Dial, NewInvoker
  <1>2. CASE /\ cache[e] # Nil
             /\ cur' = [cur EXCEPT ![p] = cache[e]]
             /\ cpc' = [cpc EXCEPT ![p] = "call"]
             /\ UNCHANGED <<ninv, cache, tries>>
    <2>1. closedBy[cache[e]] = Open /\ cache[e] \in 1..ninv
      BY <1>2 DEF ClientInv
    <2>2. \A q \in Callers : Budget(q)'
      BY <1>0, <1>2, ClientAssumption DEF ClientInv, Budget
    <2>3. \A q \in Callers :
            mode'[q] = "Failover" /\ cpc'[q] = "call"
                => cur'[q] # Nil /\ closedBy'[cur'[q]] # q
      BY <1>0, <1>2, <2>1, ClientAssumption DEF ClientInv
    <2>4. QED
      BY <1>0, <1>2, <2>1, <2>2, <2>3 DEF ClientInv, Phases
  <1>3. CASE /\ ninv < MaxInvokers /\ ninv' = ninv + 1
             /\ cache' = [cache EXCEPT ![e] = ninv + 1]
             /\ cur' = [cur EXCEPT ![p] = ninv + 1]
             /\ cpc' = [cpc EXCEPT ![p] = "call"]
             /\ UNCHANGED tries
    <2>1. /\ ninv' \in 0..MaxInvokers
          /\ cache' \in [Endpoints -> 0..ninv']
          /\ closedBy'[ninv + 1] = Open
          /\ \A i \in Invokers : i > ninv' => closedBy'[i] = Open
          /\ \A d \in Endpoints : cache'[d] # Nil => closedBy'[cache'[d]] = Open
      BY <1>0, <1>3, DialInv
    <2>2. QED
      BY <1>0, <1>3, <2>1, ClientAssumption DEF ClientInv, Budget, Phases
  <1>4. CASE /\ cur' = [cur EXCEPT ![p] = Nil]
             /\ tries' = [tries EXCEPT ![p] = @ - 1]
             /\ UNCHANGED <<ninv, cache, cpc>>
    <2>1. tries' \in [Callers -> 0..MaxTry]
      BY <1>0, <1>4, ClientAssumption DEF ClientInv
    <2>2. \A q \in Callers : Budget(q)'
      <3> SUFFICES ASSUME NEW q \in Callers PROVE Budget(q)'
        OBVIOUS
      <3>1. CASE q = p
        BY <1>0, <1>4, <3>1, ClientAssumption DEF ClientInv, Budget
      <3>2. CASE q # p
        BY <1>0, <1>4, <3>2 DEF ClientInv, Budget
      <3>3. QED
        BY <3>1, <3>2
    <2>3. cur' \in [Callers -> 0..ninv']
      BY <1>4 DEF ClientInv
    <2>4. QED
      BY <1>0, <1>4, <2>1, <2>2, <2>3 DEF ClientInv
  <1>5. QED
    BY <1>1, <1>2, <1>3, <1>4

LEMMA LoopReuseStep ==
  ASSUME ClientInv, NEW p \in Callers, LoopReuse(p)
  PROVE  ClientInv'
  <1>0. /\ cpc[p] = "loop" /\ tries[p] > 0 /\ mode[p] = "Failtry"
        /\ cpc' = [cpc EXCEPT ![p] = "call"]
        /\ UNCHANGED <<mode, ninv, closedBy, cache, tries, cur, attempts, todo>>
    BY DEF LoopReuse
  <1>1. \A q \in Callers : Budget(q)'
    BY <1>0, ClientAssumption DEF ClientInv, Budget
  <1>2. \A q \in Callers :
          mode'[q] = "Failover" /\ cpc'[q] = "call"
              => cur'[q] # Nil /\ closedBy'[cur'[q]] # q
    BY <1>0 DEF ClientInv
  <1>3. QED
    BY <1>0, <1>1, <1>2 DEF ClientInv, Phases

LEMMA InvokeStep ==
  ASSUME ClientInv, NEW p \in Callers, Invoke(p)
  PROVE  ClientInv'
  <1>0. PICK ok \in BOOLEAN :
          /\ cpc[p] = "call"
          /\ attempts' = [attempts EXCEPT ![p] = @ + 1]
          /\ cpc' = [cpc EXCEPT ![p] = IF ok THEN "done" ELSE "handle"]
          /\ UNCHANGED <<mode, ninv, closedBy, cache, tries, cur, todo>>
    BY DEF Invoke, Outcomes
  <1>1. /\ attempts[p] + tries[p] <= MaxTry /\ tries[p] >= 1
        /\ attempts[p] \in Nat /\ tries[p] \in 0..MaxTry
    BY <1>0 DEF ClientInv, Budget
  <1>2. \A q \in Callers : Budget(q)'
    <2> SUFFICES ASSUME NEW q \in Callers PROVE Budget(q)'
      OBVIOUS
    <2>1. CASE q = p /\ ok
      BY <1>0, <1>1, <2>1, ClientAssumption DEF ClientInv, Budget
    <2>2. CASE q = p /\ ~ok
      BY <1>0, <1>1, <2>2, ClientAssumption DEF ClientInv, Budget
    <2>3. CASE q # p
      BY <1>0, <2>3 DEF ClientInv, Budget
    <2>4. QED
      BY <2>1, <2>2, <2>3
  <1>3. \A q \in Callers :
          mode'[q] = "Failover" /\ cpc'[q] = "call"
              => cur'[q] # Nil /\ closedBy'[cur'[q]] # q
    BY <1>0 DEF ClientInv
  <1>4. cpc' \in [Callers -> Phases] /\ attempts' \in [Callers -> Nat]
    BY <1>0, <1>1 DEF ClientInv, Phases
  <1>5. QED
    BY <1>0, <1>2, <1>3, <1>4 DEF ClientInv

LEMMA HandleFailedStep ==
  ASSUME ClientInv, NEW p \in Callers, HandleFailed(p)
  PROVE  ClientInv'
  <1> DEFINE i == cur[p]
  <1>0. /\ cpc[p] = "handle" /\ tries[p] >= 1
        /\ attempts[p] + tries[p] <= MaxTry + 1
        /\ i \in 0..ninv
        /\ cpc' = [cpc EXCEPT ![p] = "loop"]
        /\ tries' = [tries EXCEPT ![p] = @ - 1]
        /\ UNCHANGED <<mode, ninv, cur, attempts, todo>>
    BY DEF HandleFailed, ClientInv, Budget
  <1>1. closedBy' = [closedBy EXCEPT ![i] = IF @ = Open THEN p ELSE @]
    BY DEF HandleFailed
  <1>2. cache' = [e \in Endpoints |-> IF cache[e] = i THEN Nil ELSE cache[e]]
    BY DEF HandleFailed
  <1>3. \A j \in Invokers : j # i => closedBy'[j] = closedBy[j]
    BY <1>1 DEF ClientInv
  <1>4. closedBy' \in [Invokers -> Closers \cup {Open}]
    BY <1>1 DEF ClientInv, Closers
  <1>5. \A j \in Invokers : closedBy'[j] \in {closedBy[j], p}
    BY <1>1 DEF ClientInv
  <1>6. \A j \in Invokers : j > ninv => closedBy'[j] = Open
    BY <1>0, <1>3 DEF ClientInv
  <1>7. cache' \in [Endpoints -> 0..ninv]
    BY <1>2 DEF ClientInv
  <1>11. \A e \in Endpoints : cache'[e] # Nil => closedBy'[cache'[e]] = Open
    <2> SUFFICES ASSUME NEW e \in Endpoints, cache'[e] # Nil
                 PROVE  closedBy'[cache'[e]] = Open
      OBVIOUS
    <2>1. cache'[e] = cache[e] /\ cache[e] # i /\ cache[e] # Nil
      BY <1>2
    <2>2. cache[e] \in Invokers
      BY <2>1, ClientAssumption DEF ClientInv
    <2>3. QED
      BY <1>3, <2>1, <2>2 DEF ClientInv
  <1>8. \A q \in Callers : Budget(q)'
    <2> SUFFICES ASSUME NEW q \in Callers PROVE Budget(q)'
      OBVIOUS
    <2>1. CASE q = p
      BY <1>0, <2>1, ClientAssumption DEF ClientInv, Budget
    <2>2. CASE q # p
      BY <1>0, <2>2 DEF ClientInv, Budget
    <2>3. QED
      BY <2>1, <2>2
  <1>9. \A q \in Callers :
          mode'[q] = "Failover" /\ cpc'[q] = "call"
              => cur'[q] # Nil /\ closedBy'[cur'[q]] # q
    <2> SUFFICES ASSUME NEW q \in Callers, mode[q] = "Failover", cpc'[q] = "call"
                 PROVE  cur[q] # Nil /\ closedBy'[cur[q]] # q
      BY <1>0
    <2>1. q # p /\ cpc[q] = "call"
      BY <1>0 DEF ClientInv
    <2>2. cur[q] # Nil /\ closedBy[cur[q]] # q /\ cur[q] \in Invokers
      BY <2>1, ClientAssumption DEF ClientInv
    <2>3. QED
      BY <1>5, <2>1, <2>2
  <1>12. tries' \in [Callers -> 0..MaxTry] /\ cpc' \in [Callers -> Phases]
    BY <1>0, ClientAssumption DEF ClientInv, Phases
  <1>10. QED
    BY <1>0, <1>4, <1>6, <1>7, <1>11, <1>8, <1>9, <1>12 DEF ClientInv

LEMMA ListStep ==
  ASSUME ClientInv, NEW p \in Callers, List(p)
  PROVE  ClientInv'
  <1>0. UNCHANGED <<mode, cpc, closedBy, tries, cur, attempts>>
    BY DEF List
  <1>1. PICK e \in todo[p] :
          /\ todo' = [todo EXCEPT ![p] = @ \ {e}]
          /\ \/ UNCHANGED <<ninv, cache>>
             \/ /\ ninv < MaxInvokers /\ ninv' = ninv + 1
                /\ cache' = [cache EXCEPT ![e] = ninv + 1]
    BY DEF List, Dial, NewInvoker
  <1>a. e \in Endpoints /\ todo' \in [Callers -> SUBSET Endpoints]
    BY <1>1 DEF ClientInv
  <1>2. CASE UNCHANGED <<ninv, cache>>
    BY <1>0, <1>a, <1>2 DEF ClientInv, Budget
  <1>3. CASE /\ ninv < MaxInvokers /\ ninv' = ninv + 1
             /\ cache' = [cache EXCEPT ![e] = ninv + 1]
    <2>1. /\ ninv' \in 0..MaxInvokers
          /\ cache' \in [Endpoints -> 0..ninv']
          /\ \A i \in Invokers : i > ninv' => closedBy'[i] = Open
          /\ \A d \in Endpoints : cache'[d] # Nil => closedBy'[cache'[d]] = Open
      BY <1>0, <1>a, <1>3, DialInv
    <2>2. QED
      BY <1>0, <1>a, <1>3, <2>1, ClientAssumption DEF ClientInv, Budget
  <1>4. QED
    BY <1>1, <1>2, <1>3

LEMMA FanOutStep ==
  ASSUME ClientInv, NEW p \in Callers, FanOut(p)
  PROVE  ClientInv'
  <1>a. cpc' \in {[cpc EXCEPT ![p] = "done"], [cpc EXCEPT ![p] = "collect"]}
    <2>1. CASE pend[p] = {}
      BY <2>1 DEF FanOut
    <2>2. CASE pend[p] # {}
      BY <2>2 DEF FanOut
    <2>3. QED
      BY <2>1, <2>2
  <1>0. /\ cpc[p] = "list"
        /\ cpc' \in {[cpc EXCEPT ![p] = "done"], [cpc EXCEPT ![p] = "collect"]}
        /\ UNCHANGED <<mode, ninv, closedBy, cache, tries, cur, attempts, todo>>
    BY <1>a DEF FanOut
  <1>1. CASE cpc' = [cpc EXCEPT ![p] = "done"]
    BY <1>0, <1>1, ClientAssumption DEF ClientInv, Budget, Phases
  <1>2. CASE cpc' = [cpc EXCEPT ![p] = "collect"]
    BY <1>0, <1>2 DEF ClientInv, Budget, Phases
  <1>3. QED
    BY <1>0, <1>1, <1>2

LEMMA CollectStep ==
  ASSUME ClientInv, NEW p \in Callers,
         CollectBroadcast(p) \/ CollectForking(p) \/ GoDone(p)
  PROVE  ClientInv'
  <1>0. /\ cpc[p] \in {"collect", "wait"}
        /\ cpc' \in {[cpc EXCEPT ![p] = "done"], [cpc EXCEPT ![p] = "collect"]}
        /\ UNCHANGED <<mode, ninv, closedBy, cache, tries, cur, attempts, todo>>
    <2>1. CASE CollectBroadcast(p)
      <3>1. CASE Head(done[p])
        BY <2>1, <3>1 DEF CollectBroadcast
      <3>2. CASE ~Head(done[p])
        BY <2>1, <3>2 DEF CollectBroadcast
      <3>3. QED
        BY <3>1, <3>2
    <2>2. CASE CollectForking(p)
      <3>1. CASE Head(done[p])
        BY <2>2, <3>1 DEF CollectForking
      <3>2. CASE ~Head(done[p])
        BY <2>2, <3>2 DEF CollectForking
      <3>3. QED
        BY <3>1, <3>2
    <2>3. CASE GoDone(p)
      BY <2>3 DEF GoDone
    <2>4. QED
      BY <2>1, <2>2, <2>3
  <1>1. CASE cpc' = [cpc EXCEPT ![p] = "done"]
    BY <1>0, <1>1, ClientAssumption DEF ClientInv, Budget, Phases
  <1>2. CASE cpc' = [cpc EXCEPT ![p] = "collect"]
    BY <1>0, <1>2 DEF ClientInv, Budget, Phases
  <1>3. QED
    BY <1>0, <1>1, <1>2

LEMMA CompleteStep ==
  ASSUME ClientInv, NEW p \in Callers, NEW i \in Invokers, Complete(p, i)
  PROVE  ClientInv'
  BY ClientAssumption DEF ClientInv, Budget, Complete

LEMMA CloseStep ==
  ASSUME ClientInv, Close
  PROVE  ClientInv'
  BY ClientAssumption DEF ClientInv, Budget, Close, Closers

LEMMA NextClientInv == ClientInv /\ [Next]_vars => ClientInv'
  <1> SUFFICES ASSUME ClientInv, [Next]_vars PROVE ClientInv'
    OBVIOUS
  <1>1. CASE \E p \in Callers : Call(p)
    BY <1>1, CallStep
  <1>2. CASE \E p \in Callers : Go(p)
    BY <1>2, GoStep
  <1>3. CASE \E p \in Callers : Step(p)
    <2> PICK p \in Callers : Step(p)
      BY <1>3
    <2> QED
      BY LoopExitStep, LoopSelectStep, LoopReuseStep, InvokeStep,
         HandleFailedStep, ListStep, FanOutStep, CollectStep DEF Step
  <1>4. CASE \E p \in Callers, i \in Invokers : Complete(p, i)
    BY <1>4, CompleteStep
  <1>5. CASE Close
    BY <1>5, CloseStep
  <1>6. CASE UNCHANGED vars
    BY <1>6 DEF vars, ClientInv, Budget
  <1>7. QED
    BY <1>1, <1>2, <1>3, <1>4, <1>5, <1>6 DEF Next

(* Client.Call's retry loop (Failover, Failtry) never makes more than      *)
(* MaxTry invoker calls, counting failed Selects as tries, for any number  *)
(* of goroutines sharing the selector and any MaxTry.                      *)
THEOREM AttemptsWithinMaxTry == Spec => []AttemptsBounded
  <1>1. ClientInv => AttemptsBounded
    <2> SUFFICES ASSUME ClientInv, NEW p \in Callers PROVE attempts[p] <= MaxTry
      BY DEF AttemptsBounded
    <2>1. cpc[p] \in Phases /\ Budget(p) /\ tries[p] \in 0..MaxTry /\ attempts[p] \in Nat
      BY DEF ClientInv
    <2> QED
      BY <2>1, ClientAssumption DEF Budget, Phases
  <1>2. QED
    BY <1>1, InitClientInv, NextClientInv, PTL DEF Spec

(* Under Failover an attempt never goes to an invoker that the same Call   *)
(* has closed with HandleFailed: the selector's cache only holds open      *)
(* invokers, and HandleFailed evicts the invoker it closes.                *)
THEOREM FailoverNeverReusesClosed == Spec => []FailoverRetryFresh
  <1>1. ClientInv => FailoverRetryFresh
    BY DEF ClientInv, FailoverRetryFresh
  <1>2. QED
    BY <1>1, InitClientInv, NextClientInv, PTL DEF Spec
=============================================================================
