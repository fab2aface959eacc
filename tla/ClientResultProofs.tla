------------------------- MODULE ClientResultProofs -------------------------
(***************************************************************************)
(* Proofs, for every number of callers, endpoints, tries and invokers, of  *)
(* what Client.Call returns and of the fan-out's done channel: a nil from   *)
(* the retry loop follows a nil from an invoker (SuccessWitnessed, for     *)
(* Clients that are not Failfast), Broadcast returns nil only after l nil  *)
(* results (BroadcastAllOk), and the done channel always has room for the  *)
(* invokers' sends (DoneRoom).  They rest on ClientInv of ClientCallProofs.*)
(***************************************************************************)
EXTENDS ClientCallProofs, FiniteSetTheorems, SequenceTheorems

RetryPhases == {"loop", "call", "handle"}

\* The done channel of p: nothing is sent on it before it is made (by Go or
\* by the fan-out), and afterwards the results buffered plus the calls
\* still in flight never exceed the capacity it was made with.
DoneSlack(p) ==
    /\ cpc[p] \in {"idle"} \cup RetryPhases => pend[p] = {}
    /\ cpc[p] \in {"idle", "list"} \cup RetryPhases => done[p] = <<>>
    /\ cpc[p] \notin {"idle", "list"} => Len(done[p]) + Cardinality(pend[p]) <= dcap[p]
    /\ cpc[p] = "collect" => left[p] >= 1

\* A Broadcast call that has not returned has received no error, and its
\* counter l is only set by the fan-out.
BroadcastClean(p) ==
    mode[p] = "Broadcast" =>
        /\ cpc[p] # "done" => allOk[p]
        /\ cpc[p] \in {"idle", "list", "wait"} => left[p] = 0
        /\ result[p] = "ok" => allOk[p] /\ left[p] = 0

\* In the retry loop err is non-nil from the first failed try on, so the
\* loop can only run out with an error; a nil result comes from a
\* successful invoker call.
RetryErr(p) ==
    mode[p] \in {"Failover", "Failtry"} =>
        /\ cpc[p] = "loop" /\ tries[p] < MaxTry => cerr[p]
        /\ cpc[p] = "handle" => cerr[p]
        /\ result[p] = "ok" => won[p]

\* Every conjunct about one caller p.
AtCaller(p) ==
    /\ mode[p] \in Mode[p]
    /\ cpc[p] # "done" => result[p] = "none"
    /\ cpc[p] \in RetryPhases => mode[p] \in {"Failover", "Failtry"}
    /\ cpc[p] \in {"list", "collect"} => mode[p] \in {"Broadcast", "Forking"}
    /\ DoneSlack(p)
    /\ BroadcastClean(p)
    /\ RetryErr(p)

ResultTypes ==
    /\ result \in [Callers -> {"none", "ok", "err"}]
    /\ pend \in [Callers -> SUBSET Invokers]
    /\ done \in [Callers -> Seq(BOOLEAN)]
    /\ dcap \in [Callers -> Nat]
    /\ left \in [Callers -> Nat]
    /\ won \in [Callers -> BOOLEAN]
    /\ cerr \in [Callers -> BOOLEAN]
    /\ allOk \in [Callers -> BOOLEAN]

(* The inductive invariant for Call's results and the done channel; a      *)
(* caller's result is set only when its Call returns.                      *)
ResultInv == ResultTypes /\ \A p \in Callers : AtCaller(p)

\* A step leaves caller q's part of the state alone.
Untouched(q) ==
    /\ mode'[q] = mode[q] /\ cpc'[q] = cpc[q] /\ result'[q] = result[q]
    /\ pend'[q] = pend[q] /\ done'[q] = done[q] /\ dcap'[q] = dcap[q]
    /\ left'[q] = left[q] /\ won'[q] = won[q] /\ cerr'[q] = cerr[q]
    /\ allOk'[q] = allOk[q] /\ tries'[q] = tries[q]

USE DEF RetryPhases, Nil, Open, Invokers, ClientClose

LEMMA InitResultInv == Init => ResultInv
  BY FS_EmptySet DEF Init, ResultInv, ResultTypes, AtCaller, DoneSlack,
     BroadcastClean, RetryErr

(* A step that keeps the types, re-establishes the conjuncts of the caller *)
(* it is about and leaves every other caller alone preserves ResultInv.    *)
LEMMA Assemble ==
  ASSUME ResultInv, NEW p \in Callers, ResultTypes', AtCaller(p)',
         \A q \in Callers \ {p} : Untouched(q)
  PROVE  ResultInv'
  <1> SUFFICES ASSUME NEW q \in Callers PROVE AtCaller(q)'
    BY DEF ResultInv
  <1>1. CASE q = p
    BY <1>1
  <1>2. CASE q # p
    <2>1. AtCaller(q) /\ Untouched(q)
      BY <1>2 DEF ResultInv
    <2> QED
      BY <2>1 DEF AtCaller, Untouched, DoneSlack, BroadcastClean, RetryErr
  <1> QED
    BY <1>1, <1>2

\* The invokers of a fan-out form a finite set.
LEMMA PendFinite ==
  ASSUME ResultInv, NEW p \in Callers
  PROVE  IsFiniteSet(pend[p]) /\ Cardinality(pend[p]) \in Nat
  <1>1. IsFiniteSet(1..MaxInvokers)
    BY FS_Interval, ClientAssumption
  <1>2. pend[p] \in SUBSET (1..MaxInvokers)
    BY DEF ResultInv, ResultTypes
  <1>3. IsFiniteSet(pend[p])
    BY <1>1, <1>2, FS_Subset
  <1> QED
    BY <1>3, FS_CardinalityType

LEMMA CloseResult ==
  ASSUME ResultInv, Close
  PROVE  ResultInv'
  <1>1. UNCHANGED <<mode, cpc, tries, cerr, won, result, pend, done, dcap, left, allOk>>
    BY DEF Close
  <1> QED
    BY <1>1 DEF ResultInv, ResultTypes, AtCaller, DoneSlack, BroadcastClean, RetryErr

LEMMA CompleteResult ==
  ASSUME ResultInv, NEW p \in Callers, NEW i \in Invokers, Complete(p, i)
  PROVE  ResultInv'
  <1>0. PICK ok \in BOOLEAN :
          /\ cpc[p] \notin {"idle", "list"} /\ i \in pend[p]
          /\ done' = [done EXCEPT ![p] = Append(@, ok)]
          /\ pend' = [pend EXCEPT ![p] = @ \ {i}]
          /\ UNCHANGED <<mode, cpc, tries, cerr, won, result, dcap, left, allOk>>
    BY DEF Complete, Outcomes
  <1>1. \A q \in Callers \ {p} : Untouched(q)
    BY <1>0 DEF Untouched
  <1>2. ResultTypes'
    BY <1>0 DEF ResultInv, ResultTypes
  <1>3. AtCaller(p)'
    <2>1. AtCaller(p) /\ done[p] \in Seq(BOOLEAN)
      BY DEF ResultInv, ResultTypes
    <2>2. IsFiniteSet(pend[p]) /\ Cardinality(pend[p]) \in Nat
      BY PendFinite
    <2>3. cpc[p] \notin {"idle", "list"} \cup RetryPhases
      BY <1>0, <2>1 DEF AtCaller, DoneSlack
    <2>6. Cardinality(pend'[p]) = Cardinality(pend[p]) - 1
      <3>1. pend'[p] = pend[p] \ {i}
        BY <1>0 DEF ResultInv, ResultTypes
      <3> QED
        BY <1>0, <2>2, <3>1, FS_RemoveElement
    <2>7. Len(done'[p]) = Len(done[p]) + 1
      <3>1. done'[p] = Append(done[p], ok)
        BY <1>0 DEF ResultInv, ResultTypes
      <3> QED
        BY <2>1, <3>1
    <2>4. Len(done'[p]) + Cardinality(pend'[p]) = Len(done[p]) + Cardinality(pend[p])
      BY <2>1, <2>2, <2>6, <2>7
    <2>5. DoneSlack(p)'
      BY <1>0, <2>1, <2>3, <2>4 DEF AtCaller, DoneSlack
    <2> QED
      BY <1>0, <2>1, <2>5 DEF AtCaller, BroadcastClean, RetryErr
  <1> QED
    BY <1>1, <1>2, <1>3, Assemble

LEMMA LoopReuseResult ==
  ASSUME ResultInv, NEW p \in Callers, LoopReuse(p)
  PROVE  ResultInv'
  <1>0. /\ cpc[p] = "loop" /\ cpc' = [cpc EXCEPT ![p] = "call"]
        /\ UNCHANGED <<mode, tries, cerr, won, result, pend, done, dcap, left, allOk>>
    BY DEF LoopReuse
  <1>1. \A q \in Callers \ {p} : Untouched(q)
    BY <1>0 DEF Untouched
  <1>2. ResultTypes'
    BY <1>0 DEF ResultInv, ResultTypes
  <1>3. AtCaller(p)'
    BY <1>0 DEF ResultInv, AtCaller, DoneSlack, BroadcastClean, RetryErr
  <1> QED
    BY <1>1, <1>2, <1>3, Assemble

LEMMA LoopExitResult ==
  ASSUME ClientInv, ResultInv, NEW p \in Callers, LoopExit(p)
  PROVE  ResultInv'
  <1>0. /\ cpc[p] = "loop" /\ tries[p] = 0
        /\ cpc' = [cpc EXCEPT ![p] = "done"]
        /\ result' = [result EXCEPT ![p] = IF cerr[p] THEN "err" ELSE "ok"]
        /\ UNCHANGED <<mode, tries, cerr, won, pend, done, dcap, left, allOk>>
    BY DEF LoopExit
  <1>1. \A q \in Callers \ {p} : Untouched(q)
    BY <1>0 DEF Untouched
  <1>2. ResultTypes'
    BY <1>0 DEF ResultInv, ResultTypes
  <1>3. /\ mode[p] \in {"Failover", "Failtry"} /\ cerr[p]
        /\ pend[p] = {} /\ done[p] = <<>> /\ dcap[p] \in Nat
    BY <1>0, ClientAssumption DEF ResultInv, ResultTypes, AtCaller, DoneSlack, RetryErr
  <1>5. cpc'[p] = "done" /\ result'[p] = "err" /\ mode'[p] = mode[p]
    BY <1>0, <1>3 DEF ResultInv, ResultTypes, ClientInv
  <1>6. DoneSlack(p)'
    BY <1>0, <1>3, <1>5, FS_EmptySet DEF DoneSlack
  <1>4. AtCaller(p)'
    BY <1>3, <1>5, <1>6 DEF ResultInv, AtCaller, BroadcastClean, RetryErr
  <1> QED
    BY <1>1, <1>2, <1>4, Assemble

LEMMA LoopSelectResult ==
  ASSUME ClientInv, ResultInv, NEW p \in Callers, LoopSelect(p)
  PROVE  ResultInv'
  <1> DEFINE Picked == /\ cpc' = [cpc EXCEPT ![p] = "call"]
                       /\ cerr' = [cerr EXCEPT ![p] = FALSE] /\ UNCHANGED tries
             Failed == /\ cpc' = cpc /\ cerr' = [cerr EXCEPT ![p] = TRUE]
                       /\ tries' = [tries EXCEPT ![p] = @ - 1]
  <1>0. /\ cpc[p] = "loop" /\ tries[p] > 0
        /\ UNCHANGED <<mode, won, result, pend, done, dcap, left, allOk>>
        /\ Picked \/ Failed
    BY DEF LoopSelect, Dial
  <1>1. \A q \in Callers \ {p} : Untouched(q)
    BY <1>0 DEF Untouched, ResultInv, ResultTypes, ClientInv
  <1>2. ResultTypes'
    BY <1>0 DEF ResultInv, ResultTypes
  <1>3. AtCaller(p) /\ tries[p] \in 0..MaxTry /\ cpc \in [Callers -> Phases]
    BY DEF ResultInv, ClientInv
  <1>4. AtCaller(p)'
    <2>1. CASE Picked
      <3>1. cpc'[p] = "call"
        BY <2>1 DEF ClientInv, Picked
      <3> QED
        BY <1>0, <1>3, <2>1, <3>1 DEF AtCaller, DoneSlack, BroadcastClean, RetryErr
    <2>2. CASE Failed
      <3>2. cerr'[p] = TRUE
        BY <2>2 DEF ResultInv, ResultTypes, Failed
      <3>3. tries'[p] = tries[p] - 1
        BY <2>2 DEF ClientInv, Failed
      <3>4. cpc'[p] = "loop"
        BY <1>0, <2>2 DEF Failed
      <3>1. cerr'[p] /\ tries'[p] < MaxTry /\ cpc'[p] = "loop"
        BY <1>3, <3>2, <3>3, <3>4, ClientAssumption
      <3> QED
        BY <1>0, <1>3, <2>2, <3>1 DEF AtCaller, DoneSlack, BroadcastClean, RetryErr
    <2> QED
      BY <1>0, <2>1, <2>2
  <1> QED
    BY <1>1, <1>2, <1>4, Assemble

LEMMA InvokeResult ==
  ASSUME ClientInv, ResultInv, NEW p \in Callers, Invoke(p)
  PROVE  ResultInv'
  <1>0. PICK ok \in BOOLEAN :
          /\ cpc[p] = "call"
          /\ cerr' = [cerr EXCEPT ![p] = ~ok]
          /\ won' = [won EXCEPT ![p] = @ \/ ok]
          /\ cpc' = [cpc EXCEPT ![p] = IF ok THEN "done" ELSE "handle"]
          /\ result' = [result EXCEPT ![p] = IF ok THEN "ok" ELSE @]
          /\ UNCHANGED <<mode, tries, pend, done, dcap, left, allOk>>
    BY DEF Invoke, Outcomes
  <1>1. \A q \in Callers \ {p} : Untouched(q)
    BY <1>0 DEF Untouched, ResultInv, ResultTypes, ClientInv
  <1>2. ResultTypes'
    BY <1>0 DEF ResultInv, ResultTypes
  <1>3. /\ AtCaller(p) /\ mode[p] \in {"Failover", "Failtry"}
        /\ pend[p] = {} /\ done[p] = <<>> /\ dcap[p] \in Nat
    BY <1>0 DEF ResultInv, ResultTypes, AtCaller, DoneSlack
  <1>4. AtCaller(p)'
    <2>1. CASE ok
      <3>1. cpc'[p] = "done" /\ result'[p] = "ok" /\ won'[p]
        BY <1>0, <2>1 DEF ResultInv, ResultTypes, ClientInv
      <3>2. DoneSlack(p)'
        BY <1>0, <1>3, <3>1, FS_EmptySet DEF DoneSlack
      <3> QED
        BY <1>0, <1>3, <3>1, <3>2 DEF AtCaller, BroadcastClean, RetryErr
    <2>2. CASE ~ok
      <3>1. cpc'[p] = "handle" /\ result'[p] = result[p] /\ cerr'[p]
        BY <1>0, <2>2 DEF ResultInv, ResultTypes, ClientInv
      <3> QED
        BY <1>0, <1>3, <3>1 DEF AtCaller, DoneSlack, BroadcastClean, RetryErr
    <2> QED
      BY <2>1, <2>2
  <1> QED
    BY <1>1, <1>2, <1>4, Assemble

LEMMA HandleFailedResult ==
  ASSUME ClientInv, ResultInv, NEW p \in Callers, HandleFailed(p)
  PROVE  ResultInv'
  <1>0. /\ cpc[p] = "handle"
        /\ cpc' = [cpc EXCEPT ![p] = "loop"]
        /\ tries' = [tries EXCEPT ![p] = @ - 1]
        /\ UNCHANGED <<mode, cerr, won, result, pend, done, dcap, left, allOk>>
    BY DEF HandleFailed
  <1>1. \A q \in Callers \ {p} : Untouched(q)
    BY <1>0 DEF Untouched, ResultInv, ResultTypes, ClientInv
  <1>2. ResultTypes'
    BY <1>0 DEF ResultInv, ResultTypes
  <1>3. AtCaller(p) /\ tries[p] \in 0..MaxTry /\ cerr[p]
    BY <1>0 DEF ResultInv, ClientInv, AtCaller, RetryErr
  <1>4. tries'[p] < MaxTry /\ cpc'[p] = "loop"
    BY <1>0, <1>3, ClientAssumption DEF ClientInv
  <1>5. AtCaller(p)'
    BY <1>0, <1>3, <1>4 DEF AtCaller, DoneSlack, BroadcastClean, RetryErr
  <1> QED
    BY <1>1, <1>2, <1>5, Assemble

\* What Select or List hands out is an invoker: a cached one or the one the
\* factory has just dialled.
LEMMA HandedOut ==
  ASSUME ClientInv, NEW e \in Endpoints
  PROVE  /\ cache[e] # Nil => cache[e] \in Invokers
         /\ ninv < MaxInvokers => NewInvoker \in Invokers
  BY ClientAssumption DEF ClientInv, NewInvoker

LEMMA ListResult ==
  ASSUME ClientInv, ResultInv, NEW p \in Callers, List(p)
  PROVE  ResultInv'
  <1>0. PICK e \in todo[p] :
          /\ cpc[p] = "list"
          /\ \/ cache[e] # Nil /\ pend' = [pend EXCEPT ![p] = @ \cup {cache[e]}]
             \/ ninv < MaxInvokers /\ pend' = [pend EXCEPT ![p] = @ \cup {NewInvoker}]
             \/ pend' = pend
          /\ UNCHANGED <<mode, cpc, tries, cerr, won, result, done, dcap, left, allOk>>
    BY DEF List, Dial
  <1>1. e \in Endpoints
    BY DEF ClientInv
  <1>2. \A q \in Callers \ {p} : Untouched(q)
    BY <1>0 DEF Untouched, ResultInv, ResultTypes, ClientInv
  <1>3. ResultTypes'
    <2>1. pend'[p] \subseteq Invokers
      BY <1>0, <1>1, HandedOut DEF ResultInv, ResultTypes
    <2> QED
      BY <1>0, <2>1 DEF ResultInv, ResultTypes
  <1>4. AtCaller(p)'
    BY <1>0 DEF ResultInv, AtCaller, DoneSlack, BroadcastClean, RetryErr
  <1> QED
    BY <1>2, <1>3, <1>4, Assemble

LEMMA CallResult ==
  ASSUME ClientInv, ResultInv, NEW p \in Callers, Call(p)
  PROVE  ResultInv'
  <1>0. /\ cpc[p] = "idle"
        /\ UNCHANGED <<mode, cerr, won, pend, done, dcap, left, allOk>>
    BY DEF Call
  <1>1. /\ AtCaller(p) /\ mode[p] \in Modes /\ result[p] = "none"
        /\ pend[p] = {} /\ done[p] = <<>> /\ dcap[p] \in Nat
    BY <1>0 DEF ResultInv, ResultTypes, ClientInv, AtCaller, DoneSlack
  <1>2. CASE mode[p] \in {"Broadcast", "Forking"}
    <2>1. /\ cpc' = [cpc EXCEPT ![p] = "list"] /\ UNCHANGED <<tries, result>>
      BY <1>0, <1>2 DEF Call
    <2>2. \A q \in Callers \ {p} : Untouched(q)
      BY <1>0, <2>1 DEF Untouched, ClientInv
    <2>3. AtCaller(p)'
      BY <1>0, <1>1, <1>2, <2>1 DEF ClientInv, AtCaller, DoneSlack, BroadcastClean, RetryErr
    <2> QED
      BY <1>0, <2>1, <2>2, <2>3, Assemble DEF ResultInv, ResultTypes
  <1>3. CASE mode[p] \in {"Failover", "Failtry"}
    <2>1. /\ cpc' = [cpc EXCEPT ![p] = "loop"] /\ tries' = [tries EXCEPT ![p] = MaxTry]
          /\ UNCHANGED result
      BY <1>0, <1>3 DEF Call
    <2>2. \A q \in Callers \ {p} : Untouched(q)
      BY <1>0, <2>1 DEF Untouched, ClientInv
    <2>3. cpc'[p] = "loop" /\ tries'[p] = MaxTry
      BY <2>1 DEF ClientInv
    <2>5. /\ mode'[p] = mode[p] /\ result'[p] = "none" /\ pend'[p] = {}
          /\ done'[p] = <<>> /\ dcap'[p] = dcap[p]
      BY <1>0, <1>1, <2>1
    <2>6. DoneSlack(p)'
      BY <1>1, <2>3, <2>5, FS_EmptySet DEF DoneSlack
    <2>7. BroadcastClean(p)' /\ RetryErr(p)'
      BY <1>3, <2>3, <2>5, ClientAssumption DEF BroadcastClean, RetryErr
    <2>4. AtCaller(p)'
      BY <1>1, <1>3, <2>3, <2>5, <2>6, <2>7 DEF AtCaller
    <2> QED
      BY <1>0, <2>1, <2>2, <2>4, Assemble DEF ResultInv, ResultTypes
  <1>4. CASE mode[p] = "Failfast"
    <2>1. /\ cpc' = [cpc EXCEPT ![p] = "done"] /\ result' = [result EXCEPT ![p] = "ok"]
          /\ UNCHANGED tries
      BY <1>0, <1>4 DEF Call
    <2>2. \A q \in Callers \ {p} : Untouched(q)
      BY <1>0, <2>1 DEF Untouched, ClientInv, ResultInv, ResultTypes
    <2>3. cpc'[p] = "done" /\ result'[p] = "ok"
      BY <2>1 DEF ClientInv, ResultInv, ResultTypes
    <2>4. DoneSlack(p)'
      BY <1>0, <1>1, <2>3, FS_EmptySet DEF DoneSlack
    <2>5. AtCaller(p)'
      BY <1>0, <1>1, <1>4, <2>3, <2>4 DEF AtCaller, BroadcastClean, RetryErr
    <2> QED
      BY <1>0, <2>1, <2>2, <2>5, Assemble DEF ResultInv, ResultTypes
  <1> QED
    BY <1>1, <1>2, <1>3, <1>4 DEF Modes

LEMMA GoResult ==
  ASSUME ClientInv, ResultInv, NEW p \in Callers, Go(p)
  PROVE  ResultInv'
  <1> DEFINE OneCall == \E x \in Invokers : pend' = [pend EXCEPT ![p] = {x}] /\ UNCHANGED done
             Failed == done' = [done EXCEPT ![p] = <<FALSE>>] /\ UNCHANGED pend
  <1>0. /\ cpc[p] = "idle"
        /\ cpc' = [cpc EXCEPT ![p] = "wait"] /\ dcap' = [dcap EXCEPT ![p] = 1]
        /\ UNCHANGED <<mode, tries, cerr, won, result, left, allOk>>
        /\ OneCall \/ Failed
    <2>1. PICK e \in Endpoints :
            \/ cache[e] # Nil /\ pend' = [pend EXCEPT ![p] = {cache[e]}] /\ UNCHANGED done
            \/ ninv < MaxInvokers /\ pend' = [pend EXCEPT ![p] = {NewInvoker}] /\ UNCHANGED done
            \/ Failed
      BY DEF Go, Dial
    <2>2. OneCall \/ Failed
      BY <2>1, HandedOut
    <2> QED
      BY <2>2 DEF Go
  <1>1. /\ AtCaller(p) /\ pend[p] = {} /\ done[p] = <<>> /\ result[p] = "none"
        /\ cpc'[p] = "wait" /\ dcap'[p] = 1
    BY <1>0 DEF ResultInv, ResultTypes, ClientInv, AtCaller, DoneSlack
  <1>2. \A q \in Callers \ {p} : Untouched(q)
    BY <1>0 DEF Untouched, ClientInv, ResultInv, ResultTypes
  <1>3. ResultTypes' /\ Len(done'[p]) + Cardinality(pend'[p]) <= dcap'[p]
    <2>1. CASE OneCall
      <3>1. PICK x \in Invokers : pend' = [pend EXCEPT ![p] = {x}] /\ UNCHANGED done
        BY <2>1 DEF OneCall
      <3>2. pend'[p] = {x} /\ done'[p] = <<>>
        BY <1>1, <3>1 DEF ResultInv, ResultTypes
      <3>3. ResultTypes'
        BY <1>0, <3>1 DEF ResultInv, ResultTypes
      <3>4. Cardinality({x}) = 1
        BY FS_Singleton
      <3> QED
        BY <1>1, <3>2, <3>3, <3>4
    <2>2. CASE Failed
      <3>1. done'[p] = <<FALSE>> /\ pend'[p] = {}
        BY <1>1, <2>2 DEF Failed, ResultInv, ResultTypes
      <3>2. ResultTypes'
        BY <1>0, <2>2 DEF Failed, ResultInv, ResultTypes
      <3> QED
        BY <1>1, <3>1, <3>2, FS_EmptySet
    <2> QED
      BY <1>0, <2>1, <2>2
  <1>4. /\ mode'[p] = mode[p] /\ result'[p] = "none" /\ left'[p] = left[p]
        /\ allOk'[p] = allOk[p]
    BY <1>0, <1>1
  <1>6. DoneSlack(p)'
    BY <1>1, <1>3 DEF DoneSlack
  <1>7. BroadcastClean(p)'
    <2>1. mode[p] = "Broadcast" => allOk[p] /\ left[p] = 0
      BY <1>0, <1>1 DEF AtCaller, BroadcastClean
    <2> QED
      BY <1>1, <1>4, <2>1 DEF BroadcastClean
  <1>8. RetryErr(p)'
    BY <1>1, <1>4 DEF RetryErr
  <1>5. AtCaller(p)'
    BY <1>1, <1>4, <1>6, <1>7, <1>8 DEF AtCaller
  <1> QED
    BY <1>2, <1>3, <1>5, Assemble

LEMMA FanOutResult ==
  ASSUME ClientInv, ResultInv, NEW p \in Callers, FanOut(p)
  PROVE  ResultInv'
  <1>0. /\ cpc[p] = "list" /\ todo[p] = {}
        /\ UNCHANGED <<mode, tries, cerr, won, pend, done, allOk>>
    BY DEF FanOut
  <1>1. /\ AtCaller(p) /\ done[p] = <<>> /\ result[p] = "none"
        /\ IsFiniteSet(pend[p]) /\ Cardinality(pend[p]) \in Nat
    BY <1>0, PendFinite DEF ResultInv, AtCaller, DoneSlack
  <1>2. CASE pend[p] = {}
    <2>1. /\ cpc' = [cpc EXCEPT ![p] = "done"] /\ result' = [result EXCEPT ![p] = "ok"]
          /\ UNCHANGED <<dcap, left>>
      BY <1>2 DEF FanOut
    <2>2. \A q \in Callers \ {p} : Untouched(q)
      BY <1>0, <2>1 DEF Untouched, ClientInv, ResultInv, ResultTypes
    <2>3. cpc'[p] = "done" /\ result'[p] = "ok" /\ dcap[p] \in Nat
      BY <2>1 DEF ClientInv, ResultInv, ResultTypes
    <2>4. DoneSlack(p)'
      BY <1>0, <1>1, <1>2, <2>1, <2>3, FS_EmptySet DEF DoneSlack
    <2>6. /\ mode'[p] = mode[p] /\ allOk'[p] = allOk[p] /\ left'[p] = left[p]
          /\ mode[p] = "Broadcast" => allOk[p] /\ left[p] = 0
      BY <1>0, <1>1, <2>1 DEF AtCaller, BroadcastClean
    <2>7. BroadcastClean(p)'
      BY <2>3, <2>6 DEF BroadcastClean
    <2>8. RetryErr(p)'
      BY <1>0, <1>1, <2>3 DEF AtCaller, RetryErr
    <2>5. AtCaller(p)'
      BY <1>1, <2>3, <2>4, <2>6, <2>7, <2>8 DEF AtCaller
    <2> QED
      BY <1>0, <2>1, <2>2, <2>5, Assemble DEF ResultInv, ResultTypes
  <1>3. CASE pend[p] # {}
    <2>1. /\ dcap' = [dcap EXCEPT ![p] = Cardinality(pend[p])]
          /\ left' = [left EXCEPT ![p] = Cardinality(pend[p])]
          /\ cpc' = [cpc EXCEPT ![p] = "collect"] /\ UNCHANGED result
      BY <1>3 DEF FanOut
    <2>2. \A q \in Callers \ {p} : Untouched(q)
      BY <1>0, <2>1 DEF Untouched, ClientInv, ResultInv, ResultTypes
    <2>3. Cardinality(pend[p]) >= 1
      BY <1>1, <1>3, FS_EmptySet
    <2>4. /\ cpc'[p] = "collect" /\ dcap'[p] = Cardinality(pend[p])
          /\ left'[p] = Cardinality(pend[p])
      BY <2>1 DEF ClientInv, ResultInv, ResultTypes
    <2>5. ResultTypes'
      BY <1>0, <1>1, <2>1 DEF ResultInv, ResultTypes
    <2>6. AtCaller(p)'
      BY <1>0, <1>1, <2>1, <2>3, <2>4 DEF AtCaller, DoneSlack, BroadcastClean, RetryErr
    <2> QED
      BY <2>2, <2>5, <2>6, Assemble
  <1> QED
    BY <1>2, <1>3

(* What call := <-done does to the receiving caller's state, and that the  *)
(* channel keeps within its capacity after a receive.                       *)
LEMMA ReceiveFacts ==
  ASSUME ClientInv, ResultInv, NEW p \in Callers, Receive(p),
         cpc[p] \in {"collect", "wait"}, UNCHANGED <<pend, dcap>>
  PROVE  /\ Head(done[p]) \in BOOLEAN
         /\ done'[p] = Tail(done[p])
         /\ won'[p] = (won[p] \/ Head(done[p]))
         /\ allOk'[p] = (allOk[p] /\ Head(done[p]))
         /\ \A q \in Callers \ {p} :
              done'[q] = done[q] /\ won'[q] = won[q] /\ allOk'[q] = allOk[q]
         /\ done' \in [Callers -> Seq(BOOLEAN)]
         /\ won' \in [Callers -> BOOLEAN] /\ allOk' \in [Callers -> BOOLEAN]
         /\ Len(done'[p]) + Cardinality(pend'[p]) <= dcap'[p]
  <1>1. /\ done[p] # <<>> /\ done[p] \in Seq(BOOLEAN)
        /\ done' = [done EXCEPT ![p] = Tail(@)]
        /\ won' = [won EXCEPT ![p] = @ \/ Head(done[p])]
        /\ allOk' = [allOk EXCEPT ![p] = @ /\ Head(done[p])]
    BY DEF Receive, ResultInv, ResultTypes
  <1>2. Len(done[p]) + Cardinality(pend[p]) <= dcap[p]
    BY DEF ResultInv, AtCaller, DoneSlack
  <1>3. Cardinality(pend[p]) \in Nat
    BY PendFinite
  <1>4. /\ Len(Tail(done[p])) = Len(done[p]) - 1 /\ Head(done[p]) \in BOOLEAN
        /\ Tail(done[p]) \in Seq(BOOLEAN)
    BY <1>1, HeadTailProperties
  <1>5. done'[p] = Tail(done[p]) /\ pend'[p] = pend[p] /\ dcap'[p] = dcap[p]
    BY <1>1 DEF ResultInv, ResultTypes
  <1>6. Len(done'[p]) + Cardinality(pend'[p]) <= dcap'[p]
    BY <1>2, <1>3, <1>4, <1>5 DEF ResultInv, ResultTypes
  <1>7. /\ won'[p] = (won[p] \/ Head(done[p]))
        /\ allOk'[p] = (allOk[p] /\ Head(done[p]))
        /\ \A q \in Callers \ {p} :
             done'[q] = done[q] /\ won'[q] = won[q] /\ allOk'[q] = allOk[q]
    BY <1>1 DEF ResultInv, ResultTypes
  <1>8. /\ done' \in [Callers -> Seq(BOOLEAN)]
        /\ won' \in [Callers -> BOOLEAN] /\ allOk' \in [Callers -> BOOLEAN]
    BY <1>1, <1>4, <1>7 DEF ResultInv, ResultTypes
  <1> QED
    BY <1>4, <1>5, <1>6, <1>7, <1>8

(* A step that receives from done[p] and sets cpc[p], result[p] and left[p]  *)
(* to c, r and l keeps ResultInv when it keeps AtCaller(p): the other        *)
(* Callers are untouched and the types are kept.                            *)
LEMMA ReceiveStep ==
  ASSUME ClientInv, ResultInv, NEW p \in Callers, Receive(p),
         cpc[p] \in {"collect", "wait"},
         UNCHANGED <<mode, tries, cerr, pend, dcap>>,
         NEW c \in Phases, NEW r \in {"none", "ok", "err"}, NEW l \in Nat,
         cpc' = [cpc EXCEPT ![p] = c],
         result' = [result EXCEPT ![p] = r],
         left' = [left EXCEPT ![p] = l],
         AtCaller(p)'
  PROVE  ResultInv'
  <1>1. /\ \A q \in Callers \ {p} :
             done'[q] = done[q] /\ won'[q] = won[q] /\ allOk'[q] = allOk[q]
        /\ done' \in [Callers -> Seq(BOOLEAN)]
        /\ won' \in [Callers -> BOOLEAN] /\ allOk' \in [Callers -> BOOLEAN]
    BY ReceiveFacts
  <1>2. /\ cpc \in [Callers -> Phases] /\ mode \in [Callers -> Modes]
        /\ tries \in [Callers -> 0..MaxTry]
        /\ result \in [Callers -> {"none", "ok", "err"}]
        /\ left \in [Callers -> Nat] /\ pend \in [Callers -> SUBSET Invokers]
        /\ dcap \in [Callers -> Nat] /\ cerr \in [Callers -> BOOLEAN]
    BY DEF ClientInv, ResultInv, ResultTypes
  <1>3. \A q \in Callers \ {p} : Untouched(q)
    BY <1>1, <1>2 DEF Untouched
  <1>4. ResultTypes'
    BY <1>1, <1>2 DEF ResultTypes
  <1> QED
    BY <1>3, <1>4, Assemble

(* The conditions under which a receiving step keeps AtCaller(p): it moves  *)
(* to collect or done, sets a result only when it finishes, keeps a        *)
(* collect loop counting, and for a Broadcast or a retrying Call reports ok *)
(* only with every answer ok, or with one that succeeded.                   *)
LEMMA ReceiveAtCaller ==
  ASSUME ClientInv, ResultInv, NEW p \in Callers, Receive(p),
         cpc[p] \in {"collect", "wait"},
         UNCHANGED <<mode, tries, cerr, pend, dcap>>,
         NEW c \in {"collect", "done"}, NEW r \in {"none", "ok", "err"}, NEW l \in Nat,
         cpc' = [cpc EXCEPT ![p] = c],
         result' = [result EXCEPT ![p] = r],
         left' = [left EXCEPT ![p] = l],
         c # "done" => r = "none",
         c = "collect" => l >= 1 /\ mode[p] \in {"Broadcast", "Forking"},
         mode[p] = "Broadcast" => /\ c # "done" => allOk'[p]
                                  /\ r = "ok" => allOk'[p] /\ l = 0,
         mode[p] \in {"Failover", "Failtry"} => (r = "ok" => won'[p])
  PROVE  ResultInv'
  <1>1. /\ cpc \in [Callers -> Phases] /\ result \in [Callers -> {"none", "ok", "err"}]
        /\ left \in [Callers -> Nat]
    BY DEF ClientInv, ResultInv, ResultTypes
  <1>2. /\ cpc'[p] = c /\ result'[p] = r /\ left'[p] = l
        /\ mode'[p] = mode[p]
    BY <1>1
  <1>3. Len(done'[p]) + Cardinality(pend'[p]) <= dcap'[p]
    BY ReceiveFacts
  <1>4. mode[p] \in Mode[p]
    BY DEF ResultInv, AtCaller
  <1>5. DoneSlack(p)'
    BY <1>2, <1>3 DEF DoneSlack
  <1>6. BroadcastClean(p)'
    BY <1>2 DEF BroadcastClean
  <1>7. RetryErr(p)'
    BY <1>2 DEF RetryErr
  <1>8. AtCaller(p)'
    BY <1>2, <1>4, <1>5, <1>6, <1>7 DEF AtCaller
  <1>9. c \in Phases
    BY DEF Phases
  <1> QED
    BY <1>8, <1>9, ReceiveStep

(* Both collect loops and GoDone start from a Call whose invariant gives   *)
(* these facts.                                                             *)
LEMMA CollectPoint ==
  ASSUME ClientInv, ResultInv, NEW p \in Callers
  PROVE  /\ cpc \in [Callers -> Phases] /\ result \in [Callers -> {"none", "ok", "err"}]
         /\ left \in [Callers -> Nat]
         /\ AtCaller(p)
  BY DEF ClientInv, ResultInv, ResultTypes

LEMMA CollectBroadcastResult ==
  ASSUME ClientInv, ResultInv, NEW p \in Callers, CollectBroadcast(p)
  PROVE  ResultInv'
  <1>0. /\ mode[p] = "Broadcast" /\ cpc[p] = "collect" /\ Receive(p)
        /\ UNCHANGED <<mode, tries, cerr, pend, dcap>>
    BY DEF CollectBroadcast
  <1>D. /\ cpc \in [Callers -> Phases] /\ result \in [Callers -> {"none", "ok", "err"}]
        /\ left \in [Callers -> Nat] /\ AtCaller(p)
    BY CollectPoint
  <1>1. /\ left[p] >= 1 /\ left[p] \in Nat
    BY <1>0, <1>D DEF AtCaller, DoneSlack
  <1>2. /\ allOk[p]
        /\ Head(done[p]) \in BOOLEAN
        /\ allOk'[p] = (allOk[p] /\ Head(done[p]))
    BY <1>0, <1>D, ReceiveFacts DEF AtCaller, BroadcastClean
  <1>3. CASE Head(done[p]) /\ left[p] = 1
    <2>0. left[p] = 1 /\ allOk'[p]
      BY <1>2, <1>3
    <2>1. /\ left' = [left EXCEPT ![p] = left[p] - 1]
          /\ cpc' = [cpc EXCEPT ![p] = "done"] /\ result' = [result EXCEPT ![p] = "ok"]
      BY <1>3 DEF CollectBroadcast
    <2>2. left[p] - 1 = 0
      BY <2>0
    <2> QED
      BY <1>0, <2>0, <2>1, <2>2, ReceiveAtCaller
  <1>4. CASE Head(done[p]) /\ left[p] # 1
    <2>0. left[p] # 1 /\ allOk'[p]
      BY <1>2, <1>4
    <2>1. /\ left' = [left EXCEPT ![p] = left[p] - 1]
          /\ cpc' = [cpc EXCEPT ![p] = "collect"] /\ result' = [result EXCEPT ![p] = @]
      BY <1>0, <1>4 DEF CollectBroadcast
    <2>2. left[p] - 1 \in Nat /\ left[p] - 1 >= 1
      BY <1>1, <2>0
    <2>3. result[p] = "none" /\ result' = [result EXCEPT ![p] = "none"]
      BY <1>0, <1>D, <2>1 DEF AtCaller
    <2> QED
      BY <1>0, <2>0, <2>1, <2>2, <2>3, ReceiveAtCaller
  <1>5. CASE ~Head(done[p])
    <2>1. /\ left' = [left EXCEPT ![p] = left[p]]
          /\ cpc' = [cpc EXCEPT ![p] = "done"] /\ result' = [result EXCEPT ![p] = "err"]
      BY <1>D, <1>5 DEF CollectBroadcast
    <2> QED
      BY <1>0, <1>1, <2>1, ReceiveAtCaller
  <1> QED
    BY <1>2, <1>3, <1>4, <1>5

LEMMA CollectForkingResult ==
  ASSUME ClientInv, ResultInv, NEW p \in Callers, CollectForking(p)
  PROVE  ResultInv'
  <1>0. /\ mode[p] = "Forking" /\ cpc[p] = "collect" /\ Receive(p)
        /\ UNCHANGED <<mode, tries, cerr, pend, dcap>>
    BY DEF CollectForking
  <1>D. /\ cpc \in [Callers -> Phases] /\ result \in [Callers -> {"none", "ok", "err"}]
        /\ left \in [Callers -> Nat] /\ AtCaller(p)
    BY CollectPoint
  <1>1. /\ left[p] >= 1 /\ left[p] \in Nat /\ result[p] = "none"
    BY <1>0, <1>D DEF AtCaller, DoneSlack
  <1>2. Head(done[p]) \in BOOLEAN
    BY <1>0, <1>D, ReceiveFacts
  <1>3. CASE Head(done[p])
    <2>1. /\ left' = [left EXCEPT ![p] = left[p]]
          /\ cpc' = [cpc EXCEPT ![p] = "done"] /\ result' = [result EXCEPT ![p] = "ok"]
      BY <1>D, <1>3 DEF CollectForking
    <2> QED
      BY <1>0, <1>1, <2>1, ReceiveAtCaller
  <1>4. CASE ~Head(done[p]) /\ left[p] = 1
    <2>0. left[p] = 1
      BY <1>4
    <2>1. /\ left' = [left EXCEPT ![p] = left[p] - 1]
          /\ cpc' = [cpc EXCEPT ![p] = "done"] /\ result' = [result EXCEPT ![p] = "err"]
      BY <1>4 DEF CollectForking
    <2>2. left[p] - 1 = 0
      BY <2>0
    <2> QED
      BY <1>0, <2>1, <2>2, ReceiveAtCaller
  <1>5. CASE ~Head(done[p]) /\ left[p] # 1
    <2>0. left[p] # 1
      BY <1>5
    <2>1. /\ left' = [left EXCEPT ![p] = left[p] - 1]
          /\ cpc' = [cpc EXCEPT ![p] = "collect"] /\ result' = [result EXCEPT ![p] = @]
      BY <1>0, <1>5 DEF CollectForking
    <2>2. left[p] - 1 \in Nat /\ left[p] - 1 >= 1
      BY <1>1, <2>0
    <2>3. result' = [result EXCEPT ![p] = "none"]
      BY <1>1, <2>1
    <2> QED
      BY <1>0, <2>1, <2>2, <2>3, ReceiveAtCaller
  <1> QED
    BY <1>2, <1>3, <1>4, <1>5

LEMMA GoDoneResult ==
  ASSUME ClientInv, ResultInv, NEW p \in Callers, GoDone(p)
  PROVE  ResultInv'
  <1>0. /\ cpc[p] = "wait" /\ Receive(p)
        /\ UNCHANGED <<mode, tries, cerr, pend, dcap, left>>
    BY DEF GoDone
  <1>D. /\ cpc \in [Callers -> Phases] /\ result \in [Callers -> {"none", "ok", "err"}]
        /\ left \in [Callers -> Nat] /\ AtCaller(p)
    BY CollectPoint
  <1>1. /\ left' = [left EXCEPT ![p] = left[p]] /\ left[p] \in Nat
        /\ mode[p] = "Broadcast" => left[p] = 0
    BY <1>0, <1>D DEF AtCaller, BroadcastClean
  <1>2. /\ mode[p] = "Broadcast" => allOk[p]
        /\ Head(done[p]) \in BOOLEAN
        /\ allOk'[p] = (allOk[p] /\ Head(done[p]))
        /\ won'[p] = (won[p] \/ Head(done[p]))
    BY <1>0, <1>D, ReceiveFacts DEF AtCaller, BroadcastClean
  <1>3. CASE Head(done[p])
    <2>1. /\ cpc' = [cpc EXCEPT ![p] = "done"] /\ result' = [result EXCEPT ![p] = "ok"]
      BY <1>3 DEF GoDone
    <2>2. /\ mode[p] = "Broadcast" => allOk'[p]
          /\ won'[p]
      BY <1>2, <1>3
    <2> QED
      BY <1>0, <1>1, <2>1, <2>2, ReceiveAtCaller
  <1>4. CASE ~Head(done[p])
    <2>1. /\ cpc' = [cpc EXCEPT ![p] = "done"] /\ result' = [result EXCEPT ![p] = "err"]
      BY <1>4 DEF GoDone
    <2> QED
      BY <1>0, <1>1, <2>1, ReceiveAtCaller
  <1> QED
    BY <1>2, <1>3, <1>4

(* ResultInv is inductive relative to ClientInv: every action of the Client *)
(* keeps it.                                                                 *)
LEMMA NextResultInv == ClientInv /\ ResultInv /\ [Next]_vars => ResultInv'
  <1> SUFFICES ASSUME ClientInv, ResultInv, [Next]_vars PROVE ResultInv'
    OBVIOUS
  <1>1. CASE \E p \in Callers : Call(p)
    BY <1>1, CallResult
  <1>2. CASE \E p \in Callers : Go(p)
    BY <1>2, GoResult
  <1>3. CASE \E p \in Callers : Step(p)
    <2> PICK p \in Callers : Step(p)
      BY <1>3
    <2> QED
      BY LoopExitResult, LoopSelectResult, LoopReuseResult, InvokeResult,
         HandleFailedResult, ListResult, FanOutResult, CollectBroadcastResult,
         CollectForkingResult, GoDoneResult DEF Step
  <1>4. CASE \E p \in Callers, i \in Invokers : Complete(p, i)
    BY <1>4, CompleteResult
  <1>5. CASE Close
    BY <1>5, CloseResult
  <1>6. CASE UNCHANGED vars
    BY <1>6 DEF vars, ResultInv, ResultTypes, AtCaller, DoneSlack, BroadcastClean, RetryErr
  <1>7. QED
    BY <1>1, <1>2, <1>3, <1>4, <1>5, <1>6 DEF Next

(* Both invariants hold in every reachable state of the Client.            *)
LEMMA AlwaysResultInv == Spec => [](ClientInv /\ ResultInv)
  BY InitClientInv, InitResultInv, NextClientInv, NextResultInv, PTL DEF Spec

(* invokerBroadCast returns nil only after receiving a result from every   *)
(* invoker, none of them an error: for every number of Callers, invokers   *)
(* and endpoints, a Broadcast Call that returns ok saw all its calls       *)
(* succeed and none is left outstanding.                                    *)
THEOREM BroadcastOnlyAllOk == Spec => []BroadcastAllOk
  <1>1. ResultInv => BroadcastAllOk
    BY DEF ResultInv, AtCaller, BroadcastClean, BroadcastAllOk
  <1> QED
    BY <1>1, AlwaysResultInv, PTL

(* The done channel that the fan-out makes with capacity l never holds     *)
(* more than its capacity, so no invoker's send on it can block, also after *)
(* the caller has returned early on the first error or success.            *)
THEOREM DoneChannelRoom == Spec => []DoneRoom
  <1>1. ResultInv => DoneRoom
    <2> SUFFICES ASSUME ResultInv, NEW p \in Callers PROVE Len(done[p]) <= dcap[p]
      BY DEF DoneRoom
    <2>1. Cardinality(pend[p]) \in Nat
      BY PendFinite
    <2>2. /\ done[p] \in Seq(BOOLEAN) /\ dcap[p] \in Nat /\ DoneSlack(p)
      BY DEF ResultInv, ResultTypes, AtCaller
    <2> QED
      BY <2>1, <2>2 DEF DoneSlack
  <1> QED
    BY <1>1, AlwaysResultInv, PTL

(* Client.Call's retry loop (Failover, Failtry) returns nil only from an   *)
(* invoker call that returned nil, for every configuration whose Callers   *)
(* use no Failfast: a Failfast Call reports the reply of a call that failed *)
(* when the selector itself errs (the violation run client_failfast).      *)
THEOREM RetrySuccessWitnessed ==
  ASSUME \A p \in Callers : "Failfast" \notin Mode[p]
  PROVE  Spec => []SuccessWitnessed
  <1>1. ResultInv => SuccessWitnessed
    <2> SUFFICES ASSUME ResultInv, NEW p \in Callers,
                        mode[p] \in {"Failover", "Failtry", "Failfast"}, result[p] = "ok"
                 PROVE  won[p]
      BY DEF SuccessWitnessed
    <2>1. mode[p] \in Mode[p] /\ RetryErr(p)
      BY DEF ResultInv, AtCaller
    <2>2. mode[p] \in {"Failover", "Failtry"}
      BY <2>1
    <2> QED
      BY <2>1, <2>2 DEF RetryErr
  <1> QED
    BY <1>1, AlwaysResultInv, PTL
=============================================================================
