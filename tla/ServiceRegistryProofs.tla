------------------------ MODULE ServiceRegistryProofs ------------------------
(***************************************************************************)
(* Proofs about service registration for every set of receivers, paths and *)
(* ServiceBuilder results: the registry stays well typed (routers is a     *)
(* sequence of paths, which rests on SetToSeq of a finite set of paths),   *)
(* and a Register call that returns nil has replaced no service.           *)
(***************************************************************************)
EXTENDS ServiceRegistry, FiniteSetTheorems, TLAPS

USE RegistryAssumption

(* SetToSeq lists a finite set as a sequence of its elements.               *)
LEMMA SetToSeqType ==
  ASSUME NEW S, IsFiniteSet(S)
  PROVE  Seqs!SetToSeq(S) \in Seq(S)
  <1>1. Cardinality(S) \in Nat /\ ExistsBijection(1..Cardinality(S), S)
    BY FS_CardinalityType
  <1>2. \E f \in [1..Cardinality(S) -> S] : Seqs!IsInjective(f)
    BY <1>1 DEF ExistsBijection, Bijection, Injection, IsInjective, Seqs!IsInjective
  <1>0. Seqs!Cardinality(S) = Cardinality(S)
    BY DEF Seqs!Cardinality, Cardinality
  <1>3. Seqs!SetToSeq(S) \in [1..Cardinality(S) -> S]
    BY <1>0, <1>2 DEF Seqs!SetToSeq
  <1> QED
    BY <1>1, <1>3

LEMMA InitTypeOK == Init => TypeOK
  BY DEF Init, TypeOK, Results

\* The paths the ServiceBuilder derives from any receiver form a finite set.
LEMMA BuildsFinite ==
  ASSUME NEW r \in Receivers
  PROVE  Builds[r] \subseteq Paths /\ IsFiniteSet(Builds[r])
  BY FS_Subset

LEMMA RegisterTypeOK ==
  ASSUME TypeOK, NEW r \in Receivers, Register(r)
  PROVE  TypeOK'
  <1>1. calls' \in 0..MaxCalls
    BY DEF Register, TypeOK
  <1>2. serviceMap' \in [Paths -> Receivers \cup {None}] /\ result' \in Results
    BY DEF Register, TypeOK, Results
  <1>3. routers' \in Seq(Paths)
    <2>1. Seqs!SetToSeq(Builds[r]) \in Seq(Paths)
      <3>1. Seqs!SetToSeq(Builds[r]) \in Seq(Builds[r])
        BY BuildsFinite, SetToSeqType
      <3> QED
        BY <3>1, BuildsFinite
    <2>2. CASE Builds[r] = {}
      BY <2>2 DEF Register, TypeOK
    <2>3. CASE Builds[r] # {}
      <3>1. routers' = routers \o Seqs!SetToSeq(Builds[r])
        BY <2>3 DEF Register
      <3> QED
        BY <2>1, <3>1 DEF TypeOK
    <2> QED
      BY <2>2, <2>3
  <1> QED
    BY <1>1, <1>2, <1>3 DEF TypeOK

LEMMA NextTypeOK == TypeOK /\ [Next]_vars => TypeOK'
  <1> SUFFICES ASSUME TypeOK, [Next]_vars PROVE TypeOK'
    OBVIOUS
  <1>1. CASE RejectName
    BY <1>1 DEF RejectName, TypeOK, Results
  <1>2. CASE \E r \in Receivers : Register(r)
    BY <1>2, RegisterTypeOK
  <1>3. CASE UNCHANGED vars
    BY <1>3 DEF vars, TypeOK
  <1> QED
    BY <1>1, <1>2, <1>3 DEF Next

(* Whatever sequence of Register, RegisterName and ServiceGroup calls an    *)
(* application makes, serviceMap maps paths to receivers, and routers is a  *)
(* sequence of paths: register's append of the built services' paths.       *)
THEOREM RegistryTypeCorrect == Spec => []TypeOK
  BY InitTypeOK, NextTypeOK, PTL DEF Spec

(* register returns nil only when no built service's path was already in   *)
(* serviceMap and no doRegister hook failed, so a Register call that        *)
(* succeeds has replaced no service registered before it.                   *)
THEOREM RegisterOkPreserves == Spec => OkPreserves
  <1> DEFINE Keep == result' = "ok" =>
                 \A p \in Paths : serviceMap[p] # None => serviceMap'[p] = serviceMap[p]
  <1>1. ASSUME NEW r \in Receivers, Register(r) PROVE Keep
    <2>1. CASE Builds[r] = {}
      BY <1>1, <2>1 DEF Register
    <2>2. CASE Builds[r] # {}
      <3>1. PICK hookErr \in BOOLEAN :
              /\ serviceMap' = [p \in Paths |->
                                  IF p \in Builds[r] THEN r ELSE serviceMap[p]]
              /\ result' = IF hookErr \/ \E p \in Builds[r] : serviceMap[p] # None
                           THEN "error" ELSE "ok"
        BY <1>1, <2>2 DEF Register
      <3> QED
        BY <3>1
    <2> QED
      BY <2>1, <2>2
  <1>2. [Next]_vars => [Keep]_vars
    BY <1>1 DEF Next, RejectName
  <1> QED
    BY <1>2, PTL DEF Spec, OkPreserves
=============================================================================
