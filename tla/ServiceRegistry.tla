--------------------------- MODULE ServiceRegistry ---------------------------
(***************************************************************************)
(* Service registration (server/server.go Register, RegisterName, the     *)
(* ServiceGroup variants and Server.register).  register runs under the   *)
(* server's write lock, so a call is one atomic step; the request path    *)
(* reads serviceMap under the read lock and sees it before or after.      *)
(*                                                                         *)
(* A receiver stands for the set of service paths the ServiceBuilder      *)
(* derives from its methods and the group prefixes (Builds[r]).           *)
(***************************************************************************)
EXTENDS Naturals, Sequences, FiniteSets

Seqs == INSTANCE SequencesExt

CONSTANTS
    Receivers,     \* receivers an application registers
    Paths,         \* service paths
    Builds,        \* Builds[r]: the paths NewServices derives from receiver r
    PluginFails,   \* TRUE if a Register plugin hook may return an error
    MaxCalls       \* Register calls in one behaviour

None == "none"

ASSUME RegistryAssumption ==
    /\ IsFiniteSet(Paths)
    /\ Builds \in [Receivers -> SUBSET Paths]
    /\ None \notin Receivers
    /\ PluginFails \in BOOLEAN
    /\ MaxCalls \in Nat

VARIABLES
    serviceMap,   \* serviceMap[p]: the receiver whose service is at path p
    routers,      \* server.routers
    result,       \* what the last Register call returned
    calls         \* Register calls made so far

vars == <<serviceMap, routers, result, calls>>

Results == {"none", "ok", "invalid", "error"}

TypeOK ==
    /\ serviceMap \in [Paths -> Receivers \cup {None}]
    /\ routers \in Seq(Paths)
    /\ result \in Results
    /\ calls \in 0..MaxCalls

Init ==
    /\ serviceMap = [p \in Paths |-> None]
    /\ routers = <<>>
    /\ result = "none"
    /\ calls = 0

\* Mutant: register without the serviceMap presence check, so a duplicate
\* path is neither reported nor kept out.
RegisterNoPresenceCheck(r) ==
    /\ calls < MaxCalls
    /\ calls' = calls + 1
    /\ IF Builds[r] = {}
       THEN /\ result' = "invalid"
            /\ UNCHANGED <<serviceMap, routers>>
       ELSE /\ serviceMap' = [p \in Paths |->
                                IF p \in Builds[r] THEN r ELSE serviceMap[p]]
            /\ routers' = routers \o Seqs!SetToSeq(Builds[r])
            /\ result' = "ok"

\* register, for each built service: a path already present is reported
\* (ErrServiceAlreadyExists) but, like a failing doRegister hook, does not
\* stop the service from being stored under that path and added to routers.
\* The trailing sort.Strings(routers) runs only when no error was collected;
\* routers' order is not modelled.
Register(r) ==
    /\ calls < MaxCalls
    /\ calls' = calls + 1
    /\ IF Builds[r] = {}
       THEN /\ result' = "invalid"
            /\ UNCHANGED <<serviceMap, routers>>
       ELSE \E hookErr \in IF PluginFails THEN BOOLEAN ELSE {FALSE} :
              /\ serviceMap' = [p \in Paths |->
                                  IF p \in Builds[r] THEN r ELSE serviceMap[p]]
              /\ routers' = routers \o Seqs!SetToSeq(Builds[r])
              /\ result' = IF hookErr \/ \E p \in Builds[r] : serviceMap[p] # None
                           THEN "error" ELSE "ok"

\* RegisterName (and the ServiceGroup variant) when common.CheckSname
\* rejects the name: the error is returned before register is reached.
RejectName ==
    /\ calls < MaxCalls
    /\ calls' = calls + 1
    /\ result' = "error"
    /\ UNCHANGED <<serviceMap, routers>>

\* An application call of Register, RegisterName, ServiceGroup.Register or
\* ServiceGroup.RegisterName: each names the receiver and ends in register
\* or in the name check's error.
Next == RejectName \/ \E r \in Receivers : Register(r)

Spec == Init /\ [][Next]_vars

-----------------------------------------------------------------------------
(* Properties.                                                               *)

(* Spec: two Register calls that produce the same path fail the second one  *)
(* with AlreadyExists and do not replace the first entry.  A path bound in  *)
(* serviceMap is never rebound to another receiver.                         *)
NoRebinding ==
    [][\A p \in Paths : serviceMap[p] # None => serviceMap'[p] = serviceMap[p]]_vars

(* A Register call that returns nil leaves every service registered before  *)
(* it in place (the AlreadyExists check in register).                      *)
OkPreserves ==
    [][result' = "ok" =>
         \A p \in Paths : serviceMap[p] # None => serviceMap'[p] = serviceMap[p]]_vars
=============================================================================
