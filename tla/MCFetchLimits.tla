--------------------------- MODULE MCFetchLimits ---------------------------
(***************************************************************************)
(* The instance of PriorityIntake in MCPriorityIntake, and one of          *)
(* SourceLimits: two callers of a source with three hosts on two           *)
(* addresses.  The intakes give the fetcher its jobs, and the fetch of a   *)
(* job waits for its limit.  The two have no state in common, and each is  *)
(* explored with the other at rest.                                        *)
(***************************************************************************)
EXTENDS MCPriorityIntake, SourceLimits

CONSTANTS s1, s2, s3, n1, n2

SharedAddress == [s \in Sites |-> IF s = s3 THEN n2 ELSE n1]

ConsumerAndCallerSymmetry == Symmetry \cup Permutations(Callers)

VARIABLE explored

FetchInit ==
  /\ Init /\ LimitsInit
  /\ \/ explored = "intakes" /\ limited = {}
     \/ explored = "limits"

FetchNext == \/ explored = "intakes" /\ Next /\ UNCHANGED <<limitVars, explored>>
             \/ explored = "limits" /\ LimitsNext /\ UNCHANGED <<vars, explored>>

FetchSpec == FetchInit /\ [][FetchNext]_<<vars, limitVars, explored>>
=============================================================================
