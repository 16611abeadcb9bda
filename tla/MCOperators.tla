---------------------------- MODULE MCOperators ----------------------------
(***************************************************************************)
(* The instance of Operators that TLC checks: schemas of three payloads    *)
(* for the contract part, the view of a part and the symmetry.             *)
(***************************************************************************)
EXTENDS Operators, TLC

CS == INSTANCE ContractSchema

\* A payload, the same with an empty array, and one with another type.
Payload(idType, items) == [id |-> CS!Scalar(idType), items |-> CS!Array(items)]

MCSchemas ==
  LET item == CS!Object([sku |-> CS!Scalar("string")])
  IN <<CS!FlattenSchema(Payload("number", <<item>>)),
       CS!FlattenSchema(Payload("number", <<>>)),
       CS!FlattenSchema(Payload("string", <<item>>))>>

MCStructures == {CS!StructureFingerprint(MCSchemas, MCSchemas[i]) : i \in DOMAIN MCSchemas}
MCDrifts == CS!DriftsOf(MCSchemas)
MCBreaking == CS!BreakingOf(MCSchemas)

\* Two flat schemas are told apart unless the observed one is the accepted one
\* without what is below its empty arrays (_diff_contract).
ASSUME DiffIsExact ==
  \A i, j \in MCStructures :
    LET a == MCSchemas[i]
        b == MCSchemas[j]
    IN <<i, j>> \notin MCDrifts <=>
         b = [path \in {p \in DOMAIN a : ~CS!IsBelowInconclusiveArray(p, b)} |-> a[path]]

-----------------------------------------------------------------------------
\* What varies in a part; no step and no property depends on the latest answer.
MCView ==
  CASE part \in {"contract", "reader"} ->
         <<part, tableVars, lastId, triggered, sourceLock, sessionVars, reviewVars,
           historyVars, faults>>
    [] part = "agent" -> <<part, agentVars>>
    [] part \in {"account", "request"} ->
         <<part, acAccount, acRules, acAccess, acRenewal, acCurrent, acPrevious,
           acDeleting, acOps, acOverlapped, acDeactivated>>
    [] part \in {"bucket", "window"} ->
         <<part, rlClock, rlCacheEnabled, rlClient, rlBucket, rlWindow, rlAdmitted,
           rlPassed, rlPromise>>
    [] part = "dashboard" -> <<part, dashboardVars>>
    [] OTHER ->
         <<part, seSignals, seResolver, seRaced, seTrail, seLastId, seEmitter, seOvertaken,
           seForked>>

MCSymmetry == Permutations(Sessions) \cup Permutations(Reviewers)
=============================================================================
