----------------------------- MODULE GarageAsync -----------------------------
(***************************************************************************)
(* GaragePreviewAsyncFacade (operator/garage_async.py) in front of the     *)
(* World Worker: an operation has a thread that calls the manager and one  *)
(* that copies the progress of the Worker into it.  The answer of the      *)
(* Worker may be lost while it goes on with the preparation, and the       *)
(* cancellation that Stop sends names no operation.                        *)
(***************************************************************************)
EXTENDS ObservablePrepare

CONSTANTS
  MaxOperations,   \* bound: operations
  KeptEnded,       \* ended operations that can still be read (7 in the code)
  MaxRevision      \* bound: progress is copied below it

ASSUME OperationsAssumption ==
  /\ MaxOperations \in Nat \ {0} /\ KeptEnded \in Nat /\ MaxRevision \in Nat
  /\ Callers = 1..MaxOperations

VARIABLES
  ops,      \* _operations
  active,   \* _active_operation_id
  run,      \* where the thread of each operation is
  monitor,  \* where its progress thread is, and what it read
  shut      \* _closed

facade == <<ops, active, run, monitor, shut>>
asyncVars == <<workerVars, facade>>

Operations == 1..MaxOperations
Terminal == {"running", "failed"}
Quiet == [at |-> "off", seen |-> "idle"]
Stages == {"accepted", "configuring", "running", "failed"} \cup Items \cup {"configure"}

AsyncTypeOK ==
  /\ WorkerTypeOK
  /\ ops \in [Operations -> [status : {"none", "starting", "gone"} \cup Terminal,
                             stage : Stages, revision : Nat]]
  /\ active \in Operations \cup {0}
  /\ run \in [Operations -> {"off", "update", "ask", "wait", "done"}]
  /\ monitor \in [Operations -> [at : {"off", "look", "apply"}, seen : Items \cup {"idle", "configure"}]]
  /\ shut \in BOOLEAN

AsyncInit ==
  /\ WorkerInit
  /\ ops = [k \in Operations |-> [status |-> "none", stage |-> "accepted", revision |-> 0]]
  /\ active = 0 /\ shut = FALSE
  /\ run = [k \in Operations |-> "off"]
  /\ monitor = [k \in Operations |-> Quiet]
-----------------------------------------------------------------------------
Ended(k) == ops[k].status \in Terminal
Idle == active \notin {k \in Operations : ~Ended(k)}

(* The latest of the ended operations are kept.                            *)
Trimmed(k) ==
  {j \in Operations \ {k} : Ended(j) /\ Cardinality({i \in Operations \ {k} : Ended(i) /\ i > j}) >= KeptEnded}

StartOperation(k) ==
  /\ ~shut /\ Idle /\ ops[k].status = "none" /\ \A j \in Operations : j < k => ops[j].status # "none"
  /\ ops' = [j \in Operations |->
               IF j = k THEN [status |-> "starting", stage |-> "accepted", revision |-> 1]
               ELSE IF j \in Trimmed(k) THEN [ops[j] EXCEPT !.status = "gone"] ELSE ops[j]]
  /\ active' = k
  /\ run' = [run EXCEPT ![k] = "update"]
  /\ monitor' = [monitor EXCEPT ![k].at = "look"]
  /\ UNCHANGED <<shut, workerVars>>

CloseFacade ==
  /\ ~shut /\ shut' = TRUE
  /\ UNCHANGED <<ops, active, run, monitor, workerVars>>

Update(k) ==
  /\ run[k] = "update"
  /\ ops' = [ops EXCEPT ![k].stage = "configuring", ![k].revision = @ + 1]
  /\ run' = [run EXCEPT ![k] = "ask"]
  /\ UNCHANGED <<active, monitor, shut, workerVars>>

Outcome(k, status) ==
  [ops EXCEPT ![k] = [status |-> status, stage |-> status, revision |-> @.revision + 1]]

EndOperation(k, status) ==
  /\ ops' = Outcome(k, status) /\ run' = [run EXCEPT ![k] = "done"]
  /\ UNCHANGED <<active, monitor, shut>>

(* manager.configure: a scene it has is reconfigured, if it can be.        *)
Ask(k) ==
  /\ run[k] = "ask"
  /\ \/ /\ \E how \in Kinds : (how = "prepare" <=> ~prepared) /\ Enter(k, how)
        /\ run' = [run EXCEPT ![k] = "wait"] /\ UNCHANGED <<ops, active, monitor, shut>>
     \/ EndOperation(k, "failed") /\ UNCHANGED workerVars      \* refused, by the gate or before it

(* The Worker answers who waits; a session may fail after its scene.       *)
Answer ==
  LET k == caller IN
  /\ Leave
  /\ IF run[k] = "wait"
     THEN \E status \in Terminal : (status = "running" => prep.status = "ready") /\ EndOperation(k, status)
     ELSE UNCHANGED facade

AnswerLost(k) ==
  /\ run[k] = "wait" /\ EndOperation(k, "failed")
  /\ UNCHANGED workerVars

(* _monitor_progress: the Worker is asked without _condition; what it said *)
(* is applied to an operation that has not ended in between.               *)
Over(k) == ops[k].status # "starting" \/ shut

Look(k) ==
  /\ monitor[k].at = "look"
  /\ \/ Over(k) /\ monitor' = [monitor EXCEPT ![k] = Quiet]
     \/ /\ ~Over(k) /\ prep.status = "preparing" /\ ops[k].revision < MaxRevision
        /\ monitor' = [monitor EXCEPT ![k] = [at |-> "apply", seen |-> prep.stage]]
  /\ UNCHANGED <<ops, active, run, shut, workerVars>>

(* Mutant: without looking at the operation again.                         *)
ApplyAnyway(k) == TRUE

StillOpen(k) == ~Over(k)

Apply(k) ==
  /\ monitor[k].at = "apply"
  /\ \/ /\ StillOpen(k)
        /\ ops' = [ops EXCEPT ![k].stage = monitor[k].seen, ![k].revision = @ + 1]
        /\ monitor' = [monitor EXCEPT ![k] = [at |-> "look", seen |-> "idle"]]
     \/ ~StillOpen(k) /\ monitor' = [monitor EXCEPT ![k] = Quiet] /\ UNCHANGED ops
  /\ UNCHANGED <<active, run, shut, workerVars>>

(* Stop asks the Worker to cancel, whatever it is preparing.               *)
Operation(k) == Update(k) \/ Ask(k) \/ AnswerLost(k)

Work == (Clear \/ Begin \/ Lock \/ Check \/ Act \/ After \/ Undo \/ End) /\ UNCHANGED facade

AsyncNext ==
  \/ Work \/ Answer
  \/ (Cancel \/ StopScene) /\ UNCHANGED facade
  \/ \E k \in Operations : StartOperation(k) \/ Operation(k) \/ Look(k) \/ Apply(k)
  \/ CloseFacade

AsyncSpec == AsyncInit /\ [][AsyncNext]_asyncVars

(* The threads run: the Worker's handler and the thread of an operation,   *)
(* which waits for its answer no longer than a timeout.                    *)
FairAsync ==
  /\ AsyncSpec /\ WF_asyncVars(Work) /\ WF_asyncVars(Answer)
  /\ \A k \in Operations : WF_asyncVars(Operation(k))
-----------------------------------------------------------------------------
(* An operation that has ended is final, and every change of one that has  *)
(* not raises its revision: who waits for it sees each change and its end. *)
EndIsFinal ==
  [][\A k \in Operations :
       ops'[k] # ops[k] /\ ops'[k].status # "gone"
         => ~Ended(k) /\ ops'[k].revision > ops[k].revision]_asyncVars

=============================================================================
