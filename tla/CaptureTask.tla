----------------------------- MODULE CaptureTask -----------------------------
(***************************************************************************)
(* What the Worker may assume of the process of a capture job              *)
(* (native/tasks/run.py, teacher_capture.py): before it has touched the    *)
(* simulator it may end with any claim; afterwards it switches the world   *)
(* between its modes, and a claim of success means that the world is       *)
(* asynchronous again and that every actor it recorded is gone.            *)
(* ResearchJobs runs such tasks; NativeCapture is one.                     *)
(***************************************************************************)
VARIABLES
  at,       \* "preflight", "capturing" or "exited"
  receipt,  \* what result.json claims
  sync      \* the simulator is in synchronous mode

task == <<at, receipt, sync>>

NoReceipt == [status |-> "missing", clean |-> FALSE]

Init == at = "preflight" /\ receipt = NoReceipt /\ sync \in BOOLEAN

Start == at = "preflight" /\ at' = "capturing" /\ sync' \in BOOLEAN /\ UNCHANGED receipt

Work == at = "capturing" /\ sync' \in BOOLEAN /\ UNCHANGED <<at, receipt>>

Claims(status, clean) == at' = "exited" /\ receipt' = [status |-> status, clean |-> clean]

End ==
  /\ \/ at = "preflight" /\ Claims("succeeded", TRUE)            \* a rehearsal
     \/ at = "capturing" /\ ~sync /\ Claims("succeeded", TRUE)
     \/ at # "exited" /\ \E clean \in BOOLEAN : Claims("failed", clean)
  /\ UNCHANGED sync

Next == Start \/ Work \/ End

Spec == Init /\ [][Next]_task
=============================================================================
