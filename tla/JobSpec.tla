------------------------------- MODULE JobSpec -------------------------------
(***************************************************************************)
(* What a job is to the clients that ask for /jobs/<pid>, its /stdout and  *)
(* its /stderr: a status that settles once, and two outputs that grow up   *)
(* to a limit, until the job is purged or the server is down.  The outputs *)
(* may still grow after the status has settled.  Module Job implements it. *)
(***************************************************************************)
EXTENDS Naturals

CONSTANTS Streams, OutputLimit, ExitCodes

VARIABLES
  status,       \* what /jobs/<pid> answers, "PURGED" (404) or "DOWN"
  result,       \* the exit code it shows of a FINISHED job
  output        \* how much /stdout and /stderr return

vars == <<status, result, output>>

Verdicts == {"FINISHED", "FAILED", "TERMINATED", "TIMED_OUT", "OUTPUT_LIMITED"}
Known == status \in Verdicts \cup {"RUNNING"}
Nothing == [s \in Streams |-> 0]

Init == status = "RUNNING" /\ result = 0 /\ output = Nothing

(* What was once returned stays, and the limit is not passed.                *)
Grow(s) ==
  /\ Known
  /\ \E n \in 0..OutputLimit : n > output[s] /\ output' = [output EXCEPT ![s] = n]
  /\ UNCHANGED <<status, result>>

(* A verdict is final.  OUTPUT_LIMITED comes with an output that is full, and *)
(* FINISHED, alone, with an exit code.                                       *)
Settle(verdict) ==
  /\ status = "RUNNING" /\ status' = verdict
  /\ verdict = "OUTPUT_LIMITED" => \E s \in Streams : output[s] = OutputLimit
  /\ IF verdict = "FINISHED" THEN result' \in ExitCodes ELSE UNCHANGED result
  /\ UNCHANGED output

(* Nothing of a job survives its purge, or the server.                       *)
Forget(how) ==
  /\ status # "DOWN" /\ (how = "PURGED" => Known)
  /\ status' = how /\ result' = 0 /\ output' = Nothing

Next ==
  \/ \E s \in Streams : Grow(s)
  \/ \E verdict \in Verdicts : Settle(verdict)
  \/ Forget("PURGED") \/ Forget("DOWN")

Spec == Init /\ [][Next]_vars
=============================================================================
