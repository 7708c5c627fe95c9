----------------------------- MODULE TlsAttempt -----------------------------
(***************************************************************************)
(* What tls_transport.h promises about one connection: an attempt either   *)
(* hands out a connection or fails with a machine-readable cause, a failed *)
(* attempt is torn down before the caller regains control, and a caller    *)
(* that got a connection ends it with tls_close.                           *)
(***************************************************************************)
EXTENDS Naturals

CONSTANTS Stages,   \* tls_failure_stage_t, TLS_FAILURE_NONE excluded
          Errors    \* error_code values, 0 excluded

VARIABLES phase,    \* where the caller stands
          result    \* tls_attempt_result_t, as far as it classifies failures

vars == <<phase, result>>

\* tls_attempt_result_t after memset.
NoFailure == [stage |-> "none", error |-> "ok", timed_out |-> FALSE]

\* A failure: timed_out says exactly that the error is a deadline.
Failure(stage, error) ==
    [stage |-> stage, error |-> error, timed_out |-> error = "timeout"]

Init == phase = "idle" /\ result = NoFailure

Begin == phase = "idle" /\ phase' = "connecting" /\ result' = NoFailure

\* No memory for the connection: the attempt ends before it began.
Refuse == phase = "idle" /\ result' = Failure("dns", "allocation") /\ UNCHANGED phase

Establish == phase = "connecting" /\ phase' = "ready" /\ UNCHANGED result

Fail(stage, error) ==
    phase = "connecting" /\ phase' = "closing" /\ result' = Failure(stage, error)

Close == phase = "ready" /\ phase' = "closing" /\ UNCHANGED result

Return == phase = "closing" /\ phase' = "idle" /\ UNCHANGED result

\* The firmware stops inside lwIP.
Halt == phase \notin {"idle", "halted"} /\ phase' = "halted" /\ UNCHANGED result

Next ==
    \/ Begin \/ Refuse \/ Establish \/ Close \/ Return \/ Halt
    \/ \E stage \in Stages, error \in Errors : Fail(stage, error)

Spec == Init /\ [][Next]_vars
=============================================================================
