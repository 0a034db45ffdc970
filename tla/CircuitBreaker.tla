--------------------------- MODULE CircuitBreaker ---------------------------
(***************************************************************************)
(* The circuit breaker of openpi-safety (circuit_breaker.rs) as operators  *)
(* over a record. Time is the one bit the breaker looks at: whether the    *)
(* cooldown has passed since the circuit was last opened.                  *)
(***************************************************************************)
EXTENDS Naturals

CONSTANTS
  DegradedAt,    (* failure_threshold_degraded (code: 3).                  *)
  OpenAt,        (* failure_threshold_open (code: 5).                      *)
  RequiredProbes (* required_recovery_probes (code: 2).                    *)

ASSUME BreakerAssumption ==
  /\ DegradedAt \in Nat \ {0}
  /\ OpenAt \in Nat /\ OpenAt > DegradedAt
  /\ RequiredProbes \in Nat \ {0}

(* failures is the counter with a lock of its own; the copy of it inside    *)
(* Degraded is only ever displayed.                                         *)
Breaker == [state : {"healthy", "degraded", "open", "recovery"},
            failures : Nat, probes : Nat, cooled : BOOLEAN]

NewBreaker == [state |-> "healthy", failures |-> 0, probes |-> 0,
               cooled |-> FALSE]

(* state(): every reader moves a circuit that has cooled down to recovery.  *)
Observed(b) ==
  IF b.state = "open" /\ b.cooled
    THEN [b EXCEPT !.state = "recovery", !.probes = 0]
    ELSE b

Opened(b) == [b EXCEPT !.state = "open", !.cooled = FALSE]

(* Variant: a success leaves the counter alone.                             *)
SucceededUncounted(b) ==
  CASE b.state = "degraded" -> [b EXCEPT !.state = "healthy"]
    [] b.state = "recovery" ->
         [b EXCEPT !.probes = @ + 1,
                   !.state = IF b.probes + 1 >= RequiredProbes
                               THEN "healthy" ELSE "recovery"]
    [] OTHER -> b

(* record_success                                                           *)
Succeeded(b) ==
  LET c == [b EXCEPT !.failures = 0]
  IN  CASE c.state = "degraded" -> [c EXCEPT !.state = "healthy"]
        [] c.state = "recovery" ->
             [c EXCEPT !.probes = @ + 1,
                       !.state = IF c.probes + 1 >= RequiredProbes
                                   THEN "healthy" ELSE "recovery"]
        [] OTHER -> c

(* Variant: a failed probe is judged by the counter, like any other failure. *)
FailedByCount(b) ==
  LET c == [b EXCEPT !.failures = @ + 1]
  IN  IF c.failures >= OpenAt THEN Opened(c)
      ELSE IF c.failures >= DegradedAt THEN [c EXCEPT !.state = "degraded"]
      ELSE c

(* record_failure                                                           *)
Failed(b) ==
  LET c == [b EXCEPT !.failures = @ + 1]
  IN  IF c.state \in {"open", "recovery"} \/ c.failures >= OpenAt THEN Opened(c)
      ELSE IF c.failures >= DegradedAt THEN [c EXCEPT !.state = "degraded"]
      ELSE c

(* assert_degrade_state: what may pass in the state just observed. A        *)
(* read-only request counts as Monitor, any other one as Execute.           *)
Admits(b, readOnly) == readOnly \/ b.state = "healthy"
=============================================================================
