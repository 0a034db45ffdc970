-------------------------- MODULE ExecutionGateway --------------------------
(***************************************************************************)
(* ExecutionGateway::execute of openpi-daemon (gateway.rs) with the token  *)
(* budget it reserves from (openpi-safety/budget.rs) and the circuit       *)
(* breaker it consults and feeds. Requests run concurrently; each of the   *)
(* guards, the reservation, the metering and the breaker's records takes a *)
(* lock of its own, so they are steps of their own here. The execution     *)
(* core behind the gateway is external: it succeeds and reports a cost,    *)
(* fails, or is timed out.                                                 *)
(***************************************************************************)
EXTENDS CircuitBreaker, FiniteSetsExt, TLC

CONSTANTS
  Request,       (* Requests, each executed once.                          *)
  Estimates,     (* Values of estimated_tokens.                            *)
  Reports,       (* Token counts the execution core may report.            *)
  Fallback,      (* Charge when 0 is reported, if estimated (code: 500).   *)
  Limit          (* execution_limit: 70 % of the total (code: 70 000).     *)

ASSUME GatewayAssumption ==
  /\ Estimates \subseteq Nat
  /\ Reports \subseteq Nat
  /\ Fallback \in Nat
  /\ Limit \in Nat

VARIABLES
  pc,        (* Where each request stands in execute.                      *)
  readOnly,  (* is_read_only of the requests.                              *)
  estimate,  (* estimated_tokens of the requests.                          *)
  breaker,   (* The circuit breaker.                                       *)
  reserved,  (* active_reservations, by the request that made them.        *)
  used,      (* execution_used.                                            *)
  charge     (* What a request was charged when it was metered.            *)

vars == <<pc, readOnly, estimate, breaker, reserved, used, charge>>

(* "received": the handler has the request; "admitted": past the guards;    *)
(* "running": awaiting the core; "metered", "released": budget settled,     *)
(* breaker not yet told; "dropped": the handler's task was aborted.         *)
Phases == {"new", "received", "admitted", "running", "metered", "released",
           "refused", "succeeded", "failed", "dropped"}

TypeOK ==
  /\ pc \in [Request -> Phases]
  /\ readOnly \in [Request -> BOOLEAN]
  /\ estimate \in [Request -> Nat]
  /\ breaker \in Breaker
  /\ reserved \subseteq Request
  /\ used \in Nat
  /\ charge \in [Request -> Nat]

Init ==
  /\ pc = [r \in Request |-> "new"]
  /\ readOnly \in [Request -> BOOLEAN]
  /\ estimate \in [Request -> Estimates]
  /\ breaker = NewBreaker
  /\ reserved = {}
  /\ used = 0
  /\ charge = [r \in Request |-> 0]

Goto(r, from, to) ==
  /\ pc[r] = from
  /\ pc' = [pc EXCEPT ![r] = to]

Total(f, R) == MapThenSumSet(LAMBDA r : f[r], R)
Estimated(R) == Total(estimate, R)

(* Variant: only what was used counts, not what others have reserved.       *)
FitsUsedOnly(r) == estimate[r] <= Limit - used

(* reserve: the estimate fits beside what is used and what is reserved      *)
(* (limit.saturating_sub: nothing is available once the limit is passed).   *)
Fits(r) ==
  LET committed == used + Estimated(reserved)
  IN  estimate[r] <= IF committed < Limit THEN Limit - committed ELSE 0

(* Variant: what was reserved is taken off the charge.                      *)
ChargedNet(r, report) == report - estimate[r]

(* The charge for a success with the given report.                          *)
Charged(r, report) ==
  IF report # 0 THEN report
  ELSE IF estimate[r] < Fallback THEN estimate[r] ELSE Fallback

(* Variant: a timeout keeps the reservation.                                *)
ReservedForever(r) == reserved

(* release, on failure and on timeout.                                      *)
ReservedAfterFailure(r) == reserved \ {r}

(* A client calls execute_through_gateway.                                  *)
Receive(r) ==
  /\ Goto(r, "new", "received")
  /\ UNCHANGED <<readOnly, estimate, breaker, reserved, used, charge>>

(* The guards: timeout, permission, breaker. Requests without a timeout or  *)
(* without the user's confirmation never get past the first two and are     *)
(* left out; asking the breaker for its state may move it to recovery.      *)
Admit(r) ==
  /\ breaker' = Observed(breaker)
  /\ IF Admits(Observed(breaker), readOnly[r])
       THEN Goto(r, "received", "admitted")
       ELSE Goto(r, "received", "refused")
  /\ UNCHANGED <<readOnly, estimate, reserved, used, charge>>

Reserve(r) ==
  /\ Fits(r)
  /\ Goto(r, "admitted", "running")
  /\ reserved' = reserved \cup {r}
  /\ UNCHANGED <<readOnly, estimate, breaker, used, charge>>

RefuseReservation(r) ==
  /\ ~Fits(r)
  /\ Goto(r, "admitted", "refused")
  /\ UNCHANGED <<readOnly, estimate, breaker, reserved, used, charge>>

(* The core succeeds: meter, then record_success.                           *)
Meter(r, report) ==
  /\ Goto(r, "running", "metered")
  /\ reserved' = reserved \ {r}
  /\ charge' = [charge EXCEPT ![r] = Charged(r, report)]
  /\ used' = used + Charged(r, report)
  /\ UNCHANGED <<readOnly, estimate, breaker>>

RecordSuccess(r) ==
  /\ Goto(r, "metered", "succeeded")
  /\ breaker' = Succeeded(breaker)
  /\ UNCHANGED <<readOnly, estimate, reserved, used, charge>>

(* The core fails or is timed out: release, then record_failure. What the   *)
(* core has spent by then is never charged.                                 *)
Release(r) ==
  /\ Goto(r, "running", "released")
  /\ reserved' = ReservedAfterFailure(r)
  /\ UNCHANGED <<readOnly, estimate, breaker, used, charge>>

RecordFailure(r) ==
  /\ Goto(r, "released", "failed")
  /\ breaker' = Failed(breaker)
  /\ UNCHANGED <<readOnly, estimate, reserved, used, charge>>

(* The client hangs up: abort_all drops the handler at its await, and with  *)
(* it the only code that would have settled the reservation.                *)
HangUp(r) ==
  /\ Goto(r, "running", "dropped")
  /\ UNCHANGED <<readOnly, estimate, breaker, reserved, used, charge>>

(* get_safety_status, or the proactive loop's gate.                         *)
Observe ==
  /\ breaker' = Observed(breaker)
  /\ UNCHANGED <<pc, readOnly, estimate, reserved, used, charge>>

(* The cooldown of an open circuit passes.                                  *)
CoolDown ==
  /\ breaker.state = "open"
  /\ breaker' = [breaker EXCEPT !.cooled = TRUE]
  /\ UNCHANGED <<pc, readOnly, estimate, reserved, used, charge>>

Execute(r) ==
  \/ Admit(r) \/ Reserve(r) \/ RefuseReservation(r)
  \/ \E report \in Reports : Meter(r, report)
  \/ RecordSuccess(r) \/ Release(r) \/ RecordFailure(r)

Next ==
  \/ \E r \in Request : Receive(r) \/ Execute(r) \/ HangUp(r)
  \/ Observe \/ CoolDown

Spec == Init /\ [][Next]_vars

(***************************************************************************)
(* Properties.                                                             *)
(***************************************************************************)

(* The counter, which has a lock of its own, always agrees with the state:  *)
(* what is healthy has had fewer failures in a row than the first           *)
(* threshold, what is degraded lies between the thresholds. The branch of   *)
(* record_failure from Healthy straight to Open is dead for this reason.    *)
FailuresMatchState ==
  /\ breaker.state = "healthy" => breaker.failures < DegradedAt
  /\ breaker.state = "degraded" => breaker.failures \in DegradedAt..(OpenAt - 1)

(* The breaker moves along the edges of its documented diagram only, in     *)
(* whatever order late successes and failures arrive: an open circuit is    *)
(* never closed by a success without a cooldown and probes, a healthy one   *)
(* never opened at once, one failed probe opens it again.                   *)
Edges ==
  {<<"healthy", "degraded">>, <<"degraded", "healthy">>, <<"degraded", "open">>,
   <<"open", "recovery">>, <<"recovery", "open">>, <<"recovery", "healthy">>}

FollowsTheDiagram ==
  [][breaker'.state = breaker.state \/ <<breaker.state, breaker'.state>> \in Edges]_vars

(* However requests overlap, use and reservations together stay within the  *)
(* limit, except for what metered requests cost beyond their estimates.     *)
Excess  == [r \in Request |-> charge[r] - estimate[r]]
Overrun == Total(Excess, {r \in Request : charge[r] > estimate[r]})

OverrunIsAllThatExceeds == used + Estimated(reserved) <= Limit + Overrun

(* A reservation outlives its request only if the client hung up: every     *)
(* other way out of execute gives it back, so the budget drains by use and  *)
(* by hang-ups and by nothing else.                                         *)
ReservationsAreSettled ==
  reserved = {r \in Request : pc[r] \in {"running", "dropped"}}

(* Requests are interchangeable.                                            *)
Symmetry == Permutations(Request)
=============================================================================
