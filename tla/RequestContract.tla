--------------------------- MODULE RequestContract ---------------------------
(***************************************************************************)
(* What one request promises, whatever its transport, mode and retry       *)
(* policy: at most `budget` calls beyond the first, each further call only *)
(* after a retry was announced, and one settlement, which is final.  The   *)
(* announcement of the settlement to the hooks can only follow a call.     *)
(***************************************************************************)
EXTENDS Naturals

VARIABLES
  budget,   (* retries the request may make                                *)
  tries,    (* calls made                                                  *)
  phase,    (* "idle": about to call, "trying": in a call or judging its   *)
            (* result, "settled": returned to the caller                   *)
  verdict   (* the hooks told so far: "none", "success", "error" or, after *)
            (* a settlement no settling hook heard of, "silent"            *)

contractVars == <<budget, tries, phase, verdict>>

ContractInit ==
  /\ budget \in Nat
  /\ tries = 0
  /\ phase = "idle"
  /\ verdict = "none"

Try ==
  /\ phase = "idle"
  /\ tries <= budget
  /\ tries' = tries + 1
  /\ phase' = "trying"
  /\ UNCHANGED <<budget, verdict>>

Reschedule ==
  /\ phase = "trying"
  /\ tries <= budget
  /\ phase' = "idle"
  /\ UNCHANGED <<budget, tries, verdict>>

SettleAfterCall ==
  /\ phase = "trying"
  /\ phase' = "settled"
  /\ verdict' \in {"success", "error", "silent"}
  /\ UNCHANGED <<budget, tries>>

(* Between two calls only the cancellation of the wait settles.            *)
SettleBetweenCalls ==
  /\ phase = "idle"
  /\ tries > 0
  /\ phase' = "settled"
  /\ verdict' = "silent"
  /\ UNCHANGED <<budget, tries>>

ContractNext == Try \/ Reschedule \/ SettleAfterCall \/ SettleBetweenCalls

ContractSpec == ContractInit /\ [][ContractNext]_contractVars

=============================================================================
