---------------------------- MODULE RootContract ----------------------------
(***************************************************************************)
(* What a root promises its callers, without saying how: the accepted      *)
(* version moves only forward and only by committing the one transition in *)
(* flight, failed attempts consume attempt numbers and nothing else, an    *)
(* outcome once given is never taken back, and a closed root owes nobody   *)
(* an outcome and never changes again.                                     *)
(***************************************************************************)
EXTENDS Naturals

VARIABLES
  version,    (* <<generation, revision>> of the accepted candidate         *)
  attempt,    (* the number of the last transition tried                    *)
  open,       (* a transition is in flight                                  *)
  receipt,    (* the last receipt handed out                                *)
  resolved,   (* the receipts with a terminal outcome                       *)
  closed      (* the root is terminal                                       *)

vars == <<version, attempt, open, receipt, resolved, closed>>

Init ==
  /\ version = <<0, 0>>
  /\ attempt = 0
  /\ open = FALSE
  /\ receipt = 0
  /\ resolved = {}
  /\ closed = FALSE

Later(v) ==
  IF v = <<0, 0>> THEN {<<1, 1>>} ELSE {<<v[1], v[2] + 1>>, <<v[1] + 1, 1>>}

(* The version changes only when the transition in flight ends, and by one. *)
Publishes ==
  /\ open /\ ~open'
  /\ attempt' = attempt
  /\ version' \in Later(version)

Tries == attempt' = attempt + 1 /\ version' = version

Keeps == attempt' = attempt /\ version' = version

(* Receipts are handed out in order, and outcomes are final. *)
Accounts ==
  /\ receipt' \in Nat /\ receipt' >= receipt
  /\ resolved \subseteq resolved'
  /\ resolved' \subseteq 1 .. receipt'

Next ==
  /\ ~closed
  /\ Publishes \/ Tries \/ Keeps
  /\ Accounts
  /\ closed' \in BOOLEAN
  /\ closed' => resolved' = 1 .. receipt'

Spec == Init /\ [][Next]_vars

=============================================================================
