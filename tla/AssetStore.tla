----------------------------- MODULE AssetStore -----------------------------
(***************************************************************************)
(* What the managed downloads promise (runtime.py:3-7): a file that may be *)
(* executed or installed appears at its destination in one step, already   *)
(* verified, and no failure of ClipGauge takes it away again.  Only the    *)
(* outside world damages it.                                               *)
(***************************************************************************)

CONSTANT Assets  \* the managed assets

VARIABLE installed  \* "absent", "verified" or, once the outside spoiled it,
                    \* "damaged"

Init == installed = [a \in Assets |-> "absent"]

Install(a) == /\ installed[a] # "verified"
              /\ installed' = [installed EXCEPT ![a] = "verified"]

Damage(a) == /\ installed[a] = "verified"
             /\ installed' = [installed EXCEPT ![a] = "damaged"]

Next == \E a \in Assets : Install(a) \/ Damage(a)

Spec == Init /\ [][Next]_installed

=============================================================================
