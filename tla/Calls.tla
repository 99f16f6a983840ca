-------------------------------- MODULE Calls --------------------------------
(***************************************************************************)
(* Functions without state of their own: a behaviour is one call of a      *)
(* function, which is given its first and its second input and then        *)
(* returns.  What it returns is an operator of the inputs; properties say  *)
(* what it must be when the call returns.                                  *)
(***************************************************************************)
VARIABLES
  layer,   \* which functions are called
  a, b,    \* the inputs
  stage    \* "called", "given" the second input, or "returned"

call == <<layer, a, b, stage>>

Called(l, inputs) == layer = l /\ a \in inputs /\ b = <<>> /\ stage = "called"
Given(l, inputs) == /\ layer = l /\ stage = "called"
                    /\ b' \in inputs
                    /\ stage' = "given"
                    /\ UNCHANGED <<layer, a>>
Returns(l) == /\ layer = l /\ stage = "given"
              /\ stage' = "returned"
              /\ UNCHANGED <<layer, a, b>>
=============================================================================
