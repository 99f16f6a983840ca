-------------------------- MODULE SessionAgreement --------------------------
(***************************************************************************)
(* What the handshake promises, without saying how: each side completes    *)
(* sessions, a session being a key and the handshake it came from.  The    *)
(* client completes only sessions the server has completed, with the same  *)
(* key and the same messages; no key is used for two sessions; and a side  *)
(* is active under a key only by completing the session of that key.       *)
(***************************************************************************)
CONSTANT NULL

Side == {"client", "server"}

VARIABLES
  completed,  \* completed[s]: the sessions side s has completed
  active      \* active[s]: the key side s would send data under, or NULL

vars == <<completed, active>>

Init ==
  /\ completed = [s \in Side |-> {}]
  /\ active = [s \in Side |-> NULL]

(* Side s completes session d and becomes active under its key. *)
Complete(s, d) ==
  /\ \A e \in completed[s] : e.key # d.key
  /\ s = "client" => d \in completed["server"]
  /\ completed' = [completed EXCEPT ![s] = @ \cup {d}]
  /\ active' = [active EXCEPT ![s] = d.key]

(* Side s starts another handshake, closes, fails or is reset. *)
Leave(s) ==
  /\ active' = [active EXCEPT ![s] = NULL]
  /\ UNCHANGED completed

Next ==
  \E s \in Side :
    \/ Leave(s)
    \/ \E d \in completed'[s] \ completed[s] : Complete(s, d)

Spec == Init /\ [][Next]_vars

(* What follows for the two applications.  Whatever the client has         *)
(* completed the server has completed, with the same key and messages      *)
(* (check_finished on both sides).                                         *)
Agreed == completed["client"] \subseteq completed["server"]

(* A key belongs to one session of a side (both randoms go into            *)
(* calculate_key_block).                                                   *)
KeysUnique ==
  \A s \in Side : \A d, e \in completed[s] : d.key = e.key => d = e

(* A side sends data only under the key of a session it has completed.     *)
ActiveCompleted ==
  \A s \in Side :
    active[s] # NULL => \E d \in completed[s] : d.key = active[s]
=============================================================================
