------------------------------ MODULE DtlsPeer ------------------------------
(***************************************************************************)
(* The security parameters a peer object holds (peer.h, peer.c, and the    *)
(* allocation functions of crypto.c they call).                            *)
(*                                                                         *)
(* security_params[0] are the parameters that protect what this side       *)
(* sends; security_params[1] are "the other ones": the parameters of the   *)
(* handshake in progress, or the previous ones until a record protected    *)
(* by the current ones has been received.  A slot is NULL when its         *)
(* parameters were freed.  The module has no state: the operators are the  *)
(* inline functions of peer.h on the pair of slots, and the modules        *)
(* RecordLayer and Dtls are built from them.                               *)
(***************************************************************************)
EXTENDS Naturals

CONSTANT NULL       \* the C null pointer; also "no key"

Slot == 0..1

(* dtls_security_new: no cipher, epoch 0, record sequence number 0. *)
NewSecurity == [epoch |-> 0, rseq |-> 0, cipher |-> "null", key |-> NULL]

(* dtls_new_peer allocates both slots. *)
NewSecurityParams == [i \in Slot |-> NewSecurity]

EpochSlots(sec, epoch) == {i \in Slot : sec[i] # NULL /\ sec[i].epoch = epoch}

(* dtls_security_params_epoch: the first slot of that epoch; NULL stands   *)
(* for "no parameters of that epoch", a slot number for the pointer.       *)
ParamsEpoch(sec, epoch) ==
  CASE 0 \in EpochSlots(sec, epoch)   -> 0
    [] EpochSlots(sec, epoch) = {1}   -> 1
    [] OTHER                          -> NULL

(* Mutant: the next parameters do not get the next epoch.                  *)
NextSameEpoch(sec) == [sec EXCEPT ![1] = [NewSecurity EXCEPT !.epoch = sec[0].epoch]]

(* dtls_security_params_next *)
ParamsNext(sec) ==
  [sec EXCEPT ![1] = [NewSecurity EXCEPT !.epoch = sec[0].epoch + 1]]

(* Mutant: also frees the parameters of a handshake in progress.           *)
FreeOtherAlways(sec) == [sec EXCEPT ![1] = NULL]

(* dtls_security_params_free_other: keeps the parameters of a later epoch  *)
(* (a handshake in progress), frees those of an earlier one.               *)
ParamsFreeOther(sec) ==
  IF sec[0] # NULL /\ sec[1] # NULL /\ sec[0].epoch >= sec[1].epoch
  THEN [sec EXCEPT ![1] = NULL]
  ELSE sec

(* dtls_security_params_switch *)
ParamsSwitch(sec) == [i \in Slot |-> sec[1 - i]]
=============================================================================
