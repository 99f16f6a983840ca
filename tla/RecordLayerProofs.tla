-------------------------- MODULE RecordLayerProofs --------------------------
(***************************************************************************)
(* TLAPS proofs about RecordLayer: IInv is inductive, and the properties   *)
(* the TLC run checks on a small instance follow from it for every bound.  *)
(***************************************************************************)
EXTENDS RecordLayer, FiniteSetTheorems, TLAPS

USE DEF Slot

(* The security record a slot lookup returns is not the null pointer.      *)
LEMMA SecurityNotNull == \A s \in Security : s # NULL
  BY NullIsNotSecurity

(* dtls_security_params_epoch returns a slot whose parameters have the     *)
(* epoch asked for, or NULL.                                               *)
LEMMA ParamsEpochLemma ==
  ASSUME sec \in [Slot -> Security \cup {NULL}], NEW e \in Nat,
         ParamsEpoch(sec, e) # NULL
  PROVE  /\ ParamsEpoch(sec, e) \in Slot
         /\ sec[ParamsEpoch(sec, e)] # NULL
  <1>1. CASE 0 \in EpochSlots(sec, e)
    BY <1>1 DEF ParamsEpoch, EpochSlots
  <1>2. CASE 0 \notin EpochSlots(sec, e) /\ EpochSlots(sec, e) = {1}
    <2>1. ParamsEpoch(sec, e) = 1
      BY <1>2 DEF ParamsEpoch
    <2>2. 1 \in EpochSlots(sec, e)
      BY <1>2
    <2>3. QED  BY <2>1, <2>2 DEF EpochSlots
  <1>3. CASE 0 \notin EpochSlots(sec, e) /\ EpochSlots(sec, e) # {1}
    BY <1>3 DEF ParamsEpoch
  <1>4. QED  BY <1>1, <1>2, <1>3

(* Sealing one more record with live parameters keeps the invariant.       *)
LEMMA PrepareRecordInv ==
  ASSUME IInv, NEW i \in Slot, sec[i] # NULL, PrepareRecord(i),
         UNCHANGED <<pending, keys>>, queued' \subseteq Nat
  PROVE  IInv'
  <1> DEFINE s == sec[i]
  <1>1. /\ sec \in [Slot -> Security \cup {NULL}] /\ s \in Security
        /\ s.rseq \in Nat /\ s.epoch \in Nat
        /\ s.cipher \in {"null", "ccm"} /\ s.key \in Nat \cup {NULL}
    BY DEF IInv, TypeOK, Security, Key
  <1>2. /\ sec' = [sec EXCEPT ![i] = [s EXCEPT !.rseq = s.rseq + 1]]
        /\ [s EXCEPT !.rseq = s.rseq + 1] \in Security
    BY <1>1 DEF PrepareRecord, Security, Key
  <1>3. /\ sec'[i].rseq = s.rseq + 1 /\ sec'[i].epoch = s.epoch
        /\ sec'[i].cipher = s.cipher /\ sec'[i].key = s.key
        /\ sec'[i] # NULL
        /\ sec'[1 - i] = sec[1 - i]
    BY <1>1, <1>2, SecurityNotNull DEF Security
  <1>4. sec' \in [Slot -> Security \cup {NULL}]
    BY <1>1, <1>2
  <1>5. SlotInv'
    BY <1>1, <1>3 DEF IInv, SlotInv
  <1>6. KeyInv'
    <2>1. \A j \in Slot : sec'[j] # NULL =>
             /\ sec[j] # NULL /\ sec'[j].cipher = sec[j].cipher
             /\ sec'[j].key = sec[j].key
      BY <1>3
    <2>2. QED  BY <1>3, <2>1 DEF IInv, KeyInv
  <1>7. CASE s.cipher = "null"
    <2>1. sent' = sent /\ protected' = protected
      BY <1>7 DEF PrepareRecord
    <2>2. s.key = NULL
      BY <1>1, <1>7 DEF IInv, KeyInv
    <2>3. NonceInv'
      BY <1>1, <1>3, <2>1, <2>2 DEF IInv, NonceInv, TypeOK, Nonce
    <2>4. TypeOK' /\ CountInv'
      BY <1>4, <2>1 DEF IInv, TypeOK, CountInv
    <2>5. QED  BY <1>5, <1>6, <2>3, <2>4 DEF IInv
  <1>8. CASE s.cipher = "ccm"
    <2> DEFINE n == NonceOf(s)
    <2>1. sent' = sent \cup {n} /\ protected' = protected + 1
      BY <1>8 DEF PrepareRecord
    <2>2. s.key \in Nat /\ s.key <= keys
      BY <1>1, <1>8 DEF IInv, KeyInv
    <2>3. n \in Nonce /\ n.key = s.key /\ n.rseq = s.rseq
      BY <1>1, <2>2 DEF NonceOf, Nonce
    <2>4. n \notin sent
      BY <1>1, <2>3 DEF IInv, NonceInv
    <2>5. CountInv'
      BY <2>1, <2>4, FS_AddElement DEF IInv, CountInv
    <2>6. TypeOK'
      BY <1>4, <2>1, <2>3 DEF IInv, TypeOK
    <2>7. NonceInv'
      <3>1. \A m \in sent' : m.key <= keys'
        BY <2>1, <2>2, <2>3 DEF IInv, NonceInv
      <3>2. ASSUME NEW j \in Slot, NEW m \in sent', sec'[j] # NULL,
                   m.key = sec'[j].key
            PROVE  m.rseq < sec'[j].rseq
        <4>1. CASE m \in sent /\ j = i
          <5>1. m.rseq < s.rseq /\ m.rseq \in Nat
            BY <1>3, <3>2, <4>1 DEF IInv, NonceInv, TypeOK, Nonce
          <5>2. QED  BY <1>1, <1>3, <4>1, <5>1
        <4>2. CASE m \in sent /\ j # i
          <5>1. sec'[j] = sec[j]
            BY <1>3, <4>2
          <5>2. QED  BY <3>2, <4>2, <5>1 DEF IInv, NonceInv
        <4>3. CASE m = n /\ j = i
          BY <1>1, <1>3, <2>3, <4>3
        <4>4. CASE m = n /\ j # i
          <5>1. sec[1 - i].key = s.key /\ sec[1 - i] # NULL
            BY <1>3, <2>3, <3>2, <4>4
          <5>2. sec[0] # NULL /\ sec[1] # NULL /\ sec[0].key # NULL
                /\ sec[0].key = sec[1].key
            BY <5>1, <2>2, NullAssumption
          <5>3. QED  BY <5>2 DEF IInv, KeyInv
        <4>5. QED  BY <2>1, <4>1, <4>2, <4>3, <4>4
      <3>3. QED  BY <3>1, <3>2 DEF NonceInv
    <2>8. QED  BY <1>5, <1>6, <2>5, <2>6, <2>7 DEF IInv
  <1>9. QED  BY <1>1, <1>7, <1>8

(* The initial parameters satisfy the invariant.                           *)
LEMMA InitInv == Init => IInv
  <1> SUFFICES ASSUME Init PROVE IInv
    OBVIOUS
  <1>1. \A i \in Slot : /\ sec[i].epoch = 0 /\ sec[i].cipher = "null"
                        /\ sec[i].key = NULL /\ sec[i] \in Security
    BY InitialRseqAssumption
    DEF Init, NewSecurityParams, NewSecurity, Security, Key
  <1>2. sec[0] # NULL
    BY <1>1, SecurityNotNull
  <1>3. TypeOK
    BY <1>1 DEF Init, TypeOK, NewSecurityParams
  <1>4. SlotInv
    BY <1>1, <1>2 DEF Init, SlotInv
  <1>5. KeyInv
    BY <1>1 DEF KeyInv
  <1>6. NonceInv /\ CountInv
    BY FS_EmptySet DEF Init, NonceInv, CountInv
  <1>7. QED  BY <1>3, <1>4, <1>5, <1>6 DEF IInv

(* dtls_send_multi: slot 0 is never NULL, so a send always has parameters. *)
LEMMA SendInv ==
  ASSUME IInv, NEW retransmit \in BOOLEAN, Send(retransmit)
  PROVE  IInv'
  <1>1. sec[0] # NULL /\ sec[0] \in Security
    BY DEF IInv, SlotInv, TypeOK
  <1>2. queued' \subseteq Nat
    BY <1>1 DEF Send, IInv, TypeOK, Security
  <1>3. QED  BY <1>1, <1>2, PrepareRecordInv DEF Send

(* dtls_retransmit, with and without parameters of the queued epoch.       *)
LEMMA RetransmitInv ==
  ASSUME IInv, NEW epoch \in queued, Retransmit(epoch)
  PROVE  IInv'
  <1>1. sec \in [Slot -> Security \cup {NULL}] /\ epoch \in Nat
        /\ queued' \subseteq Nat
    BY DEF IInv, TypeOK, Retransmit
  <1>2. CASE ParamsEpoch(sec, epoch) = NULL
    BY <1>2 DEF Retransmit, IInv, TypeOK, SlotInv, KeyInv, NonceInv, CountInv
  <1>3. CASE ParamsEpoch(sec, epoch) # NULL
    BY <1>1, <1>3, ParamsEpochLemma, PrepareRecordInv DEF Retransmit
  <1>4. QED  BY <1>2, <1>3

(* calculate_key_block: the parameters of the next epoch get a key larger  *)
(* than every key used so far.                                             *)
LEMMA CalculateKeyBlockInv ==
  ASSUME IInv, CalculateKeyBlock
  PROVE  IInv'
  <1> DEFINE next == [epoch |-> sec[0].epoch + 1, rseq |-> 0,
                      cipher |-> "ccm", key |-> keys + 1]
  <1>1. /\ sec \in [Slot -> Security \cup {NULL}] /\ keys \in Nat
        /\ sec[0] \in Security /\ sec[0] # NULL /\ sec[0].epoch \in Nat
        /\ sent \subseteq Nonce
    BY DEF IInv, TypeOK, SlotInv, Security
  <1>2. next \in Security /\ next # NULL
    BY <1>1, SecurityNotNull DEF Security, Key
  <1>3. sec' = [sec EXCEPT ![1] = next]
    BY <1>1 DEF CalculateKeyBlock, ParamsNext, NewSecurity
  <1>4. sec'[0] = sec[0] /\ sec'[1] = next /\ keys' = keys + 1
        /\ pending' = TRUE /\ sent' = sent
    <2>1. sec'[0] = sec[0] /\ sec'[1] = next
      BY <1>1, <1>3
    <2>2. keys' = keys + 1 /\ sent' = sent
      BY DEF CalculateKeyBlock
    <2>3. pending' = TRUE
      BY Zenon DEF CalculateKeyBlock
    <2>4. QED  BY <2>1, <2>2, <2>3
  <1>5. TypeOK'
    BY <1>1, <1>2, <1>3 DEF CalculateKeyBlock, IInv, TypeOK
  <1>6. SlotInv'
    BY <1>1, <1>2, <1>4 DEF SlotInv
  <1>7. KeyInv'
    <2>1. sec[0].cipher = "ccm" <=> sec[0].key # NULL
      BY <1>1 DEF IInv, KeyInv
    <2>2. sec[0].key # NULL => sec[0].key \in Nat /\ sec[0].key <= keys
      BY <1>1 DEF IInv, KeyInv, Security, Key
    <2>3. next.key # NULL /\ next.key = keys + 1 /\ next.cipher = "ccm"
      BY <1>1, NullAssumption
    <2>4. QED  BY <1>1, <1>4, <2>1, <2>2, <2>3 DEF KeyInv
  <1>8. NonceInv'
    <2>1. \A n \in sent : n.key \in Nat /\ n.key <= keys
      BY <1>1 DEF IInv, NonceInv, Nonce
    <2>2. \A n \in sent : n.key # next.key
      BY <1>1, <2>1
    <2>3. \A n \in sent' : n.key <= keys'
      BY <1>1, <1>4, <2>1
    <2>4. \A i \in Slot : \A n \in sent' :
            sec'[i] # NULL /\ n.key = sec'[i].key => n.rseq < sec'[i].rseq
      BY <1>4, <2>2 DEF IInv, NonceInv
    <2>5. QED  BY <2>3, <2>4 DEF NonceInv
  <1>9. CountInv'
    BY DEF CalculateKeyBlock, IInv, CountInv
  <1>10. QED  BY <1>5, <1>6, <1>7, <1>8, <1>9 DEF IInv

(* dtls_security_params_switch: the pending parameters exist, so slot 0    *)
(* does not become NULL.                                                   *)
LEMMA ChangeCipherSpecInv ==
  ASSUME IInv, ChangeCipherSpec
  PROVE  IInv'
  <1>1. /\ sec'[0] = sec[1] /\ sec'[1] = sec[0] /\ ~pending' /\ pending
        /\ sec \in [Slot -> Security \cup {NULL}]
        /\ UNCHANGED <<keys, queued, sent, protected>>
    BY DEF ChangeCipherSpec, ParamsSwitch, IInv, TypeOK
  <1>2. sec[0] # NULL /\ sec[1] # NULL /\ sec[1].epoch = sec[0].epoch + 1
        /\ sec[0] \in Security /\ sec[0].epoch \in Nat
        /\ sec[1].cipher = "ccm"
    BY <1>1 DEF IInv, SlotInv, TypeOK, Security
  <1>3. TypeOK'
    <2>1. \A i \in Slot : 1 - i \in Slot
      OBVIOUS
    <2>2. sec' \in [Slot -> Security \cup {NULL}]
      BY <1>1, <2>1 DEF ChangeCipherSpec, ParamsSwitch
    <2>3. pending' \in BOOLEAN
      BY Zenon DEF ChangeCipherSpec
    <2>4. keys' \in Nat /\ queued' \subseteq Nat /\ sent' \subseteq Nonce
          /\ protected' \in Nat
      BY <1>1 DEF IInv, TypeOK
    <2>5. QED  BY <2>2, <2>3, <2>4 DEF TypeOK
  <1>4. SlotInv'
    BY <1>1, <1>2 DEF SlotInv
  <1>5. KeyInv'
    BY <1>1, <1>2 DEF IInv, KeyInv
  <1>6. NonceInv' /\ CountInv'
    BY <1>1 DEF IInv, NonceInv, CountInv
  <1>7. QED  BY <1>3, <1>4, <1>5, <1>6 DEF IInv

(* decrypt_verify frees only parameters of a past epoch, never pending     *)
(* ones.                                                                   *)
LEMMA DecryptVerifyInv ==
  ASSUME IInv, NEW i \in Slot, DecryptVerify(i)
  PROVE  IInv'
  <1>1. sec \in [Slot -> Security \cup {NULL}] /\ sec[0] # NULL
        /\ sec[0] \in Security /\ sec[0].epoch \in Nat
        /\ UNCHANGED <<pending, keys, queued, sent, protected>>
    BY DEF DecryptVerify, IInv, TypeOK, SlotInv, Security
  <1>2. CASE sec' = sec
    BY <1>1, <1>2 DEF IInv, TypeOK, SlotInv, KeyInv, NonceInv, CountInv
  <1>3. CASE sec[1] # NULL /\ sec[0].epoch >= sec[1].epoch
             /\ sec' = [sec EXCEPT ![1] = NULL]
    <2>1. sec'[0] = sec[0] /\ sec'[1] = NULL
      BY <1>1, <1>3
    <2>2. ~pending
      BY <1>1, <1>3 DEF IInv, SlotInv
    <2>3. TypeOK'
      BY <1>1, <1>3 DEF IInv, TypeOK
    <2>4. SlotInv' /\ KeyInv' /\ NonceInv' /\ CountInv'
      BY <1>1, <2>1, <2>2 DEF IInv, SlotInv, KeyInv, NonceInv, CountInv
    <2>5. QED  BY <2>3, <2>4 DEF IInv
  <1>4. QED  BY <1>2, <1>3 DEF DecryptVerify, ParamsFreeOther

(* Every step of the record layer keeps the invariant.                     *)
LEMMA StepInv == IInv /\ [Next]_vars => IInv'
  <1> SUFFICES ASSUME IInv, [Next]_vars PROVE IInv'
    OBVIOUS
  <1>1. CASE \E retransmit \in BOOLEAN : Send(retransmit)
    BY <1>1, SendInv
  <1>2. CASE \E epoch \in queued : Retransmit(epoch)
    BY <1>2, RetransmitInv
  <1>3. CASE StopRetransmission
    BY <1>3 DEF StopRetransmission, IInv, TypeOK, SlotInv, KeyInv, NonceInv,
                CountInv
  <1>4. CASE CalculateKeyBlock
    BY <1>4, CalculateKeyBlockInv
  <1>5. CASE ChangeCipherSpec
    BY <1>5, ChangeCipherSpecInv
  <1>6. CASE \E i \in Slot : DecryptVerify(i)
    BY <1>6, DecryptVerifyInv
  <1>7. CASE UNCHANGED vars
    BY <1>7 DEF vars, IInv, TypeOK, SlotInv, KeyInv, NonceInv, CountInv
  <1>8. QED  BY <1>1, <1>2, <1>3, <1>4, <1>5, <1>6, <1>7 DEF Next

(* The invariant holds in every reachable state, for every bound on the    *)
(* number of handshakes and records and for both kinds of peer.            *)
THEOREM Invariance == Spec => []IInv
  BY InitInv, StepInv, PTL DEF Spec

(* No nonce is used twice under one key, for every number of handshakes,   *)
(* records and retransmissions.                                            *)
THEOREM NonceUniqueness == Spec => []NonceUnique
  <1>1. IInv => NonceUnique
    BY DEF IInv, CountInv, NonceUnique
  <1>2. QED  BY <1>1, Invariance, PTL

(* dtls_security_params never returns NULL.                                *)
THEOREM CurrentParamsExist == Spec => []CurrentParams
  <1>1. IInv => CurrentParams
    BY DEF IInv, SlotInv, CurrentParams
  <1>2. QED  BY <1>1, Invariance, PTL

(* The epoch of the sending parameters advances one at a time.             *)
THEOREM EpochAdvance == Spec => EpochAdvances
  <1>1. ASSUME IInv, [Next]_vars
        PROVE  [sec'[0].epoch = sec[0].epoch
                \/ sec'[0].epoch = sec[0].epoch + 1]_vars
    <2>1. sec \in [Slot -> Security \cup {NULL}]
      BY <1>1 DEF IInv, TypeOK
    <2>2. ASSUME NEW i \in Slot, PrepareRecord(i), sec[i] # NULL
          PROVE  sec'[0].epoch = sec[0].epoch
      BY <2>1, <2>2 DEF PrepareRecord, Security
    <2>3. CASE \E retransmit \in BOOLEAN : Send(retransmit)
      BY <1>1, <2>2, <2>3 DEF Send, IInv, SlotInv
    <2>4. CASE \E epoch \in queued : Retransmit(epoch)
      <3>1. PICK epoch \in queued : Retransmit(epoch)
        BY <2>4
      <3>2. epoch \in Nat
        BY <1>1 DEF IInv, TypeOK
      <3>3. CASE ParamsEpoch(sec, epoch) = NULL
        BY <3>1, <3>3 DEF Retransmit
      <3>4. CASE ParamsEpoch(sec, epoch) # NULL
        BY <2>1, <2>2, <3>1, <3>2, <3>4, ParamsEpochLemma DEF Retransmit
      <3>5. QED  BY <3>3, <3>4
    <2>5. CASE ChangeCipherSpec
      BY <1>1, <2>5 DEF ChangeCipherSpec, ParamsSwitch, IInv, SlotInv
    <2>6. CASE CalculateKeyBlock
      BY <2>1, <2>6 DEF CalculateKeyBlock, ParamsNext
    <2>7. CASE \E i \in Slot : DecryptVerify(i)
      BY <2>1, <2>7 DEF DecryptVerify, ParamsFreeOther
    <2>8. CASE StopRetransmission \/ UNCHANGED vars
      BY <2>8 DEF StopRetransmission, vars
    <2>9. QED
      BY <1>1, <2>3, <2>4, <2>5, <2>6, <2>7, <2>8 DEF Next
  <1>2. QED  BY <1>1, Invariance, PTL DEF Spec, EpochAdvances

(* Once a record is protected, everything this side sends is.              *)
THEOREM Protection == Spec => StaysProtected
  <1>1. ASSUME IInv, [Next]_vars
        PROVE  [sec[0].cipher # "null" => sec'[0].cipher # "null"]_vars
    <2>1. sec \in [Slot -> Security \cup {NULL}]
      BY <1>1 DEF IInv, TypeOK
    <2>2. ASSUME NEW i \in Slot, PrepareRecord(i), sec[i] # NULL
          PROVE  sec'[0].cipher = sec[0].cipher
      BY <2>1, <2>2 DEF PrepareRecord, Security
    <2>3. CASE \E retransmit \in BOOLEAN : Send(retransmit)
      BY <1>1, <2>2, <2>3 DEF Send, IInv, SlotInv
    <2>4. CASE \E epoch \in queued : Retransmit(epoch)
      <3>1. PICK epoch \in queued : Retransmit(epoch)
        BY <2>4
      <3>2. epoch \in Nat
        BY <1>1 DEF IInv, TypeOK
      <3>3. CASE ParamsEpoch(sec, epoch) = NULL
        BY <3>1, <3>3 DEF Retransmit
      <3>4. CASE ParamsEpoch(sec, epoch) # NULL
        BY <2>1, <2>2, <3>1, <3>2, <3>4, ParamsEpochLemma DEF Retransmit
      <3>5. QED  BY <3>3, <3>4
    <2>5. CASE ChangeCipherSpec
      BY <1>1, <2>5 DEF ChangeCipherSpec, ParamsSwitch, IInv, SlotInv
    <2>6. CASE CalculateKeyBlock
      BY <2>1, <2>6 DEF CalculateKeyBlock, ParamsNext
    <2>7. CASE \E i \in Slot : DecryptVerify(i)
      BY <2>1, <2>7 DEF DecryptVerify, ParamsFreeOther
    <2>8. CASE StopRetransmission \/ UNCHANGED vars
      BY <2>8 DEF StopRetransmission, vars
    <2>9. QED
      BY <1>1, <2>3, <2>4, <2>5, <2>6, <2>7, <2>8 DEF Next
  <1>2. QED  BY <1>1, Invariance, PTL DEF Spec, StaysProtected
=============================================================================
