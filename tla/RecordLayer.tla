---------------------------- MODULE RecordLayer ----------------------------
(***************************************************************************)
(* The sending side of the record layer of one peer: which parameters      *)
(* protect a record, which (epoch, sequence number) pair it carries, and   *)
(* how handshakes replace the parameters while earlier records are still   *)
(* waiting to be retransmitted.                                            *)
(*                                                                         *)
(* CCM takes its nonce from the epoch and sequence number in the record    *)
(* header (dtls_prepare_record), so the pair must never repeat under one   *)
(* key, whatever the interleaving of first transmissions, retransmissions  *)
(* (which take a NEW sequence number from the parameters of the epoch the  *)
(* record was queued under), key changes and received records.             *)
(*                                                                         *)
(* The handshake is abstracted to what it does to the parameters: it       *)
(* computes one key block (CalculateKeyBlock), later switches to it        *)
(* (ChangeCipherSpec), and starts again only after that.  A client does    *)
(* both in one handler, a server in two.                                   *)
(***************************************************************************)
EXTENDS DtlsPeer, FiniteSets

CONSTANTS
  InitialRseq,    \* 0 for a client's peer, 1 for a server's (stateless HVR)
  MaxHandshakes,  \* bound on the key blocks computed
  MaxRecords      \* bound on the records one set of parameters protects

ASSUME InitialRseqAssumption == InitialRseq \in 0..1
ASSUME NullAssumption == NULL \notin Nat
ASSUME BoundsAssumption == MaxHandshakes \in Nat /\ MaxRecords \in Nat

VARIABLES
  sec,        \* security_params[0..1]
  pending,    \* a key block has been computed and not yet switched to
  keys,       \* number of key blocks computed so far: the k-th key is k
  queued,     \* epochs of the records waiting in the send queue
  sent,       \* nonces of the protected records sent so far
  protected   \* number of protected records sent so far

vars == <<sec, pending, keys, queued, sent, protected>>

Key == Nat \cup {NULL}
Security == [epoch : Nat, rseq : Nat, cipher : {"null", "ccm"}, key : Key]
Nonce == [key : Nat, epoch : Nat, rseq : Nat]

ASSUME NullIsNotSecurity == NULL \notin Security

TypeOK ==
  /\ sec \in [Slot -> Security \cup {NULL}]
  /\ pending \in BOOLEAN
  /\ keys \in Nat
  /\ queued \subseteq Nat
  /\ sent \subseteq Nonce
  /\ protected \in Nat

Init ==
  /\ sec = [NewSecurityParams EXCEPT ![0].rseq = InitialRseq]
  /\ pending = FALSE
  /\ keys = 0
  /\ queued = {}
  /\ sent = {}
  /\ protected = 0

NonceOf(s) == [key |-> s.key, epoch |-> s.epoch, rseq |-> s.rseq]

(* Mutant: the sequence number is not incremented.                         *)
PrepareRecordReuse(i) ==
  /\ protected < MaxRecords
  /\ IF sec[i].cipher = "null"
     THEN UNCHANGED <<sent, protected>>
     ELSE /\ sent' = sent \cup {NonceOf(sec[i])}
          /\ protected' = protected + 1
  /\ UNCHANGED sec

(* dtls_prepare_record with the parameters in slot i: the header takes the *)
(* current sequence number and increments it; a cipher other than NULL     *)
(* seals the record under that number.                                     *)
PrepareRecord(i) ==
  /\ sec[i].rseq < MaxRecords
  /\ sec' = [sec EXCEPT ![i].rseq = @ + 1]
  /\ IF sec[i].cipher = "null"
     THEN UNCHANGED <<sent, protected>>
     ELSE /\ sent' = sent \cup {NonceOf(sec[i])}
          /\ protected' = protected + 1

(* dtls_send_multi with the current parameters.  Handshake messages and    *)
(* CCS (retransmit = TRUE) are also copied to the send queue with their    *)
(* epoch.                                                                  *)
Send(retransmit) ==
  /\ PrepareRecord(0)
  /\ queued' = IF retransmit THEN queued \cup {sec[0].epoch} ELSE queued
  /\ UNCHANGED <<pending, keys>>

(* dtls_retransmit: the parameters are looked up by the queued epoch; when *)
(* they are gone the record goes out unprotected with number 0.            *)
Retransmit(epoch) ==
  /\ epoch \in queued
  /\ IF ParamsEpoch(sec, epoch) = NULL
     THEN UNCHANGED <<sec, sent, protected>>
     ELSE PrepareRecord(ParamsEpoch(sec, epoch))
  /\ UNCHANGED <<pending, keys, queued>>

(* dtls_stop_retransmission *)
StopRetransmission ==
  /\ queued' = {}
  /\ UNCHANGED <<sec, pending, keys, sent, protected>>

(* calculate_key_block: fresh parameters for the next epoch, with a key no *)
(* other handshake has (both randoms go into it).                          *)
CalculateKeyBlock ==
  /\ ~pending
  /\ keys < MaxHandshakes
  /\ keys' = keys + 1
  /\ pending' = TRUE
  /\ sec' = [ParamsNext(sec) EXCEPT ![1].cipher = "ccm", ![1].key = keys + 1,
                                    ![1].rseq = 0]
  /\ UNCHANGED <<queued, sent, protected>>

(* Mutant: switches when nothing is pending.                               *)
SwitchUnguarded ==
  /\ sec[1] # NULL
  /\ pending' = FALSE
  /\ sec' = ParamsSwitch(sec)
  /\ UNCHANGED <<keys, queued, sent, protected>>

(* dtls_security_params_switch, after the ChangeCipherSpec has been sent.  *)
ChangeCipherSpec ==
  /\ pending
  /\ pending' = FALSE
  /\ sec' = ParamsSwitch(sec)
  /\ UNCHANGED <<keys, queued, sent, protected>>

(* decrypt_verify opened a record with the parameters in slot i.           *)
DecryptVerify(i) ==
  /\ sec[i] # NULL
  /\ sec[i].cipher # "null"
  /\ sec' = ParamsFreeOther(sec)
  /\ UNCHANGED <<pending, keys, queued, sent, protected>>

Next ==
  \/ \E retransmit \in BOOLEAN : Send(retransmit)
  \/ \E epoch \in queued : Retransmit(epoch)
  \/ StopRetransmission
  \/ CalculateKeyBlock
  \/ ChangeCipherSpec
  \/ \E i \in Slot : DecryptVerify(i)

Spec == Init /\ [][Next]_vars

-----------------------------------------------------------------------------
(* Properties *)

(* No two protected records carry the same nonce: as many nonces have been *)
(* used as protected records were sent (dtls_set_record_header takes the   *)
(* number for every record, also in dtls_retransmit).                      *)
NonceUnique == Cardinality(sent) = protected

(* The side always has parameters to send with: dtls_security_params       *)
(* dereferences slot 0 without a check, and dtls_security_params_switch    *)
(* would install NULL if decrypt_verify had freed the pending parameters.  *)
CurrentParams == sec[0] # NULL

(* Every step leaves the epoch of the sending parameters alone or moves it *)
(* to the next one: what follows a CCS is one epoch later, never two, and  *)
(* the parameters never fall back to the previous ones.                    *)
EpochAdvances ==
  [][sec'[0].epoch = sec[0].epoch \/ sec'[0].epoch = sec[0].epoch + 1]_vars

(* Once a record is protected, nothing this side sends is unprotected      *)
(* again: the parameters in slot 0 keep a cipher.                          *)
StaysProtected ==
  [][sec[0].cipher # "null" => sec'[0].cipher # "null"]_vars

-----------------------------------------------------------------------------
(* The inductive invariant behind these properties. *)

(* The pending parameters exist, follow the current epoch and have a key;  *)
(* parameters in slot 1 that are not pending are those of a past epoch.    *)
SlotInv ==
  /\ sec[0] # NULL
  /\ pending => /\ sec[1] # NULL
                /\ sec[1].epoch = sec[0].epoch + 1
                /\ sec[1].cipher = "ccm"
  /\ ~pending /\ sec[1] # NULL => sec[1].epoch <= sec[0].epoch

(* A slot has a cipher exactly when it has a key; keys are numbered in the *)
(* order they were computed and no two slots share one.                    *)
KeyInv ==
  /\ \A i \in Slot : sec[i] # NULL =>
       /\ sec[i].cipher = "ccm" <=> sec[i].key # NULL
       /\ sec[i].key # NULL => sec[i].key <= keys
  /\ (sec[0] # NULL /\ sec[1] # NULL /\ sec[0].key # NULL)
       => sec[0].key # sec[1].key

(* Every nonce used under the key of a slot is below the slot's counter.   *)
NonceInv ==
  /\ \A n \in sent : n.key <= keys
  /\ \A i \in Slot : \A n \in sent :
       sec[i] # NULL /\ n.key = sec[i].key => n.rseq < sec[i].rseq

CountInv == IsFiniteSet(sent) /\ Cardinality(sent) = protected

IInv == TypeOK /\ SlotInv /\ KeyInv /\ NonceInv /\ CountInv
=============================================================================
