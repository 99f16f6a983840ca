----------------------------- MODULE DtlsAsync -----------------------------
(***************************************************************************)
(* A client and a server, each running the handlers of module Dtls, over   *)
(* UDP: a datagram may be lost, duplicated and delayed past any other, so  *)
(* the network is the set of records each side has sent, and any of them   *)
(* may be delivered at any time, again or never.  A retransmission of the  *)
(* same content under the same parameters is the same element of the set.  *)
(*                                                                         *)
(* The library has no threads and no locks: dtls_handle_message,           *)
(* dtls_check_retransmit and the calls of the application follow each      *)
(* other in one thread, so each of them is one step.                       *)
(***************************************************************************)
EXTENDS Dtls

CONSTANTS
  Uses,         \* how two applications may use the library: the callbacks
                \* each registers, the functions each calls, and a bound
                \* on the peer objects each side allocates
  Fates,        \* what reading freed memory may do
  MaxQueued,    \* bound on the nodes queued when dtls_renegotiate is called
  MaxRandoms    \* bound on the random values each side draws

Side == {"client", "server"}
Other(s) == IF s = "client" THEN "server" ELSE "client"

ASSUME UsesAssumption ==
  \A u \in Uses :
    /\ u.callbacks \in [Side -> SUBSET Callback]
    /\ u.calls \in [Side -> SUBSET {"connect", "renegotiate", "write", "close",
                                   "check_retransmit"}]
    /\ u.peers \in Nat
ASSUME BoundsAssumption == {MaxQueued, MaxRandoms} \subseteq Nat
ASSUME FatesAssumption ==
  Fates \subseteq {"crash", "stale", "reused"} /\ Fates # {}

VARIABLES
  use,    \* how the library is used
  ep,     \* the endpoints
  net,    \* net[s]: the records side s has handed to the network
  stray   \* stray[s]: CONNECTED was reported with no handshake completed

vars == <<use, ep, net, stray>>

Init ==
  /\ use \in Uses
  /\ ep = [s \in Side |-> NewEndpoint(use.callbacks[s])]
  /\ net = [s \in Side |-> {}]
  /\ stray = [s \in Side |-> FALSE]

(* The handler on side s ended with y.  A crash takes the rest of the      *)
(* handler with it.                                                        *)
Step(s, y) ==
  /\ y.peers <= use.peers
  /\ y.rnd <= MaxRandoms
  /\ UNCHANGED use
  /\ IF y.crashed
     THEN /\ ep' = [ep EXCEPT ![s].crashed = TRUE, ![s].faults = y.faults]
          /\ UNCHANGED <<net, stray>>
     ELSE /\ ep' = [ep EXCEPT ![s] = [y EXCEPT !.out = <<>>, !.ev = <<>>,
                                               !.ret = "ok",
                                               !.fate = "crash"]]
          /\ net' = [net EXCEPT ![s] = @ \cup ToSet(y.out)]
          /\ stray' = [stray EXCEPT ![s] =
                         @ \/ ("CONNECTED" \in ToSet(y.ev)
                               /\ y.done = ep[s].done)]

Running(s) == ~ep[s].crashed

(* A datagram arrives at side s. *)
Deliver(s, record, fate) ==
  /\ Running(s)
  /\ Step(s, HandleMessage([ep[s] EXCEPT !.fate = fate], record))

(* dtls_check_retransmit finds a node due.  Which one and how often is the *)
(* subject of module SendQueue.                                            *)
TimerResend(s, node, fate) ==
  /\ "check_retransmit" \in use.calls[s]
  /\ Running(s)
  /\ Step(s, Retransmit([ep[s] EXCEPT !.fate = fate], node))

(* ... or finds one due whose retransmissions are exhausted. *)
TimerGiveUp(s, i) ==
  /\ "check_retransmit" \in use.calls[s]
  /\ Running(s)
  /\ ep' = [ep EXCEPT ![s].sendqueue = RemoveAt(@, i)]
  /\ UNCHANGED <<use, net, stray>>

CallConnect ==
  /\ "connect" \in use.calls["client"]
  /\ Running("client")
  /\ ep["client"].peer = NULL
  /\ Step("client", Connect(ep["client"]))

CallRenegotiate(s) ==
  /\ "renegotiate" \in use.calls[s]
  /\ Running(s)
  /\ Len(ep[s].sendqueue) < MaxQueued
  /\ Step(s, Renegotiate(ep[s]))

CallWrite(s) ==
  /\ "write" \in use.calls[s]
  /\ Running(s)
  /\ ep[s].peer # NULL
  /\ Step(s, Write(ep[s], s))

CallClose(s) ==
  /\ "close" \in use.calls[s]
  /\ Running(s)
  /\ ep[s].peer # NULL
  /\ Step(s, Close(ep[s]))

Next ==
  \/ \E s \in Side : \E record \in net[Other(s)], fate \in Fates :
       Deliver(s, record, fate)
  \/ \E s \in Side : \E node \in ToSet(ep[s].sendqueue), fate \in Fates :
       TimerResend(s, node, fate)
  \/ \E s \in Side : \E i \in DOMAIN ep[s].sendqueue : TimerGiveUp(s, i)
  \/ CallConnect
  \/ \E s \in Side : CallRenegotiate(s)
  \/ \E s \in Side : CallWrite(s)
  \/ \E s \in Side : CallClose(s)

Spec == Init /\ [][Next]_vars

-----------------------------------------------------------------------------
(* Properties *)

(* Every endpoint is well formed between handlers: a peer plays the role   *)
(* of its side, is in a state of state.h and never without parameters to   *)
(* send with.                                                              *)
TypeOK ==
  \A s \in Side :
    /\ ep[s] \in Endpoints
    /\ ep[s].out = <<>> /\ ep[s].ev = <<>> /\ ep[s].ret = "ok"
    /\ ep[s].peers <= use.peers /\ ep[s].rnd <= MaxRandoms
    /\ \A node \in ToSet(ep[s].sendqueue) : node.peer \in 1..ep[s].peers
    /\ ep[s].peer # NULL =>
         /\ ep[s].peer.role = s
         /\ ep[s].peer.state \in States
         /\ ep[s].peer.id \in 1..ep[s].peers
         /\ ep[s].peer.sec[0] # NULL

Peer(s) == ep[s].peer
InState(s, states) == Peer(s) # NULL /\ Peer(s).state \in states

(* The handshake the two applications' callbacks call for.                 *)
Flights(cipher) ==
  LET auth == ClientAuth(ep["server"])
  IN <<"client_hello", "server_hello">>
     \o When(Ecdsa(cipher), "certificate")
     \o When(Ecdsa(cipher) \/ "psk_hint" \in ep["server"].h,
             "server_key_exchange")
     \o When(Ecdsa(cipher) /\ auth, "certificate_request")
     \o <<"server_hello_done">>
     \o When(Ecdsa(cipher) /\ auth, "certificate")
     \o <<"client_key_exchange">>
     \o When(Ecdsa(cipher) /\ auth, "certificate_verify")
     \o <<"finished">>

(* Whatever was lost, duplicated or reordered, and whatever was buffered   *)
(* and drained, a handshake completes only over exactly the messages of    *)
(* its cipher suite, each once and in order: no state of                   *)
(* handle_handshake_msg lets one be skipped or taken twice.                *)
CompleteTranscript ==
  \A s \in Side : \A d \in ep[s].done :
    [i \in DOMAIN d.hash |-> d.hash[i][1]] = Flights(d.key[3])

(* The reorder buffer never holds the message the handshake is waiting     *)
(* for: the loop of handle_handshake has taken it (a message left there    *)
(* would be refused as a duplicate when it is sent again).                 *)
DrainComplete ==
  \A s \in Side :
    InState(s, States \ {"CLOSING", "CLOSED"}) => NextBuffered(ep[s]) = {}

(* Where the code will switch to the next parameters, or has switched, they*)
(* exist, are those of the handshake in progress and follow the previous   *)
(* epoch: nothing decrypt_verify freed in between is installed.            *)
PendingParams ==
  \A s \in Side : Running(s) /\ Peer(s) # NULL =>
    /\ (s = "server" /\ InState(s, {"WAIT_FINISHED"})) =>
         /\ Peer(s).sec[1] # NULL
         /\ Peer(s).sec[1].epoch = Peer(s).sec[0].epoch + 1
         /\ Peer(s).sec[1].key = Peer(s).hs.master
    /\ (s = "client"
        /\ InState(s, {"WAIT_CHANGECIPHERSPEC", "WAIT_FINISHED"})) =>
         Peer(s).sec[0].key = Peer(s).hs.master

(* Neither application renegotiates.                                       *)
Steady == \A s \in Side : "renegotiate" \notin use.calls[s]

(* As long as nobody renegotiates, what waits to be retransmitted can be:  *)
(* the parameters of its epoch are still there (dtls_retransmit sends it   *)
(* unprotected otherwise), although every protected record frees those     *)
(* that are not its own.                                                   *)
NodesHaveParams ==
  Steady => \A s \in Side : \A node \in ToSet(ep[s].sendqueue) :
    Live(ep[s], node) => ParamsEpoch(Peer(s).sec, node.epoch) # NULL

(* A side that is connected and not renegotiating has nothing of this      *)
(* association left to retransmit.                                         *)
ConnectedQuiet ==
  \A s \in Side :
    InState(s, {"CONNECTED"}) /\ Peer(s).hs = NULL =>
      \A node \in ToSet(ep[s].sendqueue) : ~Live(ep[s], node)

(* Application data is never on the wire unprotected, and a Finished only  *)
(* under the key it authenticates.                                         *)
Protected ==
  \A s \in Side : \A record \in net[s] :
    /\ record.ct = "application_data" => record.key # NULL
    /\ (record.ct = "handshake" /\ record.msg.ht = "finished") =>
         record.key = record.msg.verify[2]

(* A peer object that is closing stays so until it is freed: no message of *)
(* an old or a new handshake brings it back.                               *)
ClosingStays ==
  [][\A s \in Side :
       (InState(s, {"CLOSING", "CLOSED"}) /\ Peer(s)' # NULL
        /\ Peer(s)'.id = Peer(s).id)
         => Peer(s)'.state \in {"CLOSING", "CLOSED"}]_vars

(* The handshake implements SessionAgreement.                              *)
Agreement == INSTANCE SessionAgreement WITH
  completed <- [s \in Side |-> ep[s].done],
  active <- [s \in Side |-> IF InState(s, {"CONNECTED"})
                            THEN Peer(s).sec[0].key ELSE NULL]
AgreementSpec == Agreement!Spec

(* alert.h: CONNECTED is reported when a handshake has finished.           *)
ConnectedMeansFinished == \A s \in Side : ~stray[s]

(* netq_insert_node asserts that it is given a queue.                      *)
QueueExists == \A s \in Side : "null_queue" \notin ep[s].faults
=============================================================================
