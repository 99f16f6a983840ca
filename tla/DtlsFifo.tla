------------------------------ MODULE DtlsFifo ------------------------------
(***************************************************************************)
(* Does a handshake end?  The endpoints of module Dtls over a network that *)
(* keeps the order and loses a bounded number of datagrams, with the       *)
(* retransmission timer: liveness, under fairness of the network and of an *)
(* application loop that calls dtls_check_retransmit, as dtls.h asks.      *)
(*                                                                         *)
(* The timers (2 s and more) are taken to be longer than the round trip,   *)
(* so nodes are due only when nothing is in flight; the nodes of a flight  *)
(* were queued by one handler and are due together, in queue order         *)
(* (SendQueue shows this for one association).                             *)
(***************************************************************************)
EXTENDS Dtls

CONSTANTS
  Callbacks,               \* the callbacks the two applications may register
  Lossy,                   \* the kinds of records that may be lost
  MaxLosses,               \* bound on the records lost
  MaxRetransmit            \* DTLS_DEFAULT_MAX_RETRANSMIT

Side == {"client", "server"}
Other(s) == IF s = "client" THEN "server" ELSE "client"

ASSUME RetransmitAssumption == MaxRetransmit \in Nat /\ MaxLosses \in Nat

VARIABLES
  ep,      \* the endpoints
  chan,    \* chan[s]: the records of side s in flight, oldest first
  tries,   \* tries[s]: retransmit_cnt of the nodes in the send queue of s
  losses,  \* records lost so far
  turn     \* turn[s]: parity of the turns the loop of side s has taken

vars == <<ep, chan, tries, losses, turn>>

Init ==
  /\ \E h \in Callbacks : ep = [s \in Side |-> NewEndpoint(h[s])]
  /\ chan = [s \in Side |-> <<>>]
  /\ tries = [s \in Side |-> 0]
  /\ losses = 0
  /\ turn = [s \in Side |-> 0]

Running(s) == ~ep[s].crashed

(* The loop of side s has something to do: to call dtls_connect, to        *)
(* receive a record or to serve its send queue, in the single thread that  *)
(* runs the library.  Nodes are due when nothing is in flight.             *)
Starts(s) == s = "client" /\ ep[s].peers = 0
Receives(s) == Running(s) /\ chan[Other(s)] # <<>>
Due(s) ==
  Running(s) /\ ep[s].sendqueue # <<>> /\ (\A side \in Side : chan[side] = <<>>)

Turn(s) ==
  /\ Starts(s) \/ Receives(s) \/ Due(s)
  /\ turn' = [turn EXCEPT ![s] = 1 - @]

(* The handler on side s ended with y; inflight is what the channels hold  *)
(* without its output, cnt the count of what it leaves in the send queue.  *)
Step(s, y, inflight, cnt) ==
  /\ ep' = [ep EXCEPT ![s] =
              IF y.crashed THEN [@ EXCEPT !.crashed = TRUE]
              ELSE [y EXCEPT !.out = <<>>, !.ev = <<>>, !.ret = "ok",
                             !.done = {}]]
  /\ chan' = [inflight EXCEPT ![s] = IF y.crashed THEN @ ELSE @ \o y.out]
  /\ tries' = [tries EXCEPT ![s] = cnt]

Connects ==
  /\ Starts("client")
  /\ Turn("client")
  /\ Step("client", Connect(ep["client"]), chan, 0)
  /\ UNCHANGED losses

(* The next record arrives at s.  What a handler leaves in the send queue  *)
(* is either untouched or a new flight.                                    *)
Receive(s) ==
  /\ Receives(s)
  /\ Turn(s)
  /\ \E y \in {HandleMessage(ep[s], Head(chan[Other(s)]))} :
       Step(s, y, [chan EXCEPT ![Other(s)] = Tail(@)],
            IF y.sendqueue = ep[s].sendqueue THEN tries[s] ELSE 0)
  /\ UNCHANGED losses

Kind(s, record) ==
  <<s, IF record.ct = "handshake" THEN record.msg.ht ELSE record.ct>>

Lose(s) ==
  /\ losses < MaxLosses
  /\ chan[s] # <<>>
  /\ Kind(s, Head(chan[s])) \in Lossy
  /\ losses' = losses + 1
  /\ chan' = [chan EXCEPT ![s] = Tail(@)]
  /\ UNCHANGED <<ep, tries, turn>>

(* dtls_check_retransmit with the whole queue due: every node is sent      *)
(* again and goes to the end ...                                           *)
Resend(s) ==
  /\ Due(s)
  /\ Turn(s)
  /\ tries[s] < MaxRetransmit
  /\ LET Next1(y, node) == [Retransmit(y, node) EXCEPT !.out = y.out \o @]
     IN Step(s, FoldLeft(Next1, ep[s], ep[s].sendqueue), chan, tries[s] + 1)
  /\ UNCHANGED losses

(* ... or every node is dropped. *)
GiveUp(s) ==
  /\ Due(s)
  /\ Turn(s)
  /\ tries[s] = MaxRetransmit
  /\ ep' = [ep EXCEPT ![s].sendqueue = <<>>]
  /\ tries' = [tries EXCEPT ![s] = 0]
  /\ UNCHANGED <<chan, losses>>

Next ==
  \/ Connects
  \/ \E s \in Side : Receive(s) \/ Lose(s) \/ Resend(s) \/ GiveUp(s)

(* Every step of the loop of side s is a Turn(s), and no other step is, so *)
(* this is fairness of the loop: it goes on as long as there is something  *)
(* to do.                                                                  *)
Spec == Init /\ [][Next]_vars /\ \A s \in Side : WF_turn(Turn(s))

-----------------------------------------------------------------------------
(* Properties *)

InState(s, states) == ep[s].peer # NULL /\ ep[s].peer.state \in states

(* When only messages the timers can replace are lost, and no more of them *)
(* than a message is retransmitted, both sides become connected and stay   *)
(* so.                                                                     *)
EventuallyConnected ==
  \/ <>(losses > MaxRetransmit)
  \/ <>[](\A s \in Side : InState(s, {"CONNECTED"}))

(* A handshake ends: each side gets connected, closes or drops its peer.   *)
HandshakeEnds ==
  \A s \in Side :
    [](ep[s].peer # NULL => <>(\/ ep[s].peer = NULL
                               \/ InState(s, {"CONNECTED", "CLOSING"})))
=============================================================================
