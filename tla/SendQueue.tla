------------------------------ MODULE SendQueue ------------------------------
(***************************************************************************)
(* The retransmission timer: ctx->sendqueue as netq.c keeps it, served by  *)
(* the application with dtls_check_retransmit or, on Contiki, by           *)
(* dtls_retransmit_process, for one context with several peers.            *)
(*                                                                         *)
(* Time is relative: rem is the time until a node is due (node->t - now,   *)
(* 0 once it is due), in units of CLOCK_SECOND.  A node stands for its     *)
(* message by its number, in the order they were queued; what it is worth  *)
(* to the receiver is the subject of module Dtls.  idle is history: the    *)
(* time since the node was last sent.                                      *)
(***************************************************************************)
EXTENDS Naturals, SequencesExt

CONSTANTS
  Peers,          \* the peers there may be
  Uses,           \* which of them there are, for which of them the
                  \* application calls dtls_renegotiate, and what serves
                  \* the queue: an application that polls it as soon as a
                  \* node is due, one that polls it late, or the process
  MaxRetransmit,  \* DTLS_DEFAULT_MAX_RETRANSMIT (7; here less)
  MaxNodes,       \* nodes that can be allocated (NETQ_MAXCNT)
  MaxFlight,      \* bound on the messages of a flight
  MaxFlights      \* bound on the flights and calls altogether

ASSUME QueueAssumption ==
  /\ {MaxRetransmit, MaxNodes, MaxFlight, MaxFlights} \subseteq Nat
  /\ MaxFlight > 0    \* dtls_renegotiate alone sends one message
  /\ Uses \subseteq [peers : SUBSET Peers, callers : SUBSET Peers,
                     served : {"punctual", "late", "contiki"}]

VARIABLES
  use,      \* how the context is used
  queue,    \* the send queue, head first
  etimer,   \* ctx->retransmit_timer: time until it expires (Contiki)
  flights   \* flights and calls so far

vars == <<use, queue, etimer, flights>>

Timeout == 2    \* 2 * CLOCK_SECOND

(* How long a node waits that has been sent again k times:                 *)
(* node->timeout << node->retransmit_cnt.                                  *)
Interval[k \in Nat] == IF k = 0 THEN Timeout ELSE 2 * Interval[k - 1]

Longest == Interval[MaxRetransmit]
Latest == Longest + Timeout * MaxFlights
Idle == Longest + 1    \* 0xFFFF ticks, which outlast every interval
Contiki == use.served = "contiki"

Init == use \in Uses /\ queue = <<>> /\ etimer = Idle /\ flights = 0

(* Mutant: also stops at nodes due at the same time.                       *)
InsertBeforeEqual(q, node) ==
  LET stop == {i \in DOMAIN q : q[i].rem >= node.rem} \cup {Len(q)}
  IN InsertAt(q, Min(stop) + 1, node)

(* netq_insert_node: past every node due no later, as long as there is a   *)
(* next one, and then behind the node reached.                             *)
Insert(q, node) ==
  LET stop == {i \in DOMAIN q : q[i].rem > node.rem} \cup {Len(q)}
  IN InsertAt(q, Min(stop) + 1, node)

(* A node that has just been sent for the first time. *)
Fresh(p, i) == [peer |-> p, num |-> i, rem |-> Timeout, cnt |-> 0, idle |-> 0]

(* Mutant: copies it even if no node is left.                              *)
SendMultiUnlimited(q, p, i) == Insert(q, Fresh(p, i))

(* dtls_send_multi copies a message while a node can be allocated.         *)
SendMulti(q, p, i) ==
  IF Len(q) = MaxNodes THEN q ELSE Insert(q, Fresh(p, i))

(* The queue after a flight of n messages: each handshake message of the   *)
(* flight is sent with dtls_send_multi.                                    *)
Flight(before, p, n) ==
  LET q[i \in 0..n] ==
        IF i = 0 THEN before
        ELSE SendMulti(q[i - 1], p, flights * MaxFlight + i)
  IN q[n]

(* dtls_stop_retransmission: what remains of the first i nodes. *)
StopRetransmission(q, p) ==
  LET kept[i \in 0..Len(q)] ==
        IF i = 0 THEN <<>>
        ELSE IF q[i].peer = p THEN kept[i - 1] ELSE Append(kept[i - 1], q[i])
  IN kept[Len(q)]

(* Mutants of dtls_retransmit: the interval is that of the count before    *)
(* the increment; the count is not incremented.                            *)
RetransmitEarly(q, node) ==
  IF node.cnt < MaxRetransmit
  THEN Insert(q, [node EXCEPT !.cnt = @ + 1, !.idle = 0,
                              !.rem = Interval[node.cnt]])
  ELSE q
RetransmitForever(q, node) ==
  Insert(q, [node EXCEPT !.idle = 0, !.rem = Interval[node.cnt + 1]])

(* A node that is sent once more. *)
Again(node) ==
  [node EXCEPT !.cnt = @ + 1, !.idle = 0, !.rem = Interval[node.cnt + 1]]

(* dtls_retransmit of a node taken from q. *)
Retransmit(q, node) ==
  IF node.cnt < MaxRetransmit THEN Insert(q, Again(node)) ELSE q

(* The head is taken from the queue and sent again, if it is due. *)
Turn(q) ==
  IF q # <<>> /\ Head(q).rem = 0 THEN Retransmit(Tail(q), Head(q)) ELSE q

(* dtls_send_multi sets the one timer for each message it has copied, also *)
(* if a node that waits is due earlier.                                    *)
SetEtimer(before, after) ==
  IF Contiki /\ Len(after) > Len(before) THEN Timeout ELSE etimer

(* The loop of dtls_check_retransmit.  A node it has sent again is not due *)
(* any more, so it ends after as many turns as there are nodes, at most.   *)
CheckRetransmit ==
  LET q[i \in 0..Len(queue)] == IF i = 0 THEN queue ELSE Turn(q[i - 1])
  IN q[Len(queue)]

-----------------------------------------------------------------------------
(* Actions *)

(* A handshake message arrives: handle_handshake_msg stops what it answers *)
(* and sends a flight of n messages, none when it only waits for more.     *)
HandshakeMsg(p, n) ==
  /\ flights < MaxFlights
  /\ flights' = flights + 1
  /\ LET stopped == StopRetransmission(queue, p)
     IN /\ queue' = Flight(stopped, p, n)
        /\ etimer' = SetEtimer(stopped, queue')
  /\ UNCHANGED use

(* dtls_renegotiate sends one message and stops nothing. *)
Renegotiate(p) ==
  /\ flights < MaxFlights
  /\ flights' = flights + 1
  /\ queue' = SendMulti(queue, p, flights * MaxFlight + 1)
  /\ etimer' = SetEtimer(queue, queue')
  /\ UNCHANGED use

(* The application calls dtls_check_retransmit. *)
Check ==
  /\ ~Contiki
  /\ queue # <<>>
  /\ queue' = CheckRetransmit
  /\ UNCHANGED <<use, etimer, flights>>

(* Mutant: the timer is set for the node that has been sent.               *)
ProcessSetsFirst ==
  /\ Contiki
  /\ etimer = 0
  /\ queue' = Turn(queue)
  /\ etimer' = IF queue = <<>> THEN Idle ELSE Interval[Head(queue).cnt + 1]
  /\ UNCHANGED <<use, flights>>

(* The timer of dtls_retransmit_process expires: it sends one node if the  *)
(* head is due and sets the timer for the next, to one tick (less than a   *)
(* unit of this module) when that is due as well.                          *)
RetransmitProcess ==
  /\ Contiki
  /\ etimer = 0
  /\ queue' = Turn(queue)
  /\ etimer' = IF queue' = <<>> THEN Idle ELSE Head(queue').rem
  /\ UNCHANGED <<use, flights>>

(* One unit of time passes.  A punctual application does not let it pass   *)
(* while the head of the queue is due, nor Contiki while the timer is.     *)
Tick ==
  /\ queue # <<>>
  /\ use.served = "punctual" => Head(queue).rem > 0
  /\ Contiki => etimer > 0
  /\ queue' = [i \in DOMAIN queue |->
                 [queue[i] EXCEPT !.rem = IF @ = 0 THEN 0 ELSE @ - 1,
                                  !.idle = IF @ > Latest THEN @ ELSE @ + 1]]
  /\ etimer' = IF Contiki THEN etimer - 1 ELSE etimer
  /\ UNCHANGED <<use, flights>>

Next ==
  \/ \E p \in use.peers, n \in 0..MaxFlight : HandshakeMsg(p, n)
  \/ \E p \in use.callers : Renegotiate(p)
  \/ Check
  \/ RetransmitProcess
  \/ Tick

(* Time passes, and the application keeps calling dtls_check_retransmit,   *)
(* as dtls.h asks it to, or the scheduler of Contiki runs the process.     *)
Spec == /\ Init /\ [][Next]_vars
        /\ WF_vars(Tick) /\ WF_vars(Check) /\ WF_vars(RetransmitProcess)

-----------------------------------------------------------------------------
(* Properties *)

Node == [peer : Peers, num : 1..(MaxFlights * MaxFlight), rem : 0..Longest,
         cnt : 0..MaxRetransmit, idle : Nat]

TypeOK ==
  /\ use \in Uses
  /\ queue \in Seq(Node)
  /\ Len(queue) <= MaxNodes
  /\ etimer \in 0..Idle
  /\ flights \in 0..MaxFlights

(* netq.h: nodes are ordered by their time-stamp t. *)
Ordered == \A i, j \in DOMAIN queue : i < j => queue[i].rem <= queue[j].rem

(* With one peer, and no renegotiation in the middle of a handshake, the   *)
(* insertion of netq.c does keep the order, however late nodes come back,  *)
(* and the messages of a flight that are due together are sent again in    *)
(* the order of the flight, however often they went round the queue: the   *)
(* receiver destroys its peer when a Finished overtakes ChangeCipherSpec.  *)
Alone == use.peers = {CHOOSE p \in use.peers : TRUE} /\ use.callers = {}
FlightOrder ==
  Alone => \A i, j \in DOMAIN queue :
    i < j => \/ queue[i].rem < queue[j].rem
             \/ queue[i].rem = queue[j].rem /\ queue[i].num < queue[j].num

(* Exponential backoff: between its k-th and its next transmission a node  *)
(* waits at least 2^k timeouts, however late or often the queue is served  *)
(* and wherever netq_insert_node put it.                                   *)
Backoff ==
  [][Check \/ RetransmitProcess => \A i, j \in DOMAIN queue :
       (i \in DOMAIN queue /\ j \in DOMAIN queue'
        /\ queue'[j].num = queue[i].num
        /\ queue'[j].cnt = queue[i].cnt + 1)
         => queue[i].idle >= Interval[queue[i].cnt]]_vars

(* With an application that polls in time no node waits longer than the    *)
(* longest interval, even one that netq_insert_node put behind a later     *)
(* one.  On Contiki each message queued meanwhile may postpone it by one   *)
(* timeout, since the timer is shared, and by no more.                     *)
Latency ==
  use.served # "late" =>
    \A i \in DOMAIN queue :
      queue[i].idle <= Longest + (IF Contiki THEN Timeout * flights ELSE 0)

(* Retransmission ends: once no new flights are sent, the queue empties    *)
(* for good.                                                               *)
Drains == <>[](queue = <<>>)
=============================================================================
