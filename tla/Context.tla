------------------------------- MODULE Context -------------------------------
(***************************************************************************)
(* One dtls_context_t with several peers: who owns peers, handshake        *)
(* parameters and queue nodes while records, failures and the application  *)
(* take turns.  The three kinds of object come from fixed pools, which     *)
(* keep the contents of what is freed (the Contiki build; elsewhere they   *)
(* are blocks of malloc).  The event and read callbacks may call back into *)
(* the library: a handler is then suspended in "frame" and goes on when    *)
(* the callback returns.  Dtls has the handshake in detail, here a peer is *)
(* only known to be in it.                                                 *)
(***************************************************************************)
EXTENDS Naturals

CONSTANTS
  Sessions,   \* addresses of remote sides
  Peers,      \* peer_storage
  Params,     \* handshake_storage
  Nodes,      \* netq_storage
  None,       \* NULL
  Lost        \* where a node is that no queue has any more

ASSUME DistinctAssumption ==
  None \notin Peers \cup Params \cup Nodes \cup Sessions /\ Lost \notin Peers \cup {None}

VARIABLES
  slot,    \* contents of each peer object, also of free ones
  live,    \* allocated peer objects
  table,   \* ctx->peers
  params,  \* allocated handshake parameters
  node,    \* the peer a node in ctx->sendqueue refers to; None: free
  frame    \* the handler in progress, and its local variables

vars == <<slot, live, table, params, node, frame>>

States == {"INIT", "HANDSHAKE", "CONNECTED", "CLOSING"} \* no peer stays CLOSED
Slots == [session : Sessions \cup {None}, role : {"client", "server"},
          state : States, hs : Params \cup {None}]
(* at: "app", or the handler's loop over the records of a datagram, or the *)
(* application called from there, or called from handle_alert.             *)
Frames == [at : {"app", "record", "callback", "alert"},
           session : Sessions \cup {None}, peer : Peers \cup {None},
           close : BOOLEAN, hello : BOOLEAN]
App == [at |-> "app", session |-> None, peer |-> None, close |-> FALSE, hello |-> FALSE]

TypeOK == /\ slot \in [Peers -> Slots]
          /\ live \subseteq Peers
          /\ table \subseteq Peers
          /\ params \subseteq Params
          /\ node \in [Nodes -> Peers \cup {None, Lost}]
          /\ frame \in Frames

Init == /\ slot \in [Peers -> {[session |-> None, role |-> "client",
                                state |-> "INIT", hs |-> None]}]
        /\ live = {} /\ table = {} /\ params = {}
        /\ node = [n \in Nodes |-> None]
        /\ frame = App

-----------------------------------------------------------------------------
(* Helpers *)

Find(s) == {p \in table : slot[p].session = s}
(* dtls_get_peer.  When a session has two peers, the build decides which   *)
(* it finds: the oldest of a list, or one of the chain of a hash bucket.   *)
Found(s) == IF Find(s) = {} THEN {None} ELSE Find(s)

(* A handshake message queued for p, if a node is free. *)
Queued(old, p) ==
  IF \E n \in Nodes : old[n] = None
  THEN LET n == CHOOSE n \in Nodes : old[n] = None IN [old EXCEPT ![n] = p]
  ELSE old
(* Nodes are told apart by the session their peer object contains now.     *)
Stopped(p) ==
  [n \in Nodes |-> IF node[n] \in Peers /\ slot[node[n]].session = slot[p].session
                   THEN None ELSE node[n]]

(* What a free object contains is read only for its session. *)
Freed(old, p) == [old EXCEPT ![p] = [session |-> old[p].session, role |-> "client",
                                     state |-> "INIT", hs |-> None]]
(* dtls_free_peer *)
Free(p) == /\ live' = live \ {p}
           /\ params' = params \ {slot[p].hs}

AppRuns == frame.at \in {"app", "callback", "alert"}
Return == frame' = App
CallBack == frame' = [frame EXCEPT !.at = "callback"]

(* Handshake parameters x for a peer, None when the pool is empty. *)
Allocated(x) == x \in Params \ params \/ (x = None /\ params = Params)
Taken(x) == params' = IF x = None THEN params ELSE params \cup {x}

-----------------------------------------------------------------------------
(* The application *)

(* Mutant: always a new peer.                                              *)
DtlsConnectNew(s) ==
  \E p \in Peers \ live, x \in Params \cup {None} :
    /\ Allocated(x) /\ Taken(x)
    /\ live' = live \cup {p}
    /\ table' = table \cup {p}
    /\ slot' = [slot EXCEPT ![p] = [session |-> s, role |-> "client", hs |-> x,
                                    state |-> IF x = None THEN "INIT" ELSE "HANDSHAKE"]]
    /\ UNCHANGED <<node, frame>>

(* dtls_connect for a session without a peer, also called by dtls_write.   *)
(* When there are no parameters or the write callback fails, the peer      *)
(* stays in the table in its initial state, and the message in the queue.  *)
DtlsConnect(s) ==
  /\ Find(s) = {}
  /\ \E p \in Peers \ live, x \in Params \cup {None}, sent \in BOOLEAN :
       /\ Allocated(x) /\ Taken(x)
       /\ live' = live \cup {p}
       /\ table' = table \cup {p}
       /\ slot' = [slot EXCEPT ![p] =
            [session |-> s, role |-> "client", hs |-> x,
             state |-> IF x # None /\ sent THEN "HANDSHAKE" ELSE "INIT"]]
       /\ node' = IF x = None THEN node ELSE Queued(node, p)
       /\ UNCHANGED frame

(* dtls_renegotiate, also called by dtls_connect.  Parameters of a         *)
(* handshake that is pending are overwritten, with NULL if need be.        *)
DtlsRenegotiate(p) ==
  /\ p \in table
  /\ slot[p].state = "CONNECTED"
  /\ \E x \in Params \cup {None}, sent \in BOOLEAN :
       /\ Allocated(x) /\ Taken(x)
       /\ slot' = [slot EXCEPT ![p].hs = x,
                     ![p].state = IF x # None /\ sent /\ slot[p].role = "client"
                                  THEN "HANDSHAKE" ELSE @]
       /\ node' = IF x = None THEN node ELSE Queued(node, p)
  /\ UNCHANGED <<live, table, frame>>

DtlsClose(p) ==
  /\ p \in table
  /\ slot' = [slot EXCEPT ![p].state = "CLOSING"]
  /\ UNCHANGED <<live, table, params, node, frame>>

(* The application may call these from its loop and from its callbacks.    *)
Call == /\ AppRuns
        /\ \/ \E s \in Sessions : DtlsConnect(s)
           \/ \E p \in Peers : DtlsRenegotiate(p) \/ DtlsClose(p)

(* dtls_free_context and a new context: the nodes of the old queue are     *)
(* neither freed nor in the new one.                                       *)
FreeContext ==
  /\ frame.at = "app"
  /\ live' = live \ table
  /\ table' = {}
  /\ params' = params \ {slot[p].hs : p \in table}
  /\ slot' = [p \in Peers |-> IF p \in table THEN Freed(slot, p)[p] ELSE slot[p]]
  /\ node' = [n \in Nodes |-> IF node[n] = None THEN None ELSE Lost]
  /\ UNCHANGED frame

(* The timer drops a node after its last retransmission. *)
GiveUp == /\ frame.at = "app"
          /\ \E n \in Nodes : node[n] \in Peers /\ node' = [node EXCEPT ![n] = None]
          /\ UNCHANGED <<slot, live, table, params, frame>>

-----------------------------------------------------------------------------
(* dtls_handle_message *)

(* The peer is looked up once for all records of the datagram. *)
Receive ==
  /\ frame.at = "app"
  /\ \E s \in Sessions : \E p \in Found(s) :
       frame' = [App EXCEPT !.at = "record", !.session = s, !.peer = p]
  /\ UNCHANGED <<slot, live, table, params, node>>

NoMoreRecords ==
  /\ frame.at = "record"
  /\ Return
  /\ UNCHANGED <<slot, live, table, params, node>>

CallbackReturns ==
  /\ frame.at = "callback"
  /\ frame' = [frame EXCEPT !.at = "record"]
  /\ UNCHANGED <<slot, live, table, params, node>>

(* The local variable peer of the handler is p. *)
With(p) == frame.at = "record" /\ frame.peer = p
Without == frame.at = "record" /\ frame.peer = None

(* Mutant: dtls_destroy_peer without unlink.                               *)
DestroyLinked(p) ==
  /\ UNCHANGED table
  /\ slot' = Freed(slot, p)
  /\ Free(p)

(* dtls_destroy_peer of a peer that is closing or closed, with unlink.     *)
Destroy(p) ==
  /\ table' = table \ {p}
  /\ slot' = Freed(slot, p)
  /\ Free(p)

(* Mutant: a connected peer is destroyed as well.                          *)
DecryptDestroys(p) ==
  /\ With(p)
  /\ Destroy(p)
  /\ Return
  /\ UNCHANGED node

(* A record that does not open. *)
DecryptFails(p) ==
  /\ With(p)
  /\ IF slot[p].state \in {"INIT", "HANDSHAKE"}
     THEN Destroy(p)
     ELSE UNCHANGED <<slot, live, table, params>>
  /\ Return
  /\ UNCHANGED node

(* Mutant: the handler goes on with the next record.                       *)
CcsContinues(p) ==
  /\ With(p)
  /\ node' = Stopped(p)
  /\ slot[p].state = "HANDSHAKE"
  /\ Destroy(p)
  /\ UNCHANGED frame

(* A ChangeCipherSpec that is malformed or whose key block cannot be       *)
(* computed destroys the peer; any other stops retransmission at least.    *)
HandleCcs(p) ==
  /\ With(p)
  /\ node' = Stopped(p)
  /\ \/ slot[p].state = "HANDSHAKE" /\ Destroy(p) /\ Return
     \/ UNCHANGED <<slot, live, table, params, frame>>

(* A fatal alert or a close_notify unlinks the peer before the callback.   *)
HandleAlert(p) ==
  /\ With(p)
  /\ node' = Stopped(p)
  /\ \/ /\ table' = table \ {p}
        /\ \E close \in BOOLEAN :
             frame' = [frame EXCEPT !.at = "alert", !.close = close]
     \/ UNCHANGED table /\ CallBack
  /\ UNCHANGED <<slot, live, params>>

(* handle_alert after the callback.  dtls_destroy_peer closes the session  *)
(* of a peer that is not closing, and so any peer that the callback has    *)
(* opened for it; the messages of that peer are stopped in any case.       *)
AlertReturns(p) ==
  /\ frame.at = "alert" /\ frame.peer = p
  /\ \E new \in Found(slot[p].session) :
       LET closed == IF ~frame.close /\ slot[p].state # "CLOSING" /\ new # None
                     THEN [slot EXCEPT ![new].state = "CLOSING"] ELSE slot
       IN slot' = Freed(closed, p)
  /\ node' = Stopped(p)
  /\ Free(p)
  /\ Return
  /\ UNCHANGED table

(* dtls_alert_send_from_err *)
Fail(p) == slot' = [slot EXCEPT ![p].state = "CLOSING"]

(* A message that is not acceptable to handle_handshake_msg. *)
HandshakeFails(p) ==
  /\ With(p)
  /\ Fail(p)
  /\ node' = Stopped(p)
  /\ Return
  /\ UNCHANGED <<live, table, params>>

(* A message of the handshake, answered by a flight or not. *)
HandshakeAdvances(p) ==
  /\ With(p)
  /\ slot[p].hs # None
  /\ slot[p].state = "HANDSHAKE"
  /\ node' \in {Stopped(p), Queued(Stopped(p), p)}
  /\ UNCHANGED <<slot, live, table, params, frame>>

(* A ServerKeyExchange is taken in every state as long as no cipher suite  *)
(* has been chosen, and moves the peer into the handshake.  Which peers    *)
(* have chosen one is left open here.                                      *)
KeyExchangeWithoutSuite(p) ==
  /\ With(p)
  /\ slot[p].hs # None
  /\ slot' = [slot EXCEPT ![p].state = "HANDSHAKE"]
  /\ node' = Stopped(p)
  /\ UNCHANGED <<live, table, params, frame>>

(* Mutant: the parameters are freed, but the pointer to them is kept.      *)
FinishedKeepsPointer(p) ==
  /\ With(p)
  /\ slot[p].hs # None
  /\ slot[p].state = "HANDSHAKE"
  /\ slot' = [slot EXCEPT ![p].state = "CONNECTED"]
  /\ params' = params \ {slot[p].hs}
  /\ node' = Stopped(p)
  /\ CallBack
  /\ UNCHANGED <<live, table>>

(* Mutant: the parameters are kept.                                        *)
FinishedKeepsParams(p) ==
  /\ With(p)
  /\ slot[p].hs # None
  /\ slot[p].state = "HANDSHAKE"
  /\ slot' = [slot EXCEPT ![p].state = "CONNECTED", ![p].hs = None]
  /\ node' = Stopped(p)
  /\ CallBack
  /\ UNCHANGED <<live, table, params>>

(* The Finished that ends the handshake. *)
HandshakeFinishes(p) ==
  /\ With(p)
  /\ slot[p].hs # None
  /\ slot[p].state = "HANDSHAKE"
  /\ slot' = [slot EXCEPT ![p].state = "CONNECTED", ![p].hs = None]
  /\ params' = params \ {slot[p].hs}
  /\ node' = Stopped(p)
  /\ CallBack
  /\ UNCHANGED <<live, table>>

(* Any other handshake record of a connected peer is reported as if it     *)
(* had ended a handshake.                                                  *)
HandshakeIgnored(p) ==
  /\ With(p)
  /\ slot[p].state = "CONNECTED"
  /\ node' = Stopped(p)
  /\ CallBack
  /\ UNCHANGED <<slot, live, table, params>>

(* Mutant: the state is set although there are no parameters.              *)
RestartUnchecked(p) ==
  /\ With(p)
  /\ slot[p].state = "CONNECTED"
  /\ \E x \in Params \cup {None} :
       /\ IF slot[p].hs # None THEN x = slot[p].hs /\ UNCHANGED params
          ELSE Allocated(x) /\ Taken(x)
       /\ slot' = [slot EXCEPT ![p].hs = x, ![p].state = "HANDSHAKE"]
       /\ node' = Queued(Stopped(p), p)
  /\ UNCHANGED <<live, table, frame>>

(* A ClientHello with a good cookie, or a HelloRequest, starts another     *)
(* handshake of a connected peer; without parameters, with a hello that    *)
(* cannot be agreed on or with a write that fails the peer is closing.     *)
HandshakeRestarts(p) ==
  /\ With(p)
  /\ slot[p].state = "CONNECTED"
  /\ \E x \in Params \cup {None}, sent \in BOOLEAN :
       /\ IF slot[p].hs # None THEN x = slot[p].hs /\ UNCHANGED params
          ELSE Allocated(x) /\ Taken(x)
       /\ IF x # None /\ sent
          THEN slot' = [slot EXCEPT ![p].hs = x, ![p].state = "HANDSHAKE"] /\ UNCHANGED frame
          ELSE slot' = [slot EXCEPT ![p].hs = x, ![p].state = "CLOSING"] /\ Return
       /\ node' \in IF x = None THEN {Stopped(p)}
                    ELSE {Stopped(p), Queued(Stopped(p), p)}
  /\ UNCHANGED <<live, table>>

(* A ClientHello with a good cookie from a session the handler has no peer *)
(* for.  The handler's own variable stays NULL for the next record: another*)
(* ClientHello of the same datagram creates another peer.                  *)
NewServer(s) ==
  /\ Without /\ frame.session = s
  /\ \E p \in Peers \ live, x \in Params \cup {None}, sent \in BOOLEAN :
       /\ Allocated(x) /\ Taken(x)
       /\ live' = live \cup {p}
       /\ table' = table \cup {p}
       /\ LET ok == x # None /\ sent
          IN /\ slot' = [slot EXCEPT ![p] =
                  [session |-> s, role |-> "server", hs |-> x,
                   state |-> IF ok THEN "HANDSHAKE" ELSE "CLOSING"]]
             /\ frame' = IF ok THEN [frame EXCEPT !.hello = TRUE] ELSE App
       /\ node' \in IF x = None THEN {node} ELSE {node, Queued(node, p)}

(* Any error without a local peer closes the peer in the table, if an      *)
(* earlier record has put one there.                                       *)
ErrorWithout(s) ==
  /\ Without /\ frame.session = s
  /\ \E q \in Found(s) : IF q = None THEN UNCHANGED slot ELSE Fail(q)
  /\ Return
  /\ UNCHANGED <<live, table, params, node>>

ApplicationData(p) ==
  /\ With(p)
  /\ node' = Stopped(p)
  /\ CallBack
  /\ UNCHANGED <<slot, live, table, params>>

HandleRecord(p) ==
  \/ DecryptFails(p) \/ HandleCcs(p) \/ HandleAlert(p) \/ AlertReturns(p)
  \/ HandshakeFails(p) \/ HandshakeAdvances(p) \/ KeyExchangeWithoutSuite(p)
  \/ HandshakeFinishes(p) \/ HandshakeIgnored(p) \/ HandshakeRestarts(p) \/ ApplicationData(p)

Next == \/ Call \/ FreeContext \/ GiveUp
        \/ Receive \/ NoMoreRecords \/ CallbackReturns
        \/ \E p \in Peers : HandleRecord(p)
        \/ \E s \in Sessions : NewServer(s) \/ ErrorWithout(s)

Spec == Init /\ [][Next]_vars

-----------------------------------------------------------------------------
(* Properties *)

(* Violated: a session has one peer at most, so that what dtls_get_peer    *)
(* returns is "the peer associated with session" (dtls.h).                 *)
OneSession == \A p, q \in table : slot[p].session = slot[q].session => p = q

(* Whatever callbacks do in the middle of a handler, a session that has a  *)
(* peer gets another only from a further ClientHello of the datagram that  *)
(* created the first.                                                      *)
SecondPeers ==
  [][\A p \in table' \ table, q \in table :
       slot'[p].session = slot[q].session
       => /\ frame.at = "record" /\ frame.peer = None /\ frame.hello
          /\ slot'[p].role = "server"]_vars

(* No peer leaks and none is freed while the table still has it: outside   *)
(* handle_alert the allocated peers are those in the table.                *)
PeersOwned == live = table \cup (IF frame.at = "alert" THEN {frame.peer} ELSE {})

(* The handshake parameters a peer points to are allocated, and no other   *)
(* peer points to them: none are freed twice, or used by two handshakes,   *)
(* after failures, renegotiations and destruction.                         *)
ParamsOwned ==
  \A p \in live : slot[p].hs # None =>
    /\ slot[p].hs \in params
    /\ \A q \in live : slot[q].hs = slot[p].hs => p = q

(* Allocated handshake parameters no peer points to.                       *)
LostParams == params \ {slot[p].hs : p \in live}

(* Parameters are lost in one way only: the application renegotiates with  *)
(* a connected peer that has some already, those of a handshake a server   *)
(* has asked for, or those of a call that failed.                          *)
ParamsReplaced ==
  [][\/ LostParams' \subseteq LostParams
     \/ AppRuns /\ \E p \in table :
          /\ slot[p].state = "CONNECTED" /\ slot[p].hs # None
          /\ LostParams' = LostParams \cup {slot[p].hs}]_vars

(* Violated: none are ever lost, so that dtls_free_context can release     *)
(* "any storage that has been allocated" for the context (dtls.h).         *)
ParamsReachable == LostParams = {}

(* A node of the queue loses the peer it refers to only while a record of  *)
(* that peer is handled and before the peer is connected: where the record *)
(* does not open the peer is destroyed there, with the call of             *)
(* dtls_stop_retransmission commented out.  Nothing is left behind by      *)
(* alerts with what their callbacks do, by a record that a connected peer  *)
(* cannot open during a renegotiation, or by a call.                       *)
NodesOrphaned ==
  [][\A n \in Nodes : node[n] \in live /\ node'[n] \in Peers \ live' =>
       /\ frame.at = "record" /\ frame.peer = node[n]
       /\ slot[node[n]].state \in {"INIT", "HANDSHAKE"}]_vars

(* The handlers use peer->handshake_params without a test in the states of *)
(* a handshake: it is there, also after an allocation or a write failed.   *)
HandshakeHasParams == \A p \in live : slot[p].state = "HANDSHAKE" => slot[p].hs # None

(* When a callback returns, or the next record of a datagram is taken, the *)
(* handler's peer has not been freed.                                      *)
HandlerPeerLive == frame.peer # None => frame.peer \in live

Inv == TypeOK /\ PeersOwned /\ ParamsOwned /\ HandshakeHasParams /\ HandlerPeerLive
=============================================================================
