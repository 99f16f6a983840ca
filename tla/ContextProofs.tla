---------------------------- MODULE ContextProofs ----------------------------
(***************************************************************************)
(* The ownership of peers and handshake parameters in Context, for any     *)
(* number of sessions, peers, parameters and queue nodes.                  *)
(***************************************************************************)
EXTENDS Context, TLAPS

(* What the handler's local variables say of the table: between two        *)
(* datagrams there is no peer; the peer of an alert is allocated but no    *)
(* longer in the table; and as long as no ClientHello has been taken from  *)
(* a datagram of an unknown session, the session has no peer.              *)
FrameInv ==
  /\ frame.at = "app" => frame.peer = None
  /\ frame.at = "callback" => frame.peer # None
  /\ frame.at = "alert" => frame.peer \in live \ table
  /\ frame.at = "record" /\ frame.peer = None /\ ~frame.hello
     => Find(frame.session) = {}

(* The types of all variables but the queue and the handler's.             *)
ObjectsOK == /\ slot \in [Peers -> Slots]
             /\ live \subseteq Peers
             /\ table \subseteq Peers
             /\ params \subseteq Params

(* The inductive invariant.                                                *)
IInv == Inv /\ FrameInv

-----------------------------------------------------------------------------
(* What the helpers return *)

(* dtls_get_peer finds a peer of the table, or there is none.              *)
LEMMA FoundPeer ==
  ASSUME TypeOK, NEW s, NEW q \in Found(s)
  PROVE  /\ q = None => Find(s) = {}
         /\ q # None => q \in table /\ q \in Peers /\ slot[q].session = s
<1>1. Find(s) \subseteq table /\ table \subseteq Peers /\ None \notin Peers
  BY DistinctAssumption DEF Find, TypeOK
<1>2. CASE Find(s) = {}
  BY <1>2 DEF Found
<1>3. CASE Find(s) # {}
  BY <1>1, <1>3 DEF Found, Find
<1> QED BY <1>2, <1>3

(* A queue stays a queue when a message is added.                          *)
LEMMA QueuedType ==
  ASSUME NEW p \in Peers, NEW old \in [Nodes -> Peers \cup {None, Lost}]
  PROVE  Queued(old, p) \in [Nodes -> Peers \cup {None, Lost}]
BY DEF Queued

(* ... and when the messages of a peer are taken from it.                  *)
LEMMA StoppedType ==
  ASSUME TypeOK, NEW p \in Peers
  PROVE  Stopped(p) \in [Nodes -> Peers \cup {None, Lost}]
BY DEF Stopped, TypeOK

(* A freed slot keeps its session, the other slots keep everything.        *)
LEMMA FreedSlot ==
  ASSUME NEW p \in Peers, NEW old \in [Peers -> Slots]
  PROVE  /\ Freed(old, p) \in [Peers -> Slots]
         /\ \A q \in Peers : /\ Freed(old, p)[q].session = old[q].session
                             /\ q # p => Freed(old, p)[q] = old[q]
BY DEF Freed, Slots, States

(* Between two datagrams there is no handler.                              *)
LEMMA AppFrame == App \in Frames
BY DEF App, Frames

(* Steps that own nothing and free nothing.                                *)
LEMMA Inert ==
  ASSUME \/ GiveUp \/ Receive \/ NoMoreRecords \/ CallbackReturns
         \/ \E p \in Peers :
              HandshakeAdvances(p) \/ HandshakeIgnored(p) \/ ApplicationData(p)
  PROVE  UNCHANGED <<slot, live, table, params>>
BY DEF GiveUp, Receive, NoMoreRecords, CallbackReturns, HandshakeAdvances,
       HandshakeIgnored, ApplicationData

(* handle_alert closes the session's new peer, if there is one, and then   *)
(* frees its own; no other slot changes but for the state.                 *)
LEMMA AlertSlots ==
  ASSUME TypeOK, NEW p \in Peers, AlertReturns(p)
  PROVE  /\ slot' \in [Peers -> Slots]
         /\ \A q \in Peers : slot'[q].session = slot[q].session
         /\ \A q \in Peers \ {p} : /\ slot'[q].hs = slot[q].hs
                                   /\ slot'[q].state \in {slot[q].state, "CLOSING"}
<1>1. PICK new \in Found(slot[p].session) :
        slot' = Freed(IF ~frame.close /\ slot[p].state # "CLOSING" /\ new # None
                      THEN [slot EXCEPT ![new].state = "CLOSING"] ELSE slot, p)
  BY DEF AlertReturns
<1> DEFINE closed == IF ~frame.close /\ slot[p].state # "CLOSING" /\ new # None
                     THEN [slot EXCEPT ![new].state = "CLOSING"] ELSE slot
<1>2. new # None => new \in Peers
  BY FoundPeer
<1>3. /\ closed \in [Peers -> Slots]
      /\ \A q \in Peers : /\ closed[q].session = slot[q].session
                          /\ closed[q].hs = slot[q].hs
                          /\ closed[q].state \in {slot[q].state, "CLOSING"}
  BY <1>2 DEF TypeOK, Slots, States
<1>4. slot' = Freed(closed, p)
  BY <1>1
<1> HIDE DEF closed
<1> QED BY <1>3, <1>4, FreedSlot

(* Freeing a peer takes its parameters with it and no others.              *)
LEMMA FreeOwned ==
  ASSUME TypeOK, ParamsOwned, NEW p \in live, Free(p),
         slot' \in [Peers -> Slots],
         \A q \in Peers \ {p} : slot'[q].hs = slot[q].hs
  PROVE  ParamsOwned'
<1>1. live' = live \ {p} /\ params' = params \ {slot[p].hs}
  BY DEF Free
<1>2. \A q \in live' : q \in live /\ q # p /\ slot'[q].hs = slot[q].hs
  BY <1>1 DEF TypeOK
<1>3. \A q \in live' : slot[q].hs # None => slot[q].hs # slot[p].hs
  BY <1>2 DEF ParamsOwned
<1> QED BY <1>1, <1>2, <1>3 DEF ParamsOwned

(* What is allocated in a step has an owner after it, and what had one is  *)
(* freed or has one: no parameters are lost.                               *)
LEMMA NothingLost ==
  ASSUME params' \subseteq params \cup {slot'[q].hs : q \in live'},
         \A q \in live : slot[q].hs \in params'
                        => \E r \in live' : slot'[r].hs = slot[q].hs
  PROVE  LostParams' \subseteq LostParams
BY DEF LostParams

-----------------------------------------------------------------------------
(* One lemma for each conjunct of the invariant, one step for each action  *)

(* Objects stay in their pools and slots stay slots.                       *)
LEMMA ObjectTypes ==
  ASSUME IInv, [Next]_vars
  PROVE  ObjectsOK'
<1>1. CASE UNCHANGED <<slot, live, table, params>>
  BY <1>1 DEF IInv, Inv, ObjectsOK, TypeOK, Slots, States
<1>2. ASSUME NEW s \in Sessions, AppRuns, DtlsConnect(s)
      PROVE  ObjectsOK'
  BY <1>2, FreedSlot DEF DtlsConnect, Allocated, Taken, IInv, Inv, ObjectsOK,
     TypeOK, Slots, States
<1>3. ASSUME NEW p \in Peers, AppRuns, DtlsRenegotiate(p)
      PROVE  ObjectsOK'
  <2>1. PICK x \in Params \cup {None}, sent \in BOOLEAN :
           /\ Taken(x)
           /\ slot' = [slot EXCEPT ![p].hs = x,
                 ![p].state = IF x # None /\ sent /\ slot[p].role = "client"
                              THEN "HANDSHAKE" ELSE slot[p].state]
    BY <1>3 DEF DtlsRenegotiate
  <2>2. slot' \in [Peers -> Slots]
    <3> DEFINE state == IF x # None /\ sent /\ slot[p].role = "client"
                        THEN "HANDSHAKE" ELSE slot[p].state
    <3>1. slot[p] \in Slots
      BY DEF IInv, Inv, TypeOK
    <3>2. [slot[p] EXCEPT !.hs = x, !.state = state] \in Slots
      BY <3>1 DEF Slots, States
    <3>3. slot' = [slot EXCEPT ![p] = [slot[p] EXCEPT !.hs = x,
       !.state = state]]
      BY <2>1 DEF IInv, Inv, TypeOK, Slots
    <3> QED BY <3>2, <3>3 DEF IInv, Inv, TypeOK
  <2> QED BY <1>3, <2>1, <2>2 DEF DtlsRenegotiate, Taken, IInv, Inv, TypeOK,
     ObjectsOK
<1>4. ASSUME NEW p \in Peers, AppRuns, DtlsClose(p)
      PROVE  ObjectsOK'
  BY <1>4, FreedSlot DEF DtlsClose, IInv, Inv, ObjectsOK, TypeOK, Slots, States
<1>5. ASSUME FreeContext
      PROVE  ObjectsOK'
  BY <1>5, FreedSlot DEF FreeContext, IInv, Inv, ObjectsOK, TypeOK, Slots,
     States
<1>6. ASSUME NEW p \in Peers, DecryptFails(p)
      PROVE  ObjectsOK'
  BY <1>6, FreedSlot DEF DecryptFails, With, Destroy, Free, Return, App,
     IInv, Inv, ObjectsOK, TypeOK, Slots, States
<1>7. ASSUME NEW p \in Peers, HandleCcs(p)
      PROVE  ObjectsOK'
  BY <1>7, FreedSlot DEF HandleCcs, With, Destroy, Free, Return, App, IInv,
     Inv, ObjectsOK, TypeOK, Slots, States
<1>8. ASSUME NEW p \in Peers, HandleAlert(p)
      PROVE  ObjectsOK'
  BY <1>8 DEF HandleAlert, IInv, Inv, TypeOK, ObjectsOK
<1>9. ASSUME NEW p \in Peers, AlertReturns(p)
      PROVE  ObjectsOK'
  BY <1>9, AlertSlots DEF AlertReturns, Free, IInv, Inv, TypeOK, ObjectsOK
<1>10. ASSUME NEW p \in Peers, HandshakeFails(p)
      PROVE  ObjectsOK'
  BY <1>10 DEF HandshakeFails, Fail, IInv, Inv, TypeOK, ObjectsOK, Slots,
     States
<1>11. ASSUME NEW p \in Peers, HandshakeFinishes(p)
      PROVE  ObjectsOK'
  BY <1>11, FreedSlot DEF HandshakeFinishes, With, CallBack, IInv, Inv,
     ObjectsOK, TypeOK, Slots, States
<1>12. ASSUME NEW p \in Peers, HandshakeRestarts(p)
      PROVE  ObjectsOK'
  BY <1>12, FreedSlot DEF HandshakeRestarts, With, Allocated, Taken, Return,
     App, IInv, Inv, ObjectsOK, TypeOK, Slots, States
<1>13. ASSUME NEW s \in Sessions, NewServer(s)
      PROVE  ObjectsOK'
  <2>1. PICK q \in Peers \ live, x \in Params \cup {None}, ok \in BOOLEAN :
           /\ Taken(x)
           /\ live' = live \cup {q} /\ table' = table \cup {q}
           /\ slot' = [slot EXCEPT ![q] =
                         [session |-> s, role |-> "server", hs |-> x,
                          state |-> IF ok THEN "HANDSHAKE" ELSE "CLOSING"]]
    BY <1>13 DEF NewServer
  <2> QED BY <2>1 DEF Taken, IInv, Inv, TypeOK, ObjectsOK, Slots, States
<1>14. ASSUME NEW s \in Sessions, ErrorWithout(s)
      PROVE  ObjectsOK'
  BY <1>14, FreedSlot DEF ErrorWithout, Without, Fail, Return, App, IInv,
     Inv, ObjectsOK, TypeOK, Slots, States
<1>15. ASSUME NEW p \in Peers, KeyExchangeWithoutSuite(p)
      PROVE  ObjectsOK'
  BY <1>15 DEF KeyExchangeWithoutSuite, With, IInv, Inv, ObjectsOK, TypeOK,
     Slots, States
<1> QED BY <1>1, <1>2, <1>3, <1>4, <1>5, <1>6, <1>7, <1>8, <1>9, <1>10,
       <1>11, <1>12, <1>13, <1>14, Inert, <1>15 DEF Next, Call,
       HandleRecord, vars

(* The queue refers to peers.                                              *)
LEMMA NodeTypes ==
  ASSUME IInv, [Next]_vars
  PROVE  node' \in [Nodes -> Peers \cup {None, Lost}]
<1>1. ASSUME NEW s \in Sessions, AppRuns, DtlsConnect(s)
      PROVE  node' \in [Nodes -> Peers \cup {None, Lost}]
  BY <1>1, QueuedType, StoppedType DEF DtlsConnect, Allocated, Taken, IInv,
     Inv, TypeOK
<1>2. ASSUME NEW p \in Peers, AppRuns, DtlsRenegotiate(p)
      PROVE  node' \in [Nodes -> Peers \cup {None, Lost}]
  BY <1>2, QueuedType, StoppedType DEF DtlsRenegotiate, Allocated, Taken,
     IInv, Inv, TypeOK
<1>3. ASSUME NEW p \in Peers, AppRuns, DtlsClose(p)
      PROVE  node' \in [Nodes -> Peers \cup {None, Lost}]
  BY <1>3, QueuedType, StoppedType DEF DtlsClose, IInv, Inv, TypeOK
<1>4. ASSUME FreeContext
      PROVE  node' \in [Nodes -> Peers \cup {None, Lost}]
  BY <1>4, QueuedType, StoppedType DEF FreeContext, IInv, Inv, TypeOK
<1>5. ASSUME GiveUp
      PROVE  node' \in [Nodes -> Peers \cup {None, Lost}]
  BY <1>5, QueuedType, StoppedType DEF GiveUp, IInv, Inv, TypeOK
<1>6. ASSUME Receive
      PROVE  node' \in [Nodes -> Peers \cup {None, Lost}]
  BY <1>6, QueuedType, StoppedType DEF Receive, App, IInv, Inv, TypeOK
<1>7. ASSUME NoMoreRecords
      PROVE  node' \in [Nodes -> Peers \cup {None, Lost}]
  BY <1>7, QueuedType, StoppedType DEF NoMoreRecords, Return, App, IInv, Inv,
     TypeOK
<1>8. ASSUME CallbackReturns
      PROVE  node' \in [Nodes -> Peers \cup {None, Lost}]
  BY <1>8, QueuedType, StoppedType DEF CallbackReturns, IInv, Inv, TypeOK
<1>9. ASSUME NEW p \in Peers, DecryptFails(p)
      PROVE  node' \in [Nodes -> Peers \cup {None, Lost}]
  BY <1>9, QueuedType, StoppedType DEF DecryptFails, With, Destroy, Free,
     Return, App, IInv, Inv, TypeOK
<1>10. ASSUME NEW p \in Peers, HandleCcs(p)
      PROVE  node' \in [Nodes -> Peers \cup {None, Lost}]
  BY <1>10, QueuedType, StoppedType DEF HandleCcs, With, Destroy, Free,
     Return, App, IInv, Inv, TypeOK
<1>11. ASSUME NEW p \in Peers, HandleAlert(p)
      PROVE  node' \in [Nodes -> Peers \cup {None, Lost}]
  BY <1>11, QueuedType, StoppedType DEF HandleAlert, With, CallBack, IInv,
     Inv, TypeOK
<1>12. ASSUME NEW p \in Peers, AlertReturns(p)
      PROVE  node' \in [Nodes -> Peers \cup {None, Lost}]
  BY <1>12, QueuedType, StoppedType DEF AlertReturns, Free, Return, App,
     IInv, Inv, TypeOK
<1>13. ASSUME NEW p \in Peers, HandshakeFails(p)
      PROVE  node' \in [Nodes -> Peers \cup {None, Lost}]
  BY <1>13, QueuedType, StoppedType DEF HandshakeFails, With, Fail, Return,
     App, IInv, Inv, TypeOK
<1>14. ASSUME NEW p \in Peers, HandshakeAdvances(p)
      PROVE  node' \in [Nodes -> Peers \cup {None, Lost}]
  BY <1>14, QueuedType, StoppedType DEF HandshakeAdvances, With, IInv, Inv,
     TypeOK
<1>15. ASSUME NEW p \in Peers, HandshakeFinishes(p)
      PROVE  node' \in [Nodes -> Peers \cup {None, Lost}]
  BY <1>15, QueuedType, StoppedType DEF HandshakeFinishes, With, CallBack,
     IInv, Inv, TypeOK
<1>16. ASSUME NEW p \in Peers, HandshakeIgnored(p)
      PROVE  node' \in [Nodes -> Peers \cup {None, Lost}]
  BY <1>16, QueuedType, StoppedType DEF HandshakeIgnored, With, CallBack,
     IInv, Inv, TypeOK
<1>17. ASSUME NEW p \in Peers, HandshakeRestarts(p)
      PROVE  node' \in [Nodes -> Peers \cup {None, Lost}]
  BY <1>17, QueuedType, StoppedType DEF HandshakeRestarts, With, Allocated,
     Taken, Return, App, IInv, Inv, TypeOK
<1>18. ASSUME NEW p \in Peers, ApplicationData(p)
      PROVE  node' \in [Nodes -> Peers \cup {None, Lost}]
  BY <1>18, QueuedType, StoppedType DEF ApplicationData, With, CallBack,
     IInv, Inv, TypeOK
<1>19. ASSUME NEW s \in Sessions, NewServer(s)
      PROVE  node' \in [Nodes -> Peers \cup {None, Lost}]
  BY <1>19, QueuedType, StoppedType DEF NewServer, Without, Allocated, Taken,
     App, IInv, Inv, TypeOK
<1>20. ASSUME NEW s \in Sessions, ErrorWithout(s)
      PROVE  node' \in [Nodes -> Peers \cup {None, Lost}]
  BY <1>20, QueuedType, StoppedType DEF ErrorWithout, Without, Fail, Return,
     App, IInv, Inv, TypeOK
<1>21. CASE UNCHANGED vars
  BY <1>21 DEF vars, IInv, Inv, TypeOK
<1>22. ASSUME NEW p \in Peers, KeyExchangeWithoutSuite(p)
      PROVE  node' \in [Nodes -> Peers \cup {None, Lost}]
  BY <1>22, StoppedType DEF KeyExchangeWithoutSuite, With, IInv, Inv
<1> QED BY <1>1, <1>2, <1>3, <1>4, <1>5, <1>6, <1>7, <1>8, <1>9, <1>10,
       <1>11, <1>12, <1>13, <1>14, <1>15, <1>16, <1>17, <1>18, <1>19, <1>20,
       <1>21, <1>22 DEF Next, Call, HandleRecord

(* The handler's variables.                                                *)
LEMMA FrameTypes ==
  ASSUME IInv, [Next]_vars
  PROVE  frame' \in Frames
<1>1. ASSUME NEW s \in Sessions, AppRuns, DtlsConnect(s)
      PROVE  frame' \in Frames
  BY <1>1, DistinctAssumption DEF DtlsConnect, Allocated, Taken, IInv, Inv,
     TypeOK, Frames
<1>2. ASSUME NEW p \in Peers, AppRuns, DtlsRenegotiate(p)
      PROVE  frame' \in Frames
  BY <1>2, DistinctAssumption DEF DtlsRenegotiate, Allocated, Taken, IInv,
     Inv, TypeOK, Frames
<1>3. ASSUME NEW p \in Peers, AppRuns, DtlsClose(p)
      PROVE  frame' \in Frames
  BY <1>3, DistinctAssumption DEF DtlsClose, IInv, Inv, TypeOK, Frames
<1>4. ASSUME FreeContext
      PROVE  frame' \in Frames
  BY <1>4, DistinctAssumption DEF FreeContext, IInv, Inv, TypeOK, Frames
<1>5. ASSUME GiveUp
      PROVE  frame' \in Frames
  BY <1>5, DistinctAssumption DEF GiveUp, IInv, Inv, TypeOK, Frames
<1>6. ASSUME Receive
      PROVE  frame' \in Frames
  <2>0. PICK s \in Sessions : \E q \in Found(s) :
           frame' = [App EXCEPT !.at = "record", !.session = s, !.peer = q]
    BY <1>6 DEF Receive
  <2>1. PICK q \in Found(s) :
           frame' = [App EXCEPT !.at = "record", !.session = s, !.peer = q]
    BY <2>0
  <2>2. q \in Peers \cup {None}
    BY FoundPeer DEF IInv, Inv
  <2> QED BY <2>1, <2>2 DEF App, Frames
<1>7. ASSUME NoMoreRecords
      PROVE  frame' \in Frames
  BY <1>7, DistinctAssumption DEF NoMoreRecords, Return, App, IInv, Inv,
     TypeOK, Frames
<1>8. ASSUME CallbackReturns
      PROVE  frame' \in Frames
  BY <1>8, DistinctAssumption DEF CallbackReturns, IInv, Inv, TypeOK, Frames
<1>9. ASSUME NEW p \in Peers, DecryptFails(p)
      PROVE  frame' \in Frames
  BY <1>9, DistinctAssumption DEF DecryptFails, With, Destroy, Free, Return,
     App, IInv, Inv, TypeOK, Frames
<1>10. ASSUME NEW p \in Peers, HandleCcs(p)
      PROVE  frame' \in Frames
  <2>1. frame' = App \/ frame' = frame
    BY <1>10 DEF HandleCcs, Return
  <2> QED BY <2>1, AppFrame DEF IInv, Inv, TypeOK
<1>11. ASSUME NEW p \in Peers, HandleAlert(p)
      PROVE  frame' \in Frames
  BY <1>11 DEF HandleAlert, CallBack, IInv, Inv, TypeOK, Frames
<1>12. ASSUME NEW p \in Peers, AlertReturns(p)
      PROVE  frame' \in Frames
  BY <1>12, DistinctAssumption DEF AlertReturns, Free, Return, App, IInv,
     Inv, TypeOK, Frames
<1>13. ASSUME NEW p \in Peers, HandshakeFails(p)
      PROVE  frame' \in Frames
  BY <1>13, DistinctAssumption DEF HandshakeFails, With, Fail, Return, App,
     IInv, Inv, TypeOK, Frames
<1>14. ASSUME NEW p \in Peers, HandshakeAdvances(p)
      PROVE  frame' \in Frames
  BY <1>14, DistinctAssumption DEF HandshakeAdvances, With, IInv, Inv,
     TypeOK, Frames
<1>15. ASSUME NEW p \in Peers, HandshakeFinishes(p)
      PROVE  frame' \in Frames
  BY <1>15, DistinctAssumption DEF HandshakeFinishes, With, CallBack, IInv,
     Inv, TypeOK, Frames
<1>16. ASSUME NEW p \in Peers, HandshakeIgnored(p)
      PROVE  frame' \in Frames
  BY <1>16, DistinctAssumption DEF HandshakeIgnored, With, CallBack, IInv,
     Inv, TypeOK, Frames
<1>17. ASSUME NEW p \in Peers, HandshakeRestarts(p)
      PROVE  frame' \in Frames
  <2>1. frame' = App \/ frame' = frame
    BY <1>17 DEF HandshakeRestarts, Return
  <2> QED BY <2>1, AppFrame DEF IInv, Inv, TypeOK
<1>18. ASSUME NEW p \in Peers, ApplicationData(p)
      PROVE  frame' \in Frames
  BY <1>18, DistinctAssumption DEF ApplicationData, With, CallBack, IInv,
     Inv, TypeOK, Frames
<1>19. ASSUME NEW s \in Sessions, NewServer(s)
      PROVE  frame' \in Frames
  <2>1. frame' = App \/ frame' = [frame EXCEPT !.hello = TRUE]
    BY <1>19 DEF NewServer
  <2>2. [frame EXCEPT !.hello = TRUE] \in Frames
    BY DEF IInv, Inv, TypeOK, Frames
  <2> QED BY <2>1, <2>2, AppFrame
<1>20. ASSUME NEW s \in Sessions, ErrorWithout(s)
      PROVE  frame' \in Frames
  BY <1>20, DistinctAssumption DEF ErrorWithout, Without, Fail, Return, App,
     IInv, Inv, TypeOK, Frames
<1>21. CASE UNCHANGED vars
  BY <1>21 DEF vars, IInv, Inv, TypeOK, Frames
<1>22. ASSUME NEW p \in Peers, KeyExchangeWithoutSuite(p)
      PROVE  frame' \in Frames
  BY <1>22 DEF KeyExchangeWithoutSuite, With, IInv, Inv, TypeOK
<1> QED BY <1>1, <1>2, <1>3, <1>4, <1>5, <1>6, <1>7, <1>8, <1>9, <1>10,
       <1>11, <1>12, <1>13, <1>14, <1>15, <1>16, <1>17, <1>18, <1>19, <1>20,
       <1>21, <1>22 DEF Next, Call, HandleRecord

(* Types.                                                                  *)
LEMMA TypeStep ==
  ASSUME IInv, [Next]_vars
  PROVE  TypeOK'
BY ObjectTypes, NodeTypes, FrameTypes DEF TypeOK, ObjectsOK

(* Peers are linked when they are allocated and unlinked when freed; only  *)
(* handle_alert has one in between.                                        *)
LEMMA PeersOwnedStep ==
  ASSUME IInv, [Next]_vars
  PROVE  PeersOwned'
<1>1. ASSUME NEW s \in Sessions, AppRuns, DtlsConnect(s)
      PROVE  PeersOwned'
  BY <1>1, DistinctAssumption DEF DtlsConnect, Allocated, Taken, IInv, Inv,
     TypeOK, Frames, PeersOwned, FrameInv, HandlerPeerLive
<1>2. ASSUME NEW p \in Peers, AppRuns, DtlsRenegotiate(p)
      PROVE  PeersOwned'
  BY <1>2, DistinctAssumption DEF DtlsRenegotiate, Allocated, Taken, IInv,
     Inv, TypeOK, Frames, PeersOwned, FrameInv, HandlerPeerLive
<1>3. ASSUME NEW p \in Peers, AppRuns, DtlsClose(p)
      PROVE  PeersOwned'
  BY <1>3, DistinctAssumption DEF DtlsClose, IInv, Inv, TypeOK, Frames,
     PeersOwned, FrameInv, HandlerPeerLive
<1>4. ASSUME FreeContext
      PROVE  PeersOwned'
  BY <1>4, DistinctAssumption DEF FreeContext, IInv, Inv, TypeOK, Frames,
     PeersOwned, FrameInv, HandlerPeerLive
<1>5. ASSUME GiveUp
      PROVE  PeersOwned'
  BY <1>5, DistinctAssumption DEF GiveUp, IInv, Inv, TypeOK, Frames,
     PeersOwned, FrameInv, HandlerPeerLive
<1>6. ASSUME Receive
      PROVE  PeersOwned'
  BY <1>6, DistinctAssumption DEF Receive, App, IInv, Inv, TypeOK, Frames,
     PeersOwned, FrameInv, HandlerPeerLive
<1>7. ASSUME NoMoreRecords
      PROVE  PeersOwned'
  BY <1>7, DistinctAssumption DEF NoMoreRecords, Return, App, IInv, Inv,
     TypeOK, Frames, PeersOwned, FrameInv, HandlerPeerLive
<1>8. ASSUME CallbackReturns
      PROVE  PeersOwned'
  BY <1>8, DistinctAssumption DEF CallbackReturns, IInv, Inv, TypeOK, Frames,
     PeersOwned, FrameInv, HandlerPeerLive
<1>9. ASSUME NEW p \in Peers, DecryptFails(p)
      PROVE  PeersOwned'
  BY <1>9, DistinctAssumption DEF DecryptFails, With, Destroy, Free, Return,
     App, IInv, Inv, TypeOK, Frames, PeersOwned, FrameInv, HandlerPeerLive
<1>10. ASSUME NEW p \in Peers, HandleCcs(p)
      PROVE  PeersOwned'
  BY <1>10, DistinctAssumption DEF HandleCcs, With, Destroy, Free, Return,
     App, IInv, Inv, TypeOK, Frames, PeersOwned, FrameInv, HandlerPeerLive
<1>11. ASSUME NEW p \in Peers, HandleAlert(p)
      PROVE  PeersOwned'
  <2>1. p \in table /\ live = table
    BY <1>11, DistinctAssumption DEF HandleAlert, With, IInv, Inv,
       PeersOwned, HandlerPeerLive
  <2>2. CASE /\ table' = table \ {p}
             /\ \E close \in BOOLEAN :
                  frame' = [frame EXCEPT !.at = "alert", !.close = close]
    <3>1. frame'.at = "alert" /\ frame'.peer = p
      BY <1>11, <2>2 DEF HandleAlert, With, IInv, Inv, TypeOK, Frames
    <3> QED BY <1>11, <2>1, <2>2, <3>1 DEF HandleAlert, PeersOwned
  <2>3. CASE UNCHANGED table /\ CallBack
    <3>1. frame'.at = "callback"
      BY <2>3 DEF CallBack, IInv, Inv, TypeOK, Frames
    <3> QED BY <1>11, <2>1, <2>3, <3>1 DEF HandleAlert, PeersOwned
  <2> QED BY <1>11, <2>2, <2>3 DEF HandleAlert
<1>12. ASSUME NEW p \in Peers, AlertReturns(p)
      PROVE  PeersOwned'
  BY <1>12, DistinctAssumption DEF AlertReturns, Free, Return, App, IInv,
     Inv, TypeOK, Frames, PeersOwned, FrameInv, HandlerPeerLive
<1>13. ASSUME NEW p \in Peers, HandshakeFails(p)
      PROVE  PeersOwned'
  BY <1>13, DistinctAssumption DEF HandshakeFails, With, Fail, Return, App,
     IInv, Inv, TypeOK, Frames, PeersOwned, FrameInv, HandlerPeerLive
<1>14. ASSUME NEW p \in Peers, HandshakeAdvances(p)
      PROVE  PeersOwned'
  BY <1>14, DistinctAssumption DEF HandshakeAdvances, With, IInv, Inv,
     TypeOK, Frames, PeersOwned, FrameInv, HandlerPeerLive
<1>15. ASSUME NEW p \in Peers, HandshakeFinishes(p)
      PROVE  PeersOwned'
  BY <1>15, DistinctAssumption DEF HandshakeFinishes, With, CallBack, IInv,
     Inv, TypeOK, Frames, PeersOwned, FrameInv, HandlerPeerLive
<1>16. ASSUME NEW p \in Peers, HandshakeIgnored(p)
      PROVE  PeersOwned'
  BY <1>16, DistinctAssumption DEF HandshakeIgnored, With, CallBack, IInv,
     Inv, TypeOK, Frames, PeersOwned, FrameInv, HandlerPeerLive
<1>17. ASSUME NEW p \in Peers, HandshakeRestarts(p)
      PROVE  PeersOwned'
  BY <1>17, DistinctAssumption DEF HandshakeRestarts, With, Allocated, Taken,
     Return, App, IInv, Inv, TypeOK, Frames, PeersOwned, FrameInv,
     HandlerPeerLive
<1>18. ASSUME NEW p \in Peers, ApplicationData(p)
      PROVE  PeersOwned'
  BY <1>18, DistinctAssumption DEF ApplicationData, With, CallBack, IInv,
     Inv, TypeOK, Frames, PeersOwned, FrameInv, HandlerPeerLive
<1>19. ASSUME NEW s \in Sessions, NewServer(s)
      PROVE  PeersOwned'
  BY <1>19, DistinctAssumption DEF NewServer, Without, Allocated, Taken, App,
     IInv, Inv, TypeOK, Frames, PeersOwned, FrameInv, HandlerPeerLive
<1>20. ASSUME NEW s \in Sessions, ErrorWithout(s)
      PROVE  PeersOwned'
  BY <1>20, DistinctAssumption DEF ErrorWithout, Without, Fail, Return, App,
     IInv, Inv, TypeOK, Frames, PeersOwned, FrameInv, HandlerPeerLive
<1>21. CASE UNCHANGED vars
  BY <1>21 DEF vars, IInv, Inv, TypeOK, Frames, PeersOwned, FrameInv,
     HandlerPeerLive
<1>22. ASSUME NEW p \in Peers, KeyExchangeWithoutSuite(p)
      PROVE  PeersOwned'
  BY <1>22 DEF KeyExchangeWithoutSuite, With, IInv, Inv, PeersOwned
<1> QED BY <1>1, <1>2, <1>3, <1>4, <1>5, <1>6, <1>7, <1>8, <1>9, <1>10,
       <1>11, <1>12, <1>13, <1>14, <1>15, <1>16, <1>17, <1>18, <1>19, <1>20,
       <1>21, <1>22 DEF Next, Call, HandleRecord

(* Parameters are given to the peer that they are allocated for and freed  *)
(* with it, or at the end of the handshake.                                *)
LEMMA ParamsOwnedStep ==
  ASSUME IInv, [Next]_vars
  PROVE  ParamsOwned'
<1>1. CASE UNCHANGED <<slot, live, table, params>>
  BY <1>1 DEF IInv, Inv, TypeOK, Slots, States, PeersOwned, ParamsOwned,
     HandlerPeerLive
<1>2. ASSUME NEW s \in Sessions, AppRuns, DtlsConnect(s)
      PROVE  ParamsOwned'
  BY <1>2, FreedSlot, DistinctAssumption DEF DtlsConnect, Allocated, Taken,
     IInv, Inv, TypeOK, Slots, States, PeersOwned, ParamsOwned, HandlerPeerLive
<1>3. ASSUME NEW p \in Peers, AppRuns, DtlsRenegotiate(p)
      PROVE  ParamsOwned'
  BY <1>3, FreedSlot, DistinctAssumption DEF DtlsRenegotiate, Allocated,
     Taken, IInv, Inv, TypeOK, Slots, States, PeersOwned, ParamsOwned,
     HandlerPeerLive
<1>4. ASSUME NEW p \in Peers, AppRuns, DtlsClose(p)
      PROVE  ParamsOwned'
  BY <1>4, FreedSlot, DistinctAssumption DEF DtlsClose, IInv, Inv, TypeOK,
     Slots, States, PeersOwned, ParamsOwned, HandlerPeerLive
<1>5. ASSUME FreeContext
      PROVE  ParamsOwned'
  BY <1>5, FreedSlot, DistinctAssumption DEF FreeContext, IInv, Inv, TypeOK,
     Slots, States, PeersOwned, ParamsOwned, HandlerPeerLive
<1>6. ASSUME NEW p \in Peers, DecryptFails(p)
      PROVE  ParamsOwned'
  <2>1. p \in live
    BY <1>6, DistinctAssumption DEF DecryptFails, With, IInv, Inv,
       HandlerPeerLive
  <2>2. CASE Destroy(p)
    BY <1>6, <2>1, <2>2, FreedSlot, FreeOwned DEF Destroy, IInv, Inv, TypeOK
  <2>3. CASE UNCHANGED <<slot, live, table, params>>
    BY <2>3 DEF IInv, Inv, ParamsOwned
  <2> QED BY <1>6, <2>2, <2>3 DEF DecryptFails
<1>7. ASSUME NEW p \in Peers, HandleCcs(p)
      PROVE  ParamsOwned'
  BY <1>7, FreedSlot, DistinctAssumption DEF HandleCcs, With, Destroy, Free,
     Return, App, IInv, Inv, TypeOK, Slots, States, PeersOwned, ParamsOwned,
     HandlerPeerLive
<1>8. ASSUME NEW p \in Peers, HandleAlert(p)
      PROVE  ParamsOwned'
  BY <1>8 DEF HandleAlert, IInv, Inv, ParamsOwned
<1>9. ASSUME NEW p \in Peers, AlertReturns(p)
      PROVE  ParamsOwned'
  <2>1. p \in live
    BY <1>9, DistinctAssumption DEF AlertReturns, IInv, Inv, HandlerPeerLive
  <2> QED BY <1>9, <2>1, AlertSlots, FreeOwned DEF AlertReturns, IInv, Inv
<1>10. ASSUME NEW p \in Peers, HandshakeFails(p)
      PROVE  ParamsOwned'
  BY <1>10, FreedSlot, DistinctAssumption
     DEF HandshakeFails, With, Fail, Return, App, IInv, Inv, TypeOK, Slots,
     States, PeersOwned, ParamsOwned, HandlerPeerLive
<1>11. ASSUME NEW p \in Peers, HandshakeFinishes(p)
      PROVE  ParamsOwned'
  BY <1>11, FreedSlot, DistinctAssumption
     DEF HandshakeFinishes, With, CallBack, IInv, Inv, TypeOK, Slots, States,
     PeersOwned, ParamsOwned, HandlerPeerLive
<1>12. ASSUME NEW p \in Peers, HandshakeRestarts(p)
      PROVE  ParamsOwned'
  BY <1>12, FreedSlot, DistinctAssumption
     DEF HandshakeRestarts, With, Allocated, Taken, Return, App, IInv, Inv,
     TypeOK, Slots, States, PeersOwned, ParamsOwned, HandlerPeerLive
<1>13. ASSUME NEW s \in Sessions, NewServer(s)
      PROVE  ParamsOwned'
  BY <1>13, FreedSlot, DistinctAssumption
     DEF NewServer, Without, Allocated, Taken, App, IInv, Inv, TypeOK, Slots,
     States, PeersOwned, ParamsOwned, HandlerPeerLive
<1>14. ASSUME NEW s \in Sessions, ErrorWithout(s)
      PROVE  ParamsOwned'
  BY <1>14, FreedSlot, DistinctAssumption
     DEF ErrorWithout, Without, Fail, Return, App, IInv, Inv, TypeOK, Slots,
     States, PeersOwned, ParamsOwned, HandlerPeerLive
<1>15. ASSUME NEW p \in Peers, KeyExchangeWithoutSuite(p)
      PROVE  ParamsOwned'
  BY <1>15 DEF KeyExchangeWithoutSuite, With, IInv, Inv, TypeOK, Slots,
     ParamsOwned
<1> QED BY <1>1, <1>2, <1>3, <1>4, <1>5, <1>6, <1>7, <1>8, <1>9, <1>10,
       <1>11, <1>12, <1>13, <1>14, Inert, <1>15 DEF Next, Call,
       HandleRecord, vars

(* No peer enters a handshake without parameters.                          *)
LEMMA HandshakeStep ==
  ASSUME IInv, [Next]_vars
  PROVE  HandshakeHasParams'
<1>1. CASE UNCHANGED <<slot, live, table, params>>
  BY <1>1 DEF IInv, Inv, TypeOK, Slots, States, HandshakeHasParams,
     PeersOwned, HandlerPeerLive
<1>2. ASSUME NEW s \in Sessions, AppRuns, DtlsConnect(s)
      PROVE  HandshakeHasParams'
  BY <1>2, FreedSlot, DistinctAssumption DEF DtlsConnect, Allocated, Taken,
     IInv, Inv, TypeOK, Slots, States, HandshakeHasParams, PeersOwned,
     HandlerPeerLive
<1>3. ASSUME NEW p \in Peers, AppRuns, DtlsRenegotiate(p)
      PROVE  HandshakeHasParams'
  BY <1>3, FreedSlot, DistinctAssumption DEF DtlsRenegotiate, Allocated,
     Taken, IInv, Inv, TypeOK, Slots, States, HandshakeHasParams, PeersOwned,
     HandlerPeerLive
<1>4. ASSUME NEW p \in Peers, AppRuns, DtlsClose(p)
      PROVE  HandshakeHasParams'
  BY <1>4, FreedSlot, DistinctAssumption DEF DtlsClose, IInv, Inv, TypeOK,
     Slots, States, HandshakeHasParams, PeersOwned, HandlerPeerLive
<1>5. ASSUME FreeContext
      PROVE  HandshakeHasParams'
  BY <1>5, FreedSlot, DistinctAssumption DEF FreeContext, IInv, Inv, TypeOK,
     Slots, States, HandshakeHasParams, PeersOwned, HandlerPeerLive
<1>6. ASSUME NEW p \in Peers, DecryptFails(p)
      PROVE  HandshakeHasParams'
  BY <1>6, FreedSlot, DistinctAssumption DEF DecryptFails, With, Destroy,
     Free, Return, App, IInv, Inv, TypeOK, Slots, States, HandshakeHasParams,
     PeersOwned, HandlerPeerLive
<1>7. ASSUME NEW p \in Peers, HandleCcs(p)
      PROVE  HandshakeHasParams'
  BY <1>7, FreedSlot, DistinctAssumption DEF HandleCcs, With, Destroy, Free,
     Return, App, IInv, Inv, TypeOK, Slots, States, HandshakeHasParams,
     PeersOwned, HandlerPeerLive
<1>8. ASSUME NEW p \in Peers, HandleAlert(p)
      PROVE  HandshakeHasParams'
  BY <1>8 DEF HandleAlert, IInv, Inv, HandshakeHasParams
<1>9. ASSUME NEW p \in Peers, AlertReturns(p)
      PROVE  HandshakeHasParams'
  <2>1. \A q \in Peers \ {p} : /\ slot'[q].hs = slot[q].hs
                              /\ slot'[q].state \in {slot[q].state, "CLOSING"}
    BY <1>9, AlertSlots DEF IInv, Inv
  <2>2. live' = live \ {p}
    BY <1>9 DEF AlertReturns, Free
  <2> QED BY <2>1, <2>2 DEF IInv, Inv, TypeOK, HandshakeHasParams
<1>10. ASSUME NEW p \in Peers, HandshakeFails(p)
      PROVE  HandshakeHasParams'
  BY <1>10, FreedSlot, DistinctAssumption
     DEF HandshakeFails, With, Fail, Return, App, IInv, Inv, TypeOK, Slots,
     States, HandshakeHasParams, PeersOwned, HandlerPeerLive
<1>11. ASSUME NEW p \in Peers, HandshakeFinishes(p)
      PROVE  HandshakeHasParams'
  BY <1>11, FreedSlot, DistinctAssumption
     DEF HandshakeFinishes, With, CallBack, IInv, Inv, TypeOK, Slots, States,
     HandshakeHasParams, PeersOwned, HandlerPeerLive
<1>12. ASSUME NEW p \in Peers, HandshakeRestarts(p)
      PROVE  HandshakeHasParams'
  BY <1>12, FreedSlot, DistinctAssumption
     DEF HandshakeRestarts, With, Allocated, Taken, Return, App, IInv, Inv,
     TypeOK, Slots, States, HandshakeHasParams, PeersOwned, HandlerPeerLive
<1>13. ASSUME NEW s \in Sessions, NewServer(s)
      PROVE  HandshakeHasParams'
  BY <1>13, FreedSlot, DistinctAssumption
     DEF NewServer, Without, Allocated, Taken, App, IInv, Inv, TypeOK, Slots,
     States, HandshakeHasParams, PeersOwned, HandlerPeerLive
<1>14. ASSUME NEW s \in Sessions, ErrorWithout(s)
      PROVE  HandshakeHasParams'
  BY <1>14, FreedSlot, DistinctAssumption
     DEF ErrorWithout, Without, Fail, Return, App, IInv, Inv, TypeOK, Slots,
     States, HandshakeHasParams, PeersOwned, HandlerPeerLive
<1>15. ASSUME NEW p \in Peers, KeyExchangeWithoutSuite(p)
      PROVE  HandshakeHasParams'
  BY <1>15 DEF KeyExchangeWithoutSuite, With, IInv, Inv, TypeOK, Slots,
     HandshakeHasParams
<1> QED BY <1>1, <1>2, <1>3, <1>4, <1>5, <1>6, <1>7, <1>8, <1>9, <1>10,
       <1>11, <1>12, <1>13, <1>14, Inert, <1>15 DEF Next, Call,
       HandleRecord, vars

(* A handler that frees its peer returns.                                  *)
LEMMA HandlerStep ==
  ASSUME IInv, [Next]_vars
  PROVE  HandlerPeerLive'
<1>1. ASSUME NEW s \in Sessions, AppRuns, DtlsConnect(s)
      PROVE  HandlerPeerLive'
  BY <1>1, DistinctAssumption DEF DtlsConnect, Allocated, Taken,
     IInv, Inv, TypeOK, Frames, HandlerPeerLive, PeersOwned, FrameInv
<1>2. ASSUME NEW p \in Peers, AppRuns, DtlsRenegotiate(p)
      PROVE  HandlerPeerLive'
  BY <1>2, DistinctAssumption DEF DtlsRenegotiate, Allocated, Taken,
     IInv, Inv, TypeOK, Frames, HandlerPeerLive, PeersOwned, FrameInv
<1>3. ASSUME NEW p \in Peers, AppRuns, DtlsClose(p)
      PROVE  HandlerPeerLive'
  BY <1>3, DistinctAssumption DEF DtlsClose, IInv, Inv, TypeOK,
     Frames, HandlerPeerLive, PeersOwned, FrameInv
<1>4. ASSUME FreeContext
      PROVE  HandlerPeerLive'
  BY <1>4, DistinctAssumption DEF FreeContext, IInv, Inv, TypeOK,
     Frames, HandlerPeerLive, PeersOwned, FrameInv
<1>5. ASSUME GiveUp
      PROVE  HandlerPeerLive'
  BY <1>5, DistinctAssumption DEF GiveUp, IInv, Inv, TypeOK, Frames,
     HandlerPeerLive, PeersOwned, FrameInv
<1>6. ASSUME Receive
      PROVE  HandlerPeerLive'
  BY <1>6, FoundPeer, DistinctAssumption DEF Receive, App, IInv, Inv, TypeOK,
     Frames, HandlerPeerLive, PeersOwned, FrameInv
<1>7. ASSUME NoMoreRecords
      PROVE  HandlerPeerLive'
  BY <1>7, DistinctAssumption DEF NoMoreRecords, Return, App, IInv,
     Inv, TypeOK, Frames, HandlerPeerLive, PeersOwned, FrameInv
<1>8. ASSUME CallbackReturns
      PROVE  HandlerPeerLive'
  BY <1>8, DistinctAssumption DEF CallbackReturns, IInv, Inv,
     TypeOK, Frames, HandlerPeerLive, PeersOwned, FrameInv
<1>9. ASSUME NEW p \in Peers, DecryptFails(p)
      PROVE  HandlerPeerLive'
  BY <1>9, DistinctAssumption DEF DecryptFails, With, Destroy, Free,
     Return, App, IInv, Inv, TypeOK, Frames, HandlerPeerLive, PeersOwned,
     FrameInv
<1>10. ASSUME NEW p \in Peers, HandleCcs(p)
      PROVE  HandlerPeerLive'
  BY <1>10, DistinctAssumption DEF HandleCcs, With, Destroy, Free,
     Return, App, IInv, Inv, TypeOK, Frames, HandlerPeerLive, PeersOwned,
     FrameInv
<1>11. ASSUME NEW p \in Peers, HandleAlert(p)
      PROVE  HandlerPeerLive'
  <2>1. frame'.peer = frame.peer /\ live' = live
    BY <1>11 DEF HandleAlert, CallBack, IInv, Inv, TypeOK, Frames
  <2> QED BY <2>1 DEF IInv, Inv, HandlerPeerLive
<1>12. ASSUME NEW p \in Peers, AlertReturns(p)
      PROVE  HandlerPeerLive'
  BY <1>12, DistinctAssumption DEF AlertReturns, Free, Return, App,
     IInv, Inv, TypeOK, Frames, HandlerPeerLive, PeersOwned, FrameInv
<1>13. ASSUME NEW p \in Peers, HandshakeFails(p)
      PROVE  HandlerPeerLive'
  BY <1>13, DistinctAssumption DEF HandshakeFails, With, Fail,
     Return, App, IInv, Inv, TypeOK, Frames, HandlerPeerLive, PeersOwned,
     FrameInv
<1>14. ASSUME NEW p \in Peers, HandshakeAdvances(p)
      PROVE  HandlerPeerLive'
  BY <1>14, DistinctAssumption DEF HandshakeAdvances, With, IInv,
     Inv, TypeOK, Frames, HandlerPeerLive, PeersOwned, FrameInv
<1>15. ASSUME NEW p \in Peers, HandshakeFinishes(p)
      PROVE  HandlerPeerLive'
  BY <1>15, DistinctAssumption DEF HandshakeFinishes, With,
     CallBack, IInv, Inv, TypeOK, Frames, HandlerPeerLive, PeersOwned, FrameInv
<1>16. ASSUME NEW p \in Peers, HandshakeIgnored(p)
      PROVE  HandlerPeerLive'
  BY <1>16, DistinctAssumption DEF HandshakeIgnored, With, CallBack,
     IInv, Inv, TypeOK, Frames, HandlerPeerLive, PeersOwned, FrameInv
<1>17. ASSUME NEW p \in Peers, HandshakeRestarts(p)
      PROVE  HandlerPeerLive'
  BY <1>17, DistinctAssumption DEF HandshakeRestarts, With,
     Allocated, Taken, Return, App, IInv, Inv, TypeOK, Frames,
     HandlerPeerLive, PeersOwned, FrameInv
<1>18. ASSUME NEW p \in Peers, ApplicationData(p)
      PROVE  HandlerPeerLive'
  BY <1>18, DistinctAssumption DEF ApplicationData, With, CallBack,
     IInv, Inv, TypeOK, Frames, HandlerPeerLive, PeersOwned, FrameInv
<1>19. ASSUME NEW s \in Sessions, NewServer(s)
      PROVE  HandlerPeerLive'
  BY <1>19, DistinctAssumption DEF NewServer, Without, Allocated,
     Taken, App, IInv, Inv, TypeOK, Frames, HandlerPeerLive, PeersOwned,
     FrameInv
<1>20. ASSUME NEW s \in Sessions, ErrorWithout(s)
      PROVE  HandlerPeerLive'
  BY <1>20, DistinctAssumption DEF ErrorWithout, Without, Fail,
     Return, App, IInv, Inv, TypeOK, Frames, HandlerPeerLive, PeersOwned,
     FrameInv
<1>21. CASE UNCHANGED vars
  BY <1>21 DEF vars, IInv, Inv, TypeOK, Frames, HandlerPeerLive, PeersOwned,
     FrameInv
<1>22. ASSUME NEW p \in Peers, KeyExchangeWithoutSuite(p)
      PROVE  HandlerPeerLive'
  BY <1>22 DEF KeyExchangeWithoutSuite, With, IInv, Inv, HandlerPeerLive
<1> QED BY <1>1, <1>2, <1>3, <1>4, <1>5, <1>6, <1>7, <1>8, <1>9, <1>10,
       <1>11, <1>12, <1>13, <1>14, <1>15, <1>16, <1>17, <1>18, <1>19, <1>20,
       <1>21, <1>22 DEF Next, Call, HandleRecord

(* The table as the handler knows it.                                      *)
LEMMA FrameStep ==
  ASSUME IInv, [Next]_vars
  PROVE  FrameInv'
<1>1. ASSUME NEW s \in Sessions, AppRuns, DtlsConnect(s)
      PROVE  FrameInv'
  <2>1. frame.at # "record" /\ UNCHANGED frame
    BY <1>1 DEF AppRuns, DtlsConnect
  <2>2. PICK q \in Peers \ live : live' = live \cup {q} /\ table' = table \cup {q}
    BY <1>1 DEF DtlsConnect
  <2> QED BY <2>1, <2>2 DEF FrameInv, IInv, Inv
<1>2. ASSUME NEW p \in Peers, AppRuns, DtlsRenegotiate(p)
      PROVE  FrameInv'
  BY <1>2, DistinctAssumption DEF DtlsRenegotiate, Allocated, Taken, IInv,
     Inv, TypeOK, Frames, FrameInv, PeersOwned, HandlerPeerLive, Find
<1>3. ASSUME NEW p \in Peers, AppRuns, DtlsClose(p)
      PROVE  FrameInv'
  BY <1>3, DistinctAssumption DEF DtlsClose, IInv, Inv, TypeOK, Frames,
     FrameInv, PeersOwned, HandlerPeerLive, Find
<1>4. ASSUME FreeContext
      PROVE  FrameInv'
  BY <1>4, DistinctAssumption DEF FreeContext, IInv, Inv, TypeOK, Frames,
     FrameInv, PeersOwned, HandlerPeerLive, Find
<1>5. ASSUME GiveUp
      PROVE  FrameInv'
  BY <1>5, DistinctAssumption DEF GiveUp, IInv, Inv, TypeOK, Frames,
     FrameInv, PeersOwned, HandlerPeerLive, Find
<1>6. ASSUME Receive
      PROVE  FrameInv'
  <2>0. PICK s \in Sessions : \E q \in Found(s) :
           frame' = [App EXCEPT !.at = "record", !.session = s, !.peer = q]
    BY <1>6 DEF Receive
  <2>1. PICK q \in Found(s) :
           frame' = [App EXCEPT !.at = "record", !.session = s, !.peer = q]
    BY <2>0
  <2>2. frame'.at = "record" /\ frame'.session = s /\ frame'.peer = q
    BY <2>1 DEF App
  <2>3. q = None => Find(s) = {}
    BY FoundPeer DEF IInv, Inv
  <2>4. UNCHANGED <<slot, table>>
    BY <1>6 DEF Receive
  <2> QED BY <2>2, <2>3, <2>4 DEF FrameInv, Find
<1>7. ASSUME NoMoreRecords
      PROVE  FrameInv'
  BY <1>7, DistinctAssumption DEF NoMoreRecords, Return, App, IInv, Inv,
     TypeOK, Frames, FrameInv, PeersOwned, HandlerPeerLive, Find
<1>8. ASSUME CallbackReturns
      PROVE  FrameInv'
  BY <1>8, DistinctAssumption DEF CallbackReturns, IInv, Inv, TypeOK, Frames,
     FrameInv, PeersOwned, HandlerPeerLive, Find
<1>9. ASSUME NEW p \in Peers, DecryptFails(p)
      PROVE  FrameInv'
  BY <1>9, DistinctAssumption DEF DecryptFails, With, Destroy, Free, Return,
     App, IInv, Inv, TypeOK, Frames, FrameInv, PeersOwned, HandlerPeerLive,
     Find
<1>10. ASSUME NEW p \in Peers, HandleCcs(p)
      PROVE  FrameInv'
  BY <1>10, DistinctAssumption DEF HandleCcs, With, Destroy, Free, Return,
     App, IInv, Inv, TypeOK, Frames, FrameInv, PeersOwned, HandlerPeerLive,
     Find
<1>11. ASSUME NEW p \in Peers, HandleAlert(p)
      PROVE  FrameInv'
  <2>1. p \in table /\ live' = live
    BY <1>11, DistinctAssumption DEF HandleAlert, With, IInv, Inv,
       PeersOwned, HandlerPeerLive
  <2>2. CASE /\ table' = table \ {p}
             /\ \E close \in BOOLEAN :
                  frame' = [frame EXCEPT !.at = "alert", !.close = close]
    <3>1. frame'.at = "alert" /\ frame'.peer = p
      BY <1>11, <2>2 DEF HandleAlert, With, IInv, Inv, TypeOK, Frames
    <3> QED BY <2>1, <2>2, <3>1 DEF FrameInv, IInv, Inv, PeersOwned
  <2>3. CASE UNCHANGED table /\ CallBack
    <3>1. frame'.at = "callback" /\ frame'.peer = p
      BY <1>11, <2>3 DEF HandleAlert, With, CallBack, IInv, Inv, TypeOK, Frames
    <3> QED BY <3>1, DistinctAssumption DEF FrameInv
  <2> QED BY <1>11, <2>2, <2>3 DEF HandleAlert
<1>12. ASSUME NEW p \in Peers, AlertReturns(p)
      PROVE  FrameInv'
  BY <1>12, DistinctAssumption DEF AlertReturns, Free, Return, App, IInv,
     Inv, TypeOK, Frames, FrameInv, PeersOwned, HandlerPeerLive, Find
<1>13. ASSUME NEW p \in Peers, HandshakeFails(p)
      PROVE  FrameInv'
  BY <1>13, DistinctAssumption DEF HandshakeFails, With, Fail, Return, App,
     IInv, Inv, TypeOK, Frames, FrameInv, PeersOwned, HandlerPeerLive, Find
<1>14. ASSUME NEW p \in Peers, HandshakeAdvances(p)
      PROVE  FrameInv'
  BY <1>14, DistinctAssumption DEF HandshakeAdvances, With, IInv, Inv,
     TypeOK, Frames, FrameInv, PeersOwned, HandlerPeerLive, Find
<1>15. ASSUME NEW p \in Peers, HandshakeFinishes(p)
      PROVE  FrameInv'
  BY <1>15, DistinctAssumption DEF HandshakeFinishes, With, CallBack, IInv,
     Inv, TypeOK, Frames, FrameInv, PeersOwned, HandlerPeerLive, Find
<1>16. ASSUME NEW p \in Peers, HandshakeIgnored(p)
      PROVE  FrameInv'
  BY <1>16, DistinctAssumption DEF HandshakeIgnored, With, CallBack, IInv,
     Inv, TypeOK, Frames, FrameInv, PeersOwned, HandlerPeerLive, Find
<1>17. ASSUME NEW p \in Peers, HandshakeRestarts(p)
      PROVE  FrameInv'
  BY <1>17, DistinctAssumption DEF HandshakeRestarts, With, Allocated, Taken,
     Return, App, IInv, Inv, TypeOK, Frames, FrameInv, PeersOwned,
     HandlerPeerLive, Find
<1>18. ASSUME NEW p \in Peers, ApplicationData(p)
      PROVE  FrameInv'
  BY <1>18, DistinctAssumption DEF ApplicationData, With, CallBack, IInv,
     Inv, TypeOK, Frames, FrameInv, PeersOwned, HandlerPeerLive, Find
<1>19. ASSUME NEW s \in Sessions, NewServer(s)
      PROVE  FrameInv'
  BY <1>19, DistinctAssumption DEF NewServer, Without, Allocated, Taken, App,
     IInv, Inv, TypeOK, Frames, FrameInv, PeersOwned, HandlerPeerLive, Find
<1>20. ASSUME NEW s \in Sessions, ErrorWithout(s)
      PROVE  FrameInv'
  <2>1. frame' = App
    BY <1>20 DEF ErrorWithout, Return
  <2> QED BY <2>1 DEF App, FrameInv
<1>21. CASE UNCHANGED vars
  BY <1>21 DEF vars, IInv, Inv, TypeOK, Frames, FrameInv, PeersOwned,
     HandlerPeerLive, Find
<1>22. ASSUME NEW p \in Peers, KeyExchangeWithoutSuite(p)
      PROVE  FrameInv'
  BY <1>22, DistinctAssumption DEF KeyExchangeWithoutSuite, With, IInv,
     FrameInv
<1> QED BY <1>1, <1>2, <1>3, <1>4, <1>5, <1>6, <1>7, <1>8, <1>9, <1>10,
       <1>11, <1>12, <1>13, <1>14, <1>15, <1>16, <1>17, <1>18, <1>19, <1>20,
       <1>21, <1>22 DEF Next, Call, HandleRecord

-----------------------------------------------------------------------------
(* Action properties *)

(* A peer is added by dtls_connect, for a session without one, or by a     *)
(* ClientHello; FrameInv says of the first of a datagram that its session  *)
(* has none.                                                               *)
LEMMA SecondPeersStep ==
  ASSUME IInv, [Next]_vars
  PROVE  \A p \in table' \ table, q \in table :
           slot'[p].session = slot[q].session
           => /\ frame.at = "record" /\ frame.peer = None /\ frame.hello
              /\ slot'[p].role = "server"
<1> DEFINE Goal == \A p \in table' \ table, q \in table :
                     slot'[p].session = slot[q].session
                     => /\ frame.at = "record" /\ frame.peer = None /\ frame.hello
                        /\ slot'[p].role = "server"
<1>1. CASE table' \subseteq table
  BY <1>1
<1>2. ASSUME NEW s \in Sessions, DtlsConnect(s)
      PROVE  Goal
  BY <1>2 DEF DtlsConnect, Find, IInv, Inv, TypeOK
<1>3. ASSUME NEW s \in Sessions, NewServer(s)
      PROVE  Goal
  BY <1>3 DEF NewServer, Without, Find, IInv, Inv, TypeOK, FrameInv
<1>4. ASSUME ~(\E s \in Sessions : DtlsConnect(s) \/ NewServer(s))
      PROVE  table' \subseteq table
  BY <1>4 DEF Next, vars, Call, HandleRecord, DtlsRenegotiate, DtlsClose,
     FreeContext, GiveUp, Receive, NoMoreRecords, CallbackReturns, DecryptFails,
     Destroy, HandleCcs, HandleAlert, AlertReturns, HandshakeFails,
     HandshakeAdvances, KeyExchangeWithoutSuite, HandshakeFinishes,
     HandshakeIgnored, HandshakeRestarts, ApplicationData, ErrorWithout
<1> QED BY <1>1, <1>2, <1>3, <1>4

(* dtls_renegotiate drops the pointer to the parameters the peer has; no   *)
(* other peer has them.                                                    *)
LEMMA RenegotiateReplaces ==
  ASSUME IInv, AppRuns, NEW p \in Peers, DtlsRenegotiate(p)
  PROVE  \/ LostParams' \subseteq LostParams
         \/ AppRuns /\ \E q \in table :
              /\ slot[q].state = "CONNECTED" /\ slot[q].hs # None
              /\ LostParams' = LostParams \cup {slot[q].hs}
<1>1. PICK x \in Params \cup {None} :
        /\ Allocated(x) /\ Taken(x)
        /\ slot' \in [Peers -> Slots]
        /\ slot'[p].hs = x
        /\ \A q \in Peers \ {p} : slot'[q] = slot[q]
  <2>1. PICK x \in Params \cup {None}, sent \in BOOLEAN :
           /\ Allocated(x) /\ Taken(x)
           /\ slot' = [slot EXCEPT ![p].hs = x,
                 ![p].state = IF x # None /\ sent /\ slot[p].role = "client"
                              THEN "HANDSHAKE" ELSE slot[p].state]
    BY DEF DtlsRenegotiate
  <2>2. slot' \in [Peers -> Slots]
    <3>1. [Next]_vars
      BY DEF Next, Call
    <3> QED BY <3>1, ObjectTypes DEF ObjectsOK
  <2>3. slot'[p].hs = x /\ \A q \in Peers \ {p} : slot'[q] = slot[q]
    BY <2>1 DEF IInv, Inv, TypeOK, Slots
  <2> QED BY <2>1, <2>2, <2>3
<1>2. p \in table /\ table \subseteq live /\ live' = live /\ live \subseteq Peers
      /\ slot[p].state = "CONNECTED"
  BY DEF DtlsRenegotiate, IInv, Inv, TypeOK, PeersOwned
<1>3. params' = params \cup ({x} \ {None})
  BY <1>1 DEF Taken
<1>4. x # None => x \notin params
  BY <1>1, DistinctAssumption DEF Allocated
<1>5. params \subseteq Params /\ None \notin Params
  BY DistinctAssumption DEF IInv, Inv, TypeOK
<1>6. CASE slot[p].hs = None
  <2>1. \A q \in live : slot[q].hs \in params' => slot'[q].hs = slot[q].hs
    BY <1>1, <1>2, <1>3, <1>5, <1>6
  <2>2. params' \subseteq params \cup {slot'[q].hs : q \in live'}
    BY <1>1, <1>2, <1>3
  <2> QED BY <1>2, <2>1, <2>2, NothingLost
<1>7. CASE slot[p].hs # None
  <2>1. slot[p].hs \in params /\ \A q \in live \ {p} : slot[q].hs # slot[p].hs
    BY <1>2, <1>7 DEF IInv, Inv, ParamsOwned
  <2>2. slot[p].hs # x
    BY <1>4, <1>7, <2>1
  <2>3. {slot'[q].hs : q \in live'} = {slot[q].hs : q \in live \ {p}} \cup {x}
    BY <1>1, <1>2
  <2>4. {slot[q].hs : q \in live} = {slot[q].hs : q \in live \ {p}} \cup {slot[p].hs}
    BY <1>2
  <2>5. slot[p].hs \notin {slot[q].hs : q \in live \ {p}}
    BY <2>1
  <2>6. LostParams' = LostParams \cup {slot[p].hs}
    BY <1>3, <1>4, <1>5, <2>1, <2>2, <2>3, <2>4, <2>5 DEF LostParams
  <2> QED BY <1>2, <1>7, <2>6
<1> QED BY <1>6, <1>7

(* Every other step gives what it allocates to a peer and frees what it    *)
(* takes from one.                                                         *)
LEMMA ParamsReplacedStep ==
  ASSUME IInv, [Next]_vars
  PROVE  \/ LostParams' \subseteq LostParams
         \/ AppRuns /\ \E p \in table :
              /\ slot[p].state = "CONNECTED" /\ slot[p].hs # None
              /\ LostParams' = LostParams \cup {slot[p].hs}
<1> DEFINE Kept == LostParams' \subseteq LostParams
<1>1. CASE UNCHANGED <<slot, live, table, params>>
  BY <1>1 DEF LostParams
<1> USE DEF IInv, Inv
<1>2. ASSUME NEW s \in Sessions, DtlsConnect(s)
      PROVE  Kept
  <2>1. PICK q \in Peers \ live, x \in Params \cup {None} :
           /\ Taken(x) /\ live' = live \cup {q}
           /\ slot'[q].hs = x
           /\ \A r \in Peers \ {q} : slot'[r] = slot[r]
    BY <1>2 DEF DtlsConnect, TypeOK
  <2>2. params' \subseteq params \cup {slot'[r].hs : r \in live'}
    BY <2>1 DEF Taken
  <2> QED BY <2>1, <2>2, NothingLost DEF TypeOK
<1>3. ASSUME NEW p \in Peers, DtlsClose(p)
      PROVE  Kept
  BY <1>3, NothingLost DEF DtlsClose, TypeOK, Slots
<1>4. ASSUME FreeContext
      PROVE  Kept
  <2>1. live = table /\ live' = {} /\ params' = params \ {slot[p].hs : p \in live}
    BY <1>4 DEF FreeContext, PeersOwned
  <2> QED BY <2>1 DEF LostParams
<1>5. ASSUME NEW p \in Peers, Free(p),
             \A q \in Peers \ {p} : slot'[q].hs = slot[q].hs
      PROVE  Kept
  BY <1>5, NothingLost DEF Free, TypeOK
<1>6. ASSUME NEW p \in Peers, Destroy(p)
      PROVE  Kept
  BY <1>5, <1>6, FreedSlot DEF Destroy, TypeOK
<1>7. ASSUME NEW p \in Peers, DecryptFails(p) \/ HandleCcs(p) \/ HandleAlert(p)
      PROVE  Kept
  BY <1>1, <1>6, <1>7 DEF DecryptFails, HandleCcs, HandleAlert, LostParams
<1>8. ASSUME NEW p \in Peers, AlertReturns(p)
      PROVE  Kept
  BY <1>5, <1>8, AlertSlots DEF AlertReturns
<1>9. ASSUME NEW p \in Peers, HandshakeFails(p) \/ KeyExchangeWithoutSuite(p)
      PROVE  Kept
  BY <1>9, NothingLost DEF HandshakeFails, KeyExchangeWithoutSuite, Fail, TypeOK,
     Slots
<1>10. ASSUME NEW p \in Peers, HandshakeFinishes(p)
       PROVE  Kept
  <2>1. \A q \in Peers \ {p} : slot'[q] = slot[q]
    BY <1>10 DEF HandshakeFinishes, TypeOK
  <2>2. params' = params \ {slot[p].hs} /\ live' = live
    BY <1>10 DEF HandshakeFinishes
  <2> QED BY <2>1, <2>2, NothingLost DEF TypeOK
<1>11. ASSUME NEW p \in Peers, HandshakeRestarts(p)
       PROVE  Kept
  <2>1. p \in live
    BY <1>11, DistinctAssumption DEF HandshakeRestarts, With, HandlerPeerLive
  <2>2. PICK x \in Params \cup {None}, state \in {"HANDSHAKE", "CLOSING"} :
           /\ IF slot[p].hs # None THEN x = slot[p].hs /\ UNCHANGED params
              ELSE Taken(x)
           /\ slot' = [slot EXCEPT ![p].hs = x, ![p].state = state]
    BY <1>11 DEF HandshakeRestarts
  <2>3. slot'[p].hs = x /\ \A q \in Peers \ {p} : slot'[q] = slot[q]
    BY <2>2 DEF TypeOK, Slots
  <2>4. live' = live /\ None \notin params
    BY <1>11, DistinctAssumption DEF HandshakeRestarts, TypeOK
  <2>5. params' \subseteq params \cup {slot'[r].hs : r \in live'}
    BY <2>1, <2>2, <2>3, <2>4 DEF Taken
  <2>6. \A q \in live : slot[q].hs \in params' => slot'[q].hs = slot[q].hs
    BY <2>2, <2>3, <2>4, DistinctAssumption DEF Taken, TypeOK
  <2> QED BY <2>4, <2>5, <2>6, NothingLost
<1>12. ASSUME NEW s \in Sessions, NewServer(s)
       PROVE  Kept
  <2>1. PICK q \in Peers \ live, x \in Params \cup {None} :
           /\ Taken(x) /\ live' = live \cup {q}
           /\ slot'[q].hs = x
           /\ \A r \in Peers \ {q} : slot'[r] = slot[r]
    BY <1>12 DEF NewServer, TypeOK
  <2>2. params' \subseteq params \cup {slot'[r].hs : r \in live'}
    BY <2>1 DEF Taken
  <2> QED BY <2>1, <2>2, NothingLost DEF TypeOK
<1>13. ASSUME NEW s \in Sessions, ErrorWithout(s)
       PROVE  Kept
  <2>1. PICK q \in Found(s) : IF q = None THEN UNCHANGED slot ELSE Fail(q)
    BY <1>13 DEF ErrorWithout
  <2>2. \A r \in Peers : slot'[r].hs = slot[r].hs
    BY <2>1, FoundPeer DEF Fail, TypeOK, Slots
  <2> QED BY <1>13, <2>2, NothingLost DEF ErrorWithout, TypeOK
<1> QED BY <1>1, <1>2, <1>3, <1>4, <1>7, <1>8, <1>9, <1>10, <1>11, <1>12, <1>13,
       RenegotiateReplaces, Inert DEF Next, Call, HandleRecord, vars

(* Queueing and stopping change a node to their peer's or to a free one.   *)
LEMMA NodeAfter ==
  ASSUME TypeOK, NEW p \in Peers, NEW n \in Nodes
  PROVE  /\ Stopped(p)[n] \in {node[n], None} /\ Stopped(p)[n] # p
         /\ Queued(node, p)[n] \in {node[n], p}
         /\ Queued(Stopped(p), p)[n] \in {node[n], None, p}
<1>1. ASSUME NEW old \in [Nodes -> Peers \cup {None, Lost}]
      PROVE  Queued(old, p)[n] \in {old[n], p}
  BY DEF Queued
<1>2. Stopped(p)[n] \in {node[n], None} /\ Stopped(p)[n] # p
  BY DistinctAssumption DEF Stopped, TypeOK
<1>3. Queued(Stopped(p), p)[n] \in {Stopped(p)[n], p}
  BY <1>1, StoppedType
<1> QED BY <1>1, <1>2, <1>3 DEF TypeOK

(* A handler that frees a peer has stopped its messages, unless the record *)
(* did not open; all others free nobody, and queue for allocated peers.    *)
LEMMA NodesOrphanedStep ==
  ASSUME IInv, [Next]_vars, NEW n \in Nodes,
         node[n] \in live, node'[n] \in Peers \ live'
  PROVE  /\ frame.at = "record" /\ frame.peer = node[n]
         /\ slot[node[n]].state \in {"INIT", "HANDSHAKE"}
<1> USE DistinctAssumption DEF IInv, Inv
<1>1. None \notin Peers /\ Lost \notin Peers \cup {None} /\ live \subseteq Peers
  BY DEF TypeOK
<1>2. ASSUME live \subseteq live', node'[n] \in {node[n], None} \cup live'
      PROVE  FALSE
  BY <1>1, <1>2
<1>3. ASSUME NEW p \in Peers, With(p) PROVE p \in live
  BY <1>1, <1>3 DEF With, HandlerPeerLive
<1>4. ASSUME NEW s \in Sessions, DtlsConnect(s) PROVE FALSE
  <2>1. PICK p \in Peers \ live : live' = live \cup {p} /\ node' \in {node, Queued(node, p)}
    BY <1>4 DEF DtlsConnect
  <2> QED BY <1>2, <2>1, NodeAfter
<1>5. ASSUME NEW p \in Peers, DtlsRenegotiate(p) PROVE FALSE
  <2>1. p \in live /\ live' = live /\ node' \in {node, Queued(node, p)}
    BY <1>5 DEF DtlsRenegotiate, PeersOwned
  <2> QED BY <1>2, <2>1, NodeAfter
<1>6. CASE \/ \E p \in Peers : DtlsClose(p)
           \/ Receive \/ NoMoreRecords \/ CallbackReturns
           \/ \E s \in Sessions : ErrorWithout(s)
           \/ UNCHANGED vars
  <2>1. node' = node /\ live' = live
    <3>1. ASSUME NEW p \in Peers, DtlsClose(p) PROVE node' = node /\ live' = live
      BY <3>1 DEF DtlsClose
    <3>2. CASE Receive \/ NoMoreRecords \/ CallbackReturns
      BY <3>2, Zenon DEF Receive, NoMoreRecords, CallbackReturns
    <3>3. ASSUME NEW s \in Sessions, ErrorWithout(s) PROVE node' = node /\ live' = live
      BY <3>3 DEF ErrorWithout
    <3>4. CASE UNCHANGED vars
      BY <3>4 DEF vars
    <3> QED BY <1>6, <3>1, <3>2, <3>3, <3>4
  <2> QED BY <1>2, <2>1
<1>7. CASE FreeContext
  BY <1>1, <1>7 DEF FreeContext, TypeOK
<1>8. CASE GiveUp
  BY <1>2, <1>8 DEF GiveUp, TypeOK
<1>9. ASSUME NEW p \in Peers, DecryptFails(p)
      PROVE  /\ frame.at = "record" /\ frame.peer = node[n]
             /\ slot[node[n]].state \in {"INIT", "HANDSHAKE"}
  <2>1. node'[n] = node[n]
    BY <1>9 DEF DecryptFails
  <2>2. node[n] \notin live'
    BY <2>1
  <2>3. slot[p].state \in {"INIT", "HANDSHAKE"} /\ live' = live \ {p}
    BY <1>9, <2>2 DEF DecryptFails, Destroy, Free
  <2>4. node[n] = p
    BY <2>2, <2>3
  <2> QED BY <1>9, <2>3, <2>4 DEF DecryptFails, With
<1>10. ASSUME NEW p \in Peers, HandleCcs(p) \/ AlertReturns(p) PROVE FALSE
  <2>1. node' = Stopped(p) /\ (live' = live \/ live' = live \ {p})
    <3>1. CASE HandleCcs(p)
      BY <3>1 DEF HandleCcs, Destroy, Free
    <3>2. CASE AlertReturns(p)
      BY <3>2 DEF AlertReturns, Free
    <3> QED BY <1>10, <3>1, <3>2
  <2> QED BY <1>1, <2>1, NodeAfter
<1>11. ASSUME NEW p \in Peers,
             \/ HandleAlert(p) \/ HandshakeFails(p) \/ KeyExchangeWithoutSuite(p)
             \/ HandshakeFinishes(p) \/ HandshakeIgnored(p) \/ ApplicationData(p)
      PROVE  FALSE
  <2>1. node' = Stopped(p) /\ live' = live
    <3>1. CASE HandleAlert(p)
      BY <3>1, Zenon DEF HandleAlert
    <3>2. CASE HandshakeFails(p) \/ KeyExchangeWithoutSuite(p) \/ HandshakeFinishes(p)
      BY <3>2 DEF HandshakeFails, KeyExchangeWithoutSuite, HandshakeFinishes
    <3>3. CASE HandshakeIgnored(p) \/ ApplicationData(p)
      BY <3>3 DEF HandshakeIgnored, ApplicationData
    <3> QED BY <1>11, <3>1, <3>2, <3>3
  <2> QED BY <1>2, <2>1, NodeAfter
<1>12. ASSUME NEW p \in Peers, HandshakeAdvances(p) \/ HandshakeRestarts(p) PROVE FALSE
  <2>1. /\ With(p) /\ live' = live
        /\ node' \in {Stopped(p), Queued(Stopped(p), p)}
    <3>1. CASE HandshakeAdvances(p)
      BY <3>1 DEF HandshakeAdvances
    <3>2. CASE HandshakeRestarts(p)
      BY <3>2 DEF HandshakeRestarts
    <3> QED BY <1>12, <3>1, <3>2
  <2> QED BY <1>2, <1>3, <2>1, NodeAfter
<1>13. ASSUME NEW s \in Sessions, NewServer(s) PROVE FALSE
  <2>1. PICK p \in Peers \ live : live' = live \cup {p} /\ node' \in {node, Queued(node, p)}
    BY <1>13 DEF NewServer
  <2> QED BY <1>2, <2>1, NodeAfter
<1> QED BY <1>4, <1>5, <1>6, <1>7, <1>8, <1>9, <1>10, <1>11, <1>12, <1>13
       DEF Next, Call, HandleRecord

-----------------------------------------------------------------------------
(* The initial state has no peers.                                         *)
LEMMA InitInv == Init => IInv
BY DistinctAssumption
   DEF Init, App, IInv, Inv, TypeOK, Slots, States, Frames, PeersOwned,
       ParamsOwned, HandshakeHasParams, HandlerPeerLive, FrameInv

(* The invariant is inductive.                                             *)
LEMMA Inductive ==
  ASSUME IInv, [Next]_vars
  PROVE  IInv'
BY TypeStep, PeersOwnedStep, ParamsOwnedStep, HandshakeStep, HandlerStep,
   FrameStep DEF IInv, Inv

(* The invariant holds in every reachable state, whatever a datagram       *)
(* brings and the application calls (dtls_handle_message).                 *)
THEOREM Invariance == Spec => []IInv
<1>1. IInv /\ [Next]_vars => IInv'
  BY Inductive
<1> QED BY InitInv, <1>1, PTL DEF Spec

(* A session with a peer gets another only from a further ClientHello of   *)
(* the same datagram, for any number of sessions and peers.                *)
THEOREM OnlyHellosRepeat == Spec => SecondPeers
<1>1. IInv /\ [Next]_vars
      => [\A p \in table' \ table, q \in table :
            slot'[p].session = slot[q].session
            => /\ frame.at = "record" /\ frame.peer = None /\ frame.hello
               /\ slot'[p].role = "server"]_vars
  BY SecondPeersStep
<1> QED BY Invariance, <1>1, PTL DEF Spec, SecondPeers

(* No peer is leaked, and none is freed while the table has it.            *)
THEOREM PeerOwnership == Spec => []PeersOwned
<1>1. IInv => PeersOwned
  BY DEF IInv, Inv
<1> QED BY Invariance, <1>1, PTL

(* A peer's handshake parameters are allocated and its own.                *)
THEOREM ParamsOwnership == Spec => []ParamsOwned
<1>1. IInv => ParamsOwned
  BY DEF IInv, Inv
<1> QED BY Invariance, <1>1, PTL

(* Parameters are lost only when dtls_renegotiate is called for a peer     *)
(* that has some.                                                          *)
THEOREM OnlyCallsLoseParams == Spec => ParamsReplaced
<1>1. IInv /\ [Next]_vars
      => [\/ LostParams' \subseteq LostParams
          \/ AppRuns /\ \E p \in table :
               /\ slot[p].state = "CONNECTED" /\ slot[p].hs # None
               /\ LostParams' = LostParams \cup {slot[p].hs}]_vars
  BY ParamsReplacedStep
<1> QED BY Invariance, <1>1, PTL DEF Spec, ParamsReplaced

(* A peer in a handshake has its parameters.                               *)
THEOREM ParamsPresent == Spec => []HandshakeHasParams
<1>1. IInv => HandshakeHasParams
  BY DEF IInv, Inv
<1> QED BY Invariance, <1>1, PTL

(* A handler never goes on with a peer that a callback or an earlier       *)
(* record has freed.                                                       *)
THEOREM NoUseAfterFree == Spec => []HandlerPeerLive
<1>1. IInv => HandlerPeerLive
  BY DEF IInv, Inv
<1> QED BY Invariance, <1>1, PTL

(* A node of the queue loses its peer only while a record of that peer is  *)
(* handled before the peer is connected: alerts and their callbacks, the   *)
(* records of a connected peer and the calls leave none behind, for any    *)
(* number of peers and nodes.                                              *)
THEOREM OnlyFailuresOrphan == Spec => NodesOrphaned
<1>1. IInv /\ [Next]_vars
      => [\A n \in Nodes : node[n] \in live /\ node'[n] \in Peers \ live' =>
            /\ frame.at = "record" /\ frame.peer = node[n]
            /\ slot[node[n]].state \in {"INIT", "HANDSHAKE"}]_vars
  BY NodesOrphanedStep
<1> QED BY Invariance, <1>1, PTL DEF Spec, NodesOrphaned
=============================================================================
