---------------------------- MODULE ServeProofs ----------------------------
(***************************************************************************)
(* Proofs about Serve, for any number of connections.                      *)
(*                                                                         *)
(* That Ok means drained rests on the order of the shutdown: the switch is *)
(* tripped only by the shutdown future, the accept loop ends only once it  *)
(* is tripped and takes the backlog along, and nothing is queued, let      *)
(* alone accepted, after that (ShutdownOrder).                             *)
(***************************************************************************)
EXTENDS Serve, TLAPS

-----------------------------------------------------------------------------
(* Types.                                                                  *)

\* One step keeps every variable in its type.
LEMMA ServeTypeStep == ServeTypeOK /\ [ServeNext]_serveVars => ServeTypeOK'
<1> SUFFICES ASSUME ServeTypeOK, [ServeNext]_serveVars PROVE ServeTypeOK'
  OBVIOUS
<1> USE DEF ServeTypeOK, Phase, Result, ConnState, InProgress
<1>1. CASE Bind \/ StartServing \/ SignalFires
  BY <1>1 DEF Bind, Return, StartServing, SignalFires, serverVars
<1>2. CASE Trip \/ StopAccepting \/ Drained \/ ServeFails
  BY <1>2 DEF Trip, StopAccepting, Drained, ServeFails, ResetBacklog, Return
<1>3. ASSUME NEW c \in Conns, ConnNext(c) PROVE ServeTypeOK'
  <2>1. CASE Accept(c) \/ Connect(c) \/ Send(c) \/ SendPart(c) \/ SendRest(c)
    BY <2>1 DEF Accept, Connect, Send, SendPart, SendRest
  <2>2. CASE ReadRequest(c)
    BY <2>2 DEF ReadRequest
  <2>3. CASE Respond(c)
    BY <2>3 DEF Respond, Close
  <2>4. CASE HangUp(c)
    BY <2>4 DEF HangUp, Close
  <2>5. CASE ShutDownConnection(c)
    BY <2>5 DEF ShutDownConnection, Close, Idle
  <2> QED
    BY <1>3, <2>1, <2>2, <2>3, <2>4, <2>5 DEF ConnNext
<1>4. CASE UNCHANGED serveVars
  BY <1>4 DEF serveVars, serverVars
<1> QED
  BY <1>1, <1>2, <1>3, <1>4 DEF ServeNext, ServerNext

\* Every variable of the server keeps its type; only a live connection has
\* anything to read, and only a request in progress is still to be closed.
THEOREM ServeTypeCorrect == ServeSpec => []ServeTypeOK
<1>1. ServeInit => ServeTypeOK
  BY DEF ServeInit, ServeTypeOK, Phase, Result, ConnState, InProgress
<1> QED
  BY <1>1, ServeTypeStep, PTL DEF ServeSpec

-----------------------------------------------------------------------------
(* Shutdown in order.                                                      *)

\* Signal, switch, accept loop, return: each only after the one before, and no
\* backlog without the listener.
ShutdownOrder ==
  /\ tripped => fired
  /\ phase = "draining" => tripped
  /\ phase \in {"draining", "returned"} => \A c \in Conns : conn[c] # "queued"
  /\ result # "none" => phase = "returned"

\* Before serve() is bound there are no connections.
Unbound == phase = "starting" => \A c \in Conns : conn[c] = "none"

ServeInv ==
  /\ ServeTypeOK
  /\ ShutdownOrder
  /\ Unbound
  /\ OkMeansDrained

\* One step keeps the order of the shutdown.
LEMMA ServeInvStep == ServeInv /\ [ServeNext]_serveVars => ServeInv'
<1> SUFFICES ASSUME ServeInv, [ServeNext]_serveVars PROVE ServeInv'
  OBVIOUS
<1>0. ServeTypeOK'
  BY ServeTypeStep DEF ServeInv
<1> USE <1>0 DEF ServeInv, ServeTypeOK, ShutdownOrder, Unbound, OkMeansDrained, Phase, Result,
           ConnState, InProgress
<1>1. CASE Bind \/ StartServing \/ SignalFires
  BY <1>1 DEF Bind, Return, StartServing, SignalFires, serverVars
<1>2. CASE Trip \/ StopAccepting
  BY <1>2 DEF Trip, StopAccepting, ResetBacklog
<1>3. CASE Drained
  BY <1>3 DEF Drained, Return, Accepted, Idle
<1>4. CASE ServeFails
  BY <1>4 DEF ServeFails, ResetBacklog, Return
<1>5. ASSUME NEW c \in Conns, ConnNext(c) PROVE ServeInv'
  <2>1. CASE \/ Accept(c) \/ Connect(c) \/ ReadRequest(c)
              \/ Send(c) \/ SendPart(c) \/ SendRest(c)
    BY <2>1 DEF Accept, Connect, ReadRequest, Send, SendPart, SendRest
  <2>2. CASE Respond(c) \/ HangUp(c) \/ ShutDownConnection(c)
    BY <2>2 DEF Respond, HangUp, ShutDownConnection, Close, Idle
  <2> QED
    BY <1>5, <2>1, <2>2 DEF ConnNext
<1>6. CASE UNCHANGED serveVars
  BY <1>6 DEF serveVars, serverVars
<1> QED
  BY <1>1, <1>2, <1>3, <1>4, <1>5, <1>6 DEF ServeNext, ServerNext

\* The invariant holds throughout.
LEMMA ServeInvariant == ServeSpec => []ServeInv
<1>1. ServeInit => ServeInv
  BY DEF ServeInit, ServeInv, ServeTypeOK, ShutdownOrder, Unbound, OkMeansDrained,
         Phase, Result, ConnState, InProgress
<1> QED
  BY <1>1, ServeInvStep, PTL DEF ServeSpec

\* serve() returns Ok only after a shutdown signal and with no connection left.
THEOREM OkIsDrained == ServeSpec => []OkMeansDrained
BY ServeInvariant, PTL DEF ServeInv

\* No step of the shutdown, of the accept loop or of another connection cuts a
\* request that has been read.
THEOREM RequestsAreFinished == ServeSpec => NoRequestCut
<1> DEFINE Uncut ==
      \A c \in Conns : conn[c] = "busy" /\ conn'[c] # "busy" => outcome'[c] # "none"
<1>1. ServeTypeOK /\ [ServeNext]_serveVars => [Uncut]_serveVars
  <2> SUFFICES ASSUME ServeTypeOK, ServeNext PROVE Uncut
    OBVIOUS
  <2> USE DEF ServeTypeOK, InProgress
  <2>1. CASE Bind \/ StartServing \/ SignalFires \/ Trip \/ Drained
    BY <2>1 DEF Bind, StartServing, SignalFires, Trip, Drained, serverVars
  <2>2. CASE StopAccepting \/ ServeFails
    BY <2>2 DEF StopAccepting, ServeFails, ResetBacklog
  <2>3. ASSUME NEW c \in Conns, ConnNext(c) PROVE Uncut
    <3>1. CASE \/ Accept(c) \/ Connect(c) \/ ReadRequest(c)
                \/ Send(c) \/ SendPart(c) \/ SendRest(c)
      BY <3>1 DEF Accept, Connect, ReadRequest, Send, SendPart, SendRest
    <3>2. CASE Respond(c) \/ HangUp(c)
      BY <3>2 DEF Respond, HangUp, Close
    <3>3. CASE ShutDownConnection(c)
      BY <3>3 DEF ShutDownConnection, Close, Idle
    <3> QED
      BY <2>3, <3>1, <3>2, <3>3 DEF ConnNext
  <2> QED
    BY <2>1, <2>2, <2>3 DEF ServeNext, ServerNext
<1> QED
  BY <1>1, ServeTypeCorrect, PTL DEF ServeSpec, NoRequestCut
=============================================================================
