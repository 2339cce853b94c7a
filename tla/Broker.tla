------------------------------- MODULE Broker -------------------------------
(***************************************************************************)
(* The preview broker of the web agent (agent/internal/stream/broker.go)   *)
(* and the HTTP handler that serves one browser each                       *)
(* (agent/internal/server/api.go, mjpegStream).  Preview composes it with  *)
(* the socket that feeds it.                                               *)
(*                                                                         *)
(* A frame is offered to one client per step, under the read lock; adding  *)
(* and removing a client takes the write lock and so waits for that.  A    *)
(* client takes frames from its channel, and empties it when it leaves,    *)
(* without a lock.                                                         *)
(***************************************************************************)
EXTENDS Integers

CONSTANTS
    Clients,   \* browsers
    ChanCap    \* frames that a client's channel holds

ASSUME BrokerAssumption == ChanCap \in Nat \ {0}

VARIABLES
    status,    \* status[c]: "out", "in" (waiting), "writing", "left" or "draining"
    chan,      \* chan[c]: frames in its channel
    pub,       \* "idle", or "deliver" while Publish holds the read lock
    todo       \* clients the frame has not been offered to

brokerVars == <<status, chan, pub, todo>>

BrokerInit ==
    /\ status = [c \in Clients |-> "out"] /\ chan = [c \in Clients |-> 0]
    /\ pub = "idle" /\ todo = {}

Registered == {c \in Clients : status[c] \in {"in", "writing", "left"}}
WriteLock  == pub = "idle"

Set(c, s) == status' = [status EXCEPT ![c] = s]

Subscribe(c) ==
    /\ status[c] = "out" /\ WriteLock
    /\ Set(c, "in")
    /\ UNCHANGED <<chan, pub, todo>>

Receive(c) ==
    /\ status[c] = "in" /\ chan[c] > 0
    /\ chan' = [chan EXCEPT ![c] = @ - 1]
    /\ Set(c, "writing")
    /\ UNCHANGED <<pub, todo>>

Written(c) ==               \* never, when the browser does not read
    /\ status[c] = "writing"
    /\ Set(c, "in")
    /\ UNCHANGED <<chan, pub, todo>>

Leave(c) ==                 \* the request's context is done
    /\ status[c] = "in"
    /\ Set(c, "left")
    /\ UNCHANGED <<chan, pub, todo>>

Unsubscribe_Unlocked(c) ==  \* mutant: the map is changed without the lock
    /\ status[c] = "left"
    /\ Set(c, "draining")
    /\ UNCHANGED <<chan, pub, todo>>

Unsubscribe(c) ==
    /\ status[c] = "left" /\ WriteLock
    /\ Set(c, "draining")
    /\ UNCHANGED <<chan, pub, todo>>

Drain(c) ==
    /\ status[c] = "draining"
    /\ IF chan[c] > 0 THEN chan' = [chan EXCEPT ![c] = @ - 1] /\ UNCHANGED status
                      ELSE UNCHANGED chan /\ Set(c, "out")
    /\ UNCHANGED <<pub, todo>>

Client(c) ==
    Subscribe(c) \/ Receive(c) \/ Written(c) \/ Leave(c) \/ Unsubscribe(c) \/ Drain(c)

PublishBegin ==             \* lastFrame is stamped, then the read lock is taken
    /\ pub = "idle"
    /\ pub' = "deliver" /\ todo' = Registered
    /\ UNCHANGED <<status, chan>>

Offer_Blocking(c) ==        \* mutant: no default branch
    /\ chan[c] < ChanCap
    /\ chan' = [chan EXCEPT ![c] = @ + 1]

Offer_Over(c) == chan' = [chan EXCEPT ![c] = @ + 1]   \* mutant: no capacity

Offer(c) == chan' = IF chan[c] < ChanCap THEN [chan EXCEPT ![c] = @ + 1] ELSE chan

Deliver(c) ==
    /\ pub = "deliver" /\ c \in todo
    /\ Offer(c)
    /\ todo' = todo \ {c}
    /\ UNCHANGED <<status, pub>>

PublishEnd ==
    /\ pub = "deliver" /\ todo = {}
    /\ pub' = "idle"
    /\ UNCHANGED <<status, chan, todo>>

-----------------------------------------------------------------------------
BrokerTypeOK ==
    /\ status \in [Clients -> {"out", "in", "writing", "left", "draining"}]
    /\ chan \in [Clients -> 0..ChanCap]
    /\ pub \in {"idle", "deliver"} /\ todo \subseteq Clients

(***************************************************************************)
(* A client that has unsubscribed is sent nothing any more (broker.go:31), *)
(* whichever of Publish and Unsubscribe came first: its channel, drained   *)
(* once, stays empty, and no frame is kept alive by it.                    *)
(***************************************************************************)
LeftStaysEmpty == \A c \in Clients : status[c] = "out" => chan[c] = 0

(***************************************************************************)
(* A client that does not read does not hold up the others or the socket   *)
(* (broker.go:44-56): every Publish comes to its end.                      *)
(***************************************************************************)
PublishEnds == pub = "deliver" ~> pub = "idle"
=============================================================================
