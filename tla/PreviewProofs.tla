--------------------------- MODULE PreviewProofs ---------------------------
(***************************************************************************)
(* Proofs about Preview and its Broker, for any number of browsers, any    *)
(* channel capacity, any size of frames and socket buffer and any number   *)
(* of restarts.                                                            *)
(***************************************************************************)
EXTENDS Preview, TLAPS

(***************************************************************************)
(* The broker.                                                             *)
(***************************************************************************)

(* A frame is only under way to clients that are registered. *)
Delivering == IF pub = "idle" THEN todo = {} ELSE todo \subseteq Registered

BrokerInv == BrokerTypeOK /\ Delivering /\ LeftStaysEmpty

BrokerStep ==
    \/ PublishBegin \/ PublishEnd
    \/ \E c \in Clients : Deliver(c) \/ Client(c)

(* No step of a client or of Publish sends to a client that has left. *)
LEMMA BrokerStepInv == BrokerInv /\ BrokerStep => BrokerInv'
  <1> SUFFICES ASSUME BrokerInv, BrokerStep
               PROVE  BrokerInv'
    OBVIOUS
  <1> USE BrokerAssumption DEF BrokerInv, BrokerTypeOK
  <1>1. CASE PublishBegin
    BY <1>1 DEF PublishBegin, Delivering, LeftStaysEmpty, Registered
  <1>2. CASE PublishEnd
    BY <1>2 DEF PublishEnd, Delivering, LeftStaysEmpty
  <1>3. ASSUME NEW c \in Clients, Deliver(c)
        PROVE  BrokerInv'
    BY <1>3 DEF Deliver, Offer, Delivering, LeftStaysEmpty, Registered
  <1>4. ASSUME NEW c \in Clients, Subscribe(c)
        PROVE  BrokerInv'
    BY <1>4 DEF Subscribe, Set, WriteLock, Delivering, LeftStaysEmpty
  <1>5. ASSUME NEW c \in Clients, Receive(c)
        PROVE  BrokerInv'
    BY <1>5 DEF Receive, Set, Delivering, LeftStaysEmpty, Registered
  <1>6. ASSUME NEW c \in Clients, Written(c)
        PROVE  BrokerInv'
    BY <1>6 DEF Written, Set, Delivering, LeftStaysEmpty, Registered
  <1>7. ASSUME NEW c \in Clients, Leave(c)
        PROVE  BrokerInv'
    BY <1>7 DEF Leave, Set, Delivering, LeftStaysEmpty, Registered
  <1>8. ASSUME NEW c \in Clients, Unsubscribe(c)
        PROVE  BrokerInv'
    BY <1>8 DEF Unsubscribe, Set, WriteLock, Delivering, LeftStaysEmpty
  <1>9. ASSUME NEW c \in Clients, Drain(c)
        PROVE  BrokerInv'
    BY <1>9 DEF Drain, Set, Delivering, LeftStaysEmpty, Registered
  <1>10. QED
    BY <1>1, <1>2, <1>3, <1>4, <1>5, <1>6, <1>7, <1>8, <1>9 DEF BrokerStep, Client

(* Every step of the preview is a step of the broker, leaves it alone, or *)
(* starts it anew.                                                        *)
LEMMA BrokerSteps ==
    ASSUME [Next]_vars
    PROVE  BrokerStep \/ UNCHANGED brokerVars \/ BrokerInit'
  BY Zenon DEF Next, Daemon, Receiver, Delivery, Browser, DaemonStarts, DaemonEnds, Accept,
         PushBegin, Send, SendFails, Dial, ReadEof, ReadHead, RejectHead, ReadBody, Publish,
         Published, AgentRestarts, BrokerStep, BrokerInit, vars

(* The broker keeps its invariant, over restarts of the agent too. *)
LEMMA BrokerInvariant == Spec => []BrokerInv
  <1>1. BrokerInit => BrokerInv
    BY BrokerAssumption DEF BrokerInit, BrokerInv, BrokerTypeOK, Delivering, LeftStaysEmpty
  <1>2. Init => BrokerInv
    BY <1>1 DEF Init
  <1>3. BrokerInv /\ [Next]_vars => BrokerInv'
    <2> SUFFICES ASSUME BrokerInv, [Next]_vars
                 PROVE  BrokerInv'
      OBVIOUS
    <2>1. CASE BrokerStep
      BY <2>1, BrokerStepInv
    <2>2. CASE UNCHANGED brokerVars
      BY <2>2 DEF brokerVars, BrokerInv, BrokerTypeOK, Delivering, LeftStaysEmpty, Registered
    <2>3. CASE BrokerInit'
      BY <2>3, BrokerAssumption
         DEF BrokerInit, BrokerInv, BrokerTypeOK, Delivering, LeftStaysEmpty
    <2>4. QED
      BY <2>1, <2>2, <2>3, BrokerSteps
  <1>4. QED
    BY <1>2, <1>3, PTL DEF Spec

(***************************************************************************)
(* Whichever of Publish and Unsubscribe comes first, the channel of a      *)
(* client that has unsubscribed and been drained holds no frame: for any   *)
(* number of browsers that come and go while frames are published.         *)
(***************************************************************************)
THEOREM UnsubscribedIsEmpty == Spec => []LeftStaysEmpty
  <1>1. BrokerInv => LeftStaysEmpty
    BY DEF BrokerInv
  <1>2. QED
    BY <1>1, BrokerInvariant, PTL

-----------------------------------------------------------------------------
(***************************************************************************)
(* Sequences.                                                              *)
(***************************************************************************)

(* The empty sequence. *)
LEMMA EmptyFacts ==
    ASSUME NEW S
    PROVE  << >> \in Seq(S) /\ Len(<< >>) = 0
  OBVIOUS

(* Taking the head. *)
LEMMA TailFacts ==
    ASSUME NEW S, NEW q \in Seq(S), q # << >>
    PROVE  /\ Len(q) \in Nat \ {0} /\ Head(q) = q[1] /\ Head(q) \in S
           /\ Tail(q) \in Seq(S) /\ Len(Tail(q)) = Len(q) - 1
           /\ \A i \in 1 .. Len(q) - 1 : Tail(q)[i] = q[i + 1]
  OBVIOUS

(* The first n cells of a frame. *)
LEMMA CellsFacts ==
    ASSUME NEW n \in 0..FrameCells
    PROVE  /\ Cells(n) \in Seq(0 .. FrameCells - 1) /\ Len(Cells(n)) = n
           /\ \A j \in 1..n : Cells(n)[j] = j - 1
  BY PreviewAssumption DEF Cells

(* Appending them to what is on the wire. *)
LEMMA WireFacts ==
    ASSUME NEW w \in Seq(0 .. FrameCells - 1), NEW n \in 0..FrameCells
    PROVE  /\ w \o Cells(n) \in Seq(0 .. FrameCells - 1)
           /\ Len(w \o Cells(n)) = Len(w) + n
           /\ \A i \in 1 .. Len(w) : (w \o Cells(n))[i] = w[i]
           /\ \A j \in 1 .. n : (w \o Cells(n))[Len(w) + j] = j - 1
  <1> DEFINE c == Cells(n)
  <1>1. c \in Seq(0 .. FrameCells - 1) /\ Len(c) = n /\ \A j \in 1..n : c[j] = j - 1
    BY CellsFacts
  <1> HIDE DEF c
  <1>2. /\ w \o c \in Seq(0 .. FrameCells - 1) /\ Len(w \o c) = Len(w) + n
        /\ \A i \in 1 .. Len(w) : (w \o c)[i] = w[i]
        /\ \A j \in 1 .. n : (w \o c)[Len(w) + j] = c[j]
    BY <1>1
  <1>3. QED
    BY <1>1, <1>2 DEF c

(* What sendmsg takes fits into the socket. *)
LEMMA SentFacts ==
    ASSUME TypeOK
    PROVE  Sent \in 0..FrameCells /\ Len(wire) + Sent <= RoomCells
  BY PreviewAssumption DEF TypeOK, Sent, Room

-----------------------------------------------------------------------------
(***************************************************************************)
(* Type correctness.                                                       *)
(***************************************************************************)

(* In the middle of a body there is still a cell to be read. *)
InBody == rx = "body" => need >= 1

(* Closing the connection leaves the receiver at rest. *)
LEMMA CloseLinkFacts ==
    ASSUME TypeOK, CloseLink
    PROVE  /\ link' = FALSE /\ eof' = FALSE /\ wire' = << >>
           /\ rx' = "head" /\ need' = 0 /\ whole' = TRUE
           /\ sock' \in {"none", "dead"}
           /\ pending' \in Seq({"live", "dead"}) /\ Len(pending') = Len(pending)
           /\ \A i \in 1 .. Len(pending') : pending'[i] # "live"
  <1>1. pending' = [i \in 1 .. Len(pending) |-> "dead"]
    BY DEF CloseLink, TypeOK
  <1>2. /\ pending' \in Seq({"live", "dead"}) /\ Len(pending') = Len(pending)
        /\ \A i \in 1 .. Len(pending') : pending'[i] # "live"
    BY <1>1 DEF TypeOK
  <1>3. QED
    BY <1>2 DEF CloseLink, TypeOK

socket == <<daemon, agent, restarts>>

(* The steps that the socket does not see. *)
LEMMA SocketSteps ==
    ASSUME [Next]_vars
    PROVE  \/ UNCHANGED socket
           \/ DaemonStarts \/ DaemonEnds \/ Accept \/ PushBegin \/ Send \/ SendFails
           \/ Dial \/ ReadEof \/ ReadHead \/ RejectHead \/ ReadBody \/ Published
           \/ AgentRestarts
  BY Zenon DEF Next, Daemon, Receiver, Delivery, Browser, Publish, vars, socket

SocketTypeOK == TypeOK /\ InBody

(* No step of the daemon, the receiver or a restart leaves the types. *)
LEMMA SocketTypeStep == SocketTypeOK /\ BrokerTypeOK' /\ [Next]_vars => SocketTypeOK'
  <1> SUFFICES ASSUME TypeOK, InBody, BrokerTypeOK', [Next]_vars
               PROVE  TypeOK' /\ InBody'
    BY DEF SocketTypeOK
  <1> USE PreviewAssumption
  <1>1. CASE UNCHANGED socket
    BY <1>1 DEF socket, daemon, agent, TypeOK, InBody
  <1>2. CASE DaemonStarts
    BY <1>2 DEF DaemonStarts, daemon, agent, TypeOK, InBody
  <1>3. CASE DaemonEnds
    <2>1. /\ pending' = << >> /\ restarts' = restarts + 1 /\ restarts < MaxRestarts
          /\ listening' = FALSE /\ sock' = "none" /\ push' = "idle" /\ eof' = link
          /\ capturing' \in {capturing, FALSE}
          /\ UNCHANGED <<link, wire, rx, need, whole, short>>
      BY <1>3 DEF DaemonEnds
    <2>2. pending' \in Seq({"live", "dead"}) /\ Len(pending') <= MaxPending
      BY <2>1, EmptyFacts
    <2>3. restarts' \in 0..MaxRestarts
      BY <2>1 DEF TypeOK
    <2>4. capturing' \in BOOLEAN
      BY <2>1, Zenon DEF TypeOK
    <2>5. QED
      BY <2>1, <2>2, <2>3, <2>4, Zenon DEF TypeOK, InBody
  <1>4. CASE Accept
    BY <1>4 DEF Accept, daemon, agent, TypeOK, InBody
  <1>5. CASE PushBegin
    BY <1>5 DEF PushBegin, daemon, agent, TypeOK, InBody
  <1>6. CASE Send
    <2>1. wire' \in Seq(0 .. FrameCells - 1) /\ Len(wire') <= RoomCells
      BY <1>6, SentFacts, WireFacts DEF Send, TypeOK
    <2>2. /\ push' = "idle" /\ short' \in BOOLEAN
          /\ UNCHANGED <<listening, pending, sock, capturing, link, eof, rx, need, whole,
                         restarts>>
      BY <1>6 DEF Send
    <2>3. QED
      BY <2>1, <2>2 DEF TypeOK, InBody
  <1>7. CASE SendFails
    BY <1>7 DEF SendFails, daemon, agent, TypeOK, InBody
  <1>8. CASE Dial
    <2>1. pending' \in Seq({"live", "dead"}) /\ Len(pending') <= MaxPending
      BY <1>8 DEF Dial, TypeOK
    <2>2. /\ link' = TRUE /\ eof' = FALSE /\ short' = FALSE
          /\ UNCHANGED <<listening, sock, push, capturing, wire, rx, need, whole,
                         restarts>>
      BY <1>8 DEF Dial
    <2>3. QED
      BY <2>1, <2>2 DEF TypeOK, InBody
  <1>9. CASE /\ CloseLink /\ UNCHANGED <<listening, push, capturing, short>>
             /\ restarts' \in 0..MaxRestarts
    <2>1. wire' \in Seq(0 .. FrameCells - 1) /\ Len(wire') <= RoomCells
      BY <1>9, CloseLinkFacts, EmptyFacts
    <2>2. pending' \in Seq({"live", "dead"}) /\ Len(pending') <= MaxPending
      BY <1>9, CloseLinkFacts DEF TypeOK
    <2>3. /\ link' = FALSE /\ eof' = FALSE /\ rx' = "head" /\ need' = 0 /\ whole' = TRUE
          /\ sock' \in {"none", "dead"}
      BY <1>9, CloseLinkFacts
    <2>4. need' \in 0..FrameCells
      BY <2>3
    <2>5. QED
      BY <1>9, <2>1, <2>2, <2>3, <2>4, Zenon DEF TypeOK, InBody
  <1>10. CASE ReadEof \/ RejectHead
    BY <1>9, <1>10 DEF ReadEof, RejectHead, TypeOK
  <1>11. CASE AgentRestarts
    BY <1>9, <1>11 DEF AgentRestarts, TypeOK
  <1>12. CASE ReadHead
    <2>1. wire' \in Seq(0 .. FrameCells - 1) /\ Len(wire') <= RoomCells
      BY <1>12, TailFacts DEF ReadHead, TypeOK
    <2>2. /\ rx' = "body" /\ need' \in 1..FrameCells /\ whole' \in BOOLEAN
          /\ UNCHANGED <<daemon, link, eof, short, restarts>>
      BY <1>12, FrameCells - 1 \in 1..FrameCells DEF ReadHead
    <2>3. QED
      BY <2>1, <2>2 DEF TypeOK, InBody, daemon
  <1>13. CASE ReadBody
    <2>1. wire' \in Seq(0 .. FrameCells - 1) /\ Len(wire') <= RoomCells
      BY <1>13, TailFacts DEF ReadBody, TypeOK
    <2>2. /\ rx' = IF need = 1 THEN "publish" ELSE "body"
          /\ rx = "body" /\ need' = need - 1 /\ whole' \in BOOLEAN
          /\ UNCHANGED <<daemon, link, eof, short, restarts>>
      BY <1>13 DEF ReadBody
    <2>3. QED
      BY <2>1, <2>2 DEF TypeOK, InBody, daemon
  <1>14. CASE Published
    BY <1>14 DEF Published, daemon, agent, TypeOK, InBody
  <1>15. QED
    BY <1>1, <1>2, <1>3, <1>4, <1>5, <1>6, <1>7, <1>8, <1>10, <1>11, <1>12, <1>13, <1>14,
       SocketSteps

(* Both hold at all times, given what the broker keeps. *)
LEMMA SocketTypeInvariant == Spec => []SocketTypeOK
  <1>1. Init => SocketTypeOK
    <2> SUFFICES ASSUME Init
                 PROVE  TypeOK /\ InBody
      BY DEF SocketTypeOK
    <2>1. BrokerTypeOK
      BY BrokerAssumption DEF Init, BrokerInit, BrokerTypeOK
    <2>2. /\ pending \in Seq({"live", "dead"}) /\ Len(pending) <= MaxPending
          /\ wire \in Seq(0 .. FrameCells - 1) /\ Len(wire) <= RoomCells
      BY PreviewAssumption, EmptyFacts DEF Init
    <2>3. need \in 0..FrameCells /\ restarts \in 0..MaxRestarts
      BY PreviewAssumption DEF Init
    <2>4. QED
      BY <2>1, <2>2, <2>3, Zenon DEF Init, TypeOK, InBody
  <1>2. BrokerInv => BrokerTypeOK
    BY DEF BrokerInv
  <1>3. QED
    BY <1>1, <1>2, SocketTypeStep, BrokerInvariant, PTL DEF Spec

(***************************************************************************)
(* Every variable of the daemon's end, the receiver and the broker keeps   *)
(* its type: the socket never holds more than its buffer, no channel more  *)
(* than its capacity, and the receiver never reads past the announced      *)
(* length.                                                                 *)
(***************************************************************************)
THEOREM TypeCorrect == Spec => []TypeOK
  <1>1. SocketTypeOK => TypeOK
    BY DEF SocketTypeOK
  <1>2. QED
    BY <1>1, SocketTypeInvariant, PTL

-----------------------------------------------------------------------------
(***************************************************************************)
(* The boundaries between frames.                                          *)
(***************************************************************************)

(* Without a connection the receiver is at rest and nothing is sent to it. *)
Unlinked ==
    ~link => /\ wire = << >> /\ rx = "head" /\ whole /\ sock # "live"
             /\ \A i \in 1..Len(pending) : pending[i] # "live"

(* The cell that the receiver expects next, and the one that follows a cell. *)
Expected == IF rx = "body" THEN FrameCells - need ELSE 0
After(c) == IF c = FrameCells - 1 THEN 0 ELSE c + 1

(* What is on the wire starts where the receiver is, runs on without a gap *)
(* and ends with a frame.                                                  *)
Aligned ==
    /\ Len(wire) = 0 => Expected = 0
    /\ Len(wire) > 0 => wire[1] = Expected /\ wire[Len(wire)] = FrameCells - 1
    /\ \A i \in 1 .. Len(wire) - 1 : wire[i + 1] = After(wire[i])

WireInv == ~short => whole /\ Aligned

(* A connection that is not there carries nothing, over every close and dial. *)
LEMMA UnlinkedStep == TypeOK /\ Unlinked /\ [Next]_vars => Unlinked'
  <1> SUFFICES ASSUME TypeOK, Unlinked, [Next]_vars
               PROVE  Unlinked'
    OBVIOUS
  <1>1. CASE UNCHANGED socket
    BY <1>1 DEF socket, daemon, agent, Unlinked
  <1>2. CASE DaemonStarts
    BY <1>2 DEF DaemonStarts, agent, Unlinked
  <1>3. CASE DaemonEnds
    BY <1>3, EmptyFacts DEF DaemonEnds, Unlinked
  <1>4. CASE Accept
    <2>1. /\ pending # << >> /\ sock' = Head(pending) /\ pending' = Tail(pending)
          /\ UNCHANGED agent
      BY <1>4 DEF Accept
    <2>2. /\ Len(pending) \in Nat \ {0} /\ Head(pending) = pending[1]
          /\ Len(Tail(pending)) = Len(pending) - 1
          /\ \A i \in 1 .. Len(pending) - 1 : Tail(pending)[i] = pending[i + 1]
      BY <2>1, TailFacts DEF TypeOK
    <2>3. QED
      BY <2>1, <2>2 DEF agent, Unlinked
  <1>5. CASE PushBegin \/ SendFails
    BY <1>5 DEF PushBegin, SendFails, agent, Unlinked
  <1>6. CASE Send
    BY <1>6 DEF Send, Unlinked
  <1>7. CASE Dial
    BY <1>7 DEF Dial, Unlinked
  <1>8. CASE CloseLink
    BY <1>8, CloseLinkFacts, Zenon DEF Unlinked
  <1>9. CASE ReadHead \/ ReadBody \/ Published
    BY <1>9 DEF ReadHead, ReadBody, Published, daemon, Unlinked
  <1>10. QED
    BY <1>1, <1>2, <1>3, <1>4, <1>5, <1>6, <1>7, <1>8, <1>9, SocketSteps, Zenon
       DEF ReadEof, RejectHead, AgentRestarts

(* Reading the head of an aligned wire moves the receiver by one cell. *)
LEMMA ReadAligned ==
    ASSUME TypeOK, Aligned, wire # << >>, wire' = Tail(wire),
           Expected' = After(Expected)
    PROVE  Aligned'
  <1> DEFINE n == Len(wire)
  <1>1. /\ n \in Nat \ {0} /\ Len(wire') = n - 1
        /\ \A i \in 1 .. n - 1 : wire'[i] = wire[i + 1]
    BY TailFacts DEF TypeOK
  <1>2. /\ wire[1] = Expected /\ wire[n] = FrameCells - 1
        /\ \A i \in 1 .. n - 1 : wire[i + 1] = After(wire[i])
    BY <1>1 DEF Aligned
  <1> HIDE DEF n
  <1>3. CASE n = 1
    <2>1. Expected' = 0
      BY <1>2, <1>3 DEF After
    <2>2. QED
      BY <1>1, <1>3, <2>1 DEF Aligned, After
  <1>4. CASE n > 1
    <2>1. wire'[1] = Expected'
      BY <1>1, <1>2, <1>4
    <2>2. wire'[n - 1] = FrameCells - 1
      BY <1>1, <1>2, <1>4
    <2>3. ASSUME NEW i \in 1 .. n - 2
          PROVE  wire'[i + 1] = After(wire'[i])
      <3>1. i + 1 \in 1 .. n - 1 /\ i \in 1 .. n - 1
        BY <1>1
      <3>2. wire'[i + 1] = wire[i + 1 + 1] /\ wire'[i] = wire[i + 1]
        BY <3>1, <1>1
      <3>3. QED
        BY <3>1, <3>2, <1>2
    <2>4. After(0)' = After(0) /\ \A i \in 1 .. n - 2 : After(wire[i])' = After(wire'[i])
      BY DEF After
    <2>5. QED
      BY <1>1, <1>4, <2>1, <2>2, <2>3, <2>4 DEF Aligned, After
  <1>5. QED
    BY <1>1, <1>3, <1>4

(* Appending a whole frame keeps the wire aligned. *)
LEMMA SendAligned ==
    ASSUME TypeOK, Aligned, UNCHANGED <<rx, need>>,
           NEW n \in {0, FrameCells}, wire' = wire \o Cells(n)
    PROVE  Aligned'
  <1> DEFINE m == Len(wire)
  <1>1. FrameCells \in Nat /\ FrameCells >= 2 /\ m \in Nat /\ n \in 0..FrameCells
    BY PreviewAssumption DEF TypeOK
  <1>2. /\ Len(wire') = m + n
        /\ \A i \in 1 .. m : wire'[i] = wire[i]
        /\ \A j \in 1 .. n : wire'[m + j] = j - 1
    BY <1>1, WireFacts DEF TypeOK
  <1>3. Expected' = Expected
    BY DEF Expected
  <1>4. /\ m = 0 => Expected = 0
        /\ m > 0 => wire[1] = Expected /\ wire[m] = FrameCells - 1
        /\ \A i \in 1 .. m - 1 : wire[i + 1] = After(wire[i])
    BY DEF Aligned
  <1> HIDE DEF m
  <1>5. m + n = 0 => Expected' = 0
    BY <1>1, <1>3, <1>4
  <1>6. ASSUME m + n > 0
        PROVE  wire'[1] = Expected' /\ wire'[m + n] = FrameCells - 1
    <2>1. CASE m = 0
      BY <2>1, <1>1, <1>2, <1>3, <1>4, <1>6
    <2>2. CASE m > 0 /\ n = 0
      BY <2>2, <1>1, <1>2, <1>3, <1>4
    <2>3. CASE m > 0 /\ n = FrameCells
      <3>1. wire'[1] = Expected'
        BY <2>3, <1>1, <1>2, <1>3, <1>4
      <3>2. wire'[m + n] = n - 1
        BY <2>3, <1>1, <1>2
      <3>3. QED
        BY <2>3, <3>1, <3>2
    <2>4. m = 0 \/ (m > 0 /\ n = 0) \/ (m > 0 /\ n = FrameCells)
      BY <1>1
    <2>5. QED
      BY <2>1, <2>2, <2>3, <2>4
  <1>7. ASSUME NEW i \in 1 .. (m + n) - 1
        PROVE  wire'[i + 1] = After(wire'[i])
    <2>1. CASE i < m
      BY <2>1, <1>1, <1>2, <1>4
    <2>2. CASE i = m
      <3>1. 1 \in 1..n /\ m \in 1..m /\ m > 0
        BY <2>2, <1>1
      <3>2. wire'[m] = FrameCells - 1 /\ wire'[m + 1] = 1 - 1
        BY <3>1, <1>2, <1>4, Zenon
      <3>3. QED
        BY <2>2, <3>2 DEF After
    <2>3. CASE i > m
      <3> DEFINE j == i - m
      <3>1. /\ j \in 1..n /\ j + 1 \in 1..n /\ j \in Nat /\ j < n
            /\ i = m + j /\ i + 1 = m + (j + 1)
        BY <2>3, <1>1
      <3> HIDE DEF j
      <3>2. wire'[m + j] = j - 1 /\ wire'[m + (j + 1)] = (j + 1) - 1
        BY <3>1, <1>2, Zenon
      <3>3. n = FrameCells
        BY <3>1
      <3>4. After(j - 1) = (j + 1) - 1
        BY <3>1, <3>3, <1>1 DEF After
      <3>5. wire'[i] = j - 1 /\ wire'[i + 1] = (j + 1) - 1
        BY <3>1, <3>2, Zenon
      <3>6. QED
        BY <3>4, <3>5, Zenon
    <2>4. i < m \/ i = m \/ i > m
      BY <1>1
    <2>5. QED
      BY <2>1, <2>2, <2>3, <2>4
  <1>8. QED
    BY <1>2, <1>5, <1>6, <1>7 DEF Aligned, After

(* Only a send in part loses the boundaries. *)
LEMMA WireStep ==
    SocketTypeOK /\ Unlinked /\ WireInv /\ [Next]_vars => WireInv'
  <1> SUFFICES ASSUME TypeOK, InBody, Unlinked, WireInv, [Next]_vars, ~short'
               PROVE  whole' /\ Aligned'
    BY DEF SocketTypeOK, WireInv
  <1>1. ASSUME UNCHANGED <<wire, rx, need, whole>>, ~short
        PROVE  whole' /\ Aligned'
    BY <1>1 DEF WireInv, Aligned, Expected, After
  <1>2. CASE UNCHANGED socket
    BY <1>1, <1>2 DEF socket, agent
  <1>3. CASE DaemonStarts \/ DaemonEnds \/ Accept \/ PushBegin \/ SendFails
    BY <1>1, <1>3 DEF DaemonStarts, DaemonEnds, Accept, PushBegin, SendFails, agent
  <1>4. CASE Send
    <2>1. ~short /\ Sent \notin 1 .. FrameCells - 1 /\ wire' = wire \o Cells(Sent)
          /\ UNCHANGED <<rx, need, whole>>
      BY <1>4 DEF Send
    <2>2. Sent \in {0, FrameCells}
      BY <2>1, SentFacts, PreviewAssumption
    <2>3. whole /\ Aligned
      BY <2>1 DEF WireInv
    <2>4. Aligned'
      BY <2>1, <2>2, <2>3, SendAligned
    <2>5. QED
      BY <2>1, <2>3, <2>4
  <1>5. CASE Dial
    <2>1. wire' = << >> /\ rx' = "head" /\ whole'
      BY <1>5 DEF Dial, Unlinked
    <2>2. QED
      BY <2>1, EmptyFacts DEF Aligned, Expected
  <1>6. CASE CloseLink
    <2>1. wire' = << >> /\ rx' = "head" /\ whole'
      BY <1>6, CloseLinkFacts
    <2>2. QED
      BY <2>1, EmptyFacts DEF Aligned, Expected
  <1>7. CASE ReadHead
    <2>1. /\ ~short /\ rx = "head" /\ wire # << >> /\ wire' = Tail(wire) /\ rx' = "body"
          /\ \/ Head(wire) = 0 /\ need' = FrameCells - 1 /\ whole' = TRUE
             \/ Head(wire) # 0
      BY <1>7 DEF ReadHead
    <2>2. Aligned
      BY <2>1 DEF WireInv
    <2>3. Head(wire) = 0
      BY <2>1, <2>2, TailFacts DEF TypeOK, Aligned, Expected
    <2>4. Expected = 0 /\ Expected' = 1
      BY <2>1, <2>3, PreviewAssumption DEF Expected
    <2>5. Expected' = After(Expected)
      BY <2>4, PreviewAssumption DEF After
    <2>6. QED
      BY <2>1, <2>2, <2>3, <2>5, ReadAligned
  <1>8. CASE ReadBody
    <2>1. /\ ~short /\ rx = "body" /\ wire # << >> /\ wire' = Tail(wire)
          /\ need' = need - 1 /\ whole' = (whole /\ Head(wire) = FrameCells - need)
          /\ rx' = IF need = 1 THEN "publish" ELSE "body"
      BY <1>8 DEF ReadBody
    <2>2. whole /\ Aligned
      BY <2>1 DEF WireInv
    <2>3. Head(wire) = Expected /\ Expected = FrameCells - need
      BY <2>1, <2>2, TailFacts DEF TypeOK, Aligned, Expected
    <2>4. Expected' = After(Expected)
      <3>1. need \in Nat /\ need >= 1 /\ FrameCells \in Nat
        BY <2>1, PreviewAssumption DEF InBody, TypeOK
      <3>2. Expected' = IF need = 1 THEN 0 ELSE FrameCells - (need - 1)
        BY <2>1 DEF Expected
      <3>3. QED
        BY <2>3, <3>1, <3>2 DEF After
    <2>5. QED
      BY <2>1, <2>2, <2>3, <2>4, ReadAligned
  <1>9. CASE Published
    <2>1. ~short /\ rx = "publish" /\ rx' = "head" /\ whole' = TRUE /\ UNCHANGED <<wire, need>>
      BY <1>9 DEF Published
    <2>2. QED
      BY <2>1 DEF WireInv, Aligned, Expected, After
  <1>10. QED
    BY <1>2, <1>3, <1>4, <1>5, <1>6, <1>7, <1>8, <1>9, SocketSteps, Zenon
       DEF ReadEof, RejectHead, AgentRestarts

(***************************************************************************)
(* What the receiver publishes is the body of one frame unless a frame was *)
(* sent in part on this very connection: no restart of the daemon or the   *)
(* agent, no reconnection and no queued connection mixes two frames.       *)
(***************************************************************************)
THEOREM OnlyShortSendsTear == Spec => []TornOnlyByShortSend
  <1>1. Init => Unlinked /\ WireInv
    <2> SUFFICES ASSUME Init
                 PROVE  Unlinked /\ WireInv
      OBVIOUS
    <2>1. Unlinked
      BY EmptyFacts DEF Init, Unlinked
    <2>2. Aligned
      BY EmptyFacts DEF Init, Aligned, Expected
    <2>3. QED
      BY <2>1, <2>2 DEF Init, WireInv
  <1>2. SocketTypeOK /\ Unlinked /\ WireInv /\ [Next]_vars => Unlinked' /\ WireInv'
    BY UnlinkedStep, WireStep DEF SocketTypeOK
  <1>3. WireInv => TornOnlyByShortSend
    BY DEF WireInv, TornOnlyByShortSend
  <1>4. QED
    BY <1>1, <1>2, <1>3, SocketTypeInvariant, PTL DEF Spec
=============================================================================
