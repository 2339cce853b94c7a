------------------------------ MODULE Preview ------------------------------
(***************************************************************************)
(* The live preview from the encoder to the browsers: the daemon's end of  *)
(* the socket (src/media.c, web_sock_srv_init, web_sock_push and           *)
(* mjpeg_thread), the agent's end (agent/internal/stream/receiver.go) and  *)
(* the broker.  Both processes may be restarted at any moment.             *)
(*                                                                         *)
(* On the wire a frame is FrameCells cells, 0 its length header and the    *)
(* others its body; the socket buffers RoomCells of them.                  *)
(***************************************************************************)
EXTENDS Broker, Sequences

CONSTANTS
    FrameCells, RoomCells,
    MaxPending,   \* connections the listening socket queues
    MaxRestarts   \* bound: ends of the daemon and restarts of the agent

ASSUME PreviewAssumption ==
    /\ FrameCells \in Nat /\ FrameCells >= 2 /\ RoomCells \in Nat /\ RoomCells >= FrameCells
    /\ MaxPending \in Nat \ {0} /\ MaxRestarts \in Nat

VARIABLES
    (* The daemon. *)
    listening,   \* s_web_srv_fd >= 0
    pending,     \* connections not accepted: "live" or, if the agent closed it, "dead"
    sock,        \* s_web_sock: "none", "live", or "dead" when its peer closed
    push,        \* "idle", or "send" in web_sock_push after the accept
    capturing,   \* the encoder delivers frames (ISP and VI: external)
    (* The agent's connection. *)
    link,        \* is there one
    wire, eof,   \* what can be read from it, and whether the other end is closed
    rx,          \* "head", "body" or "publish"
    need,        \* cells of the body still to be read
    whole,       \* the body so far is that of one frame
    restarts,
    short        \* a frame was sent in part on this connection (for the properties)

daemon == <<listening, pending, sock, push, capturing>>
agent  == <<link, wire, eof, rx, need, whole, short>>
vars   == <<daemon, agent, restarts, brokerVars>>

Init ==
    /\ BrokerInit
    /\ listening = FALSE /\ pending = << >> /\ sock = "none" /\ push = "idle"
    /\ capturing = TRUE
    /\ link = FALSE /\ wire = << >> /\ eof = FALSE
    /\ rx = "head" /\ need = 0 /\ whole = TRUE
    /\ restarts = 0 /\ short = FALSE

-----------------------------------------------------------------------------
(***************************************************************************)
(* The daemon.  Its end closes all of its sockets, and may leave ISP and   *)
(* VI unable to resume capture before the device is rebooted: "the daemon  *)
(* runs [...] and no .ts appears" (docs/DEVNOTES.md:58-67), and no frame   *)
(* for the preview.                                                        *)
(***************************************************************************)
DaemonStarts ==             \* web_sock_srv_init
    /\ ~listening
    /\ listening' = TRUE
    /\ UNCHANGED <<pending, sock, push, capturing, agent, restarts, brokerVars>>

DaemonEnds ==
    /\ listening /\ restarts < MaxRestarts
    /\ restarts' = restarts + 1
    /\ listening' = FALSE /\ pending' = << >> /\ sock' = "none" /\ push' = "idle"
    /\ capturing' \in {capturing, FALSE}
    /\ eof' = link
    /\ UNCHANGED <<link, wire, rx, need, whole, short, brokerVars>>

Accept ==                   \* or drop the frame, when nobody waits
    /\ listening /\ capturing /\ push = "idle" /\ sock = "none" /\ pending # << >>
    /\ sock' = Head(pending) /\ pending' = Tail(pending)
    /\ push' = "send"
    /\ UNCHANGED <<listening, capturing, agent, restarts, brokerVars>>

PushBegin ==
    /\ listening /\ capturing /\ push = "idle" /\ sock # "none"
    /\ push' = "send"
    /\ UNCHANGED <<listening, pending, sock, capturing, agent, restarts, brokerVars>>

Room == RoomCells - Len(wire)
Cells(n) == [i \in 1..n |-> i - 1]   \* the first n cells of a frame

Sent == IF Room < FrameCells THEN Room ELSE FrameCells   \* what sendmsg takes

Send ==                     \* at once, in part, or not at all (EAGAIN)
    /\ push = "send" /\ sock = "live"
    /\ wire' = wire \o Cells(Sent)
    /\ short' = (short \/ Sent \in 1 .. FrameCells - 1)
    /\ push' = "idle"
    /\ UNCHANGED <<listening, pending, sock, capturing, link, eof, rx, need, whole,
                   restarts, brokerVars>>

SendFails_Keep ==           \* mutant: the descriptor is kept after an error
    /\ push = "send" /\ sock = "dead"
    /\ push' = "idle"
    /\ UNCHANGED <<listening, pending, sock, capturing, agent, restarts, brokerVars>>

SendFails ==                \* EPIPE: the peer has closed
    /\ push = "send" /\ sock = "dead"
    /\ sock' = "none" /\ push' = "idle"
    /\ UNCHANGED <<listening, pending, capturing, agent, restarts, brokerVars>>

-----------------------------------------------------------------------------
(***************************************************************************)
(* The agent's receiver.                                                   *)
(***************************************************************************)
Dial ==                     \* a dial that fails is repeated
    /\ ~link /\ listening /\ Len(pending) < MaxPending
    /\ link' = TRUE
    /\ pending' = Append(pending, "live")
    /\ eof' = FALSE /\ short' = FALSE
    /\ UNCHANGED <<listening, sock, push, capturing, wire, rx, need, whole, restarts,
                   brokerVars>>

CloseLink_Buffered ==       \* mutant: the buffered reader outlives the connection
    /\ link' = FALSE /\ eof' = FALSE
    /\ rx' = "head" /\ need' = 0 /\ whole' = TRUE
    /\ sock' = IF sock = "live" THEN "dead" ELSE sock
    /\ pending' = [i \in DOMAIN pending |-> "dead"]
    /\ UNCHANGED wire

CloseLink ==                \* readFrames returns
    /\ link' = FALSE /\ eof' = FALSE /\ wire' = << >>
    /\ rx' = "head" /\ need' = 0 /\ whole' = TRUE
    /\ sock' = IF sock = "live" THEN "dead" ELSE sock
    /\ pending' = [i \in DOMAIN pending |-> "dead"]

ReadEof ==
    /\ link /\ eof /\ wire = << >> /\ rx # "publish"
    /\ CloseLink
    /\ UNCHANGED <<listening, push, capturing, short, restarts, brokerVars>>

ReadHead ==
    /\ link /\ rx = "head" /\ wire # << >>
    /\ wire' = Tail(wire)
    /\ rx' = "body"
    /\ \/ Head(wire) = 0 /\ need' = FrameCells - 1 /\ whole' = TRUE
       \/ Head(wire) # 0 /\ need' \in 1..FrameCells /\ whole' = FALSE   \* any length
    /\ UNCHANGED <<daemon, link, eof, short, restarts, brokerVars>>

RejectHead ==               \* a length that is 0 or too large
    /\ link /\ rx = "head" /\ wire # << >> /\ Head(wire) # 0
    /\ CloseLink
    /\ UNCHANGED <<listening, push, capturing, short, restarts, brokerVars>>

ReadBody ==
    /\ link /\ rx = "body" /\ wire # << >>
    /\ wire' = Tail(wire)
    /\ need' = need - 1
    /\ whole' = (whole /\ Head(wire) = FrameCells - need)
    /\ rx' = IF need = 1 THEN "publish" ELSE "body"
    /\ UNCHANGED <<daemon, link, eof, short, restarts, brokerVars>>

Publish ==                  \* broker.Publish is called
    /\ rx = "publish" /\ PublishBegin
    /\ UNCHANGED <<daemon, agent, restarts>>

Published ==                \* and returns
    /\ rx = "publish" /\ PublishEnd
    /\ rx' = "head" /\ whole' = TRUE
    /\ UNCHANGED <<daemon, link, wire, eof, need, short, restarts>>

AgentRestarts ==
    /\ restarts < MaxRestarts
    /\ restarts' = restarts + 1
    /\ CloseLink
    /\ status' = [c \in Clients |-> "out"] /\ chan' = [c \in Clients |-> 0]
    /\ pub' = "idle" /\ todo' = {}
    /\ UNCHANGED <<listening, push, capturing, short>>

Daemon == Accept \/ PushBegin \/ Send \/ SendFails

Delivery == \E c \in Clients : Deliver(c) /\ UNCHANGED <<daemon, agent, restarts>>

Receiver ==
    \/ Dial \/ ReadEof \/ ReadHead \/ RejectHead \/ ReadBody
    \/ Publish \/ Delivery \/ Published

Browser == \E c \in Clients : Client(c) /\ UNCHANGED <<daemon, agent, restarts>>

Next ==
    \/ DaemonStarts \/ DaemonEnds \/ Daemon
    \/ Receiver \/ AgentRestarts
    \/ Browser

(***************************************************************************)
(* An encoder that delivers keeps delivering, and the receiver keeps       *)
(* dialing and reading.  Nothing is assumed of the browsers, of the daemon *)
(* being started, nor of the encoder delivering once the daemon has ended. *)
(***************************************************************************)
Fairness == WF_vars(Daemon) /\ WF_vars(Receiver)

Spec == Init /\ [][Next]_vars /\ Fairness

-----------------------------------------------------------------------------
TypeOK ==
    /\ BrokerTypeOK
    /\ listening \in BOOLEAN /\ capturing \in BOOLEAN
    /\ link \in BOOLEAN /\ eof \in BOOLEAN /\ whole \in BOOLEAN
    /\ pending \in Seq({"live", "dead"}) /\ Len(pending) <= MaxPending
    /\ sock \in {"none", "live", "dead"} /\ push \in {"idle", "send"}
    /\ wire \in Seq(0 .. FrameCells - 1) /\ Len(wire) <= RoomCells
    /\ rx \in {"head", "body", "publish"} /\ need \in 0..FrameCells
    /\ restarts \in 0..MaxRestarts /\ short \in BOOLEAN

(***************************************************************************)
(* "Go is slow - drop this frame, keep connection" (media.c:115): a frame  *)
(* is sent whole or dropped whole, so that what is published is always the *)
(* body of one frame.                                                      *)
(***************************************************************************)
WholeFrames == rx = "publish" => whole

(***************************************************************************)
(* What holds of it: the boundaries between frames are lost only by a      *)
(* frame sent in part, and only for that connection.  No restart of either *)
(* end, and no reconnection, loses them or carries the loss over.          *)
(***************************************************************************)
TornOnlyByShortSend == rx # "head" /\ ~whole => short

(***************************************************************************)
(* "the daemon can die without taking the web interface with it, and the   *)
(* agent restarts without disturbing a recording" (README.md:45-46): once  *)
(* restarts are over and frames are sent whole, frames reach the broker    *)
(* again and again.  Restarts of the agent leave it so without condition;  *)
(* after a restart of the daemon it takes an encoder that delivers, which  *)
(* by docs/DEVNOTES.md:58-67 it does only after a reboot.                  *)
(***************************************************************************)
PreviewResumes == <>[](listening /\ capturing /\ ~short) => []<>(rx = "publish")
=============================================================================
