---------------------------- MODULE DecodableFifo ----------------------------
(***************************************************************************)
(* What the frame queue promises, with no ring, lock or condition: a       *)
(* first-in-first-out buffer of at most Size frames that throws frames     *)
(* away only when it is full, the oldest first, and then refuses frames up *)
(* to the next keyframe; and whose content can always be decoded after     *)
(* what was already handed out.                                            *)
(***************************************************************************)
EXTENDS Integers, Sequences

CONSTANT Size

VARIABLES
    buf,        \* the frames held, by number
    last,       \* the last frame handed out
    seen,       \* frames offered so far, numbered from 1
    keyframes,  \* the keyframes among them
    resync,     \* frames are refused up to the next keyframe
    ended,      \* no frame is accepted any more
    intact      \* no frame was lost outside the buffer

vars == <<buf, last, seen, keyframes, resync, ended, intact>>

Init ==
    /\ buf = << >> /\ last = 0
    /\ seen = 0 /\ keyframes = {}
    /\ resync = FALSE /\ ended = FALSE /\ intact = TRUE

(***************************************************************************)
(* Frame f may be handed out right after frame p.                          *)
(***************************************************************************)
Follows(f, p, ks) == IF f \in ks THEN f > p ELSE f = p + 1

Chain(s, p, ks) ==
    \A i \in 1..Len(s) : Follows(s[i], IF i = 1 THEN p ELSE s[i - 1], ks)

Offered(key) ==
    /\ seen' = seen + 1
    /\ keyframes' = IF key THEN keyframes \cup {seen + 1} ELSE keyframes

Accept(key) ==
    /\ ~ended /\ (resync => key)
    /\ Offered(key)
    /\ \E n \in 0..Len(buf) :
          /\ n > 0 <=> Len(buf) = Size
          /\ buf' = Append(SubSeq(buf, n + 1, Len(buf)), seen + 1)
          /\ resync' = (n > 0)
    /\ intact => Chain(buf', last, keyframes')
    /\ UNCHANGED <<last, ended, intact>>

Refuse(key) ==
    /\ ended \/ (resync /\ ~key)
    /\ Offered(key)
    /\ UNCHANGED <<buf, last, resync, ended, intact>>

Lose(key) ==
    /\ Offered(key)
    /\ intact' = FALSE
    /\ UNCHANGED <<buf, last, resync, ended>>

Take ==
    /\ buf # << >>
    /\ last' = Head(buf)
    /\ buf' = Tail(buf)
    /\ UNCHANGED <<seen, keyframes, resync, ended, intact>>

End ==
    /\ ~ended
    /\ ended' = TRUE
    /\ UNCHANGED <<buf, last, seen, keyframes, resync, intact>>

Next ==
    \/ \E key \in BOOLEAN : Accept(key) \/ Refuse(key) \/ Lose(key)
    \/ Take \/ End

Spec == Init /\ [][Next]_vars
=============================================================================
