----------------------------- MODULE FrameFeed -----------------------------
(***************************************************************************)
(* What a page showing the live frames is promised (README.md, "Live       *)
(* frame table"; server.py:33-36).  Frames are numbered in the order they  *)
(* were published.  While the page stays connected it is shown frames in   *)
(* that order, none twice, and one is passed over only by an update that   *)
(* is as large as updates get.  A new connection begins afresh: it may     *)
(* show again what an earlier one showed.  The page catches up.            *)
(***************************************************************************)
EXTENDS Integers, Sequences

CONSTANTS MaxUpdate,     \* frames of one update, at most
          MaxPublished   \* bound: frames published

VARIABLES published,  \* number of frames published so far
          shown,      \* numbers of the frames shown since the page was loaded
          upTo        \* newest frame shown on this connection, or 0

feedVars == <<published, shown, upTo>>

Init == published = 0 /\ shown = <<>> /\ upTo = 0

Publish ==
    /\ published < MaxPublished
    /\ published' = published + 1
    /\ UNCHANGED <<shown, upTo>>

\* An update shows the frames a to b.
Show ==
    \E b \in (upTo + 1)..published : \E a \in (upTo + 1)..b :
       /\ b - a < MaxUpdate
       /\ a = upTo + 1 \/ b - a + 1 = MaxUpdate
       /\ shown' = shown \o [i \in 1..(b - a + 1) |-> a + i - 1]
       /\ upTo' = b
       /\ UNCHANGED published

Reconnect == upTo' = 0 /\ UNCHANGED <<published, shown>>

Next == Publish \/ Show \/ Reconnect

Spec == Init /\ [][Next]_feedVars /\ WF_feedVars(Show)
=============================================================================
