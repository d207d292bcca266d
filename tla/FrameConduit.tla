---------------------------- MODULE FrameConduit ----------------------------
(***************************************************************************)
(* What the server expects of the correlation stage, whatever it does with *)
(* timestamps: a first-in first-out conduit for CAN frames.  Frames are    *)
(* numbered in the order the socket delivered them.  They are handed on in *)
(* that order, each at most once; a frame may be lost only when Capacity   *)
(* frames are already held; and whatever is held is eventually handed on.  *)
(***************************************************************************)
EXTENDS Naturals, Sequences, SequencesExt

CONSTANTS Capacity,    \* frames held before the conduit may lose one
          MaxFrames    \* bound: frames accepted in one behaviour

VARIABLES accepted,    \* number of frames accepted so far
          held,        \* numbers of the frames inside the conduit, in order
          delivered,   \* numbers of the frames handed on, in order
          lost         \* numbers of the frames dropped

conduitVars == <<accepted, held, delivered, lost>>

Init ==
    /\ accepted = 0
    /\ held = <<>>
    /\ delivered = <<>>
    /\ lost = {}

\* A frame enters and nothing is dropped.
Accept ==
    /\ accepted < MaxFrames
    /\ accepted' = accepted + 1
    /\ held' = Append(held, accepted + 1)
    /\ UNCHANGED <<delivered, lost>>

\* A frame enters a full conduit and one of those inside is dropped.
AcceptWithLoss ==
    /\ accepted < MaxFrames
    /\ Len(held) >= Capacity
    /\ accepted' = accepted + 1
    /\ \E i \in DOMAIN held :
          /\ held' = Append(RemoveAt(held, i), accepted + 1)
          /\ lost' = lost \cup {held[i]}
    /\ UNCHANGED delivered

\* The oldest n frames inside are handed on together.
Deliver ==
    /\ \E n \in 1..Len(held) :
          /\ delivered' = delivered \o SubSeq(held, 1, n)
          /\ held' = SubSeq(held, n + 1, Len(held))
    /\ UNCHANGED <<accepted, lost>>

Next == Accept \/ AcceptWithLoss \/ Deliver

Spec == Init /\ [][Next]_conduitVars /\ WF_conduitVars(Deliver)
=============================================================================
