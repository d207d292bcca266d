----------------------------- MODULE MCFirmware -----------------------------
(***************************************************************************)
(* Both halves of the timestamp path in one run: the capture loop, whose   *)
(* WriteEvent stands for a whole write_event, and the ring, whose writer   *)
(* is that write_event.  They share no variable and no property speaks of  *)
(* both, so it is enough that in each behaviour one of them moves.         *)
(***************************************************************************)
EXTENDS SofCapture, PruRing

allVars == <<captureVars, vars>>

FirmwareInit == CaptureInit /\ Init

\* The capture loop is in one of its initial states.
CaptureAtRest == CaptureInit /\ ~gpio /\ shm = <<0, 0>>

CaptureMoves == Init /\ CaptureNext /\ UNCHANGED vars

RingMoves == CaptureAtRest /\ Next /\ UNCHANGED captureVars

FirmwareNext == CaptureMoves \/ RingMoves

FirmwareSpec ==
    /\ FirmwareInit /\ [][FirmwareNext]_allVars
    /\ WF_vars(WriteTimes \/ Publish) /\ WF_vars(Reader)
=============================================================================
