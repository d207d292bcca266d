-------------------------- MODULE MCFrameConsumers --------------------------
(***************************************************************************)
(* The ingest loop gives each frame to the live view and to the trigger    *)
(* (server.py, _ingest_loop).  Nothing else connects the two, so it is     *)
(* enough that in each behaviour either a page connects or the trigger     *)
(* endpoints are called.                                                   *)
(***************************************************************************)
EXTENDS LiveView, TriggerCapture

allVars == <<liveVars, vars>>

ConsumersInit == LiveInit /\ Init

NoPageYet == ~conn /\ drops = 0

TriggerUnused == <<state, preBuf, trigAt, sessions>> = <<"idle", <<>>, 0, <<>>>>

\* A pass of the loop over one frame.
IngestFrame == Publish /\ Ingest

TriggerMoves == NoPageYet /\ (Endpoints \/ PopCompleted) /\ UNCHANGED liveVars

Page == SendUpdate \/ Receive \/ Disconnect \/ Connect

PageMoves == TriggerUnused /\ Page /\ UNCHANGED vars

ConsumersNext == IngestFrame \/ TriggerMoves \/ PageMoves

\* A page that never connects is not fair, but no property of the trigger
\* needs fairness.
ConsumersSpec == ConsumersInit /\ [][ConsumersNext]_allVars /\ Fairness
=============================================================================
