--------------------------- MODULE TriggerCapture ---------------------------
(***************************************************************************)
(* The pre/post-trigger capture of backend/can_sniffer/trigger_capture.py, *)
(* with its users in server.py: the ingest loop, the trigger endpoints and *)
(* the task that hands finished sessions to the database logger.  All of   *)
(* them run on the event loop and none awaits inside a call: each call is  *)
(* a step.  A frame is its number in the order of ingest calls.            *)
(***************************************************************************)
EXTENDS Integers, Sequences, SequencesExt, Deques

CONSTANTS PreSize, PostSize,  \* pre_size and post_size
          MaxCaptures,        \* maxlen of _captures
          MaxFrames           \* bound: frames ingested

ASSUME TriggerAssumption ==
    /\ PreSize \in Nat \ {0} /\ PostSize \in Nat \ {0}
    /\ MaxCaptures \in Nat \ {0} /\ MaxFrames \in Nat

VARIABLES state,       \* _state
          cond,        \* type of _cond, or None
          preBuf,      \* _pre_buf
          postBuf,     \* _post_buf
          captures,    \* numbers of the sessions in _captures
          pending,     \* number of the session in _pending, or 0
          seen,        \* history: frames ingested, in whatever state
          armedSeen,   \* history: the frames ingested while armed
          trigAt,      \* history: value of seen at the latest trigger
          sessions,    \* history: every session saved
          logged       \* history: sessions handed to DiagLogger.log_capture

buffers == <<preBuf, postBuf>>
stores == <<captures, pending>>
history == <<seen, armedSeen, trigAt, sessions, logged>>
vars == <<state, cond, buffers, stores, history>>

None == "none"

\* The condition types of the arm endpoint.  Fire works with any of them; a
\* type the endpoint does not know behaves as "manual".
Conditions == {"manual", "arb_id", "error_frame", "bus_load"}

\* What _condition_met can find true of an EnrichedFrame: it has no attribute
\* is_error_frame, and error frames never reach the trigger.
FrameConditions == {"arb_id", "bus_load"}

Init ==
    /\ state = "idle"
    /\ cond = None
    /\ preBuf = <<>> /\ postBuf = <<>>
    /\ captures = <<>> /\ pending = 0
    /\ seen = 0 /\ armedSeen = {} /\ trigAt = 0
    /\ sessions = <<>> /\ logged = <<>>

-----------------------------------------------------------------------------
\* arm(condition): in any state; a collection in progress is abandoned.
Arm(c) ==
    /\ cond' = c
    /\ postBuf' = <<>>
    /\ state' = "armed"
    /\ UNCHANGED <<preBuf, stores, history>>

Disarm ==
    /\ state' = "idle"
    /\ cond' = None
    /\ postBuf' = <<>>
    /\ UNCHANGED <<preBuf, stores, history>>

\* _trigger(), with n frames ingested.
Trigger(n) ==
    /\ state' = "collecting"
    /\ postBuf' = <<>>
    /\ trigAt' = n

\* fire(): ignored unless armed.
Fire ==
    /\ state = "armed"
    /\ Trigger(seen)
    /\ UNCHANGED <<cond, preBuf, stores, seen, armedSeen, sessions, logged>>

-----------------------------------------------------------------------------
\* _save_session() with post as the frames collected; the state is armed again.
SaveSession(post) ==
    LET n == Len(sessions) + 1 IN
    /\ sessions' = Append(sessions, [pre |-> preBuf, post |-> post, cond |-> cond,
                                     trig |-> trigAt])
    /\ captures' = PushBounded(captures, n, MaxCaptures)
    /\ pending' = n
    /\ postBuf' = <<>>
    /\ state' = "armed"

\* ingest() while idle does nothing.
IngestIdle ==
    /\ state = "idle" /\ seen < MaxFrames
    /\ seen' = seen + 1
    /\ UNCHANGED <<state, cond, buffers, stores, armedSeen, trigAt, sessions, logged>>

\* Mutant: the frame that meets the condition is left out of the pre-buffer.
IngestArmedLate(hits) ==
    /\ state = "armed" /\ seen < MaxFrames
    /\ seen' = seen + 1 /\ armedSeen' = armedSeen \cup {seen + 1}
    /\ IF cond \in hits
         THEN Trigger(seen + 1) /\ UNCHANGED preBuf
         ELSE /\ preBuf' = PushBounded(preBuf, seen + 1, PreSize)
              /\ UNCHANGED <<state, postBuf, trigAt>>
    /\ UNCHANGED <<cond, stores, sessions, logged>>

\* ingest() while armed: the frame joins the pre-buffer and may trigger; hits
\* are the conditions it meets.
IngestArmed(hits) ==
    /\ state = "armed" /\ seen < MaxFrames
    /\ seen' = seen + 1 /\ armedSeen' = armedSeen \cup {seen + 1}
    /\ preBuf' = PushBounded(preBuf, seen + 1, PreSize)
    /\ IF cond \in hits THEN Trigger(seen + 1)
                        ELSE UNCHANGED <<state, postBuf, trigAt>>
    /\ UNCHANGED <<cond, stores, sessions, logged>>

\* Mutant: one frame too many.
IngestCollectingMore ==
    /\ state = "collecting" /\ seen < MaxFrames
    /\ seen' = seen + 1
    /\ LET post == Append(postBuf, seen + 1) IN
         IF Len(post) > PostSize
           THEN SaveSession(post)
           ELSE /\ postBuf' = post
                /\ UNCHANGED <<state, stores, sessions>>
    /\ UNCHANGED <<cond, preBuf, armedSeen, trigAt, logged>>

\* ingest() while collecting: the last frame wanted completes the session.
IngestCollecting ==
    /\ state = "collecting" /\ seen < MaxFrames
    /\ seen' = seen + 1
    /\ LET post == Append(postBuf, seen + 1) IN
         IF Len(post) >= PostSize
           THEN SaveSession(post)
           ELSE /\ postBuf' = post
                /\ UNCHANGED <<state, stores, sessions>>
    /\ UNCHANGED <<cond, preBuf, armedSeen, trigAt, logged>>

\* Mutant: pop_completed does not clear _pending.
PopAgain ==
    /\ pending /= 0 /\ Len(logged) <= Len(sessions)
    /\ logged' = Append(logged, pending)
    /\ UNCHANGED <<state, cond, buffers, stores, seen, armedSeen, trigAt, sessions>>

\* _capture_logger_loop, every 100 ms: pop_completed, then log_capture.
PopCompleted ==
    /\ pending /= 0
    /\ logged' = Append(logged, pending)
    /\ pending' = 0
    /\ UNCHANGED <<state, cond, buffers, captures, seen, armedSeen, trigAt, sessions>>

Endpoints == (\E c \in Conditions : Arm(c)) \/ Disarm \/ Fire

Ingest == IngestIdle \/ (\E h \in SUBSET FrameConditions : IngestArmed(h))
                     \/ IngestCollecting

Next == Endpoints \/ Ingest \/ PopCompleted

Spec == Init /\ [][Next]_vars

-----------------------------------------------------------------------------
Session == [pre : Seq(1..MaxFrames), post : Seq(1..MaxFrames),
            cond : Conditions, trig : Nat]

\* Types of the variables.
TypeOK ==
    /\ state \in {"idle", "armed", "collecting"}
    /\ cond \in Conditions \cup {None} /\ (cond = None <=> state = "idle")
    /\ preBuf \in Seq(1..MaxFrames) /\ Len(preBuf) <= PreSize
    /\ postBuf \in Seq(1..MaxFrames) /\ Len(postBuf) < PostSize
    /\ captures \in Seq(1..Len(sessions)) /\ Len(captures) <= MaxCaptures
    /\ pending \in 0..Len(sessions)
    /\ seen \in 0..MaxFrames /\ armedSeen \subseteq 1..seen /\ trigAt \in 0..seen
    /\ sessions \in Seq(Session) /\ logged \in Seq(1..Len(sessions))

\* The numbers from m to n.
Run(m, n) == [i \in 1..(n - m + 1) |-> m + i - 1]

\* A session's post-trigger part is the PostSize frames right after its
\* trigger, whatever is armed, fired or disarmed between (README.md:620).
PostFollowsTrigger ==
    \A i \in DOMAIN sessions :
       sessions[i].post = Run(sessions[i].trig + 1, sessions[i].trig + PostSize)

\* A session's pre-trigger part is made of frames that came while armed, up to
\* the trigger and in order, and leaves one of these out only for as many newer
\* ones as fit (trigger_capture.py:101-105).  Calls that abandon a wait or a
\* collection neither drop nor add one, and the buffer is not cleared between
\* waits: older frames than those of the last wait can precede them.
PreIsNewestArmed ==
    \A i \in DOMAIN sessions :
       LET s == sessions[i]
           came == {f \in armedSeen : f <= s.trig}
       IN /\ Increasing(s.pre) /\ ToSet(s.pre) \subseteq came
          /\ \A f \in came \ ToSet(s.pre) :
                Len(s.pre) = PreSize /\ \A g \in ToSet(s.pre) : f < g

\* Sessions are logged at most once and in order, and the last one finished is
\* never overlooked: it waits in _pending until it is logged.  An earlier one
\* that still waits there when the next is finished is lost: EverySessionLogged
\* is not true.
LoggedAtMostOnce ==
    /\ Increasing(logged)
    /\ sessions /= <<>> =>
          \/ pending = Len(sessions)
          \/ logged /= <<>> /\ Last(logged) = Len(sessions)

\* README.md:621, "Session saved to SQLite": a finished session has been handed
\* to the database logger or is waiting to be.
EverySessionLogged ==
    \A i \in DOMAIN sessions : i = pending \/ i \in ToSet(logged)

\* README.md:618-619: at the trigger the pre-buffer holds the last PreSize
\* frames, for it is fed at all times.
PreIsRolling ==
    \A i \in DOMAIN sessions :
       LET s == sessions[i]
           n == IF s.trig > PreSize THEN PreSize ELSE s.trig
       IN s.pre = Run(s.trig - n + 1, s.trig)
=============================================================================
