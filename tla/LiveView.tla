------------------------------ MODULE LiveView ------------------------------
(***************************************************************************)
(* The live frame table: FrameStore (backend/can_sniffer/frame_store.py),  *)
(* fed by the ingest loop, the WebSocket endpoint of server.py that reads  *)
(* it every 200 ms, and the page (frontend/app.js) that reconnects when    *)
(* the socket closes.  A connection only reads the store, so connections   *)
(* do not affect each other and one page is enough; the endpoint of a      *)
(* connection the page has given up on has no effect and is left out.      *)
(***************************************************************************)
EXTENDS Integers, Sequences, SequencesExt, Deques

CONSTANTS StoreLen,     \* maxlen of _frames
          Cap,          \* MAX_WS_FRAMES_PER_TICK
          MaxWire,      \* updates in the socket's buffers before send_text waits
          MaxPublished, \* bound: frames published
          MaxDrops      \* bound: connections that break

\* The code has 1000 and 100.
ASSUME LiveViewAssumption ==
    /\ StoreLen \in Nat \ {0} /\ MaxWire \in Nat \ {0}
    /\ Cap \in 1..StoreLen
    /\ MaxPublished \in Nat /\ MaxDrops \in Nat

VARIABLES store,      \* _frames, the numbers of the frames kept
          total,      \* _total
          conn,       \* is the page connected
          lastTotal,  \* last_total of the connection's endpoint
          wire,       \* updates sent and not yet received, oldest first
          page,       \* numbers of the frames given to ingestFrame (app.js)
          upTo,       \* history: newest frame received on this connection
          drops       \* history: connections broken so far

server == <<store, total>>
liveVars == <<server, conn, lastTotal, wire, page, upTo, drops>>

LiveInit ==
    /\ store = <<>> /\ total = 0
    /\ conn = FALSE /\ lastTotal = 0
    /\ wire = <<>> /\ page = <<>>
    /\ upTo = 0 /\ drops = 0

\* FrameStore.append, called for each frame by the ingest loop.
Publish ==
    /\ total < MaxPublished
    /\ store' = PushBounded(store, total + 1, StoreLen)
    /\ total' = total + 1
    /\ UNCHANGED <<conn, lastTotal, wire, page, upTo, drops>>

\* The last n elements of s.
LastOf(s, n) == SubSeq(s, Len(s) - n + 1, Len(s))

\* The smaller of two numbers.
Lesser(a, b) == IF a < b THEN a ELSE b

\* FrameStore.since(last): the frames appended after last, as far as kept.
Since(last) ==
    IF total <= last THEN <<>>
    ELSE LastOf(store, Lesser(total - last, Len(store)))

\* Mutant: the cap keeps the oldest of the new frames.
CappedOldest(frames) == SubSeq(frames, 1, Lesser(Len(frames), Cap))

\* The most recent Cap of the new frames.
Capped(frames) == LastOf(frames, Lesser(Len(frames), Cap))

\* A pass of ws_endpoint: it reads the store, moves its cursor, and sends.
SendUpdate ==
    /\ conn
    /\ Len(wire) < MaxWire
    /\ wire' = Append(wire, Capped(Since(lastTotal)))
    /\ lastTotal' = total
    /\ UNCHANGED <<server, conn, page, upTo, drops>>

\* ws.onmessage: each frame of the update goes through ingestFrame.
Receive ==
    /\ wire # <<>>
    /\ wire' = Tail(wire)
    /\ page' = page \o Head(wire)
    /\ upTo' = LastOr(Head(wire), upTo)
    /\ UNCHANGED <<server, conn, lastTotal, drops>>

\* The socket breaks: what was under way is lost and send_text raises
\* WebSocketDisconnect in the endpoint, while the page gets onclose.
Disconnect ==
    /\ conn
    /\ drops < MaxDrops
    /\ conn' = FALSE
    /\ wire' = <<>>
    /\ upTo' = 0
    /\ drops' = drops + 1
    /\ UNCHANGED <<server, lastTotal, page>>

\* Mutant: the endpoint of the new connection goes on where the last one was.
ConnectResuming ==
    /\ ~conn
    /\ conn' = TRUE
    /\ UNCHANGED <<server, lastTotal, wire, page, upTo, drops>>

\* connect() at page load or by the timer of onclose; a new ws_endpoint.
Connect ==
    /\ ~conn
    /\ conn' = TRUE
    /\ lastTotal' = 0
    /\ UNCHANGED <<server, wire, page, upTo, drops>>

LiveNext == Publish \/ SendUpdate \/ Receive \/ Disconnect \/ Connect

\* The endpoint's sleep ends, TCP delivers, the page's timer fires.
Fairness == WF_liveVars(SendUpdate) /\ WF_liveVars(Receive) /\ WF_liveVars(Connect)

LiveSpec == LiveInit /\ [][LiveNext]_liveVars /\ Fairness

-----------------------------------------------------------------------------
\* Types, and the store: the newest frames, total of which were ever appended.
LiveTypeOK ==
    /\ total \in 0..MaxPublished
    /\ store = [i \in 1..Lesser(total, StoreLen) |->
                   total - Lesser(total, StoreLen) + i]
    /\ conn \in BOOLEAN
    /\ lastTotal \in 0..total
    /\ wire \in Seq(Seq(1..total)) /\ Len(wire) <= MaxWire
    /\ page \in Seq(1..total)
    /\ upTo \in 0..total /\ drops \in 0..MaxDrops

\* The server and the page together are a FrameFeed (server.py:131-138): on
\* each connection the page is shown frames in order, none twice, passing over
\* some only in a burst beyond the cap, and it catches up however often the
\* connection broke.
Feed == INSTANCE FrameFeed WITH
    MaxUpdate <- Cap,
    published <- total,
    shown     <- page

FeedSpec == Feed!Spec
=============================================================================
