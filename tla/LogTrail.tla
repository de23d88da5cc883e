------------------------------ MODULE LogTrail -----------------------------
(***************************************************************************)
(* The way of a log record: from the tee over TouchDesigner's stdout       *)
(* (logtap.py) and from the stdio proxy (stdio_proxy.rs) into the bounded  *)
(* ring of the daemon (logring.rs), and from there, page by page, into the *)
(* Logs view of the desktop (admin.rs, app.rs).  Every stage is bounded    *)
(* and drops rather than waits.                                            *)
(*                                                                         *)
(* A record is its level, "info" or "warn", or "dropped", the marker that  *)
(* counts lines the tee had to drop.  Several threads push into the ring,  *)
(* so a batch is ingested record by record; a page is read in one step     *)
(* under the ring's lock, and applied by the desktop in another.           *)
(***************************************************************************)
EXTENDS Absent, Naturals, Sequences, SequencesExt

CONSTANTS
    TapMax,        \* _LOG_QUEUE_MAX: lines the tee keeps for the uplink
    BatchMax,      \* MAX_EXTERNAL_BATCH: records taken from one batch
    OutMax,        \* capacity of a session's event queue
    ChannelMax,    \* PROXY_LOG_CHANNEL_CAPACITY
    PostMax,       \* PROXY_LOG_BATCH_LINES
    RingCapacity,
    FetchLimit,    \* LOGS_FETCH_LIMIT: records per page
    RenderCap,     \* LOGS_RENDER_CAP: rows the view keeps
    MaxRecords,    \* bound on records, in all sources together
    MaxReloads,    \* bound on reconnects of the bridge
    MaxFilters     \* bound on changes of the filter and clearings of the view

ASSUME LogAssumption ==
    /\ {TapMax, BatchMax, OutMax, ChannelMax, PostMax, RingCapacity, FetchLimit,
        RenderCap} \subseteq Nat \ {0}
    /\ {MaxRecords, MaxReloads, MaxFilters} \subseteq Nat

VARIABLES
    tap,       \* lines of the tee waiting for the uplink, and how many it dropped
    outbound,  \* batches in the event queue of the session being served
    serving,   \* the bridge has such a session
    arriving,  \* records of a bridge batch the daemon has yet to ingest
    channel,   \* lines of the proxy waiting for its flusher
    posting,   \* records of a POST the daemon has yet to ingest
    ring,      \* the queue of LogRing
    nextSeq,   \* the number the next record gets
    view,      \* the Logs view: cursor, rows, filter, and what was cleared
    request,   \* the page being fetched, or None
    page,      \* the answer, not applied yet, or None
    logged, reloads, filters

logVars == <<tap, outbound, serving, arriving, channel, posting, ring, nextSeq, view,
             request, page, logged, reloads, filters>>

Levels == {"info", "warn"}
RecordKinds == Levels \cup {"dropped"}
Records == [seq : Nat, kind : RecordKinds]

\* The level filter: all records, or warnings and the marker (which is one).
Matches(loud, k) == loud => k # "info"

LogTypeOK ==
    /\ tap.lines \in Seq(Levels) /\ Len(tap.lines) <= TapMax /\ tap.dropped \in Nat
    /\ outbound \in Seq(Seq(RecordKinds)) /\ Len(outbound) <= OutMax
    /\ serving \in BOOLEAN
    /\ arriving \in Seq(RecordKinds) /\ posting \in Seq(Levels)
    /\ channel \in Seq(Levels) /\ Len(channel) <= ChannelMax
    /\ ring \in Seq(Records) /\ Len(ring) <= RingCapacity
    /\ nextSeq \in Nat \ {0}
    /\ view.next \in Nat /\ view.floor \in Nat /\ view.loud \in BOOLEAN
    /\ view.rows \in Seq(Records) /\ Len(view.rows) <= RenderCap
    /\ request # None => request.after \in Nat /\ request.loud \in BOOLEAN
    /\ page # None => request # None /\ page.records \in Seq(Records) /\ page.next \in Nat
    /\ logged \in 0 .. MaxRecords /\ reloads \in 0 .. MaxReloads /\ filters \in 0 .. MaxFilters

EmptyTap == [lines |-> <<>>, dropped |-> 0]

LogInit ==
    /\ tap = EmptyTap
    /\ outbound = <<>> /\ serving = TRUE
    /\ arriving = <<>> /\ channel = <<>> /\ posting = <<>>
    /\ ring = <<>> /\ nextSeq = 1
    /\ view = [next |-> 0, rows |-> <<>>, loud |-> FALSE, floor |-> 0]
    /\ request = None /\ page = None
    /\ logged = 0 /\ reloads = 0 /\ filters = 0

Logged == logged < MaxRecords /\ logged' = logged + 1

\* The newest n elements, and the first n.
Newest(s, n) == IF Len(s) <= n THEN s ELSE SubSeq(s, Len(s) - n + 1, Len(s))
First(s, n) == IF Len(s) <= n THEN s ELSE SubSeq(s, 1, n)

-----------------------------------------------------------------------------
(* Inside TouchDesigner.                                                   *)

\* Tee.write: a full buffer gives up its oldest line.
TapLine(k) ==
    /\ Logged
    /\ tap' = [lines |-> Newest(Append(tap.lines, k), TapMax),
               dropped |-> tap.dropped + IF Len(tap.lines) = TapMax THEN 1 ELSE 0]
    /\ UNCHANGED <<outbound, serving, arriving, channel, posting, ring, nextSeq, view,
                   request, page, reloads, filters>>

\* maybe_flush on the main thread: the batch ends with the marker, and enqueue_event
\* drops it when nobody serves or the queue is full.
FlushTap ==
    /\ tap.lines # <<>>
    /\ tap' = EmptyTap
    /\ LET batch == tap.lines \o IF tap.dropped > 0 THEN <<"dropped">> ELSE <<>>
       IN  outbound' = IF serving /\ Len(outbound) < OutMax THEN Append(outbound, batch)
                                                            ELSE outbound
    /\ UNCHANGED <<serving, arriving, channel, posting, ring, nextSeq, view, request, page,
                   logged, reloads, filters>>

\* _drain_outbound, and the daemon's session reading the frame: ingest_entries takes
\* the first records of a batch.
DrainOutbound ==
    /\ serving /\ outbound # <<>>
    /\ arriving' = arriving \o First(Head(outbound), BatchMax)
    /\ outbound' = Tail(outbound)
    /\ UNCHANGED <<tap, serving, channel, posting, ring, nextSeq, view, request, page,
                   logged, reloads, filters>>

\* The worker ends, and its queue with it.
StopServing ==
    /\ serving
    /\ serving' = FALSE /\ outbound' = <<>>
    /\ UNCHANGED <<tap, arriving, channel, posting, ring, nextSeq, view, request, page,
                   logged, reloads, filters>>

\* A reconnect reloads the package: logtap starts with a new buffer.
ServeAgain ==
    /\ ~serving /\ reloads < MaxReloads
    /\ serving' = TRUE /\ tap' = EmptyTap /\ reloads' = reloads + 1
    /\ UNCHANGED <<outbound, arriving, channel, posting, ring, nextSeq, view, request, page,
                   logged, filters>>

-----------------------------------------------------------------------------
(* The stdio proxy.                                                        *)

\* ProxyLogLayer: a full channel drops the line.
ProxyLine(k) ==
    /\ Logged
    /\ channel' = IF Len(channel) < ChannelMax THEN Append(channel, k) ELSE channel
    /\ UNCHANGED <<tap, outbound, serving, arriving, posting, ring, nextSeq, view, request,
                   page, reloads, filters>>

\* run_proxy_log_flusher: a batch is full or its time is up; a POST that fails is lost.
ProxyPosts ==
    /\ posting = <<>>
    /\ \E n \in 1 .. PostMax :
          /\ n <= Len(channel)
          /\ channel' = SubSeq(channel, n + 1, Len(channel))
          /\ posting' \in {<<>>, First(First(channel, n), BatchMax)}
    /\ UNCHANGED <<tap, outbound, serving, arriving, ring, nextSeq, view, request, page,
                   logged, reloads, filters>>

-----------------------------------------------------------------------------
(* The daemon.                                                             *)

\* LogRing::push.
Push(k) ==
    /\ ring' = Newest(Append(ring, [seq |-> nextSeq, kind |-> k]), RingCapacity)
    /\ nextSeq' = nextSeq + 1

IngestBridge ==
    /\ arriving # <<>>
    /\ Push(Head(arriving)) /\ arriving' = Tail(arriving)
    /\ UNCHANGED <<tap, outbound, serving, channel, posting, view, request, page, logged,
                   reloads, filters>>

IngestProxy ==
    /\ posting # <<>>
    /\ Push(Head(posting)) /\ posting' = Tail(posting)
    /\ UNCHANGED <<tap, outbound, serving, arriving, channel, view, request, page, logged,
                   reloads, filters>>

DaemonLine(k) ==
    /\ Logged /\ Push(k)
    /\ UNCHANGED <<tap, outbound, serving, arriving, channel, posting, view, request, page,
                   reloads, filters>>

\* The records of the ring that are newer than after and pass the filter, oldest first.
Selected(after, loud) ==
    LET picked[n \in 0 .. Len(ring)] ==
          IF n = 0 THEN <<>>
          ELSE IF ring[n].seq > after /\ Matches(loud, ring[n].kind)
                 THEN Append(picked[n - 1], ring[n])
                 ELSE picked[n - 1]
    IN  picked[Len(ring)]

\* snapshot_after: the oldest records that match, and the highest number of all.
SnapshotAfter(q) ==
    [records |-> First(Selected(q.after, q.loud), FetchLimit), next |-> nextSeq - 1]

AdminLogs ==
    /\ request # None /\ page = None
    /\ page' = SnapshotAfter(request)
    /\ UNCHANGED <<tap, outbound, serving, arriving, channel, posting, ring, nextSeq, view,
                   request, logged, reloads, filters>>

-----------------------------------------------------------------------------
(* The desktop.                                                            *)

\* fetch_logs_if_due, when no fetch is running.
FetchLogs ==
    /\ request = None
    /\ request' = [after |-> view.next, loud |-> view.loud]
    /\ UNCHANGED <<tap, outbound, serving, arriving, channel, posting, ring, nextSeq, view,
                   page, logged, reloads, filters>>

\* finish_logs_fetch with a page, or with an error.
FinishFetch ==
    /\ page # None
    /\ view' = [view EXCEPT !.next = page.next,
                            !.rows = Newest(@ \o page.records, RenderCap)]
    /\ request' = None /\ page' = None
    /\ UNCHANGED <<tap, outbound, serving, arriving, channel, posting, ring, nextSeq,
                   logged, reloads, filters>>

FetchFails ==
    /\ request # None
    /\ request' = None /\ page' = None
    /\ UNCHANGED <<tap, outbound, serving, arriving, channel, posting, ring, nextSeq, view,
                   logged, reloads, filters>>

Adjusted == filters < MaxFilters /\ filters' = filters + 1

SetFilterKeepingFetch ==
    /\ Adjusted
    /\ view' = [next |-> 0, rows |-> <<>>, loud |-> ~view.loud, floor |-> 0]
    /\ UNCHANGED <<tap, outbound, serving, arriving, channel, posting, ring, nextSeq,
                   request, page, logged, reloads>>

\* A filter chip: reset_logs_filter_state also forgets the page under way.
SetFilter ==
    /\ Adjusted
    /\ view' = [next |-> 0, rows |-> <<>>, loud |-> ~view.loud, floor |-> 0]
    /\ request' = None /\ page' = None
    /\ UNCHANGED <<tap, outbound, serving, arriving, channel, posting, ring, nextSeq,
                   logged, reloads>>

\* The Clear button drops the rows and keeps the cursor.
ClearRows ==
    /\ Adjusted
    /\ view' = [view EXCEPT !.rows = <<>>, !.floor = view.next]
    /\ UNCHANGED <<tap, outbound, serving, arriving, channel, posting, ring, nextSeq,
                   request, page, logged, reloads>>

-----------------------------------------------------------------------------
LogNext ==
    \/ \E k \in Levels : TapLine(k) \/ ProxyLine(k) \/ DaemonLine(k)
    \/ FlushTap \/ DrainOutbound \/ StopServing \/ ServeAgain
    \/ ProxyPosts
    \/ IngestBridge \/ IngestProxy \/ AdminLogs
    \/ FetchLogs \/ FinishFetch \/ FetchFails \/ SetFilter \/ ClearRows

LogSpec == LogInit /\ [][LogNext]_logVars

-----------------------------------------------------------------------------
(* Properties.                                                             *)

\* The Logs view shows no record twice, and all in order and under the filter of its chips:
\* the page of an earlier filter, or one asked for from an earlier cursor, is never
\* mixed into the rows, however slowly its answer comes.
TailIsInOrder ==
    /\ LogTypeOK
    /\ \A i \in 1 .. Len(view.rows) - 1 : view.rows[i].seq < view.rows[i + 1].seq
    /\ \A r \in ToSet(view.rows) : r.seq <= view.next /\ Matches(view.loud, r.kind)
    /\ view.next < nextSeq

-----------------------------------------------------------------------------
(* What comments promise and the code does not keep (README, Findings).    *)

\* "the next fetch re-derives the tail from whatever the ring still holds": a view
\* that is up to date shows every record of the ring that its filter lets through.
TailIsWhole ==
    request = None /\ view.next = nextSeq - 1 =>
        \A r \in ToSet(ring) :
            r.seq > view.floor /\ Matches(view.loud, r.kind) => r \in ToSet(view.rows)

\* "dropped ... log lines (uplink queue full)": the marker of a batch that is
\* delivered reaches the daemon.
MarkerArrives ==
    [][DrainOutbound /\ "dropped" \in ToSet(Head(outbound)) =>
           "dropped" \in ToSet(arriving')]_logVars
=============================================================================
