----------------------------- MODULE A12Streams ------------------------------
(***************************************************************************)
(* What an authenticated a12 connection carries from a source to a sink:   *)
(* binary transfers (files, memory blocks, pipes), which the sink may turn *)
(* down or cancel at any time, and video frames, which the sink            *)
(* acknowledges and the source paces by.  Packets arrive in order and      *)
(* unchanged, as A12Session shows.                                         *)
(*                                                                         *)
(* A transfer is numbered by its place in the source's program, its data   *)
(* is cut into blocks 1, 2, ...; a frame is numbered by its stream id.     *)
(* Compression, audio and the contents of frames are left out.             *)
(***************************************************************************)
EXTENDS Integers, Sequences

CONSTANTS WND,        \* VIDEO_FRAME_DRIFT_WINDOW
          WIDTH,      \* bits of a stream id, 32
          MaxBlobs,   \* bound: transfers in a workload
          Configs     \* workloads

\* blobs   what the source enqueues, in order: the channel, the size in
\*         blocks, the reply id, and the kind
\*           "mem"   a12_enqueue_blob          "file"  a12_enqueue_bstream
\*           "font"  the same, held back until the sink has caught up
\*           "pipe"  a stream of unknown size, over after `size' blocks
\*           "short" a file that has lost its last block since it was enqueued
\* fails   sources may break       rejects  the sink may refuse or cancel
\* frames  frames to send, of `parts' packets, acknowledged packet by packet
\*         or (raw) when complete; `drops': the sink may discard a frame
\* block   opts.vframe_block       chat     events the sink sends
\* shutdown_id  the reply id of the transfer the source stops after, or 0
ASSUME StreamsAssumption ==
  /\ WND \in Nat /\ WND > 2 /\ WIDTH \in Nat /\ MaxBlobs \in Nat
  /\ \A c \in Configs :
       /\ Len(c.blobs) \in 0 .. MaxBlobs
       /\ \A b \in 1 .. Len(c.blobs) :
            /\ c.blobs[b].kind \in {"mem", "file", "font", "pipe", "short"}
            /\ c.blobs[b].size \in Nat \ {0} /\ c.blobs[b].ident \in Nat
       /\ c.fails \in BOOLEAN /\ c.rejects \in BOOLEAN /\ c.raw \in BOOLEAN /\ c.drops \in BOOLEAN
       /\ c.frames \in Nat /\ c.parts \in Nat \ {0} /\ c.block \in Nat /\ c.chat \in Nat
       /\ c.shutdown_id \in {0} \cup {c.blobs[b].ident : b \in 1 .. Len(c.blobs)}

VARIABLES
  cf,            \* the workload, never changed
  \* the source
  next,          \* transfers enqueued
  node,          \* [transfer -> [active, streamid, left, done, rampup]]
  pending,       \* S->pending: transfers, the first one is served
  out_stream,    \* S->out_stream
  seqA, lastA,   \* current_seqnr, last_seen_seqnr
  window, npend, \* congestion_stats.frame_window, .pending
  backpressure,  \* stats.vframe_backpressure
  shown,         \* frames sent
  broken,        \* S->state = STATE_BROKEN
  \* the sink
  bframe,        \* [channel -> the incoming transfer]
  state,         \* [transfer -> what the binary handler was last told]
  written,       \* [transfer -> blocks written to the handler's descriptor]
  vframe,        \* the incoming frame
  seqB, lastB, chats,
  \* both directions
  ab, ba

source == <<next, node, pending, out_stream, seqA, lastA, broken>>
pacing == <<window, npend, backpressure, shown>>
sink   == <<bframe, state, written, vframe, seqB, lastB, chats>>
vars   == <<cf, source, pacing, sink, ab, ba>>

Blobs     == 1 .. Len(cf.blobs)
Blob(b)   == cf.blobs[b]
Channels  == {Blob(b).ch : b \in Blobs}
Unknown(b) == Blob(b).kind = "pipe"
Slots     == 1 .. WND

\* The first of a set of places.
First(S) == CHOOSE i \in S : \A j \in S : i <= j

NoStream == 0        \* bframe->streamid = -1

Pkt(t, ch, sid, val, num) == [t |-> t, ch |-> ch, sid |-> sid, val |-> val, num |-> num]

\* Packets ps are queued for the sink, numbered by current_seqnr.
Numbered(ps) == [i \in DOMAIN ps |-> [p |-> ps[i], seq |-> seqA + i - 1]]
ToSink(ps) == ab' = ab \o Numbered(ps) /\ seqA' = seqA + Len(ps)

\* The sink answers with ps; only events say which number was seen last.
ToSource(ps) ==
  /\ ba' = ba \o [i \in DOMAIN ps |-> [p |-> ps[i], seq |-> seqB + i - 1]]
  /\ seqB' = seqB + Len(ps)

Init ==
  /\ cf \in Configs
  /\ next = 0 /\ pending = <<>> /\ out_stream = 1 /\ seqA = 0 /\ lastA = 0
  /\ node = [b \in Blobs |-> [active |-> FALSE, streamid |-> NoStream, left |-> 0, done |-> 0, rampup |-> 0]]
  /\ window = [i \in Slots |-> 0] /\ npend = 0 /\ backpressure = 0 /\ shown = 0 /\ broken = FALSE
  /\ bframe = [c \in Channels |-> [active |-> FALSE, streamid |-> NoStream, size |-> 0, blob |-> 0]]
  /\ state = [b \in Blobs |-> "none"] /\ written = [b \in Blobs |-> <<>>]
  /\ vframe = [id |-> 0, left |-> 0, discard |-> TRUE]
  /\ seqB = 0 /\ lastB = 0 /\ chats = 0
  /\ ab = <<>> /\ ba = <<>>

-----------------------------------------------------------------------------
(* binary transfers: the source *)

\* alloc_attach_blob; a file or memory block has a known size, and the size
\* of a pipe is 0 until it ends.
Enqueue ==
  /\ ~broken /\ next < Len(cf.blobs) /\ next' = next + 1
  /\ LET b == next + 1
     IN /\ pending' = Append(pending, b)
        /\ node' = [node EXCEPT ![b].left = IF Unknown(b) THEN 0 ELSE Blob(b).size,
                                ![b].rampup = IF Blob(b).kind = "font" THEN seqA + 1 ELSE 0]
  /\ UNCHANGED <<cf, out_stream, seqA, lastA, broken, pacing, sink, ab, ba>>

\* The node at place i of the list goes.
unlink_node(i) == SubSeq(pending, 1, i - 1) \o SubSeq(pending, i + 1, Len(pending))

\* begin_bstream: the header goes out with the first block.
Header(b) == IF node[b].active THEN <<>>
             ELSE <<Pkt("binarystream", Blob(b).ch, out_stream + 1, b, node[b].left)>>
StreamOf(b) == IF node[b].active THEN node[b].streamid ELSE out_stream + 1
Begun(b) == [node[b] EXCEPT !.active = TRUE, !.streamid = StreamOf(b)]
begin_bstream(b) == out_stream' = IF node[b].active THEN out_stream ELSE out_stream + 1

\* append_blob takes the first transfer, unless it is to wait for the sink.
Served(b) ==
  /\ ~broken /\ pending # <<>> /\ b = Head(pending)
  /\ node[b].rampup = 0 \/ lastA >= node[b].rampup

Exhausted(b) == node[b].done >= IF Blob(b).kind = "short" THEN Blob(b).size - 1 ELSE Blob(b).size

\* A block is read and sent; a transfer of known size ends with its last one.
queue_node_Data(b) ==
  /\ Served(b) /\ ~Exhausted(b)
  /\ ToSink(Append(Header(b), Pkt("blob", Blob(b).ch, StreamOf(b), b, node[b].done + 1)))
  /\ begin_bstream(b)
  /\ node' = [node EXCEPT ![b] = [Begun(b) EXCEPT !.done = @ + 1, !.left = IF Unknown(b) THEN 0 ELSE @ - 1]]
  /\ pending' = IF ~Unknown(b) /\ node[b].left = 1 THEN unlink_node(1) ELSE pending
  /\ UNCHANGED <<cf, next, lastA, broken, pacing, sink, ba>>

\* Nothing to read: no data yet, the end of a pipe or that of a file which was
\* announced longer, all the same to queue_node (nts is 0).
queue_node_Empty(b) ==
  /\ Served(b) /\ (Unknown(b) \/ Exhausted(b)) /\ ~node[b].active
  /\ ToSink(Header(b)) /\ begin_bstream(b)
  /\ node' = [node EXCEPT ![b] = Begun(b)]
  /\ UNCHANGED <<cf, next, pending, lastA, broken, pacing, sink, ba>>

\* The source broke.  a12_stream_cancel is for incoming streams: the sink is
\* not told.
queue_node_Broken(b) ==
  /\ cf.fails /\ Served(b) /\ Blob(b).kind # "mem"
  /\ ToSink(Header(b)) /\ begin_bstream(b)
  /\ node' = [node EXCEPT ![b] = Begun(b)]
  /\ pending' = unlink_node(1)
  /\ UNCHANGED <<cf, next, lastA, broken, pacing, sink, ba>>

append_blob == \E b \in Blobs : queue_node_Data(b) \/ queue_node_Empty(b) \/ queue_node_Broken(b)

-----------------------------------------------------------------------------
(* video: the source *)

step_vstream ==
  /\ window' = [window EXCEPT ![npend + 1] = out_stream]
  /\ npend' = IF npend < WND - 1 THEN npend + 1 ELSE npend
  /\ out_stream' = out_stream + 1

Frame == <<Pkt("videoframe", 0, out_stream, 0, cf.parts)>> \o
         [i \in 1 .. cf.parts |-> Pkt("video", 0, out_stream, 0, 1)]

\* a12_channel_vframe, called when the pacing permits.
Vframe ==
  /\ ~broken /\ shown < cf.frames /\ shown' = shown + 1
  /\ cf.block = 0 \/ backpressure < cf.block
  /\ ToSink(Frame) /\ step_vstream
  /\ UNCHANGED <<cf, next, node, pending, lastA, broken, backpressure, sink, ba>>

\* The distance of two stream ids, of WIDTH bits.
Distance(a, b) == (a - b) % 2^WIDTH

\* to_move: how many slots from n on are in use, up to the first free one.
to_move(n) == First({j \in n .. WND + 1 : j = WND + 1 \/ window[j] = 0}) - n

\* They are moved to the front, the others are cleared.
Moved(n) == [window |-> [i \in Slots |-> IF i <= to_move(n) THEN window[n + i - 1] ELSE 0], n |-> to_move(n)]

\* mutant: `pending' is not counted again
Slide_Stale(i, sid) ==
  LET m == Moved(i + 1)
  IN /\ window' = m.window /\ UNCHANGED npend
     /\ backpressure' = m.n + Distance(IF m.n > 0 THEN m.window[1] ELSE window[1], sid)

\* mutant: the distance is taken after the free slots have been cleared
Slide_Cleared(i, sid) ==
  LET m == Moved(i + 1)
  IN /\ window' = m.window /\ npend' = m.n
     /\ backpressure' = m.n + Distance(m.window[1], sid)

\* The frames up to slot i are done with.  With nothing to move, the first
\* slot still has its old value when the distance is taken.
Slide(i, sid) ==
  LET m == Moved(i + 1)
  IN /\ window' = m.window /\ npend' = m.n
     /\ backpressure' = m.n + Distance(IF m.n > 0 THEN m.window[1] ELSE window[1], sid)

\* The slot where the search for sid stops: that of sid, or the first free
\* one, or WND + 1.
Stop(sid) ==
  First({i \in 1 .. WND + 1 : i = WND + 1 \/ window[i] = 0 \/ window[i] = sid})

\* The reply the source was waiting for.
Terminal(sid) == sid # 0 /\ sid = cf.shutdown_id

command_pingpacket(sid) ==
  LET i == Stop(sid)
  IN \/ /\ sid = 0 \/ Terminal(sid) \/ (i <= WND /\ window[i] = 0)
        /\ UNCHANGED <<window, npend, backpressure>>
     \/ /\ sid \notin {0, cf.shutdown_id} /\ i < WND /\ window[i] = sid
        /\ Slide(i, sid)
     \/ /\ sid \notin {0, cf.shutdown_id} /\ i >= WND /\ window[WND] # 0 /\ sid >= window[WND]
        /\ window' = [j \in Slots |-> 0] /\ npend' = 0 /\ UNCHANGED backpressure
     \/ /\ sid \notin {0, cf.shutdown_id} /\ i >= WND /\ window[WND] # 0 /\ sid < window[WND]
        /\ Slide(WND - 1, sid)

\* The places of the transfers that have stream id sid.
Places(sid) == {i \in 1 .. Len(pending) : node[pending[i]].streamid = sid}

\* mutant: a transfer that is being served is kept
command_cancelstream_Active(sid) ==
  pending' = IF Places(sid) \ {1} = {} THEN pending ELSE unlink_node(First(Places(sid) \ {1}))

command_cancelstream(sid) ==
  pending' = IF Places(sid) = {} THEN pending ELSE unlink_node(First(Places(sid)))

\* a12_unpack at the source.
Source_Unpack ==
  /\ ~broken /\ ba # <<>> /\ ba' = Tail(ba)
  /\ LET m == Head(ba)
     IN /\ lastA' = IF m.p.t = "event" THEN m.p.num ELSE m.seq
        /\ broken' = (m.p.t = "ping" /\ Terminal(m.p.sid))
        /\ \/ m.p.t = "cancelstream" /\ command_cancelstream(m.p.sid)
              /\ UNCHANGED <<window, npend, backpressure>>
           \/ m.p.t = "ping" /\ command_pingpacket(m.p.sid) /\ UNCHANGED pending
           \/ m.p.t = "event" /\ UNCHANGED <<pending, window, npend, backpressure>>
  /\ UNCHANGED <<cf, next, node, out_stream, seqA, shown, sink, ab>>

-----------------------------------------------------------------------------
(* the sink *)

\* a12_stream_cancel on channel c: the state of the channel after it, what
\* the handler is told, what the source is told.
Cancelled(c) == [bframe EXCEPT ![c].active = FALSE, ![c].streamid = NoStream]
CancelOf(c)  == <<Pkt("cancelstream", c, bframe[c].streamid, 0, 0)>>
Tell(b, what) == state' = [state EXCEPT ![b] = what]

\* The call for packet m is over; the answers are ps.
Taken(m, ps) ==
  /\ ab' = Tail(ab) /\ lastB' = m.seq /\ ToSource(ps)
  /\ UNCHANGED <<cf, source, pacing, chats>>

\* mutant: the transfer that is active goes on under the new stream id
command_binarystream_Exist_Adopt(m) ==
  /\ bframe[m.p.ch].active
  /\ bframe' = [bframe EXCEPT ![m.p.ch].streamid = m.p.sid, ![m.p.ch].size = m.p.num]
  /\ Taken(m, <<>>) /\ UNCHANGED <<state, written, vframe>>

\* A transfer is announced while another is active (EEXIST): the old one is
\* cancelled, the new one is not set up.
command_binarystream_Exist(m) ==
  /\ bframe[m.p.ch].active
  /\ bframe' = Cancelled(m.p.ch) /\ Tell(bframe[m.p.ch].blob, "cancelled")
  /\ Taken(m, CancelOf(m.p.ch)) /\ UNCHANGED <<written, vframe>>

Announced(m) == [active |-> TRUE, streamid |-> m.p.sid, size |-> m.p.num, blob |-> m.p.val]

command_binarystream_Accept(m) ==
  /\ ~bframe[m.p.ch].active
  /\ bframe' = [bframe EXCEPT ![m.p.ch] = Announced(m)] /\ Tell(m.p.val, "init")
  /\ Taken(m, <<>>) /\ UNCHANGED <<written, vframe>>

\* DONTWANT or CACHED: INITIALIZE, then CANCELLED.
command_binarystream_Refuse(m) ==
  /\ cf.rejects /\ ~bframe[m.p.ch].active
  /\ bframe' = [bframe EXCEPT ![m.p.ch] = [Announced(m) EXCEPT !.active = FALSE, !.streamid = NoStream]]
  /\ Tell(m.p.val, "cancelled")
  /\ Taken(m, <<Pkt("cancelstream", m.p.ch, m.p.sid, 0, 0)>>) /\ UNCHANGED <<written, vframe>>

\* Data on a stream that was cancelled, completed or never set up.
Foreign(m) == bframe[m.p.ch].streamid # m.p.sid \/ ~bframe[m.p.ch].active

process_blob_Discard(m) ==
  /\ Foreign(m)
  /\ Taken(m, <<>>) /\ UNCHANGED <<bframe, state, written, vframe>>

process_blob_Write(m) ==
  LET f == bframe[m.p.ch]
      over == f.size = 1
  IN /\ ~Foreign(m)
     /\ written' = [written EXCEPT ![f.blob] = Append(@, <<m.p.val, m.p.num>>)]
     /\ bframe' = [bframe EXCEPT ![m.p.ch].size = IF @ = 0 THEN 0 ELSE @ - 1,
                                 ![m.p.ch].active = ~over]
     /\ IF over THEN Tell(f.blob, "completed") ELSE UNCHANGED state
     /\ Taken(m, IF over THEN <<Pkt("ping", m.p.ch, Blob(f.blob).ident, 0, 0)>> ELSE <<>>)
     /\ UNCHANGED vframe

\* The descriptor cannot be written to.
process_blob_Full(m) ==
  /\ cf.rejects /\ ~Foreign(m)
  /\ bframe' = Cancelled(m.p.ch) /\ Tell(bframe[m.p.ch].blob, "cancelled")
  /\ Taken(m, CancelOf(m.p.ch)) /\ UNCHANGED <<written, vframe>>

command_videoframe(m) ==
  /\ \E d \in IF cf.drops THEN BOOLEAN ELSE {FALSE} :
       vframe' = [id |-> m.p.sid, left |-> m.p.num, discard |-> d]
  /\ Taken(m, <<>>) /\ UNCHANGED <<bframe, state, written>>

process_video(m) ==
  /\ vframe' = [vframe EXCEPT !.left = @ - 1]
  /\ Taken(m, IF ~vframe.discard /\ (cf.raw => vframe.left = 1)
              THEN <<Pkt("ping", 0, vframe.id, 0, 0)>> ELSE <<>>)
  /\ UNCHANGED <<bframe, state, written>>

\* a12_unpack at the sink.
Sink_Unpack ==
  /\ ab # <<>>
  /\ LET m == Head(ab)
     IN \/ m.p.t = "binarystream" /\ (command_binarystream_Exist(m) \/ command_binarystream_Accept(m)
                                      \/ command_binarystream_Refuse(m))
        \/ m.p.t = "blob" /\ (process_blob_Discard(m) \/ process_blob_Write(m) \/ process_blob_Full(m))
        \/ m.p.t = "videoframe" /\ command_videoframe(m)
        \/ m.p.t = "video" /\ process_video(m)

\* The user of the sink cancels the transfer on a channel.
stream_cancel ==
  /\ cf.rejects
  /\ \E c \in Channels :
       /\ bframe[c].active
       /\ bframe' = Cancelled(c) /\ Tell(bframe[c].blob, "cancelled") /\ ToSource(CancelOf(c))
  /\ UNCHANGED <<cf, source, pacing, written, vframe, lastB, chats, ab>>

\* The sink sends an event of its own; it says what was seen last.
Chat ==
  /\ chats < cf.chat /\ chats' = chats + 1
  /\ ToSource(<<Pkt("event", 0, 0, 0, lastB)>>)
  /\ UNCHANGED <<cf, source, pacing, bframe, state, written, vframe, lastB, ab>>

Next == Enqueue \/ append_blob \/ Vframe \/ Source_Unpack \/ Sink_Unpack \/ stream_cancel \/ Chat

\* The loops of both sides keep flushing and reading.  A source with data is
\* read from; that one breaks or a user cancels is never required.
Fairness ==
  /\ WF_vars(Enqueue) /\ WF_vars(\E b \in Blobs : queue_node_Data(b)) /\ WF_vars(Vframe)
  /\ WF_vars(Source_Unpack) /\ WF_vars(Sink_Unpack) /\ WF_vars(Chat)

Spec == Init /\ [][Next]_vars /\ Fairness

-----------------------------------------------------------------------------
(* properties *)

\* What is written to the descriptor of a transfer is its own data from the
\* start, without gaps, and the handler is told COMPLETED only when that is
\* all of it, whatever was cancelled, refused or broken before on the same
\* channel (command_binarystream, process_blob).  A channel is busy exactly as
\* long as its handler has a transfer it has been told about and not yet been
\* told the end of.
Intact ==
  \A b \in Blobs :
    /\ \A i \in 1 .. Len(written[b]) : written[b][i] = <<b, i>>
    /\ state[b] = "completed" => Len(written[b]) = Blob(b).size
    /\ state[b] = "init" <=> (bframe[Blob(b).ch].active /\ bframe[Blob(b).ch].blob = b)

\* No id given to a transfer's completion is also that of a frame.
NoAlias == \A b \in Blobs : Blob(b).ident = 0

\* The slots of the window in use come first and hold rising ids; `pending'
\* counts them, short of one when the last slot is taken.  While the source
\* stays within the window, a frame the sink has not begun is in it: an
\* acknowledgement takes nothing off that is still on its way.
WindowExact ==
  LET used == {i \in Slots : window[i] # 0}
  IN /\ \E n \in 0 .. WND : used = 1 .. n /\ npend = (IF n = WND THEN WND - 1 ELSE n)
     /\ \A i \in used : window[i] < out_stream /\ \A j \in used : i < j => window[i] < window[j]
     /\ (NoAlias /\ cf.frames < WND) =>
          \A k \in 1 .. Len(ab) :
            ab[k].p.t = "videoframe" => \E i \in Slots : window[i] = ab[k].p.sid

\* A pipe has no end of its own and a file cut short does not reach it; a font
\* waits until the sink has seen a packet that is yet to be sent, and may wait
\* for ever.
Endless == \E b \in Blobs : Blob(b).kind \in {"pipe", "short", "font"}

\* A handler is told the end of a transfer once: after COMPLETED there is no
\* CANCELLED, nor the other way round (a late cancel, data still on the way).
ToldOnce == [][\A b \in Blobs : state[b] \in {"completed", "cancelled"} => state'[b] = state[b]]_vars

\* The end of a transfer is told once.  A transfer the sink has cancelled or
\* refused is dropped by the source: it does not hold up the ones behind it.
\* Transfers of known size whose sources do not break are all completed or
\* cancelled.
EndsOnce ==
  /\ ToldOnce
  /\ \A b \in 1 .. MaxBlobs :
       (b \in Blobs /\ state[b] = "cancelled") ~> (\A i \in 1 .. Len(pending) : pending[i] # b)
  /\ (~cf.fails /\ ~Endless) => <>(\A b \in Blobs : state[b] \in {"completed", "cancelled"})

\* A source that is paced by the acknowledgements gets all of its frames out,
\* if the sink acknowledges every one.
FramesFlow == (NoAlias /\ ~cf.drops) => <>(shown = cf.frames)
==============================================================================
