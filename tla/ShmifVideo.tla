----------------------------- MODULE ShmifVideo ------------------------------
(***************************************************************************)
(* The video buffers of a shmif segment.  The client draws into one of     *)
(* Cnt buffers and hands it over in arcan_shmif_signal (step_v): the       *)
(* buffer's bit is set in `vpending', its index stored in `vready'.  The   *)
(* server polls `vready', uploads the buffer it names, clears the bits it  *)
(* saw in `vpending', clears `vready' and posts the video semaphore; in    *)
(* the engine the last two may be held back until the display has been     *)
(* updated (arcan_frameserver_releaselock).                                *)
(*                                                                         *)
(* One step is one access to the page that the other side can observe.  A  *)
(* frame is a number; pixels, dirty regions, hints and the transfer of     *)
(* GPU handles are abstracted away.                                        *)
(***************************************************************************)
EXTENDS Naturals

CONSTANTS Configs,        \* configurations of the segment
          MaxFrame,       \* bound: frames the client draws
          SEM_VALUE_MAX

ASSUME VideoAssumption ==
  /\ MaxFrame \in Nat /\ SEM_VALUE_MAX \in Nat \ {0}
  /\ \A c \in Configs :
       /\ c.cnt \in Nat \ {0} /\ c.masks \subseteq {"block", "none"}
       /\ c.subregion \in BOOLEAN /\ c.server \in {"engine", "shmifsrv"}
       /\ c.synch \subseteq {0, 2} /\ c.synchsize \in BOOLEAN
       /\ c.faults \subseteq {"crash", "destroy", "keepdms"}

VARIABLES
  cf,                               \* the configuration, never changed
  vready, vpending, vsem, dms,      \* shared page and semaphore
  local_dms, gpc,                   \* guard thread of the client
  pc, mask, old, vbuf_ind, active,  \* client: signal, step_v; vbuf_nbuf_active
  buf, frame, sent,                 \* buffer contents; last frame drawn, signalled
  srv, spc,                         \* server: alive?, where it is
  sbuf, smask, grab,                \* push_buffer: buffer, ~vmask, its contents
  shown,                            \* frame uploaded last
  locked, release_pending,          \* g_buffers_locked, flags.release_pending
  rz_flag, rz_known                 \* resize to be announced, its state

page   == <<vready, vpending>>
conn   == <<dms, local_dms, gpc>>
client == <<pc, mask, old, vbuf_ind, active, frame, sent>>
upload == <<sbuf, smask, grab, shown>>
hold   == <<locked, release_pending>>
resz   == <<rz_flag, rz_known>>
vars   == <<cf, page, vsem, conn, client, buf, srv, spc, upload, hold, resz>>

Cnt       == cf.cnt         \* vbuf_cnt: buffers negotiated at the last resize
Masks     == cf.masks       \* "block", "none": SHMIF_SIGBLK_FORCE, _NONE
Subregion == cf.subregion   \* the client set SHMIF_RHINT_SUBREGION
Server    == cf.server      \* "engine" or "shmifsrv"
Synch     == cf.synch       \* values of g_buffers_locked the strategies use
SynchSize == cf.synchsize   \* TARGET_SYNCHSIZE (rz_ack) is set on the segment
Faults    == cf.faults      \* "crash", "destroy", "keepdms" (no_dms_free)

Bufs == 0 .. Cnt - 1

check_dms == local_dms /\ dms

Post(s) == IF s < SEM_VALUE_MAX THEN s + 1 ELSE s

\* setup_avbuf has taken the counts out of vpending and cleared it.
Init ==
  /\ cf \in Configs
  /\ vready = 0 /\ vpending = {} /\ vsem = 0
  /\ dms = TRUE /\ local_dms = TRUE /\ gpc = "watch"
  /\ pc = "draw" /\ mask = "block" /\ old = {} /\ vbuf_ind = 0 /\ active = FALSE
  /\ buf = [i \in Bufs |-> 0] /\ frame = 0 /\ sent = 0
  /\ srv = "run" /\ spc = "idle"
  /\ sbuf = 0 /\ smask = {} /\ grab = 0 /\ shown = 0
  /\ locked \in Synch /\ release_pending = FALSE
  /\ rz_flag = TRUE /\ rz_known = 0

-----------------------------------------------------------------------------
(* client: arcan_shmif_signal, step_v *)

\* Between two signals the client writes to vidp, the buffer at vbuf_ind.
Draw ==
  /\ pc = "draw" /\ frame < MaxFrame
  /\ frame' = frame + 1
  /\ buf' = [buf EXCEPT ![vbuf_ind] = frame + 1]
  /\ pc' = "drawn"
  /\ UNCHANGED <<cf, page, vsem, conn, mask, old, vbuf_ind, active, sent,
                 srv, spc, upload, hold, resz>>

\* Entry of the call: a dead connection goes to fallback_migrate instead.
Signal_Begin(m) ==
  /\ pc = "drawn"
  /\ mask' = m
  /\ pc' = IF ~(dms /\ local_dms) THEN "migrate" ELSE IF Subregion THEN "subwait" ELSE "step"
  /\ UNCHANGED <<cf, page, vsem, conn, old, vbuf_ind, active, frame, sent,
                 buf, srv, spc, upload, hold, resz>>

\* With a sub-region hint the previous buffer is waited for before the step.
Signal_SubWait ==
  /\ pc = "subwait"
  /\ pc' = IF vready # 0 /\ check_dms THEN "subsem" ELSE "step"
  /\ UNCHANGED <<cf, page, vsem, conn, mask, old, vbuf_ind, active, frame, sent,
                 buf, srv, spc, upload, hold, resz>>

\* step_v with AUTO_DIRTY finds no difference to the previous buffer.
Step_NoChange ==
  /\ pc = "step"
  /\ Subregion /\ active /\ Cnt > 1
  /\ pc' = "try"
  /\ UNCHANGED <<cf, page, vsem, conn, mask, old, vbuf_ind, active, frame, sent,
                 buf, srv, spc, upload, hold, resz>>

\* step_v, first half: the bit in vpending, and what was pending before.
Step_Pending ==
  /\ pc = "step"
  /\ old' = vpending
  /\ vpending' = vpending \cup {vbuf_ind}
  /\ pc' = "ready"
  /\ UNCHANGED <<cf, vready, vsem, conn, mask, vbuf_ind, active, frame, sent,
                 buf, srv, spc, upload, hold, resz>>

NextBuf == IF vbuf_ind + 1 = Cnt THEN 0 ELSE vbuf_ind + 1

\* mutant: the bit tested is the one of the buffer just handed over
Lock_Same == Cnt = 1 \/ vbuf_ind \in old

Lock == Cnt = 1 \/ NextBuf \in old

\* mutant: vready stored as an index, so that buffer 0 is no frame
Step_Ready_Index ==
  /\ pc = "ready"
  /\ vready' = vbuf_ind
  /\ vbuf_ind' = NextBuf
  /\ active' = TRUE /\ sent' = buf[vbuf_ind]
  /\ pc' = IF Lock /\ mask = "block" THEN "wait" ELSE "try"
  /\ UNCHANGED <<cf, vpending, vsem, conn, mask, old, frame,
                 buf, srv, spc, upload, hold, resz>>

\* step_v, second half: vready, the next buffer, and whether to wait for it.
Step_Ready ==
  /\ pc = "ready"
  /\ vready' = vbuf_ind + 1
  /\ vbuf_ind' = NextBuf
  /\ active' = TRUE /\ sent' = buf[vbuf_ind]
  /\ pc' = IF Lock /\ mask = "block" THEN "wait" ELSE "try"
  /\ UNCHANGED <<cf, vpending, vsem, conn, mask, old, frame,
                 buf, srv, spc, upload, hold, resz>>

Signal_Wait ==
  /\ pc = "wait"
  /\ pc' = IF vready # 0 /\ check_dms THEN "sem" ELSE "draw"
  /\ UNCHANGED <<cf, page, vsem, conn, mask, old, vbuf_ind, active, frame, sent,
                 buf, srv, spc, upload, hold, resz>>

\* sem_wait, in either of the two loops
Signal_SemWait ==
  /\ pc \in {"sem", "subsem"} /\ vsem > 0
  /\ vsem' = vsem - 1
  /\ pc' = IF pc = "sem" THEN "wait" ELSE "subwait"
  /\ UNCHANGED <<cf, page, conn, mask, old, vbuf_ind, active, frame, sent,
                 buf, srv, spc, upload, hold, resz>>

Signal_TryWait ==
  /\ pc = "try"
  /\ vsem' = IF vsem > 0 THEN vsem - 1 ELSE 0
  /\ pc' = "draw"
  /\ UNCHANGED <<cf, page, conn, mask, old, vbuf_ind, active, frame, sent,
                 buf, srv, spc, upload, hold, resz>>

InSignal == \/ Signal_SubWait \/ Step_NoChange \/ Step_Pending \/ Step_Ready
            \/ Signal_Wait \/ Signal_SemWait \/ Signal_TryWait

Client == Draw \/ (\E m \in Masks : Signal_Begin(m)) \/ InSignal

-----------------------------------------------------------------------------
(* server: poll, push_buffer, release *)

\* mutant: no frame is taken while buffers are held
Poll_Unlocked ==
  /\ srv = "run" /\ spc = "idle"
  /\ vready # 0 /\ locked = 0
  /\ spc' = "render"
  /\ UNCHANGED <<cf, page, vsem, conn, client, buf, srv, upload, hold, resz>>

\* FFUNC_POLL of vdirect, or shmifsrv_poll: is there a frame to take?
Poll ==
  /\ srv = "run" /\ spc = "idle"
  /\ vready # 0 /\ ~release_pending
  /\ spc' = "render"
  /\ UNCHANGED <<cf, page, vsem, conn, client, buf, srv, upload, hold, resz>>

\* The index is checked, an invalid one means buffer 0.
Push_Ready ==
  /\ srv = "run" /\ spc = "render"
  /\ sbuf' = IF vready = 0 \/ vready > Cnt THEN 0 ELSE vready - 1
  /\ spc' = "mask"
  /\ UNCHANGED <<cf, page, vsem, conn, client, buf, srv, smask, grab, shown, hold, resz>>

\* Then vpending is read.  A resize that still waits for the script's
\* acknowledgement (rz_ack) returns here, before the upload and the commit.
Awaiting == Server = "engine" /\ SynchSize /\ rz_flag /\ rz_known < 2

Push_Mask ==
  /\ srv = "run" /\ spc = "mask"
  /\ smask' = IF Server = "engine" THEN vpending ELSE {}
  /\ IF Awaiting
     THEN spc' = "release" /\ rz_known' = 1 /\ UNCHANGED <<rz_flag, grab>>
     ELSE /\ spc' = "upload" /\ grab' = buf[sbuf]
          /\ rz_flag' = FALSE /\ rz_known' = 0
  /\ UNCHANGED <<cf, page, vsem, conn, client, buf, srv, sbuf, shown, hold>>

\* mutant: the buffer after the one announced is uploaded
Push_Commit_Off ==
  /\ srv = "run" /\ spc = "upload"
  /\ shown' = buf[(sbuf + 1) % Cnt]
  /\ vpending' = vpending \ smask
  /\ spc' = "release"
  /\ UNCHANGED <<cf, vready, vsem, conn, client, buf, srv, sbuf, smask, grab, hold, resz>>

\* The upload has read the buffer; commit_mask clears the bits seen before.
\* A shmif server never clears them.
Push_Commit ==
  /\ srv = "run" /\ spc = "upload"
  /\ shown' = grab
  /\ vpending' = vpending \ smask
  /\ spc' = "release"
  /\ UNCHANGED <<cf, vready, vsem, conn, client, buf, srv, sbuf, smask, grab, hold, resz>>

\* End of FFUNC_RENDER, or shmifsrv_video_step: clear vready now, or leave
\* that to releaselock.
Release ==
  /\ srv = "run" /\ spc = "release"
  /\ IF locked = 2
     THEN release_pending' = TRUE /\ spc' = "idle" /\ UNCHANGED vready
     ELSE vready' = 0 /\ spc' = "post" /\ UNCHANGED release_pending
  /\ UNCHANGED <<cf, vpending, vsem, conn, client, buf, srv, upload, locked, resz>>

Release_Post ==
  /\ srv = "run" /\ spc = "post"
  /\ vsem' = Post(vsem)
  /\ spc' = "idle"
  /\ UNCHANGED <<cf, page, conn, client, buf, srv, upload, hold, resz>>

\* unlock_herd of the conductor, once the display is updated
Releaselock ==
  /\ srv = "run" /\ spc = "idle" /\ release_pending
  /\ release_pending' = FALSE
  /\ vready' = 0 /\ spc' = "post"
  /\ UNCHANGED <<cf, vpending, vsem, conn, client, buf, srv, upload, locked, resz>>

\* arcan_conductor_setsynch: a strategy that does not hold frames releases
\* those that are.
Setsynch(l) ==
  /\ srv = "run" /\ spc = "idle" /\ l # locked
  /\ locked' = l
  /\ IF l = 0 /\ release_pending
     THEN release_pending' = FALSE /\ vready' = 0 /\ spc' = "post"
     ELSE UNCHANGED <<release_pending, vready, spc>>
  /\ UNCHANGED <<cf, vpending, vsem, conn, client, buf, srv, upload, resz>>

\* stepframe_target(vid, 0): the script acknowledges the resize.
Stepframe ==
  /\ srv = "run" /\ spc = "idle"
  /\ SynchSize /\ rz_known = 1
  /\ rz_known' = 2
  /\ UNCHANGED <<cf, page, vsem, conn, client, buf, srv, spc, upload, hold, rz_flag>>

Frameserver == \/ Poll \/ Push_Ready \/ Push_Mask \/ Push_Commit \/ Release
               \/ Release_Post \/ Releaselock

-----------------------------------------------------------------------------
(* the connection ends *)

Crash ==
  /\ "crash" \in Faults /\ srv = "run"
  /\ srv' = "crashed"
  /\ UNCHANGED <<cf, page, vsem, conn, client, buf, spc, upload, hold, resz>>

\* platform_fsrv_destroy; the first half is skipped with no_dms_free.
Destroy_Dms ==
  /\ srv = "run" /\ spc = "idle"
  /\ \/ "destroy" \in Faults /\ dms' = FALSE
     \/ "keepdms" \in Faults /\ dms' = dms
  /\ srv' = "destroyed" /\ spc' = "bye"
  /\ UNCHANGED <<cf, page, vsem, local_dms, gpc, client, buf, upload, hold, resz>>

Destroy_Post ==
  /\ spc = "bye"
  /\ vready' = 0 /\ vsem' = Post(vsem)
  /\ spc' = "gone"
  /\ UNCHANGED <<cf, vpending, conn, client, buf, srv, upload, hold, resz>>

\* guard_thread of the client
Guard_Flags ==
  /\ gpc = "watch" /\ srv = "crashed"
  /\ dms' = FALSE /\ local_dms' = FALSE
  /\ gpc' = "post"
  /\ UNCHANGED <<cf, page, vsem, client, buf, srv, spc, upload, hold, resz>>

Guard_Post ==
  /\ gpc = "post"
  /\ vsem' = Post(vsem)
  /\ gpc' = "done"
  /\ UNCHANGED <<cf, page, dms, local_dms, client, buf, srv, spc, upload, hold, resz>>

Guard == Guard_Flags \/ Guard_Post

Next == \/ Client \/ Frameserver \/ Guard
        \/ (\E l \in Synch : Setsynch(l)) \/ Stepframe
        \/ Crash \/ Destroy_Dms \/ Destroy_Post

Spec == Init /\ [][Next]_vars

\* A client inside the call keeps running; the conductor polls every segment
\* and unlocks the herd once per frame; the guard thread wakes every second;
\* a destroy that has begun runs to its end.
FairSpec == /\ Spec
            /\ WF_vars(InSignal) /\ WF_vars(Frameserver)
            /\ WF_vars(Guard) /\ WF_vars(Destroy_Post)

-----------------------------------------------------------------------------
(* properties *)

\* Blocking signals keep the client off the buffer the server is reading: an
\* upload ends with the frame it began with.
NoTear == srv = "run" /\ spc = "upload" => buf[sbuf] = grab

\* With up to two buffers, and against a shmif server with any number of them,
\* the lock that step_v returns is enough for that.
NoTearBlocking ==
  Masks = {"block"} /\ (Cnt <= 2 \/ Server = "shmifsrv") => NoTear

\* A client asleep on the video semaphore with no token left waits for a frame
\* its server still holds, or a post is on its way: from the release of the
\* frame, from platform_fsrv_destroy, or from the guard thread.
AsleepForAReason ==
  "keepdms" \notin Faults /\ pc \in {"sem", "subsem"} /\ vsem = 0 =>
    \/ vready # 0 /\ check_dms /\ srv = "run"
    \/ srv = "run" /\ spc = "post"
    \/ spc = "bye"
    \/ srv = "crashed" /\ gpc # "done"

\* arcan_shmif_signal returns, whatever becomes of the server, unless the
\* server drops the segment with its dead man's switch left set.
SignalReturns ==
  pc \notin {"draw", "drawn"} /\ "keepdms" \notin Faults ~> pc \in {"draw", "migrate"}

\* A client that waits for each of its frames: with one buffer, or with
\* sub-region updates, if no resize waits for the script.
WaitsForFrames == ~SynchSize /\ (Subregion \/ (Cnt = 1 /\ Masks = {"block"}))

\* While both ends live, a frame that such a client has signalled is uploaded,
\* or a later one is: nothing it handed over is forgotten.
FrameArrives ==
  \A f \in 1 .. MaxFrame :
    WaitsForFrames /\ sent = f ~> (shown >= f \/ srv # "run")

\* What is on display never goes back to an earlier frame.
NoOlderFrame == [][shown' >= shown]_vars
==============================================================================
