------------------------------ MODULE ShmifRing ------------------------------
(***************************************************************************)
(* The outgoing event queue of a shmif segment (`parentevq' of the shared  *)
(* page): a single-producer single-consumer ring the client fills in       *)
(* enqueue_internal and the server empties, in the engine through          *)
(* arcan_event_queuetransfer / arcan_event_poll, in a shmif server through *)
(* shmifsrv_dequeue_events.  The client sleeps on the event semaphore when *)
(* the ring is full; who wakes it, and what happens to it when the server  *)
(* goes away, is what this module is about.                                *)
(*                                                                         *)
(* One step is one access to the page that the other side can observe.     *)
(* The paused branch of enqueue_internal is modelled in ShmifEvents.       *)
(***************************************************************************)
EXTENDS Naturals, Sequences

CONSTANTS QSZ,            \* PP_QUEUE_SZ: slots of the ring
          Kinds,          \* kinds of event the client sends
          Vals,           \* payloads
          DstCap,         \* cap of queuetransfer: room in the engine's queue
          Limit,          \* limit argument of shmifsrv_dequeue_events
          SEM_VALUE_MAX,  \* sem_post fails, and counts no more, here
          Consumer,       \* "engine" or "shmifsrv": who empties the ring
          Faults          \* subset of {"crash", "destroy", "keepdms", "exit"}

AllKinds == {"EXTERNAL", "CLOCKREQ", "PLANE_LEFT", "PLANE_LAST"}

ASSUME RingAssumption ==
  /\ QSZ \in Nat /\ QSZ >= 2
  /\ DstCap \in Nat /\ Limit \in Nat
  /\ SEM_VALUE_MAX \in Nat /\ SEM_VALUE_MAX >= 1
  /\ Kinds \subseteq AllKinds

VARIABLES
  eventbuf, front, back,  \* the ring in the shared page
  esem,                   \* the event semaphore
  dms,                    \* dead man's switch, in the page
  local_dms, alive,       \* guard.local_dms and priv->alive of the client
  pc, ev,                 \* client: where enqueue_internal is, its argument
  gpc,                    \* guard thread
  srv, spc,               \* server: "run", "crashed", "destroyed"; where it is
  ahead,                  \* slots copied out and not yet released by `front'
  snap,                   \* shmifsrv: the value of `back' it read
  inev,                   \* the event copied last
  wake,                   \* queuetransfer: post the semaphore when done
  dq                      \* events waiting in the engine's own queue

page   == <<eventbuf, front, back>>
client == <<alive, pc, ev>>
server == <<spc, ahead, snap, inev, wake, dq>>
vars   == <<page, esem, dms, local_dms, client, gpc, srv, server>>

Event == [kind : Kinds, val : Vals]
Blank == [kind |-> "BLANK", val |-> "ff"]    \* the 0xff fill of a used slot

-----------------------------------------------------------------------------
(* index arithmetic, the semaphore, the three liveness signals *)

Succ(i) == (i + 1) % QSZ

Full    == Succ(back) = front
Empty   == front = back

\* queue_used: how many slots lie from index a up to index b
Dist(a, b) == IF a > b THEN QSZ - a + b ELSE b - a
Used       == Dist(front, back)

Post(s) == IF s < SEM_VALUE_MAX THEN s + 1 ELSE s

check_dms == alive /\ local_dms /\ dms

Init ==
  /\ eventbuf = [i \in 0 .. QSZ - 1 |-> Blank] /\ front = 0 /\ back = 0
  /\ esem = 1                       \* sem_open(.., 1) for the event semaphore
  /\ dms = TRUE /\ local_dms = TRUE /\ alive = TRUE
  /\ pc = "idle" /\ ev = Blank /\ gpc = "watch"
  /\ srv = "run" /\ spc = "idle" /\ ahead = 0 /\ snap = 0
  /\ inev = Blank /\ wake = FALSE /\ dq = 0

-----------------------------------------------------------------------------
(* client: enqueue_internal *)

\* Entry.  tryenqueue (try) skips the test of the connection.
Enqueue_Begin(e, try) ==
  /\ pc = "idle"
  /\ check_dms \/ try
  /\ pc' = "check" /\ ev' = e
  /\ UNCHANGED <<page, esem, dms, local_dms, alive, gpc, srv, server>>

\* A dead connection: fallback_migrate takes over, this ring is left behind.
Enqueue_Migrate ==
  /\ pc = "idle"
  /\ ~check_dms
  /\ pc' = "migrate"
  /\ UNCHANGED <<page, esem, dms, local_dms, alive, ev, gpc, srv, server>>

\* The loop condition: sleep while the connection lives and the ring is full.
Enqueue_Check ==
  /\ pc = "check"
  /\ pc' = IF check_dms /\ Full THEN "sem" ELSE "write"
  /\ UNCHANGED <<page, esem, dms, local_dms, alive, ev, gpc, srv, server>>

Enqueue_SemWait ==
  /\ pc = "sem"
  /\ esem > 0
  /\ esem' = esem - 1
  /\ pc' = "check"
  /\ UNCHANGED <<page, dms, local_dms, alive, ev, gpc, srv, server>>

Enqueue_Write ==
  /\ pc = "write"
  /\ eventbuf' = [eventbuf EXCEPT ![back] = ev]
  /\ pc' = "publish"
  /\ UNCHANGED <<front, back, esem, dms, local_dms, alive, ev, gpc, srv, server>>

\* After FORCE_SYNCH the slot is complete; `back' makes it visible.
Enqueue_Publish ==
  /\ pc = "publish"
  /\ back' = Succ(back)
  /\ pc' = "idle" /\ ev' = Blank
  /\ UNCHANGED <<eventbuf, front, esem, dms, local_dms, alive, gpc, srv, server>>

Client == \/ \E e \in Event, try \in BOOLEAN : Enqueue_Begin(e, try)
          \/ Enqueue_Migrate \/ Enqueue_Check \/ Enqueue_SemWait
          \/ Enqueue_Write \/ Enqueue_Publish

-----------------------------------------------------------------------------
(* engine: arcan_event_queuetransfer over arcan_event_poll *)

Transfer_Begin ==
  /\ Consumer = "engine" /\ srv = "run" /\ spc = "idle"
  /\ spc' = "loop" /\ wake' = FALSE
  /\ UNCHANGED <<page, esem, dms, local_dms, client, gpc, srv, ahead, snap, inev, dq>>

\* Copy the slot at `front' and overwrite it.
Transfer_Copy ==
  /\ srv = "run" /\ spc = "loop"
  /\ ~Empty /\ dq < DstCap
  /\ inev' = eventbuf[front]
  /\ eventbuf' = [eventbuf EXCEPT ![front] = Blank]
  /\ ahead' = 1
  /\ spc' = "release"
  /\ UNCHANGED <<front, back, esem, dms, local_dms, client, gpc, srv, snap, wake, dq>>

\* What handling an event does to `wake': events of a category that is not
\* allowed, CLOCKREQ and FLUSHAUD are consumed on the spot (CLOCKREQ stands
\* for them), a BUFFERSTREAM plane assigns it, the others set it.
WakeAfter(kind, w) ==
  CASE kind = "EXTERNAL"   -> TRUE
    [] kind = "PLANE_LAST" -> TRUE
    [] kind = "PLANE_LEFT" -> FALSE
    [] OTHER               -> w

\* Release the slot, then dispatch: only EXTERNAL goes to the engine's queue.
Transfer_Release ==
  /\ srv = "run" /\ spc = "release"
  /\ front' = Succ(front)
  /\ ahead' = 0
  /\ wake' = WakeAfter(inev.kind, wake)
  /\ dq' = IF inev.kind = "EXTERNAL" THEN dq + 1 ELSE dq
  /\ spc' = "loop"
  /\ UNCHANGED <<eventbuf, back, esem, dms, local_dms, client, gpc, srv, snap, inev>>

\* mutant: only an emptied ring is worth a post
Transfer_End_IfEmpty ==
  /\ srv = "run" /\ spc = "loop"
  /\ Empty \/ dq >= DstCap
  /\ esem' = IF wake /\ Empty THEN Post(esem) ELSE esem
  /\ wake' = FALSE
  /\ spc' = "idle"
  /\ UNCHANGED <<page, dms, local_dms, client, gpc, srv, ahead, snap, inev, dq>>

Transfer_End ==
  /\ srv = "run" /\ spc = "loop"
  /\ Empty \/ dq >= DstCap
  /\ esem' = IF wake THEN Post(esem) ELSE esem
  /\ wake' = FALSE
  /\ spc' = "idle"
  /\ UNCHANGED <<page, dms, local_dms, client, gpc, srv, ahead, snap, inev, dq>>

\* The main loop empties the engine's queue between two transfers.
Feed ==
  /\ srv = "run" /\ spc = "idle" /\ dq > 0
  /\ dq' = 0
  /\ UNCHANGED <<page, esem, dms, local_dms, client, gpc, srv, spc, ahead, snap, inev, wake>>

Engine == Transfer_Begin \/ Transfer_Copy \/ Transfer_Release \/ Transfer_End \/ Feed

-----------------------------------------------------------------------------
(* shmif server: shmifsrv_dequeue_events *)

\* Read both indices; the copy loop then works on this snapshot.
Dequeue_Begin ==
  /\ Consumer = "shmifsrv" /\ srv = "run" /\ spc = "idle"
  /\ snap' = back /\ ahead' = 0
  /\ spc' = "batch"
  /\ UNCHANGED <<page, esem, dms, local_dms, client, gpc, srv, inev, wake, dq>>

Dequeue_Copy ==
  /\ srv = "run" /\ spc = "batch"
  /\ ahead < Limit
  /\ (front + ahead) % QSZ # snap
  /\ inev' = eventbuf[(front + ahead) % QSZ]
  /\ ahead' = ahead + 1
  /\ UNCHANGED <<page, esem, dms, local_dms, client, gpc, srv, spc, snap, wake, dq>>

\* mutants: release up to the snapshot whatever was copied; return without a
\* post when the caller's buffer is full
Dequeue_Release_Snap ==
  /\ srv = "run" /\ spc = "batch"
  /\ ahead >= Limit \/ (front + ahead) % QSZ = snap
  /\ front' = snap
  /\ ahead' = 0
  /\ spc' = "post"
  /\ UNCHANGED <<eventbuf, back, esem, dms, local_dms, client, gpc, srv, snap, inev, wake, dq>>

Dequeue_Release ==
  /\ srv = "run" /\ spc = "batch"
  /\ ahead >= Limit \/ (front + ahead) % QSZ = snap
  /\ front' = (front + ahead) % QSZ
  /\ ahead' = 0
  /\ spc' = "post"
  /\ UNCHANGED <<eventbuf, back, esem, dms, local_dms, client, gpc, srv, snap, inev, wake, dq>>

\* Unlike the engine, the post is unconditional.
Dequeue_Post ==
  /\ srv = "run" /\ spc = "post"
  /\ esem' = Post(esem)
  /\ spc' = "idle"
  /\ UNCHANGED <<page, dms, local_dms, client, gpc, srv, ahead, snap, inev, wake, dq>>

Shmifsrv == Dequeue_Begin \/ Dequeue_Copy \/ Dequeue_Release \/ Dequeue_Post

-----------------------------------------------------------------------------
(* the connection ends *)

\* The server process dies, wherever it is.
Crash ==
  /\ "crash" \in Faults /\ srv = "run"
  /\ srv' = "crashed"
  /\ UNCHANGED <<page, esem, dms, local_dms, client, gpc, server>>

\* platform_fsrv_destroy with the dead man's switch: the page's dms is
\* cleared, the video and audio semaphores are posted, this one is not.
Destroy ==
  /\ "destroy" \in Faults /\ srv = "run" /\ spc = "idle"
  /\ srv' = "destroyed"
  /\ dms' = FALSE
  /\ UNCHANGED <<page, esem, local_dms, client, gpc, server>>

\* platform_fsrv_destroy with no_dms_free: the queue is thrown away and the
\* semaphore posted, the page keeps claiming to be alive.
Destroy_KeepDms ==
  /\ "keepdms" \in Faults /\ srv = "run" /\ spc = "idle"
  /\ srv' = "destroyed"
  /\ front' = back
  /\ esem' = Post(esem)
  /\ UNCHANGED <<eventbuf, back, dms, local_dms, client, gpc, server>>

\* The client dequeues TARGET_COMMAND_EXIT, in its own thread.
Exit ==
  /\ "exit" \in Faults /\ pc = "idle" /\ alive
  /\ alive' = FALSE
  /\ UNCHANGED <<page, esem, dms, local_dms, pc, ev, gpc, srv, server>>

\* mutant: the sleepers are woken with both switches still set
Guard_Flags_Keep ==
  /\ gpc = "watch" /\ srv = "crashed"
  /\ gpc' = "post"
  /\ UNCHANGED <<page, esem, dms, local_dms, client, srv, server>>

\* guard_thread: parent_alive fails once the server process is gone.  Both
\* switches are cleared before the sleepers are woken to look at them.
Guard_Flags ==
  /\ gpc = "watch" /\ srv = "crashed"
  /\ dms' = FALSE /\ local_dms' = FALSE
  /\ gpc' = "post"
  /\ UNCHANGED <<page, esem, client, srv, server>>

Guard_Post ==
  /\ gpc = "post"
  /\ esem' = Post(esem)
  /\ gpc' = "done"
  /\ UNCHANGED <<page, dms, local_dms, client, srv, server>>

Environment == Crash \/ Destroy \/ Destroy_KeepDms \/ Exit

Guard == Guard_Flags \/ Guard_Post

Next == Client \/ Engine \/ Shmifsrv \/ Guard \/ Environment

Spec == Init /\ [][Next]_vars

\* The client's loop runs while it is in a call, the conductor polls every
\* frameserver on each tick, the guard thread wakes every second.
Fairness ==
  /\ WF_vars(Enqueue_Check) /\ WF_vars(Enqueue_SemWait)
  /\ WF_vars(Enqueue_Write) /\ WF_vars(Enqueue_Publish)
  /\ WF_vars(Transfer_Begin) /\ WF_vars(Transfer_Copy)
  /\ WF_vars(Transfer_Release) /\ WF_vars(Transfer_End)
  /\ SF_vars(Feed)
  /\ WF_vars(Shmifsrv) /\ WF_vars(Guard)

FairSpec == Spec /\ Fairness

-----------------------------------------------------------------------------
(* properties *)

Pcs  == {"idle", "check", "sem", "write", "publish", "migrate"}
Spcs == {"idle", "loop", "release", "batch", "post"}

\* Every variable keeps to its range; `front' and `back' are valid indices.
TypeOK ==
  /\ eventbuf \in [0 .. QSZ - 1 -> Event \cup {Blank}]
  /\ front \in 0 .. QSZ - 1 /\ back \in 0 .. QSZ - 1
  /\ esem \in 0 .. SEM_VALUE_MAX
  /\ dms \in BOOLEAN /\ local_dms \in BOOLEAN /\ alive \in BOOLEAN
  /\ pc \in Pcs /\ ev \in Event \cup {Blank}
  /\ gpc \in {"watch", "post", "done"}
  /\ srv \in {"run", "crashed", "destroyed"} /\ spc \in Spcs
  /\ ahead \in 0 .. QSZ - 1 /\ snap \in 0 .. QSZ - 1
  /\ inev \in Event \cup {Blank}
  /\ wake \in BOOLEAN /\ dq \in 0 .. DstCap

\* A client asleep in enqueue_internal with no token left on the semaphore is
\* asleep for a reason that still holds (the ring is full on a connection that
\* lives), or somebody is on the way to post: a transfer that will wake, a
\* dequeue before its post, the guard thread of a dead server.
AsleepForAReason ==
  pc = "sem" /\ esem = 0 =>
    \/ check_dms /\ Full
    \/ srv = "run" /\ (wake \/ spc = "post")
    \/ srv = "crashed" /\ gpc # "done"

\* arcan_shmif_enqueue returns: a call that has passed its first test does not
\* stay in the wait loop for ever.
EnqueueReturns == pc = "check" ~> pc = "idle"

\* Events published and not yet copied out by the consumer, oldest first.
InFlight == [k \in 1 .. Used - ahead |-> eventbuf[(front + ahead + k - 1) % QSZ]]

Channel == INSTANCE FifoChannel WITH
  Cap <- QSZ - 1, None <- Blank,
  q <- InFlight, out <- inev, open <- check_dms /\ srv = "run"

\* While the connection is usable on both ends the ring is a lossless bounded
\* FIFO: nothing is dropped, duplicated, reordered, or read half written, for
\* either consumer and whatever the order of their accesses to the page.
ImplementsChannel == Channel!Spec
==============================================================================
