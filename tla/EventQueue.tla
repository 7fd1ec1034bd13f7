----------------------------- MODULE EventQueue ------------------------------
(***************************************************************************)
(* The engine's master event queue.  It is used by one thread, but events  *)
(* are handled by scripts that call back into the engine: a handler may    *)
(* queue more events, and may delete the frameserver whose events are      *)
(* being transferred.  When the queue is full arcan_event_enqueue feeds it *)
(* to the drain function (overflow_drain) from inside the call.  The calls *)
(* in progress are a stack of frames:                                      *)
(*                                                                         *)
(*   feed   arcan_event_feed called by the conductor                       *)
(*   full   arcan_event_enqueue of ev, feeding the full queue to the drain *)
(*   xfer   arcan_event_queuetransfer from the frameserver's ring          *)
(*   hnd    a handler at work on ev, `by' says who called it               *)
(*                                                                         *)
(* Events are numbered in the order in which they are produced.  `st'      *)
(* records what became of each.  Categories, masks and the panic key are   *)
(* left out, and so are the kinds that queuetransfer itself consumes.      *)
(***************************************************************************)
EXTENDS Naturals, Sequences

CONSTANTS N,          \* eventbuf_sz
          MaxEv,      \* bound: events produced
          Configs     \* configurations of the engine

ASSUME QueueAssumption ==
  /\ N \in Nat /\ N > 1 /\ MaxEv \in Nat
  /\ \A c \in Configs : /\ c.limit \in 0 .. MaxEv /\ c.exits \subseteq 1 .. MaxEv
                        /\ c.scanout \in BOOLEAN /\ c.draining \in BOOLEAN
                        /\ c.overruns \in BOOLEAN

VARIABLES
  cf,                         \* the configuration, never changed
  eventbuf, front, back,      \* the ring
  drain, in_drain, dead,      \* ctx->drain set, EVSTATE_IN_DRAIN, EVSTATE_DEAD
  locked,                     \* arcan_conductor_gpus_locked
  stack,                      \* calls in progress, the innermost last
  next, st,                   \* next event, what became of each
  inqueue,                    \* events in the ring of the frameserver
  fused, fuse_blown, freed,   \* the frameserver
  overrun,                    \* the front index of that ring is beyond its end
  killswitch                  \* synch.killswitch of that ring is the frameserver

ring == <<eventbuf, front, back>>
ctl  == <<drain, in_drain, dead>>
bad  == <<overrun, killswitch>>
fsrv == <<inqueue, fused, fuse_blown, freed, bad>>
vars == <<cf, ring, ctl, locked, stack, next, st, fsrv>>

Limit    == cf.limit      \* bound: events produced in this configuration
Exits    == cf.exits      \* those that are EVENT_SYSTEM_EXIT
Scanout  == cf.scanout    \* the conductor yields while the GPUs are locked
Draining == cf.draining   \* xfer_sat < 0 (TARGET_DRAINQUEUE), otherwise 0.5
Overruns == cf.overruns   \* the client may spoil the front index of its ring

\* the event that announces the end of the frameserver
TERMINATED == MaxEv + 1

Ids   == 1 .. MaxEv + 1
Slots == 0 .. N - 1

Feed       == [op |-> "feed", ev |-> 0, slot |-> N, by |-> "none"]
Xfer       == [op |-> "xfer", ev |-> 0, slot |-> N, by |-> "none"]
Full(e)    == [op |-> "full", ev |-> e, slot |-> N, by |-> "none"]
Hnd(e, s, by) == [op |-> "hnd", ev |-> e, slot |-> s, by |-> by]

Last(s)  == s[Len(s)]
Front(s) == SubSeq(s, 1, Len(s) - 1)

Top     == Last(stack)
Below   == Front(stack)
TopIs(ops) == stack # <<>> /\ Top.op \in ops

Succ(i) == (i + 1) % N

\* mutant: a ring that never reports itself full
queue_full_Never == FALSE

queue_full == Succ(back) = front

queue_used == IF front > back THEN N - front + back ELSE back - front

\* The slots in use, oldest first.
Used == [k \in 1 .. queue_used |-> (front + k - 1) % N]

Init ==
  /\ cf \in Configs
  /\ eventbuf = [i \in Slots |-> 0] /\ front = 0 /\ back = 0
  /\ drain = FALSE /\ in_drain = FALSE /\ dead = FALSE /\ locked = FALSE
  /\ stack = <<>> /\ next = 1 /\ st = [e \in Ids |-> "new"]
  /\ inqueue = <<>> /\ fused = FALSE /\ fuse_blown = FALSE /\ freed = FALSE
  /\ overrun = FALSE /\ killswitch = TRUE

-----------------------------------------------------------------------------
(* enqueue *)

\* arcan_event_enqueue of e, called by the innermost of calls.
Enqueue(e, calls) ==
  \/ /\ ~dead /\ ~queue_full
     /\ eventbuf' = [eventbuf EXCEPT ![back] = e] /\ back' = Succ(back)
     /\ st' = [st EXCEPT ![e] = "queued"] /\ stack' = calls
     /\ UNCHANGED <<front, in_drain>>
  \/ /\ ~dead /\ queue_full /\ ~drain
     /\ st' = [st EXCEPT ![e] = "refused"] /\ stack' = calls
     /\ UNCHANGED <<ring, in_drain>>
  \/ /\ ~dead /\ queue_full /\ drain /\ in_drain
     /\ st' = [st EXCEPT ![e] = "handled"]
     /\ stack' = Append(calls, Hnd(e, N, "overflow"))
     /\ UNCHANGED <<ring, in_drain>>
  \/ /\ ~dead /\ queue_full /\ drain /\ ~in_drain
     /\ in_drain' = TRUE
     /\ st' = [st EXCEPT ![e] = "held"] /\ stack' = Append(calls, Full(e))
     /\ UNCHANGED ring
  \/ /\ dead
     /\ st' = [st EXCEPT ![e] = "swallowed"] /\ stack' = calls
     /\ UNCHANGED <<ring, in_drain>>

\* The engine, a platform or a script produces an event.
Produce ==
  /\ stack = <<>> \/ TopIs({"hnd"})
  /\ next <= Limit /\ next' = next + 1
  /\ Enqueue(next, stack)
  /\ UNCHANGED <<cf, drain, dead, locked, fsrv>>

\* arcan_event_denqueue: straight to the drain
Denqueue ==
  /\ stack = <<>> /\ drain
  /\ next <= Limit /\ next' = next + 1
  /\ st' = [st EXCEPT ![next] = "handled"]
  /\ stack' = <<Hnd(next, N, "denqueue")>>
  /\ UNCHANGED <<cf, ring, ctl, locked, fsrv>>

-----------------------------------------------------------------------------
(* feed *)

Feed_Begin ==
  /\ stack = <<>> /\ drain /\ ~locked /\ ~dead
  /\ stack' = <<Feed>>
  /\ UNCHANGED <<cf, ring, ctl, locked, next, st, fsrv>>

\* One turn of the loop: an exit event is only noted, any other is handed to
\* the handler in its slot, which is free from here on.
Feed_Step ==
  /\ TopIs({"feed", "full"}) /\ front # back
  /\ front' = Succ(front)
  /\ LET e == eventbuf[front] IN
     IF e \in Exits
     THEN dead' = TRUE /\ st' = [st EXCEPT ![e] = "done"] /\ UNCHANGED stack
     ELSE /\ st' = [st EXCEPT ![e] = "handled"]
          /\ stack' = Append(stack, Hnd(e, front, Top.op))
          /\ UNCHANGED dead
  /\ UNCHANGED <<cf, eventbuf, back, drain, in_drain, locked, next, fsrv>>

Feed_End ==
  /\ TopIs({"feed"}) /\ front = back
  /\ stack' = Below
  /\ UNCHANGED <<cf, ring, ctl, locked, next, st, fsrv>>

\* mutant: the event that found the queue full is forgotten
Full_End_Forget ==
  /\ TopIs({"full"}) /\ front = back
  /\ in_drain' = FALSE
  /\ stack' = Below
  /\ UNCHANGED <<cf, ring, drain, dead, locked, next, st, fsrv>>

\* The queue has been drained: the event that found it full is queued.
Full_End ==
  /\ TopIs({"full"}) /\ front = back
  /\ in_drain' = FALSE
  /\ eventbuf' = [eventbuf EXCEPT ![back] = Top.ev] /\ back' = Succ(back)
  /\ st' = [st EXCEPT ![Top.ev] = "queued"] /\ stack' = Below
  /\ UNCHANGED <<cf, front, drain, dead, locked, next, fsrv>>

-----------------------------------------------------------------------------
(* handlers *)

\* The handler has dealt with the event.  A feed goes on with the next one, a
\* transfer to the drain leaves its loop if the frameserver is to be freed.
Handler_Accept ==
  /\ TopIs({"hnd"})
  /\ st' = [st EXCEPT ![Top.ev] = "done"]
  /\ stack' = IF Top.by = "xfer" /\ fuse_blown
              THEN Append(Front(Below), [Last(Below) EXCEPT !.by = "stop"])
              ELSE Below
  /\ fused' = (fused /\ Top.by # "xfer")
  /\ UNCHANGED <<cf, ring, ctl, locked, next, inqueue, fuse_blown, freed, bad>>

\* While the GPUs are locked the script may turn an event down.  Only
\* arcan_event_denqueue then queues it.
Handler_Reject ==
  /\ TopIs({"hnd"}) /\ locked
  /\ IF Top.by = "denqueue"
     THEN Enqueue(Top.ev, Below)
     ELSE /\ st' = [st EXCEPT ![Top.ev] = IF Top.by = "overflow" THEN "refused" ELSE "lost"]
          /\ stack' = Below
          /\ UNCHANGED <<ring, in_drain>>
  /\ fused' = (fused /\ Top.by # "xfer")
  /\ UNCHANGED <<cf, drain, dead, locked, next, inqueue, fuse_blown, freed, bad>>

-----------------------------------------------------------------------------
(* the frameserver *)

\* The client has put an event into its ring.
Client_Send ==
  /\ ~freed /\ next <= Limit
  /\ inqueue' = Append(inqueue, next) /\ next' = next + 1
  /\ st' = [st EXCEPT ![next] = "sent"]
  /\ UNCHANGED <<cf, ring, ctl, locked, stack, fused, fuse_blown, freed, bad>>

\* The client has left an index in the shared page that is beyond the ring.
Client_Overrun ==
  /\ Overruns /\ ~freed /\ ~overrun
  /\ overrun' = TRUE
  /\ UNCHANGED <<cf, ring, ctl, locked, stack, next, st, inqueue, fused, fuse_blown, freed,
                 killswitch>>

\* A granted resize sets the queues up again, without the killswitch.
Resynch ==
  /\ stack = <<>> /\ drain /\ ~freed /\ killswitch
  /\ killswitch' = FALSE
  /\ UNCHANGED <<cf, ring, ctl, locked, stack, next, st, inqueue, fused, fuse_blown, freed,
                 overrun>>

\* With sat at 0.5 a transfer leaves half of the queue to the engine; one
\* that goes to the drain is not limited by the queue.
cap == IF Draining THEN N ELSE N \div 2

Transfer_Begin ==
  /\ stack = <<>> /\ drain /\ ~freed
  /\ stack' = <<Xfer>>
  /\ UNCHANGED <<cf, ring, ctl, locked, next, st, fsrv>>

\* mutant: the fuse is not set
Transfer_Step_Unfused ==
  /\ TopIs({"xfer"}) /\ Top.by = "none" /\ queue_used < cap
  /\ inqueue # <<>> /\ ~overrun
  /\ inqueue' = Tail(inqueue)
  /\ IF Draining
     THEN /\ st' = [st EXCEPT ![Head(inqueue)] = "handled"]
          /\ stack' = Append(stack, Hnd(Head(inqueue), N, "xfer"))
          /\ UNCHANGED <<ring, in_drain>>
     ELSE Enqueue(Head(inqueue), stack)
  /\ UNCHANGED <<cf, drain, dead, locked, next, fused, fuse_blown, freed, bad>>

\* One turn of the loop of arcan_event_queuetransfer.
Transfer_Step ==
  /\ TopIs({"xfer"}) /\ Top.by = "none" /\ queue_used < cap
  /\ inqueue # <<>> /\ ~overrun
  /\ inqueue' = Tail(inqueue)
  /\ IF Draining
     THEN /\ fused' = TRUE
          /\ st' = [st EXCEPT ![Head(inqueue)] = "handled"]
          /\ stack' = Append(stack, Hnd(Head(inqueue), N, "xfer"))
          /\ UNCHANGED <<ring, in_drain>>
     ELSE Enqueue(Head(inqueue), stack) /\ UNCHANGED fused
  /\ UNCHANGED <<cf, drain, dead, locked, next, fuse_blown, freed, bad>>

\* arcan_frameserver_free: put off while fused; otherwise the frameserver is
\* gone, and an event (TERMINATED) says so.
Free(calls) ==
  IF fused
  THEN /\ fuse_blown' = TRUE /\ stack' = calls
       /\ UNCHANGED <<ring, in_drain, st, freed, inqueue>>
  ELSE /\ freed' = TRUE /\ inqueue' = <<>> /\ UNCHANGED fuse_blown
       /\ Enqueue(TERMINATED, calls)

\* arcan_event_poll finds the index beyond the ring and pulls the killswitch:
\* the frameserver is freed, the fuse being set only around the drain, and the
\* loop is left.  There is nothing to free if the killswitch has been lost.
Transfer_Kill ==
  /\ TopIs({"xfer"}) /\ Top.by = "none" /\ queue_used < cap
  /\ overrun
  /\ IF killswitch
     THEN Free(Append(Below, [Top EXCEPT !.by = "killed"]))
     ELSE /\ stack' = Append(Below, [Top EXCEPT !.by = "stop"])
          /\ UNCHANGED <<ring, in_drain, st, fuse_blown, freed, inqueue>>
  /\ killswitch' = FALSE
  /\ UNCHANGED <<cf, drain, dead, locked, next, fused, overrun>>

\* mutant: the caller ignores the result
Transfer_End_Ignore ==
  /\ TopIs({"xfer"})
  /\ (inqueue = <<>> /\ ~overrun) \/ queue_used >= cap \/ Top.by # "none"
  /\ stack' = Below
  /\ UNCHANGED <<cf, ring, ctl, locked, next, st, fsrv>>

\* The loop is left; the caller frees a frameserver whose fuse is blown.  After
\* the killswitch both touch memory that has been freed; whatever they find
\* there, they are not followed further.
Transfer_End ==
  /\ TopIs({"xfer"})
  /\ (inqueue = <<>> /\ ~overrun) \/ queue_used >= cap \/ Top.by # "none"
  /\ IF fuse_blown /\ Top.by # "killed"
     THEN Free(Below)
     ELSE stack' = Below /\ UNCHANGED <<ring, in_drain, st, fuse_blown, freed, inqueue>>
  /\ UNCHANGED <<cf, drain, dead, locked, next, fused, bad>>

\* A script deletes the frameserver.
Script_Free ==
  /\ TopIs({"hnd"}) /\ ~freed
  /\ Free(stack)
  /\ UNCHANGED <<cf, drain, dead, locked, next, fused, bad>>

-----------------------------------------------------------------------------

\* arcan_conductor_run: the drain is set before the loop is entered.
Setdrain ==
  /\ stack = <<>> /\ ~drain
  /\ drain' = TRUE
  /\ UNCHANGED <<cf, ring, in_drain, dead, locked, stack, next, st, fsrv>>

\* arcan_event_purge, between two applications
Purge ==
  /\ stack = <<>> /\ drain /\ front # back
  /\ front' = 0 /\ back' = 0
  /\ st' = [e \in Ids |-> IF st[e] = "queued" THEN "purged" ELSE st[e]]
  /\ UNCHANGED <<cf, eventbuf, ctl, locked, stack, next, fsrv>>

\* The display is being updated; frameservers are polled in the meantime.
Lock ==
  /\ Scanout /\ stack = <<>> /\ drain
  /\ locked' = ~locked
  /\ UNCHANGED <<cf, ring, ctl, stack, next, st, fsrv>>

Running == \/ Feed_Step \/ Feed_End \/ Full_End
           \/ Handler_Accept \/ Handler_Reject
           \/ Transfer_Step \/ Transfer_Kill \/ Transfer_End

Next == \/ Produce \/ Denqueue \/ Client_Send \/ Client_Overrun \/ Resynch \/ Feed_Begin
        \/ Transfer_Begin \/ Running \/ Script_Free \/ Setdrain \/ Purge \/ Lock

Spec == Init /\ [][Next]_vars

\* Calls return, scripts included (they run under a watchdog); the conductor
\* starts, and feeds the queue once per turn of its loop.
FairSpec == /\ Spec
            /\ WF_vars(Running) /\ WF_vars(Setdrain)
            /\ SF_vars(Feed_Begin)

-----------------------------------------------------------------------------
(* properties *)

\* The ring holds exactly the events that were queued and not handled yet,
\* each once: nested calls neither lose nor repeat an event.
RingIsQueued ==
  /\ \A e \in Ids : st[e] = "queued" <=> \E k \in 1 .. queue_used : eventbuf[Used[k]] = e
  /\ \A j, k \in 1 .. queue_used : eventbuf[Used[j]] = eventbuf[Used[k]] => j = k

\* The frameserver is not freed under arcan_event_queuetransfer, which goes on
\* to use it: the fuse puts off what the scripts do.  The one exception is the
\* killswitch, pulled by the transfer itself; its loop has then been left.
NotFreedInUse ==
  freed => \A i \in DOMAIN stack : stack[i].op = "xfer" => stack[i].by = "killed"

\* An event that was accepted, the one that found the queue full included, is
\* handled, unless the engine shuts down or the queue is purged, or the script
\* turns it down while the GPUs are locked.
EventuallyHandled ==
  \A e \in Ids :
    ~Scanout /\ st[e] \in {"queued", "held"} ~> (st[e] \in {"done", "purged"} \/ dead)

\* A frameserver that was deleted during a transfer is freed afterwards.
EventuallyFreed == fuse_blown ~> freed
==============================================================================
