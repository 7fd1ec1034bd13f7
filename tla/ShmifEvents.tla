----------------------------- MODULE ShmifEvents -----------------------------
(***************************************************************************)
(* Events from the server to a shmif client.  platform_fsrv_pushevent puts *)
(* an event into the ring of the page and sends a byte (a ping) over the   *)
(* socket; platform_fsrv_pushfd first sends the descriptor that belongs to *)
(* the event.  process_events of the client pairs the two again, reads one *)
(* message of the socket per turn, merges display hints, coalesces         *)
(* stepframes, and keeps a subset of the events while the client is        *)
(* paused.                                                                 *)
(*                                                                         *)
(* Events are numbered as they are pushed; a descriptor has the number of  *)
(* its event.  An event carries two fields of a display hint (0: keep) or  *)
(* a frame counter.  The ring itself is ShmifRing; what follows a dead     *)
(* connection (migration) is outside this module.                          *)
(***************************************************************************)
EXTENDS Naturals, Sequences

CONSTANTS Configs,    \* configurations: what the two sides do
          SockLim,    \* messages the socket holds
          MaxSent     \* bound: events pushed

ASSUME EventsAssumption ==
  /\ SockLim \in Nat /\ MaxSent \in Nat
  /\ \A c \in Configs :
       /\ c.kinds \subseteq {"plain", "fd", "auto", "font", "fontsz", "dim", "dens",
                            "step", "pause", "unpause", "exit"}
       /\ c.modes \subseteq {"poll", "wait"} /\ c.fresh \in BOOLEAN
       /\ c.q \in Nat \ {0} /\ SockLim > 2 * c.q   \* defaults: 126 and > 270
       /\ c.limit \in 0 .. MaxSent /\ c.crashes \in BOOLEAN

VARIABLES
  cf,                     \* the configuration, never changed
  ring, sock,             \* childevq and the socket
  spc, sev, sent, sum,    \* server: push in progress, its event, pushed, their sum
  srv, dms,               \* server process, dead man's switch (as check_dms sees it)
  pc, mode,               \* client: where in process_events, for which call
  dst, fd, gotev, consumed,   \* event being filled in; pev.fd, pev.gotev, pev.consumed
  paused, ph, dh, fh,     \* paused state: pending hints, display hint, font hint
  owned, foreign,         \* descriptors the client holds; it closed another one
  alive,                  \* priv->alive
  out, rv,                \* last event returned, last return value
  seen, swallowed         \* sum of the events returned; events thrown away

server == <<spc, sev, sent, sum>>
pev    == <<fd, gotev, consumed>>
pause  == <<paused, ph, dh, fh>>
fds    == <<owned, foreign>>
result == <<out, rv, seen, swallowed>>
vars   == <<cf, ring, sock, server, srv, dms, pc, mode, dst, pev, pause, fds, alive, result>>

Kinds   == cf.kinds     \* kinds of event the server pushes
Modes   == cf.modes     \* calls the client makes: "poll", "wait"
Fresh   == cf.fresh     \* the client passes another buffer in every call
Q       == cf.q         \* events the ring holds
Limit   == cf.limit     \* bound: events pushed in this configuration
Crashes == cf.crashes   \* the server may die

BADFD == 0
Ping  == 0
Stdin == MaxSent + 1    \* descriptor 0 of the process

Fd    == 0 .. Stdin

\* TARGET_COMMAND kinds: DISPLAYHINT with one field set ("dim", "dens"),
\* FONTHINT with and without a descriptor ("font", "fontsz"), STEPFRAME, BCHUNK
\* and its like ("fd"), events process_events handles itself ("auto").

Event(n, k) == [n |-> n, k |-> k,
                dim  |-> IF k = "dim" THEN n ELSE 0,
                dens |-> IF k = "dens" THEN n ELSE 0,
                step |-> IF k = "step" THEN n ELSE 0]

None == Event(0, "none")

IsHint(e) == e.k \in {"dim", "dens"}
HasFd(e)  == e.k \in {"fd", "auto", "font"}

\* The fields a client knows after e, if it knew s before.
Keep(new, old) == IF new = 0 THEN old ELSE new

Apply(s, e) == [dim  |-> Keep(e.dim, s.dim), dens |-> Keep(e.dens, s.dens),
                step |-> Keep(e.step, s.step)]

Nothing == [dim |-> 0, dens |-> 0, step |-> 0]

\* "If dimensions have changed [!0], use new values", and so on.  All hints are
\* for the segment itself (ioevs[7] agrees).
merge_dh(new, old) == [new EXCEPT !.dim = Keep(@, old.dim), !.dens = Keep(@, old.dens)]

\* shmif_acquire_int clears priv: priv->fh.tgt.ioevs[0].iv starts as 0.
Init ==
  /\ cf \in Configs
  /\ ring = <<>> /\ sock = <<>>
  /\ spc = "idle" /\ sev = None /\ sent = 0 /\ sum = Nothing
  /\ srv = "run" /\ dms = TRUE
  /\ pc = "idle" /\ mode = "poll" /\ dst = None
  /\ fd = BADFD /\ gotev = FALSE /\ consumed = FALSE
  /\ paused = FALSE /\ ph = {} /\ dh = None /\ fh = [ev |-> None, fd |-> Stdin]
  /\ owned = {} /\ foreign = FALSE
  /\ alive = TRUE /\ out = [ev |-> None, fd |-> BADFD] /\ rv = "none"
  /\ seen = Nothing /\ swallowed = {}

-----------------------------------------------------------------------------
(* server *)

client == <<pc, mode, dst, pev, pause, fds, alive, result>>

\* platform_fsrv_pushevent, refused when the ring is full; platform_fsrv_pushfd
\* starts with the descriptor and is refused when the socket is full
Push(k) ==
  /\ srv = "run" /\ spc = "idle" /\ sent < Limit
  /\ sent' = sent + 1
  /\ LET e == Event(sent + 1, k) IN
     /\ sev' = e
     /\ \/ /\ ~HasFd(e) /\ Len(ring) < Q
           /\ ring' = Append(ring, e) /\ spc' = "ping"
           /\ sum' = Apply(sum, e) /\ UNCHANGED sock
        \/ /\ HasFd(e) /\ Len(sock) < SockLim
           /\ sock' = Append(sock, e.n) /\ spc' = "event" /\ UNCHANGED <<ring, sum>>
        \/ /\ IF HasFd(e) THEN Len(sock) = SockLim ELSE Len(ring) = Q
           /\ UNCHANGED <<ring, spc, sum, sock>>
  /\ UNCHANGED <<cf, srv, dms, client>>

\* pushevent after the descriptor; pushfd ignores its result
Pushfd_Event ==
  /\ srv = "run" /\ spc = "event"
  /\ \/ /\ Len(ring) < Q /\ ring' = Append(ring, sev) /\ spc' = "ping"
     \/ /\ Len(ring) = Q /\ spc' = "idle" /\ UNCHANGED ring
  /\ UNCHANGED <<cf, sock, sev, sent, sum, srv, dms, client>>

\* arcan_pushhandle(-1, dpipe): dropped when the socket is full
Push_Ping ==
  /\ srv = "run" /\ spc = "ping" /\ spc' = "idle"
  /\ sock' = IF Len(sock) < SockLim THEN Append(sock, Ping) ELSE sock
  /\ UNCHANGED <<cf, ring, sev, sent, sum, srv, dms, client>>

\* The server process dies: its end of the socket is closed.
Crash ==
  /\ Crashes /\ srv = "run" /\ srv' = "dead"
  /\ UNCHANGED <<cf, ring, sock, server, dms, client>>

\* guard_thread notices and clears local_dms
Guard ==
  /\ srv = "dead" /\ dms /\ dms' = FALSE
  /\ UNCHANGED <<cf, ring, sock, server, srv, client>>

-----------------------------------------------------------------------------
(* client: process_events *)

env == <<server, srv, dms>>

check_dms == alive /\ dms

blocking == mode # "poll"

\* close() of the descriptors in S
Close(S) ==
  /\ owned' = owned \ S
  /\ foreign' = (foreign \/ ~(S \subseteq owned))

\* arcan_fetchhandle: one message; a closed socket reads as end of file
Fetch(f, wait) ==
  \/ /\ sock # <<>> /\ f = Head(sock) /\ sock' = Tail(sock)
  \/ /\ sock = <<>> /\ (wait => srv = "dead")
     /\ f = BADFD /\ UNCHANGED sock

\* The caller of process_events gets event e with descriptor f.
Deliver(e, f) ==
  /\ pc' = "idle"
  /\ \/ /\ mode = "enq"
        /\ swallowed' = swallowed \cup {e.n} /\ UNCHANGED <<out, rv, seen>>
     \/ /\ mode # "enq" /\ (check_dms \/ e.k = "exit")
        /\ out' = [ev |-> e, fd |-> f] /\ rv' = "event"
        /\ seen' = Apply(seen, e) /\ UNCHANGED swallowed
     \/ /\ mode # "enq" /\ ~(check_dms \/ e.k = "exit")
        /\ rv' = "terminal" /\ UNCHANGED <<out, seen, swallowed>>

\* process_events returns rv = 0, or -1 once the connection is dead.
Done ==
  /\ pc' = "idle"
  /\ rv' = IF mode = "enq" THEN rv ELSE IF check_dms THEN "none" ELSE "terminal"
  /\ UNCHANGED <<cf, out, seen, swallowed>>

\* arcan_shmif_poll, arcan_shmif_wait
Call(m) ==
  /\ pc = "idle" /\ alive /\ rv # "terminal"
  /\ pc' = "reset" /\ mode' = m /\ dst' = IF Fresh THEN None ELSE dst
  /\ UNCHANGED <<cf, ring, sock, env, pev, pause, fds, alive, result>>

\* enqueue_internal while paused: process_events with upret set
Enqueue ==
  /\ pc = "idle" /\ check_dms /\ paused
  /\ pc' = "reset" /\ mode' = "enq" /\ dst' = None
  /\ UNCHANGED <<cf, ring, sock, env, pev, pause, fds, alive, result>>

\* mutant: the pending bit of a display hint is not cleared
Reset_Hint_Again ==
  /\ pc = "reset" /\ ~paused /\ ph # {}
  /\ \/ /\ 1 \in ph /\ ph' = ph
        /\ Deliver(dh, BADFD) /\ UNCHANGED pev
     \/ /\ ph = {2} /\ ph' = {}
        /\ Deliver(fh.ev, fh.fd)
        /\ fd' = fh.fd /\ consumed' = (fh.fd # BADFD) /\ UNCHANGED gotev
  /\ UNCHANGED <<cf, ring, sock, env, mode, dst, paused, dh, fh, fds, alive>>

\* Hints kept while paused come first.
Reset_Hint ==
  /\ pc = "reset" /\ ~paused /\ ph # {}
  /\ \/ /\ 1 \in ph /\ ph' = ph \ {1}
        /\ Deliver(dh, BADFD) /\ UNCHANGED pev
     \/ /\ ph = {2} /\ ph' = {}
        /\ Deliver(fh.ev, fh.fd)
        /\ fd' = fh.fd /\ consumed' = (fh.fd # BADFD) /\ UNCHANGED gotev
  /\ UNCHANGED <<cf, ring, sock, env, mode, dst, paused, dh, fh, fds, alive>>

\* mutant: the descriptor of the last event is not given up
consume_Keep ==
  \/ consumed /\ gotev' = FALSE /\ consumed' = FALSE /\ UNCHANGED <<fd, fds>>
  \/ ~consumed /\ UNCHANGED <<pev, fds>>

\* A descriptor lives until the next call.
consume ==
  \/ /\ consumed
     /\ Close({fd} \ {BADFD})
     /\ fd' = BADFD /\ gotev' = FALSE /\ consumed' = FALSE
  \/ ~consumed /\ UNCHANGED <<pev, fds>>

Reset ==
  /\ pc = "reset" /\ (paused \/ ph = {})
  /\ consume
  /\ pc' = "checkfd"
  /\ UNCHANGED <<cf, ring, sock, env, mode, dst, pause, alive, result>>

\* f is the pending descriptor, or else what the socket gives.
Pending(f) ==
  \/ /\ fd # BADFD /\ f = fd /\ UNCHANGED <<sock, fds>>
  \/ /\ fd = BADFD /\ Fetch(f, blocking)
     /\ owned' = owned \cup ({f} \ {BADFD}) /\ UNCHANGED foreign

\* checkfd without an event that waits: the socket is read for the pings, and
\* a descriptor found there is kept for its event.
Checkfd ==
  /\ pc = "checkfd" /\ ~gotev
  /\ \E f \in Fd : Pending(f) /\ fd' = f
  /\ pc' = "dequeue"
  /\ UNCHANGED <<cf, ring, env, mode, dst, gotev, consumed, pause, alive, result>>

\* checkfd with an event that waits for its descriptor
Checkfd_Event ==
  /\ pc = "checkfd" /\ gotev
  /\ \/ \E f \in Fd \ {BADFD} :
           /\ Pending(f) /\ dst.k # "auto"
           /\ fd' = f /\ consumed' = TRUE /\ UNCHANGED gotev
           /\ Deliver(dst, f)
     \/ \E f \in Fd \ {BADFD} :           \* autoclean: given up at once, rv = 0
           /\ \/ fd = f /\ UNCHANGED sock
              \/ fd = BADFD /\ Fetch(f, blocking)
           /\ dst.k = "auto"
           /\ owned' = owned \ {f} /\ UNCHANGED foreign
           /\ fd' = BADFD /\ gotev' = FALSE /\ consumed' = FALSE
           /\ Done
     \/ /\ Pending(BADFD) /\ blocking
        /\ pc' = IF check_dms THEN "checkfd" ELSE "dequeue"
        /\ UNCHANGED <<pev, result>>
     \/ /\ Pending(BADFD) /\ ~blocking
        /\ Done /\ UNCHANGED pev
  /\ UNCHANGED <<cf, ring, env, mode, dst, pause, alive>>

\* The ring is empty: wait for more, or return.
Dequeue_Empty ==
  /\ pc = "dequeue" /\ ring = <<>>
  /\ \/ check_dms /\ blocking /\ pc' = "checkfd" /\ UNCHANGED result
     \/ ~(check_dms /\ blocking) /\ Done
  /\ UNCHANGED <<cf, ring, sock, env, mode, dst, pev, pause, fds, alive>>

\* An event while paused (pause_evh): all but a few kinds are discarded.
Dequeue_Paused ==
  /\ pc = "dequeue" /\ ring # <<>> /\ paused
  /\ ring' = Tail(ring)
  /\ LET e == Head(ring) IN
     /\ dst' = e
     /\ \/ /\ e.k = "exit" /\ alive' = FALSE /\ Deliver(e, BADFD)
           /\ UNCHANGED <<pause, fds>>
        \/ /\ e.k = "unpause" /\ paused' = FALSE /\ pc' = "reset"
           /\ UNCHANGED <<ph, dh, fh, fds, alive, result>>
        \/ /\ IsHint(e) /\ dh' = merge_dh(e, dh) /\ ph' = ph \cup {1} /\ pc' = "reset"
           /\ UNCHANGED <<paused, fh, fds, alive, result>>
        \/ /\ e.k = "fontsz" /\ ph' = ph \cup {2} /\ pc' = "reset"
           /\ fh' = IF HasFd(fh.ev) THEN fh ELSE [fh EXCEPT !.ev = e]
           /\ UNCHANGED <<paused, dh, fds, alive, result>>
        \/ /\ e.k = "font" /\ fh' = [fh EXCEPT !.ev = e] /\ pc' = "fontfd"
           /\ Close({fh.fd} \ {BADFD})
           /\ UNCHANGED <<paused, ph, dh, alive, result>>
        \/ /\ e.k \in {"plain", "fd", "auto", "step", "pause"} /\ pc' = "reset"
           /\ UNCHANGED <<pause, fds, alive, result>>
  /\ UNCHANGED <<cf, sock, env, mode, pev>>

\* pause_evh fetches the descriptor of a font hint itself.
Pause_Fetch ==
  /\ pc = "fontfd"
  /\ \E f \in Fd :
       /\ Fetch(f, TRUE)
       /\ fh' = [fh EXCEPT !.fd = f]
       /\ owned' = owned \cup ({f} \ {BADFD}) /\ UNCHANGED foreign
  /\ ph' = ph \cup {2} /\ pc' = "reset"
  /\ UNCHANGED <<cf, ring, env, mode, dst, pev, paused, dh, alive, result>>

\* Positions in r of display hints, of stepframes
Hints(r) == {i \in DOMAIN r : IsHint(r[i])}
Steps(r) == {i \in DOMAIN r : r[i].k = "step"}

First(S) == CHOOSE i \in S : \A j \in S : i <= j

\* mutant: a display hint is dropped when a newer one is queued
scan_disp_event_Drop(r, old) == r

\* scan_disp_event: old is merged into the first newer hint
scan_disp_event(r, old) == [r EXCEPT ![First(Hints(r))] = merge_dh(@, old)]

\* An event is taken out of the ring.
Dequeue ==
  /\ pc = "dequeue" /\ ring # <<>> /\ ~paused
  /\ LET e == Head(ring)
         r == Tail(ring) IN
     /\ dst' = e
     /\ \/ /\ IsHint(e) /\ Hints(r) # {}
           /\ ring' = scan_disp_event(r, e) /\ pc' = "reset"
           /\ UNCHANGED <<gotev, paused, alive, result>>
        \/ /\ e.k = "step" /\ Steps(r) # {}
           /\ ring' = r /\ pc' = "reset"
           /\ UNCHANGED <<gotev, paused, alive, result>>
        \/ /\ e.k \in {"pause", "unpause"} /\ ring' = r
           /\ \/ e.k = "unpause" /\ mode = "enq" /\ Done /\ UNCHANGED paused
              \/ /\ ~(e.k = "unpause" /\ mode = "enq")
                 /\ paused' = (e.k = "pause") /\ pc' = "reset" /\ UNCHANGED result
           /\ UNCHANGED <<gotev, alive>>
        \/ /\ HasFd(e) /\ ring' = r
           /\ gotev' = TRUE /\ pc' = "checkfd"
           /\ UNCHANGED <<paused, alive, result>>
        \/ /\ \/ IsHint(e) /\ Hints(r) = {}
              \/ e.k = "step" /\ Steps(r) = {}
              \/ e.k \in {"plain", "fontsz", "exit"}
           /\ ring' = r /\ alive' = (alive /\ e.k # "exit")
           /\ Deliver(e, BADFD) /\ UNCHANGED <<gotev, paused>>
  /\ UNCHANGED <<cf, sock, env, mode, fd, consumed, ph, dh, fh, fds>>

Server == (\E k \in Kinds : Push(k)) \/ Pushfd_Event \/ Push_Ping

Client ==
  \/ \E m \in Modes : Call(m)
  \/ Reset_Hint \/ Reset \/ Checkfd \/ Checkfd_Event
  \/ Dequeue_Empty \/ Dequeue_Paused \/ Pause_Fetch \/ Dequeue

Next == Server \/ Client \/ Enqueue \/ Crash \/ Guard

\* The server finishes a push it began, the guard thread runs, and the client
\* has an event loop; nobody has to push an event or to enqueue one.
Spec ==
  /\ Init /\ [][Next]_vars
  /\ WF_vars(Pushfd_Event \/ Push_Ping) /\ WF_vars(Guard) /\ WF_vars(Client)

-----------------------------------------------------------------------------
(* Properties *)

\* process_events pairs descriptors with events although they travel on two
\* ways: an event that has a descriptor is returned with its own, any other
\* event with none.
FdPaired == out.fd = IF HasFd(out.ev) THEN out.ev.n ELSE BADFD

\* So it does unless the client is paused, the ring overflows, or a client that
\* polls does not keep the buffer a half-received event is in.
Undisturbed == "pause" \notin Kinds /\ Q >= Limit /\ (Fresh => Modes = {"wait"})

\* Nor is a descriptor lost: each one that was received is still pending
\* (pev.fd, the kept font hint) or has been closed, and consume closes only
\* what was received.
FdPairedUndisturbed == Undisturbed => FdPaired /\ owned \subseteq {fd, fh.fd} /\ ~foreign

\* Merging and coalescing lose nothing: once everything that was pushed has
\* been returned, the client knows the last size, density and frame pushed.
HintsApplied ==
  ring = <<>> /\ spc # "event" /\ pc = "idle" /\ ~paused /\ ph = {} /\ rv # "terminal"
    => seen = sum

\* So it is for a client that is never paused.
HintsAppliedUnpaused == "pause" \notin Kinds => HintsApplied

\* An event loop empties the ring, or ends with the connection.
EventsHandled == (ring # <<>>) ~> (ring = <<>> \/ rv = "terminal" \/ ~alive)
==============================================================================
