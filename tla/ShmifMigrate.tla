---------------------------- MODULE ShmifMigrate -----------------------------
(***************************************************************************)
(* What becomes of a shmif client when its server dies, pulls the dead     *)
(* man's switch (dms) or asks it to move: fallback_migrate, reached from   *)
(* any call of the library, connects to the connection point it was told   *)
(* of, sets up a new segment there, drops the old one and puts the new     *)
(* one into its place, if possible at the same address.  Every segment has *)
(* a guard thread that looks at the server process and, when that is gone, *)
(* clears the dms at the address it keeps and wakes all waiters.           *)
(*                                                                         *)
(* Segments are numbered in the order they are made; priv[k], guard[k] and *)
(* page[k] belong to segment k, ctx is the one the client holds.  The      *)
(* client's address space has two places for a page.                       *)
(*                                                                         *)
(* A guard thread that loaded its address before the segment was dropped   *)
(* and writes to it afterwards is a deviation: it is named in `dev' and    *)
(* not followed further.                                                   *)
(***************************************************************************)
EXTENDS Integers, Sequences

CONSTANTS MaxServers,  \* bound: servers started one after the other
          MaxPages,    \* bound: segments made
          MaxEvents,   \* bound: events sent by servers
          Configs      \* flags of the client, and the calls it makes

Events == {"data", "alt", "noalt", "move", "exit"}

ASSUME MigrateAssumption ==
  /\ MaxServers \in Nat /\ MaxServers > 0 /\ MaxPages \in Nat /\ MaxPages > 0 /\ MaxEvents \in Nat
  /\ \A c \in Configs : /\ c.events \subseteq Events /\ c.guard \in BOOLEAN /\ c.alt \in BOOLEAN
                         /\ c.noreg \in BOOLEAN

Pages  == 1 .. MaxPages
Places == 1 .. 2
None   == 0

VARIABLES
  cf,       \* the configuration, never changed
  server,   \* the server that runs, or None
  started,  \* servers started
  page,     \* [segment -> the shared page: server, dms, queue, registered guid]
  place,    \* [place -> the segment mapped there, or None]
  priv,     \* [segment -> shmif_hidden]
  guard,    \* [segment -> guard thread]
  ctx,      \* the segment the client holds
  main,     \* the client's main thread: where it is, on behalf of which call
  fresh,    \* nothing has been delivered since the last migration
  ended,    \* [segment -> who cleared its dms]
  sent,     \* events sent
  dev

vars == <<cf, server, started, page, place, priv, guard, ctx, main, fresh, ended, sent, dev>>

\* Who cleared a dms, besides guard threads.
Server == -1
Client == -2

Idle == [at |-> "idle", call |-> "none", force |-> FALSE, new |-> None, got |-> "none", ret |-> "none"]

NoPage  == [srv |-> None, dms |-> FALSE, q |-> <<>>, guid |-> None]
NoPriv  == [alive |-> FALSE, local |-> FALSE, alt |-> FALSE, primary |-> FALSE, guid |-> None, reset |-> FALSE]
NoGuard == [at |-> "none", active |-> FALSE, dms |-> None, held |-> None]

Watching(pl) == [at |-> "watch", active |-> TRUE, dms |-> pl, held |-> None]

\* Guids are numbers: the one a server or a segment k drew is k, this one is
\* the client's own.
OwnGuid == MaxPages + 1

\* A client that was opened and activated.  The REGISTER of arcan_shmif_open_ext
\* (noreg) does not carry the guid, and the server draws one itself.
Init ==
  /\ cf \in Configs /\ server = 1 /\ started = 1 /\ sent = 0 /\ dev = {} /\ ctx = 1 /\ fresh = FALSE
  /\ page = [k \in Pages |-> IF k = 1 THEN [srv |-> 1, dms |-> TRUE, q |-> <<>>,
                                            guid |-> IF cf.noreg THEN 1 ELSE OwnGuid] ELSE NoPage]
  /\ place = [pl \in Places |-> IF pl = 1 THEN 1 ELSE None]
  /\ priv = [k \in Pages |-> IF k = 1 THEN [alive |-> TRUE, local |-> TRUE, alt |-> cf.alt, primary |-> TRUE,
                                            guid |-> OwnGuid, reset |-> FALSE] ELSE NoPriv]
  /\ guard = [k \in Pages |-> IF k = 1 /\ cf.guard THEN Watching(1) ELSE NoGuard]
  /\ main = Idle /\ ended = [k \in Pages |-> None]

\* mutant: any process of that number will do
parent_alive_Any(k) == page[k].srv # None

parent_alive(k) == page[k].srv = server

check_dms(k) == priv[k].alive /\ priv[k].local /\ page[k].dms

PlaceOf(k) == CHOOSE pl \in Places : place[pl] = k

\* The dms of page k is cleared by w.
Cleared(k, w) ==
  /\ page' = [page EXCEPT ![k].dms = FALSE]
  /\ ended' = IF page[k].dms THEN [ended EXCEPT ![k] = w] ELSE ended

-----------------------------------------------------------------------------
(* servers *)

ServerStart ==
  /\ dev = {} /\ server = None /\ started < MaxServers
  /\ started' = started + 1 /\ server' = started'
  /\ UNCHANGED <<cf, page, place, priv, guard, ctx, main, fresh, ended, sent, dev>>

\* The server dies; or it leaves, having destroyed all its clients with
\* no_dms_free, which only empties the queues.
ServerCrash ==
  /\ dev = {} /\ server # None /\ server' = None
  /\ \/ UNCHANGED page
     \/ page' = [k \in Pages |-> IF page[k].srv = server THEN [page[k] EXCEPT !.q = <<>>] ELSE page[k]]
  /\ UNCHANGED <<cf, started, place, priv, guard, ctx, main, fresh, ended, sent, dev>>

\* platform_fsrv_destroy for one client: EXIT, then the dms.
ServerPull(k) ==
  /\ dev = {} /\ cf.pull /\ server # None /\ page[k].srv = server /\ page[k].dms
  /\ page' = [page EXCEPT ![k].q = Append(@, "exit"), ![k].dms = FALSE]
  /\ ended' = [ended EXCEPT ![k] = Server]
  /\ UNCHANGED <<cf, server, started, place, priv, guard, ctx, main, fresh, sent, dev>>

\* An event: of interest to the client, a connection point to fall back to or
\* none, the request to move, the request to exit.
ServerSend(k) ==
  /\ dev = {} /\ sent < MaxEvents /\ server # None /\ page[k].srv = server /\ page[k].dms
  /\ \E e \in cf.events : page' = [page EXCEPT ![k].q = Append(@, e)]
  /\ sent' = sent + 1
  /\ UNCHANGED <<cf, server, started, place, priv, guard, ctx, main, fresh, ended, dev>>

-----------------------------------------------------------------------------
(* guard threads *)

GuardSee(k) ==
  /\ dev = {} /\ guard[k].at = "watch" /\ guard[k].active /\ ~parent_alive(k)
  /\ guard' = [guard EXCEPT ![k].at = "seen"]
  /\ UNCHANGED <<cf, server, started, page, place, priv, ctx, main, fresh, ended, sent, dev>>

\* The server is gone: guard.synch is taken, the address loaded.
GuardLoad(k) ==
  /\ dev = {} /\ guard[k].at = "seen"
  /\ guard' = [guard EXCEPT ![k].at = "loaded", ![k].held = guard[k].dms]
  /\ UNCHANGED <<cf, server, started, page, place, priv, ctx, main, fresh, ended, sent, dev>>

\* The dms is cleared, waiters are woken, the thread ends.
GuardFire(k) ==
  LET g == guard[k]
  IN /\ dev = {} /\ g.at = "loaded"
     /\ dev' = IF g.held # g.dms THEN {"late"} ELSE {}
     /\ IF g.held # None /\ place[g.held] # None THEN Cleared(place[g.held], k)
        ELSE UNCHANGED <<page, ended>>
     /\ priv' = [priv EXCEPT ![k].local = FALSE]
     /\ guard' = [guard EXCEPT ![k] = [NoGuard EXCEPT !.at = "done"]]
     /\ UNCHANGED <<cf, server, started, place, ctx, main, fresh, sent>>

\* The segment was dropped: the thread sees that it is not wanted any more.
GuardLeave(k) ==
  /\ dev = {} /\ guard[k].at = "watch" /\ ~guard[k].active
  /\ guard' = [guard EXCEPT ![k] = [NoGuard EXCEPT !.at = "done"]]
  /\ UNCHANGED <<cf, server, started, page, place, priv, ctx, main, fresh, ended, sent, dev>>

-----------------------------------------------------------------------------
(* the client's main thread *)

\* A call of the library that looks at the connection.  Enqueue and resize
\* use check_dms, signal does not look at `alive'.
Call(c) ==
  /\ dev = {} /\ main.at = "idle" /\ c \in cf.calls
  /\ \/ c \in {"poll", "wait"} /\ priv[ctx].alive /\ main' = [Idle EXCEPT !.at = "poll", !.call = c]
     \/ c \in {"enqueue", "resize"} /\ ~check_dms(ctx) /\ main' = [Idle EXCEPT !.at = "fall", !.call = c]
     \/ c = "signal" /\ ~(page[ctx].dms /\ priv[ctx].local) /\ main' = [Idle EXCEPT !.at = "fall", !.call = c]
  /\ UNCHANGED <<cf, server, started, page, place, priv, guard, ctx, fresh, ended, sent, dev>>

\* The end of process_events: rv counts only if the connection is alive or the
\* event is the last one; _wait makes no difference between nothing and failure.
Done(rv, noks, got) ==
  LET ok  == check_dms(ctx) \/ noks
      ret == IF ok /\ rv = "event" THEN rv ELSE IF ok /\ rv = "nothing" /\ main.call = "poll" THEN rv ELSE "end"
  IN /\ main' = [Idle EXCEPT !.call = main.call, !.ret = ret, !.got = IF ret = "event" THEN got ELSE "none"]
     /\ fresh' = (fresh /\ ret # "event")

\* mutant: what is queued is looked at first
InReset_Late == priv[ctx].reset /\ page[ctx].q = <<>>

\* Events kept aside come before those in the queue.
InReset == priv[ctx].reset

\* One turn of process_events.  With a connection point, or none, the server
\* sends the guid by which it knows the client.
PollReset ==
  /\ dev = {} /\ main.at = "poll" /\ InReset
  /\ priv' = [priv EXCEPT ![ctx].reset = FALSE]
  /\ Done("event", FALSE, "reset")
  /\ UNCHANGED <<cf, server, started, page, place, guard, ctx, ended, sent, dev>>

PollEvent ==
  LET e == Head(page[ctx].q)
  IN /\ dev = {} /\ main.at = "poll" /\ ~InReset /\ page[ctx].q # <<>>
     /\ page' = [page EXCEPT ![ctx].q = Tail(@)]
     /\ \/ e = "data" /\ Done("event", FALSE, e) /\ UNCHANGED priv
        \/ /\ e \in {"alt", "noalt"}
           /\ priv' = [priv EXCEPT ![ctx].alt = (e = "alt"), ![ctx].guid = page[ctx].guid]
           /\ UNCHANGED <<main, fresh>>
        \/ e = "exit" /\ priv' = [priv EXCEPT ![ctx].alive = FALSE] /\ Done("event", TRUE, e)
        \/ e = "move" /\ main' = [main EXCEPT !.at = "connect", !.force = FALSE] /\ UNCHANGED <<priv, fresh>>
     /\ UNCHANGED <<cf, server, started, place, guard, ctx, ended, sent, dev>>

\* With an empty queue a dead connection is noticed; _wait goes on waiting.
PollEmpty ==
  /\ dev = {} /\ main.at = "poll" /\ ~InReset /\ page[ctx].q = <<>>
  /\ \/ ~check_dms(ctx) /\ main' = [main EXCEPT !.at = "fall"] /\ UNCHANGED fresh
     \/ check_dms(ctx) /\ main.call = "poll" /\ Done("nothing", FALSE, "none")
  /\ UNCHANGED <<cf, server, started, page, place, priv, guard, ctx, ended, sent, dev>>

\* fallback_migrate returns to what called it; a request to move that was met
\* starts process_events again, one that failed is ignored.
Back(ok) ==
  IF main.call \notin {"poll", "wait"} THEN main' = [Idle EXCEPT !.call = main.call] /\ UNCHANGED fresh
  ELSE IF main.force THEN Done(IF ok THEN "nothing" ELSE "end", FALSE, "none")
  ELSE Done("nothing", FALSE, "none")

\* fallback_migrate by force: not if told not to, nor while the server lives.
Fall ==
  /\ dev = {} /\ main.at = "fall"
  /\ IF cf.noauto \/ parent_alive(ctx)
     THEN main' = [main EXCEPT !.at = "failed", !.force = TRUE]
     ELSE main' = [main EXCEPT !.at = "connect", !.force = TRUE]
  /\ UNCHANGED <<cf, server, started, page, place, priv, guard, ctx, fresh, ended, sent, dev>>

Failed ==
  /\ dev = {} /\ main.at = "failed" /\ Back(FALSE)
  /\ UNCHANGED <<cf, server, started, page, place, priv, guard, ctx, ended, sent, dev>>

Unmade == {k \in Pages : page[k].srv = None}
Fresh  == CHOOSE k \in Unmade : TRUE

\* The guid of the new segment: the old one is sent with REGISTER only if the
\* segment was opened without registering by itself.
Identity(n) == IF cf.noreg THEN priv[ctx].guid ELSE n

NewPlace == 3 - PlaceOf(ctx)

\* arcan_shmif_migrate up to the point where the new segment is mapped.  The
\* new one knows no fallback, and no primary thread.
Connect ==
  /\ dev = {} /\ main.at = "connect"
  /\ \/ /\ ~priv[ctx].primary \/ (main.force /\ ~priv[ctx].alt) \/ (~main.force /\ server = None)
        /\ main' = [main EXCEPT !.at = "failed"] /\ UNCHANGED <<page, place, priv, guard>>
     \/ /\ priv[ctx].primary /\ (main.force => priv[ctx].alt) /\ server # None
        /\ Unmade # {}
        /\ LET n == Fresh
               pl == NewPlace
           IN /\ page' = [page EXCEPT ![n] = [srv |-> server, dms |-> TRUE, q |-> <<>>, guid |-> Identity(n)]]
              /\ place' = [place EXCEPT ![pl] = n]
              /\ priv' = [priv EXCEPT ![n] = [alive |-> TRUE, local |-> TRUE, alt |-> FALSE, primary |-> FALSE,
                                              guid |-> Identity(n), reset |-> FALSE]]
              /\ guard' = IF cf.guard THEN [guard EXCEPT ![n] = Watching(pl)] ELSE guard
              /\ main' = [main EXCEPT !.at = "setup", !.new = n]
  /\ UNCHANGED <<cf, server, started, ctx, fresh, ended, sent, dev>>

\* shmif_resize of the new segment: answered by the server, or given up when
\* it is dead, which changes nothing (it has no fallback).
Setup ==
  /\ dev = {} /\ main.at = "setup" /\ (parent_alive(main.new) \/ ~check_dms(main.new))
  /\ main' = [main EXCEPT !.at = "drop"]
  /\ UNCHANGED <<cf, server, started, page, place, priv, guard, ctx, fresh, ended, sent, dev>>

\* mutant: the guard thread keeps its address
Retired_Address(g) == [g EXCEPT !.active = FALSE]

Retired(g) == [g EXCEPT !.active = FALSE, !.dms = None]

\* mutant: the old server is not told
Drop_Silent ==
  /\ dev = {} /\ main.at = "drop" /\ UNCHANGED <<page, ended>>
  /\ guard' = IF guard[ctx].active THEN [guard EXCEPT ![ctx] = Retired(@)] ELSE guard
  /\ place' = [place EXCEPT ![PlaceOf(ctx)] = None]
  /\ main' = [main EXCEPT !.at = "remap"]
  /\ UNCHANGED <<cf, server, started, priv, ctx, fresh, sent, dev>>

\* arcan_shmif_drop of the old segment; guard.synch is not taken.
Drop ==
  /\ dev = {} /\ main.at = "drop" /\ Cleared(ctx, Client)
  /\ guard' = IF guard[ctx].active THEN [guard EXCEPT ![ctx] = Retired(@)] ELSE guard
  /\ place' = [place EXCEPT ![PlaceOf(ctx)] = None]
  /\ main' = [main EXCEPT !.at = "remap"]
  /\ UNCHANGED <<cf, server, started, priv, ctx, fresh, sent, dev>>

Moved(g, pl) == [g EXCEPT !.dms = pl]

\* The new segment takes the place of the old one, at the old address if mmap
\* gives it; RESET is put in front of all events.
Remap ==
  LET n == main.new
      pl == PlaceOf(n)
  IN /\ dev = {} /\ main.at = "remap" /\ guard[n].at # "loaded"
     /\ \/ place' = [place EXCEPT ![3 - pl] = n, ![pl] = None] /\ guard' = [guard EXCEPT ![n] = Moved(@, 3 - pl)]
        \/ UNCHANGED <<place, guard>>
     /\ ctx' = n /\ priv' = [priv EXCEPT ![n].reset = TRUE]
     /\ main' = [main EXCEPT !.at = "moved", !.new = None] /\ fresh' = TRUE
     /\ UNCHANGED <<cf, server, started, page, ended, sent, dev>>

Return ==
  /\ dev = {} /\ main.at = "moved"
  /\ IF main.call \in {"poll", "wait"} /\ ~main.force
     THEN main' = [main EXCEPT !.at = "poll"] /\ UNCHANGED fresh
     ELSE Back(TRUE)
  /\ UNCHANGED <<cf, server, started, page, place, priv, guard, ctx, ended, sent, dev>>

Step == PollReset \/ PollEvent \/ PollEmpty \/ Fall \/ Failed \/ Connect \/ Setup \/ Drop \/ Remap \/ Return
Calls == \E c \in {"poll", "wait", "enqueue", "resize", "signal"} : Call(c)
Guard(k) == GuardSee(k) \/ GuardLoad(k) \/ GuardFire(k) \/ GuardLeave(k)

Next ==
  \/ ServerStart \/ ServerCrash \/ \E k \in Pages : ServerPull(k) \/ ServerSend(k)
  \/ \E k \in Pages : Guard(k)
  \/ Calls \/ Step

\* Threads run, the client goes on calling the library, a server is started
\* again as long as there are any.
Spec == Init /\ [][Next]_vars
        /\ WF_vars(Step) /\ WF_vars(Calls) /\ \A k \in Pages : WF_vars(Guard(k))
        /\ WF_vars(ServerStart)

-----------------------------------------------------------------------------
(* properties *)

Migrating == main.at \in {"setup", "drop", "remap"}

\* Outside a migration the client holds one segment, mapped once, and has told
\* the servers of all others that it left: no two servers believe they have
\* the client (arcan_shmif_migrate, arcan_shmif_drop).
OneHome ==
  dev = {} /\ ~Migrating =>
    /\ \A k \in Pages \ {ctx} : ~page[k].dms
    /\ \E pl \in Places : place[pl] = ctx /\ place[3 - pl] = None

\* The dms of a segment is cleared by its server, by the client that leaves
\* it, or by the guard thread of that segment, even though the segment that
\* replaces another one takes its address (guard_thread, arcan_shmif_drop).
OwnSwitch == dev = {} => \A k \in Pages : ended[k] \in {None, Server, Client, k}

\* No guard thread goes on watching for a segment that was dropped.
GuardsOwned == \A k \in Pages : guard[k].active => k = ctx \/ (Migrating /\ k = main.new)

\* When the guard thread has ended the connection locally, others who look at
\* the page see that too, also when the segment was given another address.
GuardHits == dev = {} /\ ~priv[ctx].local => ~page[ctx].dms

\* All servers that a client moves to know it by one guid: the one its first
\* server drew, if that has told it of a connection point, otherwise its own
\* (arcan_shmif_migrate, process_events).
GuidKept ==
  cf.noreg => /\ priv[1].guid \in {OwnGuid, page[1].guid}
              /\ \A k \in Pages \ {1} : page[k].srv # None => page[k].guid = priv[1].guid

\* The first event after a migration is the RESET that tells of it, unless the
\* new connection is dead as well (fallback_migrate, process_events).
ResetFirst ==
  [][fresh /\ check_dms(ctx) /\ main.at = "poll" /\ main'.ret = "event" => main'.got = "reset"]_vars

\* A client that may reconnect and was told where gets away from a server that
\* died, if another one is started: whatever it was doing, whichever call
\* notices.
Recovers ==
  (ctx = 1 /\ page[1].srv # server /\ priv[1].alt /\ priv[1].alive /\ cf.guard /\ ~cf.noauto)
    ~> (ctx # 1 \/ dev # {} \/ ~priv[1].alt \/ ~priv[1].alive \/ (server = None /\ started = MaxServers))
==============================================================================
