-------------------------- MODULE ShmifEventsProofs --------------------------
(***************************************************************************)
(* Proofs about ShmifEvents, for every size of the ring and of the socket  *)
(* and every number of events, for a client that is never paused: the      *)
(* merging of display hints and the coalescing of stepframes lose nothing  *)
(* (HintsAppliedUnpaused), and each descriptor comes with its own event    *)
(* (FdPairedUndisturbed).                                                  *)
(*                                                                         *)
(* Hints.  For each field, the last value in the ring that is not 0 is the *)
(* last one pushed, or the client has it already (Known).  That needs to   *)
(* know where an event can wait for its descriptor (Waits), since such an  *)
(* event has left the ring and has not been returned.                      *)
(*                                                                         *)
(* Descriptors.  The events that wait for a descriptor and the descriptors *)
(* on their way have the same numbers (Match), and both come in the order  *)
(* of their numbers (RingOrder, SockOrder, DstOrder), so that the first of *)
(* one is the first of the other (lemma Oldest).                           *)
(*                                                                         *)
(* The steps of Next are restated one by one for a client that is not      *)
(* paused (Moves), for both arguments.                                     *)
(***************************************************************************)
EXTENDS ShmifEvents, WellFoundedInduction, TLAPS

USE ZenonT(5), SMTT(30), SMTT(31), ZenonT(30)   \* tried in this order

AllKinds == {"plain", "fd", "auto", "font", "fontsz", "dim", "dens",
             "step", "pause", "unpause", "exit", "none"}

Events == [n : Nat, k : AllKinds, dim : Nat, dens : Nat, step : Nat]
Fields == [dim : Nat, dens : Nat, step : Nat]

TypesS == /\ ring \in Seq(Events) /\ sock \in Seq(Nat)
          /\ sent \in Nat /\ sev \in Events /\ spc \in {"idle", "event", "ping"}
          /\ srv \in {"run", "dead"} /\ sum \in Fields

TypesC == /\ pc \in {"idle", "reset", "checkfd", "dequeue"} /\ mode \in {"poll", "wait"}
          /\ dst \in Events /\ fd \in Nat /\ seen \in Fields
          /\ {gotev, consumed, dms, alive} \subseteq BOOLEAN

\* The client is not paused and has no hints of a pause.
Unpaused == paused = FALSE /\ ph = {}

\* What the fields of an event in the ring belong to
Sound(e) == /\ e.n # 0 /\ e.k \in Kinds
            /\ e.dim # 0 \/ e.dens # 0 => IsHint(e)
            /\ e.step # 0 <=> e.k = "step"

RingSound == /\ \A i \in 1 .. Len(ring) : Sound(ring[i])
             /\ spc = "event" => Sound(sev) /\ HasFd(sev)

\* An event waits for its descriptor; consume has not run since
Half == gotev /\ ~consumed

\* Where the client is: what waits for a descriptor is no hint, an event is
\* taken out of the ring only when none waits, and after the last event or a
\* dead connection there is no other call.
Waits ==
  /\ pc # "idle" => mode \in Modes
  /\ consumed => pc \in {"idle", "reset"}
  /\ ~alive \/ rv = "terminal" => pc = "idle"
  /\ dst.k = "exit" => ~alive
  /\ check_dms /\ pc = "dequeue" => ~gotev
  /\ check_dms /\ Half => dst.dim = 0 /\ dst.dens = 0 /\ dst.step = 0

-----------------------------------------------------------------------------

\* t is the last of g that is not 0, or s when there is none.
LastIs(g, s, t) ==
  \/ s = t /\ \A i \in DOMAIN g : g[i] = 0
  \/ t # 0 /\ \E i \in DOMAIN g : g[i] = t /\ \A j \in DOMAIN g : j > i => g[j] = 0

Dims(r)   == [i \in 1 .. Len(r) |-> r[i].dim]
Denses(r) == [i \in 1 .. Len(r) |-> r[i].dens]
Counts(r) == [i \in 1 .. Len(r) |-> r[i].step]

Known ==
  rv # "terminal" => /\ LastIs(Dims(ring), seen.dim, sum.dim)
                     /\ LastIs(Denses(ring), seen.dens, sum.dens)
                     /\ LastIs(Counts(ring), seen.step, sum.step)

IInv == /\ cf \in Configs
        /\ "pause" \notin Kinds =>
             TypesS /\ TypesC /\ Unpaused /\ RingSound /\ Waits /\ Known

-----------------------------------------------------------------------------
(* The steps a client that is not paused takes, and the server's, one by one *)

mine   == <<pc, mode, dst, fd, gotev, consumed, owned, foreign, alive, out, rv, seen>>
theirs == <<sent, sum, sev, spc, srv, dms>>

Pushes(e) == /\ spc = "idle" /\ sent < Limit /\ Sound(e) /\ e.n = sent + 1
             /\ sent' = sent + 1 /\ sev' = e /\ UNCHANGED <<mine, srv, dms>>

Plain(e) == /\ Pushes(e) /\ ~HasFd(e)
            /\ ring' = Append(ring, e) /\ spc' = "ping" /\ sum' = Apply(sum, e) /\ sock' = sock

WithFd(e) == /\ Pushes(e) /\ HasFd(e)
             /\ sock' = Append(sock, e.n) /\ spc' = "event" /\ UNCHANGED <<ring, sum>>

Refused(e) == Pushes(e) /\ UNCHANGED <<ring, sock, spc, sum>>

EventIn == /\ spc = "event" /\ spc' = "ping" /\ ring' = Append(ring, sev)
           /\ UNCHANGED <<mine, sock, sent, sum, sev, srv, dms>>

EventLost == /\ spc = "event" /\ Len(ring) = Q /\ spc' = "idle"
             /\ UNCHANGED <<mine, ring, sock, sent, sum, sev, srv, dms>>

Pings == /\ spc = "ping" /\ spc' = "idle" /\ sock' \in {sock, Append(sock, 0)}
         /\ UNCHANGED <<mine, ring, sent, sum, sev, srv, dms>>

Ends == /\ srv' \in {srv, "dead"} /\ dms' \in {dms, FALSE}
        /\ UNCHANGED <<mine, ring, sock, sent, sum, sev, spc>>

Called == /\ pc = "idle" /\ alive /\ rv # "terminal" /\ pc' = "reset" /\ mode' \in Modes
          /\ dst' = IF Fresh THEN None ELSE dst
          /\ UNCHANGED <<theirs, ring, sock, fd, gotev, consumed, owned, foreign, alive, out, rv, seen>>

Closes == /\ pc = "reset" /\ pc' = "checkfd" /\ consumed
          /\ owned' = owned \ ({fd} \ {0}) /\ foreign' = (foreign \/ ~({fd} \ {0} \subseteq owned))
          /\ fd' = 0 /\ gotev' = FALSE /\ consumed' = FALSE
          /\ UNCHANGED <<theirs, ring, sock, mode, dst, alive, out, rv, seen>>

Leaves == /\ pc = "reset" /\ pc' = "checkfd" /\ ~consumed
          /\ UNCHANGED <<theirs, ring, sock, mode, dst, fd, gotev, consumed, owned, foreign, alive,
                         out, rv, seen>>

\* The descriptor f is pending, or is read from the socket.
Reads(f) == \/ fd # 0 /\ f = fd /\ sock' = sock
            \/ fd = 0 /\ sock # <<>> /\ f = Head(sock) /\ sock' = Tail(sock)
            \/ fd = 0 /\ sock = <<>> /\ f = 0 /\ sock' = sock

Owns(f) == owned' = IF fd # 0 THEN owned ELSE owned \cup ({f} \ {0})

Fetches(f) == /\ pc = "checkfd" /\ pc' = "dequeue" /\ ~gotev /\ Reads(f) /\ Owns(f) /\ fd' = f
              /\ UNCHANGED <<theirs, ring, mode, dst, gotev, consumed, foreign, alive, out, rv, seen>>

\* The caller gets event e with descriptor f, or learns that all is over.
Told(e, f) ==
  /\ pc' = "idle"
  /\ \/ /\ check_dms \/ e.k = "exit"
        /\ out' = [ev |-> e, fd |-> f] /\ rv' = "event" /\ seen' = Apply(seen, e)
     \/ ~check_dms /\ e.k # "exit" /\ rv' = "terminal" /\ UNCHANGED <<out, seen>>

Gives(f) == /\ pc = "checkfd" /\ gotev /\ f # 0 /\ Reads(f) /\ Owns(f)
            /\ fd' = f /\ consumed' = TRUE /\ Told(dst, f)
            /\ UNCHANGED <<theirs, ring, mode, dst, gotev, foreign, alive>>

Back == /\ pc' = "idle" /\ rv' = IF check_dms THEN "none" ELSE "terminal"
        /\ UNCHANGED <<out, seen>>

Cleans(f) == /\ pc = "checkfd" /\ gotev /\ f # 0 /\ Reads(f) /\ owned' = owned \ {f}
             /\ fd' = 0 /\ gotev' = FALSE /\ consumed' = FALSE /\ Back
             /\ UNCHANGED <<theirs, ring, mode, dst, foreign, alive>>

Again == /\ pc = "checkfd" /\ gotev /\ Reads(0) /\ Owns(0)
         /\ pc' = IF check_dms THEN "checkfd" ELSE "dequeue"
         /\ UNCHANGED <<theirs, ring, mode, dst, fd, gotev, consumed, foreign, alive, out, rv, seen>>

Returns == /\ pc = "checkfd" /\ gotev /\ mode = "poll" /\ Reads(0) /\ Owns(0) /\ Back
           /\ UNCHANGED <<theirs, ring, mode, dst, fd, gotev, consumed, foreign, alive>>

EmptyAgain == /\ pc = "dequeue" /\ ring = <<>> /\ check_dms /\ pc' = "checkfd"
              /\ UNCHANGED <<theirs, ring, sock, mode, dst, fd, gotev, consumed, owned, foreign,
                             alive, out, rv, seen>>

EmptyReturns == /\ pc = "dequeue" /\ ring = <<>> /\ Back
                /\ UNCHANGED <<theirs, ring, sock, mode, dst, fd, gotev, consumed, owned, foreign,
                               alive>>

\* The oldest event is taken out of the ring.
Next1 == /\ pc = "dequeue" /\ ring # <<>> /\ dst' = Head(ring)
         /\ UNCHANGED <<theirs, sock, mode, fd, consumed, owned, foreign>>

Merges(i) == /\ Next1 /\ IsHint(Head(ring)) /\ pc' = "reset"
             /\ IsHint(Tail(ring)[i]) /\ \A j \in 1 .. Len(ring) - 1 : j < i => ~IsHint(Tail(ring)[j])
             /\ ring' = [Tail(ring) EXCEPT ![i] = merge_dh(@, Head(ring))]
             /\ UNCHANGED <<gotev, alive, out, rv, seen>>

Coalesces(i) == /\ Next1 /\ Head(ring).k = "step" /\ Tail(ring)[i].k = "step"
                /\ ring' = Tail(ring) /\ pc' = "reset"
                /\ UNCHANGED <<gotev, alive, out, rv, seen>>

Unpauses == /\ Next1 /\ Head(ring).k = "unpause" /\ ring' = Tail(ring) /\ pc' = "reset"
            /\ UNCHANGED <<gotev, alive, out, rv, seen>>

TakesFd == /\ Next1 /\ HasFd(Head(ring)) /\ ring' = Tail(ring)
           /\ gotev' = TRUE /\ pc' = "checkfd" /\ UNCHANGED <<alive, out, rv, seen>>

Takes == /\ Next1 /\ ~HasFd(Head(ring)) /\ ring' = Tail(ring) /\ Told(Head(ring), 0)
         /\ alive' = (alive /\ Head(ring).k # "exit") /\ gotev' = gotev

Moves ==
  \/ (\E e \in Events : Plain(e))
  \/ (\E e \in Events : WithFd(e))
  \/ (\E e \in Events : Refused(e))
  \/ EventIn
  \/ EventLost
  \/ Pings
  \/ Ends
  \/ Called
  \/ Closes
  \/ Leaves
  \/ (\E f \in Nat : Fetches(f))
  \/ (\E f \in Nat : Gives(f))
  \/ (\E f \in Nat : Cleans(f))
  \/ Again
  \/ Returns
  \/ EmptyAgain
  \/ EmptyReturns
  \/ (\E i \in 1 .. Len(ring) - 1 : Merges(i))
  \/ (\E i \in 1 .. Len(ring) - 1 : Coalesces(i))
  \/ Unpauses
  \/ TakesFd
  \/ Takes

-----------------------------------------------------------------------------

LEMMA Appended == ASSUME NEW T, NEW s \in Seq(T), NEW e \in T
                  PROVE  /\ Append(s, e) \in Seq(T) /\ Len(s) \in Nat
                         /\ Len(Append(s, e)) = Len(s) + 1
                         /\ \A i \in 1 .. Len(s) : Append(s, e)[i] = s[i]
                         /\ Append(s, e)[Len(s) + 1] = e
  OBVIOUS

\* A new event at the end of the ring, a message at the end of the socket
LEMMA RingGrows == ASSUME TypesS, NEW e \in Events, ring' = Append(ring, e)
                   PROVE  /\ ring' \in Seq(Events) /\ Len(ring) \in Nat /\ Len(ring') = Len(ring) + 1
                          /\ ring'[Len(ring) + 1] = e /\ \A i \in 1 .. Len(ring) : ring'[i] = ring[i]
                          /\ \A i \in 1 .. Len(ring') : i = Len(ring) + 1 \/ i \in 1 .. Len(ring)
<1>1. /\ ring' \in Seq(Events) /\ Len(ring) \in Nat /\ Len(ring') = Len(ring) + 1
      /\ ring'[Len(ring) + 1] = e /\ \A i \in 1 .. Len(ring) : ring'[i] = ring[i]
  BY DEF TypesS
<1> QED BY <1>1

LEMMA SockGrows == ASSUME TypesS, NEW n \in Nat, sock' = Append(sock, n)
                   PROVE  /\ sock' \in Seq(Nat) /\ Len(sock) \in Nat /\ Len(sock') = Len(sock) + 1
                          /\ sock'[Len(sock) + 1] = n /\ \A i \in 1 .. Len(sock) : sock'[i] = sock[i]
                          /\ \A i \in 1 .. Len(sock') : i = Len(sock) + 1 \/ i \in 1 .. Len(sock)
<1>1. /\ sock' \in Seq(Nat) /\ Len(sock) \in Nat /\ Len(sock') = Len(sock) + 1
      /\ sock'[Len(sock) + 1] = n /\ \A i \in 1 .. Len(sock) : sock'[i] = sock[i]
  BY DEF TypesS
<1> QED BY <1>1

LEMMA Replaced == ASSUME NEW T, NEW s \in Seq(T), NEW x \in T, NEW i \in 1 .. Len(s)
                  PROVE  /\ [s EXCEPT ![i] = x] \in Seq(T) /\ Len([s EXCEPT ![i] = x]) = Len(s)
                         /\ [s EXCEPT ![i] = x][i] = x
                         /\ \A j \in 1 .. Len(s) : j # i => [s EXCEPT ![i] = x][j] = s[j]
  OBVIOUS

LEMMA Tailed == ASSUME NEW T, NEW s \in Seq(T), s # <<>>
                PROVE  /\ Tail(s) \in Seq(T) /\ Len(s) \in Nat \ {0}
                       /\ Len(Tail(s)) = Len(s) - 1 /\ Head(s) = s[1] /\ Head(s) \in T
                       /\ \A i \in 1 .. Len(s) - 1 : Tail(s)[i] = s[i + 1]
  OBVIOUS

LEMMA Bounds == ASSUME cf \in Configs PROVE Q \in Nat /\ Limit \in Nat
<1>1. cf.q \in Nat \ {0} /\ cf.limit \in 0 .. MaxSent /\ MaxSent \in Nat
  BY EventsAssumption
<1> QED BY <1>1 DEF Q, Limit

LEMMA EventFacts == ASSUME NEW n \in Nat \ {0}, NEW k \in Kinds, k \in AllKinds
                    PROVE  /\ Event(n, k) \in Events /\ Event(n, k).n = n /\ Event(n, k).k = k
                           /\ Sound(Event(n, k))
<1> DEFINE e == Event(n, k)
<1>1. /\ e.n = n /\ e.k = k /\ e.dim = (IF k = "dim" THEN n ELSE 0)
      /\ e.dens = (IF k = "dens" THEN n ELSE 0) /\ e.step = (IF k = "step" THEN n ELSE 0)
  BY DEF Event
<1>2. e \in Events
  BY DEF Event, Events
<1> QED BY <1>1, <1>2 DEF Sound, IsHint

\* Events that have a descriptor, and the last one, have no fields.
LEMMA NoFields == ASSUME NEW e, Sound(e), HasFd(e) \/ e.k \in {"exit", "plain", "fontsz",
                         "unpause"}
                  PROVE  e.dim = 0 /\ e.dens = 0 /\ e.step = 0
  BY DEF Sound, HasFd, IsHint

Less == {ss \in Nat \X Nat : ss[1] < ss[2]}

LEMMA LessWellFounded == IsWellFoundedOn(Less, Nat)
<1>1. Less = OpToRel(<, Nat)
  BY DEF Less, OpToRel
<1> QED BY <1>1, NatLessThanWellFounded

\* The first of some positions, as scan_disp_event finds it
LEMMA FirstIs == ASSUME NEW T, T \subseteq Nat, T # {}
                 PROVE  First(T) \in T /\ \A j \in T : First(T) <= j
<1>1. PICK i \in T : \A j \in T : ~ (<<j, i>> \in Less)
  BY LessWellFounded, WFMin
<1>2. ASSUME NEW j \in T PROVE i <= j
  <2>1. ~ (<<j, i>> \in Less)
    BY <1>1
  <2>2. i \in Nat /\ j \in Nat
    BY <1>1
  <2> QED BY <2>1, <2>2 DEF Less
<1>3. \E x \in T : \A j \in T : x <= j
  BY <1>1, <1>2
<1> QED BY <1>3 DEF First


\* What the steps of Next are when the client is not paused
LEMMA StepsAre == ASSUME cf \in Configs, "pause" \notin Kinds, Next,
                         TypesS, TypesC, Unpaused, RingSound, Waits
                  PROVE  Moves /\ Unpaused' /\ cf' = cf
<1> USE DEF Unpaused
<1>0. Kinds \subseteq AllKinds /\ Modes \subseteq {"poll", "wait"} /\ Limit \in Nat
  BY EventsAssumption, SMTT(30), SMTT(31) DEF Kinds, Modes, Limit, AllKinds
<1>d. ASSUME NEW e, NEW f, Deliver(e, f)
      PROVE  Told(e, f)
  BY <1>d DEF TypesC, Deliver, Told
<1>b. ASSUME Done
      PROVE  Back
  BY <1>b DEF TypesC, Done, Back
<1>1. ASSUME NEW k \in Kinds, Push(k) PROVE Moves /\ Unpaused' /\ cf' = cf
  <2> DEFINE e == Event(sent + 1, k)
  <2>1. e \in Events /\ e.n = sent + 1 /\ Sound(e)
    BY <1>0, EventFacts, SMTT(30), SMTT(31) DEF TypesS
  <2>2. Unpaused' /\ cf' = cf /\ Pushes(e)
    BY <1>1, <2>1 DEF Push, client, pause, pev, fds, result, Pushes, mine
  <2>3. Plain(e) \/ WithFd(e) \/ Refused(e)
    <3> HIDE DEF e
    <3>1. \/ ~HasFd(e) /\ ring' = Append(ring, e) /\ spc' = "ping" /\ sum' = Apply(sum, e) /\ sock' = sock
          \/ HasFd(e) /\ sock' = Append(sock, e.n) /\ spc' = "event" /\ UNCHANGED <<ring, sum>>
          \/ UNCHANGED <<ring, sock, spc, sum>>
      BY <1>1 DEF Push, e
    <3> QED BY <2>2, <3>1 DEF Plain, WithFd, Refused
  <2> QED BY <2>1, <2>2, <2>3 DEF Moves
<1>2. CASE Pushfd_Event
  <2>1. UNCHANGED <<paused, ph>> /\ cf' = cf
    BY <1>2 DEF Pushfd_Event, client, pause
  <2>2. EventIn \/ EventLost
    BY <1>2 DEF Pushfd_Event, client, pause, pev, fds, result, EventIn, EventLost, mine
  <2> QED BY <2>1, <2>2 DEF Moves
<1>3. CASE Push_Ping
  <2>1. UNCHANGED <<paused, ph>> /\ cf' = cf
    BY <1>3 DEF Push_Ping, client, pause
  <2>2. Pings
    BY <1>3 DEF Push_Ping, client, pause, pev, fds, result, Pings, mine, Ping
  <2> QED BY <2>1, <2>2 DEF Moves
<1>4. CASE Crash \/ Guard
  <2>1. UNCHANGED <<paused, ph>> /\ cf' = cf
    BY <1>4 DEF Crash, Guard, client, pause
  <2>2. Ends
    BY <1>4 DEF Crash, Guard, client, server, pev, fds, result, Ends, mine
  <2> QED BY <2>1, <2>2 DEF Moves
<1>5. ASSUME NEW m \in Modes, Call(m) PROVE Moves /\ Unpaused' /\ cf' = cf
  <2>1. UNCHANGED <<paused, ph>> /\ cf' = cf
    BY <1>5 DEF Call, pause
  <2>2. Called
    BY <1>5 DEF Call, env, server, pev, fds, result, Called, theirs
  <2> QED BY <2>1, <2>2 DEF Moves
<1>6. CASE Reset
  <2>1. UNCHANGED <<paused, ph>> /\ cf' = cf
    BY <1>6 DEF Reset, pause
  <2>2. CASE consumed
    <3>1. Closes
      BY <1>6, <2>2 DEF Reset, consume, Close, BADFD, env, server, result, Closes, theirs
    <3> QED BY <2>1, <3>1 DEF Moves
  <2>3. CASE ~consumed
    <3>1. Leaves
      BY <1>6, <2>3 DEF Reset, consume, env, server, pev, fds, result, Leaves, theirs
    <3> QED BY <2>1, <3>1 DEF Moves
  <2> QED BY <2>2, <2>3
<1>p. ASSUME NEW f \in Fd, Pending(f)
      PROVE  f \in Nat /\ Reads(f) /\ Owns(f) /\ foreign' = foreign
  <2>1. f \in Nat
    BY EventsAssumption, SMTT(30), SMTT(31) DEF Fd, Stdin
  <2>2. CASE fd # BADFD
    BY <1>p, <2>1, <2>2 DEF Pending, Reads, Owns, fds, BADFD
  <2>3. CASE fd = BADFD
    BY <1>p, <2>1, <2>3 DEF Pending, Fetch, Reads, Owns, BADFD
  <2> QED BY <2>1, <2>2, <2>3
<1>7. CASE Checkfd
  <2>1. UNCHANGED <<paused, ph>> /\ cf' = cf
    BY <1>7 DEF Checkfd, pause
  <2>2. PICK f \in Fd : Pending(f) /\ fd' = f
    BY <1>7 DEF Checkfd
  <2>3. f \in Nat /\ Fetches(f)
    BY <1>7, <2>2, <1>p DEF Checkfd, env, server, result, Fetches, theirs
  <2> QED BY <2>1, <2>3 DEF Moves
<1>8. CASE Checkfd_Event
  <2>1. UNCHANGED <<paused, ph>> /\ cf' = cf
    BY <1>8 DEF Checkfd_Event, pause
  <2>0. pc = "checkfd" /\ gotev /\ UNCHANGED <<theirs, ring, mode, dst, alive>>
    BY <1>8 DEF Checkfd_Event, env, server, theirs
  <2>z. BADFD \in Fd
    BY EventsAssumption, SMTT(30), SMTT(31) DEF Fd, Stdin, BADFD
  <2>2. ASSUME NEW f \in Fd \ {BADFD}, Pending(f), fd' = f, consumed' = TRUE, UNCHANGED gotev,
               Deliver(dst, f)
        PROVE  Moves
    <3>1. f \in Nat /\ Reads(f) /\ Owns(f) /\ foreign' = foreign /\ f # 0
      BY <1>p, <2>2 DEF BADFD
    <3>2. Gives(f)
      BY <2>0, <2>2, <3>1, <1>d DEF Gives
    <3> QED BY <3>1, <3>2 DEF Moves
  <2>3. ASSUME NEW f \in Fd \ {BADFD}, (fd = f /\ sock' = sock) \/ (fd = BADFD /\ Fetch(f, blocking)),
               owned' = owned \ {f}, foreign' = foreign,
               fd' = BADFD, gotev' = FALSE, consumed' = FALSE, Done
        PROVE  Moves
    <3>1. f \in Nat /\ f # 0
      BY EventsAssumption, SMTT(30), SMTT(31) DEF Fd, Stdin, BADFD
    <3>2. Reads(f)
      BY <2>3, <3>1 DEF Reads, Fetch, BADFD
    <3>3. Cleans(f)
      BY <2>0, <2>3, <3>1, <3>2, <1>b DEF Cleans, BADFD
    <3> QED BY <3>1, <3>3 DEF Moves
  <2>4. ASSUME Pending(BADFD), blocking, pc' = (IF check_dms THEN "checkfd" ELSE "dequeue"),
               UNCHANGED <<pev, result>>
        PROVE  Moves
    <3>1. Again
      BY <2>0, <2>4, <2>z, <1>p DEF Again, BADFD, pev, result
    <3> QED BY <3>1 DEF Moves
  <2>5. ASSUME Pending(BADFD), ~blocking, Done, UNCHANGED pev
        PROVE  Moves
    <3>1. Returns
      BY <2>0, <2>5, <2>z, <1>p, <1>b DEF Returns, BADFD, pev, blocking
    <3> QED BY <3>1 DEF Moves
  <2>6. Moves
    BY <1>8, <2>2, <2>3, <2>4, <2>5 DEF Checkfd_Event
  <2> QED BY <2>1, <2>6
<1>9. CASE Dequeue_Empty
  <2>1. UNCHANGED <<paused, ph>> /\ cf' = cf
    BY <1>9 DEF Dequeue_Empty, pause
  <2>2. EmptyAgain \/ EmptyReturns
    BY <1>9, <1>b DEF Dequeue_Empty, env, server, pev, fds, result, EmptyAgain, EmptyReturns, theirs
  <2> QED BY <2>1, <2>2 DEF Moves
<1>10. CASE Dequeue
  <2> DEFINE e == Head(ring)
             r == Tail(ring)
  <2>0. /\ Next1 /\ cf' = cf /\ ph' = ph
    BY <1>10 DEF Dequeue, env, server, fds, Next1, theirs
  <2>a. r \in Seq(Events) /\ Len(r) = Len(ring) - 1 /\ Len(ring) \in Nat \ {0} /\ Sound(e)
    BY <2>0, Tailed, SMTT(30), SMTT(31) DEF TypesS, RingSound, Next1
  <2>2. ASSUME IsHint(e), Hints(r) # {}, ring' = scan_disp_event(r, e), pc' = "reset",
               UNCHANGED <<gotev, paused, alive, result>>
        PROVE  Moves /\ Unpaused'
    <3> DEFINE i == First(Hints(r))
    <3>1. Hints(r) \subseteq 1 .. Len(ring) - 1 /\ Hints(r) \subseteq Nat
      BY <2>a, SMTT(30), SMTT(31) DEF Hints
    <3>2. i \in Hints(r) /\ \A j \in Hints(r) : i <= j
      BY <2>2, <3>1, FirstIs
    <3> HIDE DEF i
    <3>a. \A j \in 1 .. Len(ring) - 1 : j \in Hints(r) <=> IsHint(r[j])
      BY <2>a, SMTT(30), SMTT(31) DEF Hints
    <3>3. IsHint(r[i]) /\ \A j \in 1 .. Len(ring) - 1 : j < i => ~IsHint(r[j])
      <4>1. IsHint(r[i]) /\ i \in Nat
        BY <3>1, <3>2, <3>a
      <4>2. ASSUME NEW j \in 1 .. Len(ring) - 1, j < i PROVE ~IsHint(r[j])
        <5>1. j \notin Hints(r)
          BY <3>2, <4>1, <4>2
        <5> QED BY <3>a, <5>1
      <4> QED BY <4>1, <4>2
    <3>4. ring' = [r EXCEPT ![i] = merge_dh(@, e)]
      BY <2>2 DEF scan_disp_event, i
    <3>5. Merges(i)
      BY <2>0, <2>2, <3>3, <3>4 DEF Merges, result
    <3>6. i \in 1 .. Len(ring) - 1
      BY <3>1, <3>2
    <3> QED BY <2>0, <2>2, <3>5, <3>6 DEF Moves
  <2>3. ASSUME e.k = "step", Steps(r) # {}, ring' = r, pc' = "reset",
               UNCHANGED <<gotev, paused, alive, result>>
        PROVE  Moves /\ Unpaused'
    <3>1. PICK i \in 1 .. Len(ring) - 1 : r[i].k = "step"
      BY <2>3, <2>a DEF Steps
    <3>2. Coalesces(i)
      BY <2>0, <2>3, <3>1 DEF Coalesces, result
    <3> QED BY <2>0, <2>3, <3>1, <3>2 DEF Moves
  <2>4. ASSUME e.k \in {"pause", "unpause"}, ring' = r,
               \/ e.k = "unpause" /\ mode = "enq"
               \/ paused' = (e.k = "pause") /\ pc' = "reset" /\ UNCHANGED result,
               UNCHANGED <<gotev, alive>>
        PROVE  Moves /\ Unpaused'
    <3>1. e.k = "unpause" /\ mode # "enq"
      BY <2>a, <2>4 DEF Sound, TypesC
    <3>2. Unpauses /\ paused' = FALSE
      BY <2>0, <2>4, <3>1 DEF Unpauses, result
    <3> QED BY <2>0, <3>2 DEF Moves
  <2>5. ASSUME HasFd(e), ring' = r, gotev' = TRUE, pc' = "checkfd", UNCHANGED <<paused, alive, result>>
        PROVE  Moves /\ Unpaused'
    <3>1. TakesFd
      BY <2>0, <2>5 DEF TakesFd, result
    <3> QED BY <2>0, <2>5, <3>1 DEF Moves
  <2>6. ASSUME IsHint(e) \/ e.k \in {"step", "plain", "fontsz", "exit"}, ring' = r,
               alive' = (alive /\ e.k # "exit"), Deliver(e, BADFD), UNCHANGED <<gotev, paused>>
        PROVE  Moves /\ Unpaused'
    <3>1. ~HasFd(e)
      BY <2>6 DEF HasFd, IsHint
    <3>2. Told(e, 0)
      BY <2>6, <1>d DEF BADFD
    <3>3. Takes
      BY <2>0, <2>6, <3>1, <3>2 DEF Takes
    <3> QED BY <2>0, <2>6, <3>3 DEF Moves
  <2> HIDE DEF e, r
  <2>7. Moves /\ Unpaused'
    <3>1. \/ IsHint(e) /\ Hints(r) # {} /\ ring' = scan_disp_event(r, e) /\ pc' = "reset"
             /\ UNCHANGED <<gotev, paused, alive, result>>
          \/ e.k = "step" /\ Steps(r) # {} /\ ring' = r /\ pc' = "reset"
             /\ UNCHANGED <<gotev, paused, alive, result>>
          \/ e.k \in {"pause", "unpause"} /\ ring' = r
             /\ (\/ e.k = "unpause" /\ mode = "enq"
                 \/ paused' = (e.k = "pause") /\ pc' = "reset" /\ UNCHANGED result)
             /\ UNCHANGED <<gotev, alive>>
          \/ HasFd(e) /\ ring' = r /\ gotev' = TRUE /\ pc' = "checkfd"
             /\ UNCHANGED <<paused, alive, result>>
          \/ (IsHint(e) \/ e.k \in {"step", "plain", "fontsz", "exit"}) /\ ring' = r
             /\ alive' = (alive /\ e.k # "exit") /\ Deliver(e, BADFD) /\ UNCHANGED <<gotev, paused>>
      BY <1>10 DEF Dequeue, e, r
    <3> QED BY <3>1, <2>2, <2>3, <2>4, <2>5, <2>6
  <2> QED BY <2>0, <2>7
<1>11. ~Enqueue /\ ~Reset_Hint /\ ~Dequeue_Paused /\ ~Pause_Fetch
  BY DEF Enqueue, Reset_Hint, Dequeue_Paused, Pause_Fetch, TypesC
<1> QED BY <1>1, <1>2, <1>3, <1>4, <1>5, <1>6, <1>7, <1>8, <1>9, <1>10, <1>11
        DEF Next, Server, Client

\* Types of the page and of the server
LEMMA TypesServer == ASSUME TypesS, TypesC, RingSound, Waits, Moves, cf \in Configs,
                            cf' = cf
                     PROVE  TypesS'
<1>1. ASSUME NEW e \in Events, Plain(e) PROVE TypesS'
  <2>1. Append(ring, e) \in Seq(Events) /\ Apply(sum, e) \in Fields
    BY Appended DEF TypesS, Apply, Keep, Fields, Events
  <2> QED BY <1>1, <2>1 DEF Plain, Pushes, TypesS
<1>2. ASSUME NEW e \in Events, WithFd(e) PROVE TypesS'
  <2>1. e.n \in Nat /\ Append(sock, e.n) \in Seq(Nat)
    BY Appended DEF TypesS, Events
  <2> QED BY <1>2, <2>1 DEF WithFd, Pushes, TypesS, mine
<1>3. ASSUME NEW e \in Events, Refused(e) PROVE TypesS'
  BY <1>3 DEF Refused, Pushes, mine, TypesS
<1>4. CASE EventIn
  <2>1. Append(ring, sev) \in Seq(Events)
    BY Appended DEF TypesS
  <2> QED BY <1>4, <2>1 DEF EventIn, TypesS
<1>5. CASE EventLost
  BY <1>5 DEF EventLost, mine, TypesS
<1>6. CASE Pings
  <2>1. Append(sock, 0) \in Seq(Nat)
    BY Appended DEF TypesS
  <2> QED BY <1>6, <2>1 DEF Pings, TypesS
<1>7. CASE Ends
  BY <1>7 DEF Ends, mine, TypesS
<1>8. CASE Called
  BY <1>8 DEF Called, theirs, TypesS
<1>9. CASE Closes
  BY <1>9 DEF Closes, theirs, TypesS
<1>10. CASE Leaves
  BY <1>10 DEF Leaves, theirs, TypesS
<1>11. ASSUME NEW f \in Nat, Fetches(f) PROVE TypesS'
  <2>1. sock' \in Seq(Nat)
    BY <1>11, Tailed DEF Fetches, Reads, TypesS
  <2> QED BY <1>11, <2>1 DEF Fetches, TypesS, theirs
<1>12. ASSUME NEW f \in Nat, Gives(f) PROVE TypesS'
  <2>1. sock' \in Seq(Nat)
    BY <1>12, Tailed DEF Gives, Reads, TypesS
  <2> QED BY <1>12, <2>1 DEF Gives, TypesS, theirs
<1>13. ASSUME NEW f \in Nat, Cleans(f) PROVE TypesS'
  <2>1. sock' \in Seq(Nat)
    BY <1>13, Tailed DEF Cleans, Reads, TypesS
  <2> QED BY <1>13, <2>1 DEF Cleans, TypesS, theirs
<1>14. CASE Again
  <2>1. sock' \in Seq(Nat)
    BY <1>14, Tailed DEF Again, Reads, TypesS
  <2> QED BY <1>14, <2>1 DEF Again, TypesS, theirs
<1>15. CASE Returns
  <2>1. sock' \in Seq(Nat)
    BY <1>15, Tailed DEF Returns, Reads, TypesS
  <2> QED BY <1>15, <2>1 DEF Returns, TypesS, theirs
<1>16. CASE EmptyAgain
  BY <1>16 DEF EmptyAgain, theirs, TypesS
<1>17. CASE EmptyReturns
  BY <1>17 DEF EmptyReturns, theirs, Back, TypesS
<1>18. ASSUME NEW i \in 1 .. Len(ring) - 1, Merges(i) PROVE TypesS'
  <2>1. Tail(ring) \in Seq(Events) /\ Head(ring) \in Events /\ Len(Tail(ring)) = Len(ring) - 1
    BY <1>18, Tailed DEF Merges, Next1, TypesS
  <2>2. Tail(ring)[i] \in Events
    BY <2>1
  <2>3. merge_dh(Tail(ring)[i], Head(ring)) \in Events
    BY <2>1, <2>2 DEF merge_dh, Keep, Events
  <2>4. ring' \in Seq(Events)
    <3> DEFINE r == Tail(ring)
               x == merge_dh(r[i], Head(ring))
    <3>1. ring' = [r EXCEPT ![i] = x]
      BY <1>18 DEF Merges
    <3> HIDE DEF r, x
    <3> QED BY <2>1, <2>3, <3>1 DEF r, x
  <2> QED BY <1>18, <2>4 DEF Merges, Next1, TypesS, theirs
<1>19. ASSUME NEW i \in 1 .. Len(ring) - 1, Coalesces(i) PROVE TypesS'
  <2>1. Tail(ring) \in Seq(Events)
    BY <1>19, Tailed DEF Coalesces, Next1, TypesS
  <2> QED BY <1>19, <2>1 DEF Coalesces, Next1, TypesS, theirs
<1>20. CASE Unpauses
  <2>1. Tail(ring) \in Seq(Events)
    BY <1>20, Tailed DEF Unpauses, Next1, TypesS
  <2> QED BY <1>20, <2>1 DEF Unpauses, Next1, TypesS, theirs
<1>21. CASE TakesFd
  <2>1. Tail(ring) \in Seq(Events)
    BY <1>21, Tailed DEF TakesFd, Next1, TypesS
  <2> QED BY <1>21, <2>1 DEF TakesFd, Next1, TypesS, theirs
<1>22. CASE Takes
  <2>1. Tail(ring) \in Seq(Events)
    BY <1>22, Tailed DEF Takes, Next1, TypesS
  <2> QED BY <1>22, <2>1 DEF Takes, Next1, TypesS, theirs
<1> QED BY <1>1, <1>2, <1>3, <1>4, <1>5, <1>6, <1>7, <1>8, <1>9, <1>10, <1>11, <1>12, <1>13,
   <1>14, <1>15, <1>16, <1>17, <1>18, <1>19, <1>20, <1>21, <1>22 DEF Moves

\* Types of the client
LEMMA TypesClient == ASSUME TypesS, TypesC, RingSound, Waits, Moves, cf \in Configs,
                            cf' = cf
                     PROVE  TypesC'
<1>0. Modes \subseteq {"poll", "wait"} /\ None \in Events
  BY EventsAssumption DEF Modes, None, Event, Events, AllKinds
<1>a. ASSUME NEW e \in Events PROVE Apply(seen, e) \in Fields
  BY DEF TypesC, Apply, Keep, Fields, Events
<1>h. ring # <<>> => Head(ring) \in Events
  BY Tailed DEF TypesS
<1>f. ASSUME NEW f, Reads(f) PROVE f \in Nat
  BY <1>f, Tailed DEF Reads, TypesS, TypesC
<1>1. ASSUME NEW e \in Events, Plain(e) PROVE TypesC'
  BY <1>1 DEF Plain, Pushes, mine, TypesC
<1>2. ASSUME NEW e \in Events, WithFd(e) PROVE TypesC'
  BY <1>2 DEF WithFd, Pushes, mine, TypesC
<1>3. ASSUME NEW e \in Events, Refused(e) PROVE TypesC'
  BY <1>3 DEF Refused, Pushes, mine, TypesC
<1>4. CASE EventIn
  BY <1>4 DEF EventIn, mine, TypesC
<1>5. CASE EventLost
  BY <1>5 DEF EventLost, mine, TypesC
<1>6. CASE Pings
  BY <1>6 DEF Pings, mine, TypesC
<1>7. CASE Ends
  BY <1>7 DEF Ends, mine, TypesC
<1>8. CASE Called
  BY <1>8, <1>0 DEF Called, TypesC, theirs
<1>9. CASE Closes
  BY <1>9 DEF Closes, theirs, TypesC
<1>10. CASE Leaves
  BY <1>10 DEF Leaves, theirs, TypesC
<1>11. ASSUME NEW f \in Nat, Fetches(f) PROVE TypesC'
  BY <1>11, <1>f DEF Fetches, TypesC, theirs
<1>12. ASSUME NEW f \in Nat, Gives(f) PROVE TypesC'
  <2>1. seen' \in Fields
    BY <1>12, <1>a DEF Gives, Told, TypesC
  <2> QED BY <1>12, <1>f, <2>1 DEF Gives, Told, TypesC, theirs
<1>13. ASSUME NEW f \in Nat, Cleans(f) PROVE TypesC'
  BY <1>13 DEF Cleans, theirs, Back, Reads, TypesC
<1>14. CASE Again
  BY <1>14 DEF Again, theirs, Reads, TypesC
<1>15. CASE Returns
  BY <1>15 DEF Returns, theirs, Back, Reads, TypesC
<1>16. CASE EmptyAgain
  BY <1>16 DEF EmptyAgain, theirs, TypesC
<1>17. CASE EmptyReturns
  BY <1>17 DEF EmptyReturns, theirs, Back, TypesC
<1>18. ASSUME NEW i \in 1 .. Len(ring) - 1, Merges(i) PROVE TypesC'
  BY <1>18, <1>h DEF Merges, Next1, TypesC, theirs
<1>19. ASSUME NEW i \in 1 .. Len(ring) - 1, Coalesces(i) PROVE TypesC'
  BY <1>19, <1>h DEF Coalesces, Next1, TypesC, theirs
<1>20. CASE Unpauses
  BY <1>20, <1>h DEF Unpauses, Next1, TypesC, theirs
<1>21. CASE TakesFd
  BY <1>21, <1>h DEF TakesFd, Next1, TypesC, theirs
<1>22. CASE Takes
  <2>1. seen' \in Fields
    BY <1>22, <1>a, <1>h DEF Takes, Next1, Told, TypesC
  <2> QED BY <1>22, <1>h, <2>1 DEF Takes, Next1, Told, TypesC, theirs
<1> QED BY <1>1, <1>2, <1>3, <1>4, <1>5, <1>6, <1>7, <1>8, <1>9, <1>10, <1>11, <1>12, <1>13,
   <1>14, <1>15, <1>16, <1>17, <1>18, <1>19, <1>20, <1>21, <1>22 DEF Moves

\* The events in the ring stay what they are.
LEMMA SoundInv == ASSUME TypesS, TypesC, RingSound, Waits, Moves, cf \in Configs, cf' = cf
                  PROVE  RingSound'
<1>s. \A e : Sound(e)' <=> Sound(e)
  BY DEF Sound, Kinds, IsHint
<1>r. ASSUME ring' = ring, spc' = "event" => spc = "event" /\ sev' = sev PROVE RingSound'
  BY <1>r, <1>s DEF RingSound
<1>t. ASSUME ring # <<>>, ring' = Tail(ring), spc' = spc, sev' = sev PROVE RingSound'
  <2>1. \A i \in 1 .. Len(ring') : i + 1 \in 1 .. Len(ring) /\ ring'[i] = ring[i + 1]
    BY <1>t, Tailed, SMTT(30), SMTT(31) DEF TypesS
  <2> QED BY <1>t, <1>s, <2>1 DEF RingSound
<1>1. ASSUME NEW e \in Events, Plain(e) PROVE RingSound'
  <2>1. \A i \in 1 .. Len(ring') : ring'[i] = e \/ (i \in 1 .. Len(ring) /\ ring'[i] = ring[i])
    <3>1. ring' = Append(ring, e) /\ e \in Events
      BY <1>1 DEF Plain, TypesS
    <3> QED BY <3>1, RingGrows
  <2> QED BY <1>1, <1>s, <2>1 DEF Plain, Pushes, RingSound
<1>2. ASSUME NEW e \in Events, WithFd(e) PROVE RingSound'
  BY <1>2, <1>s DEF WithFd, Pushes, RingSound
<1>3. ASSUME NEW e \in Events, Refused(e) PROVE RingSound'
  BY <1>3, <1>r DEF Refused, Pushes
<1>4. CASE EventIn
  <2>1. \A i \in 1 .. Len(ring') : ring'[i] = sev \/ (i \in 1 .. Len(ring) /\ ring'[i] = ring[i])
    <3>1. ring' = Append(ring, sev) /\ sev \in Events
      BY <1>4 DEF EventIn, TypesS
    <3> QED BY <3>1, RingGrows
  <2> QED BY <1>4, <1>s, <2>1 DEF EventIn, RingSound
<1>5. CASE EventLost
  BY <1>5, <1>r DEF EventLost, theirs
<1>6. CASE Pings
  BY <1>6, <1>r DEF Pings, theirs
<1>7. CASE Ends
  BY <1>7, <1>r DEF Ends, theirs
<1>8. CASE Called
  BY <1>8, <1>r DEF Called, theirs
<1>9. CASE Closes
  BY <1>9, <1>r DEF Closes, theirs
<1>10. CASE Leaves
  BY <1>10, <1>r DEF Leaves, theirs
<1>11. ASSUME NEW f \in Nat, Fetches(f) PROVE RingSound'
  BY <1>11, <1>r DEF Fetches, theirs
<1>12. ASSUME NEW f \in Nat, Gives(f) PROVE RingSound'
  BY <1>12, <1>r DEF Gives, theirs
<1>13. ASSUME NEW f \in Nat, Cleans(f) PROVE RingSound'
  BY <1>13, <1>r DEF Cleans, theirs
<1>14. CASE Again
  BY <1>14, <1>r DEF Again, theirs
<1>15. CASE Returns
  BY <1>15, <1>r DEF Returns, theirs
<1>16. CASE EmptyAgain
  BY <1>16, <1>r DEF EmptyAgain, theirs
<1>17. CASE EmptyReturns
  BY <1>17, <1>r DEF EmptyReturns, theirs
<1>18. ASSUME NEW i \in 1 .. Len(ring) - 1, Merges(i) PROVE RingSound'
  <2> DEFINE r == Tail(ring)
             x == merge_dh(r[i], Head(ring))
  <2>1. /\ r \in Seq(Events) /\ Len(r) = Len(ring) - 1 /\ ring' = [r EXCEPT ![i] = x]
        /\ \A j \in 1 .. Len(ring) - 1 : j + 1 \in 1 .. Len(ring) /\ r[j] = ring[j + 1]
    BY <1>18, Tailed, SMTT(30), SMTT(31) DEF Merges, Next1, TypesS
  <2>2. Sound(r[i]) /\ IsHint(r[i]) /\ r[i] \in Events
    BY <1>18, <2>1, SMTT(30), SMTT(31) DEF RingSound, Merges
  <2>3. Sound(x)
    BY <2>2 DEF merge_dh, Sound, IsHint, Events
  <2>a. x \in Events
    BY <2>1, <2>2, <1>18, Tailed DEF merge_dh, Keep, Events, Merges, Next1, TypesS
  <2> HIDE DEF x, r
  <2>4. \A j \in 1 .. Len(ring') : ring'[j] = x \/ (j \in 1 .. Len(ring) - 1 /\ ring'[j] = r[j])
    <3>1. Len(ring') = Len(r) /\ ring'[i] = x /\ \A j \in 1 .. Len(r) : j # i => ring'[j] = r[j]
      BY <2>1, <2>a, Replaced, SMTT(30), SMTT(31)
    <3>2. \A j \in 1 .. Len(r) : ring'[j] = x \/ ring'[j] = r[j]
      BY <3>1
    <3> QED BY <2>1, <3>1, <3>2
  <2> QED BY <1>18, <1>s, <2>1, <2>3, <2>4 DEF Merges, Next1, theirs, RingSound
<1>19. ASSUME NEW i \in 1 .. Len(ring) - 1, Coalesces(i) PROVE RingSound'
  BY <1>19, <1>t DEF Coalesces, Next1, theirs
<1>20. CASE Unpauses
  BY <1>20, <1>t DEF Unpauses, Next1, theirs
<1>21. CASE TakesFd
  BY <1>21, <1>t DEF TakesFd, Next1, theirs
<1>22. CASE Takes
  BY <1>22, <1>t DEF Takes, Next1, theirs
<1> QED BY <1>1, <1>2, <1>3, <1>4, <1>5, <1>6, <1>7, <1>8, <1>9, <1>10, <1>11, <1>12, <1>13,
   <1>14, <1>15, <1>16, <1>17, <1>18, <1>19, <1>20, <1>21, <1>22 DEF Moves

\* Where an event waits for its descriptor
LEMMA WaitsInv == ASSUME TypesS, TypesC, RingSound, Waits, Moves, cf \in Configs, cf' = cf
                  PROVE  Waits'
<1>0. Modes' = Modes /\ Fresh' = Fresh /\ {gotev, consumed, dms, alive} \subseteq BOOLEAN
  BY DEF Modes, Fresh, TypesC
<1>h. ring # <<>> => Sound(Head(ring))
  BY Tailed, SMTT(30), SMTT(31) DEF TypesS, RingSound
<1>1. ASSUME NEW e \in Events, Plain(e) PROVE Waits'
  BY <1>1, <1>0 DEF Plain, Pushes, mine, Waits, Half, check_dms
<1>2. ASSUME NEW e \in Events, WithFd(e) PROVE Waits'
  BY <1>2, <1>0 DEF WithFd, Pushes, mine, Waits, Half, check_dms
<1>3. ASSUME NEW e \in Events, Refused(e) PROVE Waits'
  BY <1>3, <1>0 DEF Refused, Pushes, mine, Waits, Half, check_dms
<1>4. CASE EventIn
  BY <1>4, <1>0 DEF EventIn, mine, Waits, Half, check_dms
<1>5. CASE EventLost
  BY <1>5, <1>0 DEF EventLost, mine, Waits, Half, check_dms
<1>6. CASE Pings
  BY <1>6, <1>0 DEF Pings, mine, Waits, Half, check_dms
<1>7. CASE Ends
  <2>1. UNCHANGED <<pc, mode, consumed, alive, rv, dst, gotev>>
    BY <1>7 DEF Ends, mine
  <2>2. check_dms' => check_dms
    <3>1. CASE dms' = dms
      BY <2>1, <3>1 DEF check_dms
    <3>2. CASE dms' = FALSE
      BY <3>2 DEF check_dms
    <3> QED BY <1>7, <3>1, <3>2 DEF Ends
  <2> QED BY <1>0, <2>1, <2>2 DEF Waits, Half
<1>8. CASE Called
  <2>1. dst' = dst \/ (dst'.dim = 0 /\ dst'.dens = 0 /\ dst'.step = 0 /\ dst'.k # "exit")
    BY <1>8 DEF Called, None, Event
  <2>2. alive' = alive /\ rv' = rv /\ dms' = dms /\ gotev' = gotev /\ consumed' = consumed
    BY <1>8 DEF Called, theirs
  <2> QED BY <1>8, <1>0, <2>1, <2>2 DEF Called, Waits, Half, check_dms
<1>9. CASE Closes
  BY <1>9, <1>0 DEF Closes, theirs, Waits, Half, check_dms
<1>10. CASE Leaves
  BY <1>10, <1>0 DEF Leaves, theirs, Waits, Half, check_dms
<1>11. ASSUME NEW f \in Nat, Fetches(f) PROVE Waits'
  BY <1>11, <1>0 DEF Fetches, theirs, Reads, Waits, Half, check_dms
<1>12. ASSUME NEW f \in Nat, Gives(f) PROVE Waits'
  BY <1>12, <1>0 DEF Gives, theirs, Told, Reads, Waits, Half, check_dms
<1>13. ASSUME NEW f \in Nat, Cleans(f) PROVE Waits'
  BY <1>13, <1>0 DEF Cleans, theirs, Back, Reads, Waits, Half, check_dms
<1>14. CASE Again
  BY <1>14, <1>0 DEF Again, theirs, Reads, Waits, Half, check_dms
<1>15. CASE Returns
  BY <1>15, <1>0 DEF Returns, theirs, Back, Reads, Waits, Half, check_dms
<1>16. CASE EmptyAgain
  BY <1>16, <1>0 DEF EmptyAgain, theirs, Waits, Half, check_dms
<1>17. CASE EmptyReturns
  BY <1>17, <1>0 DEF EmptyReturns, theirs, Back, Waits, Half, check_dms
<1>18. ASSUME NEW i \in 1 .. Len(ring) - 1, Merges(i) PROVE Waits'
  <2>1. dst'.k # "exit"
    BY <1>18 DEF Merges, Next1, IsHint
  <2> QED BY <1>18, <1>0, <2>1 DEF Merges, Next1, theirs, Waits, Half, check_dms
<1>19. ASSUME NEW i \in 1 .. Len(ring) - 1, Coalesces(i) PROVE Waits'
  BY <1>19, <1>0 DEF Coalesces, theirs, Next1, Waits, Half, check_dms
<1>20. CASE Unpauses
  BY <1>20, <1>0 DEF Unpauses, theirs, Next1, Waits, Half, check_dms
<1>21. CASE TakesFd
  <2>1. dst' = Head(ring) /\ Sound(Head(ring)) /\ HasFd(Head(ring))
    BY <1>21, <1>h DEF TakesFd, Next1
  <2>2. dst'.dim = 0 /\ dst'.dens = 0 /\ dst'.step = 0 /\ dst'.k # "exit"
    BY <2>1, NoFields DEF HasFd
  <2> QED BY <1>21, <1>0, <2>2 DEF TakesFd, Next1, theirs, Waits, Half, check_dms
<1>22. CASE Takes
  BY <1>22, <1>0 DEF Takes, theirs, Next1, Told, Waits, Half, check_dms
<1> QED BY <1>1, <1>2, <1>3, <1>4, <1>5, <1>6, <1>7, <1>8, <1>9, <1>10, <1>11, <1>12, <1>13,
   <1>14, <1>15, <1>16, <1>17, <1>18, <1>19, <1>20, <1>21, <1>22 DEF Moves

-----------------------------------------------------------------------------
(* Merging and coalescing *)

LEMMA LastAppend == ASSUME NEW m \in Nat, NEW g \in [1 .. m -> Nat],
                           NEW h \in [1 .. m + 1 -> Nat],
                           \A i \in 1 .. m : h[i] = g[i], NEW s \in Nat, NEW t \in Nat,
                           LastIs(g, s, t)
                    PROVE  LastIs(h, s, Keep(h[m + 1], t))
<1>1. DOMAIN g = 1 .. m /\ DOMAIN h = 1 .. m + 1 /\ m + 1 \in 1 .. m + 1
  BY SMTT(30), SMTT(31)
<1>2. CASE h[m + 1] # 0
  <2>1. h[m + 1] = Keep(h[m + 1], t) /\ \A j \in 1 .. m + 1 : j > m + 1 => h[j] = 0
    BY <1>2 DEF Keep
  <2> QED BY <1>1, <1>2, <2>1 DEF LastIs
<1>3. CASE h[m + 1] = 0
  <2>1. Keep(h[m + 1], t) = t
    BY <1>3 DEF Keep
  <2>2. \A j \in 1 .. m + 1 : j = m + 1 \/ j \in 1 .. m
    BY SMTT(30), SMTT(31)
  <2>3. CASE s = t /\ \A i \in 1 .. m : g[i] = 0
    <3>1. \A i \in 1 .. m + 1 : h[i] = 0
      BY <1>3, <2>2, <2>3
    <3> QED BY <1>1, <2>1, <2>3, <3>1 DEF LastIs
  <2>4. CASE t # 0 /\ \E i \in 1 .. m : g[i] = t /\ \A j \in 1 .. m : j > i => g[j] = 0
    <3>1. PICK i \in 1 .. m : g[i] = t /\ \A j \in 1 .. m : j > i => g[j] = 0
      BY <2>4
    <3>2. i \in 1 .. m + 1 /\ h[i] = t /\ \A j \in 1 .. m + 1 : j > i => h[j] = 0
      BY <1>3, <2>2, <3>1, SMTT(30), SMTT(31)
    <3> QED BY <1>1, <2>1, <2>4, <3>2 DEF LastIs
  <2> QED BY <1>1, <2>3, <2>4 DEF LastIs
<1> QED BY <1>2, <1>3

\* The first one leaves, and what follows covers it or takes it over.
LEMMA LastLeave == ASSUME NEW m \in Nat \ {0}, NEW g \in [1 .. m -> Nat],
                          NEW h \in [1 .. m - 1 -> Nat], NEW s \in Nat, NEW t \in Nat,
                          NEW u \in Nat, LastIs(g, s, t),
                          \A i \in 1 .. m - 1 : g[i + 1] # 0 => h[i] = g[i + 1],
                          \A i \in 1 .. m - 1 : h[i] # 0 => h[i] = g[i + 1] \/
                             (h[i] = g[1] /\ \A j \in 1 .. m - 1 : j < i => g[j + 1] = 0),
                          (\A i \in 1 .. m - 1 : h[i] = 0) => u = Keep(g[1], s)
                   PROVE  LastIs(h, u, t)
<1>1. DOMAIN g = 1 .. m /\ DOMAIN h = 1 .. m - 1 /\ 1 \in 1 .. m
  BY SMTT(30), SMTT(31)
<1>0. \A i \in 1 .. m - 1 : i + 1 \in 1 .. m
  BY SMTT(30), SMTT(31)
<1>2. CASE \A i \in 1 .. m - 1 : h[i] = 0
  <2>1. \A i \in 1 .. m - 1 : g[i + 1] = 0
    BY <1>2
  <2>2. \A i \in 1 .. m : i = 1 \/ g[i] = 0
    <3> SUFFICES ASSUME NEW i \in 1 .. m, i # 1 PROVE g[i] = 0
      OBVIOUS
    <3>1. i - 1 \in 1 .. m - 1 /\ (i - 1) + 1 = i
      BY SMTT(30), SMTT(31)
    <3> QED BY <2>1, <3>1
  <2>3. u = Keep(g[1], s)
    BY <1>2
  <2>4. u = t
    BY <1>1, <2>2, <2>3 DEF LastIs, Keep
  <2> QED BY <1>1, <1>2, <2>4 DEF LastIs
<1>3. CASE ~(\A i \in 1 .. m - 1 : h[i] = 0)
  <2>1. t # 0
    <3>1. PICK i \in 1 .. m - 1 : h[i] # 0
      BY <1>3
    <3>2. g[i + 1] # 0 \/ g[1] # 0
      BY <3>1
    <3> QED BY <1>0, <1>1, <3>2 DEF LastIs
  <2>2. PICK l \in 1 .. m : g[l] = t /\ \A j \in 1 .. m : j > l => g[j] = 0
    <3>1. ~(\A i \in 1 .. m : g[i] = 0)
      <4>1. PICK i \in 1 .. m - 1 : h[i] # 0
        BY <1>3
      <4> QED BY <1>0, <1>1, <4>1
    <3> QED BY <1>1, <3>1 DEF LastIs
  <2>3. CASE l = 1
    <3>1. \A i \in 1 .. m - 1 : g[i + 1] = 0
      BY <1>0, <2>2, <2>3, SMTT(30), SMTT(31)
    <3>2. PICK i \in 1 .. m - 1 : h[i] # 0
      BY <1>3
    <3>3. \A k \in 1 .. m - 1 : h[k] # 0 => h[k] = t
      BY <2>2, <2>3, <3>1
    <3>4. \E k \in 1 .. m - 1 : h[k] = t /\ \A j \in 1 .. m - 1 : j > k => h[j] = 0
      <4> DEFINE T == {(m - 1) - k : k \in {k \in 1 .. m - 1 : h[k] # 0}}
      <4>1. T \subseteq Nat /\ T # {}
        <5>1. (m - 1) - i \in T
          BY <3>2
        <5>2. \A k \in 1 .. m - 1 : (m - 1) - k \in Nat
          BY SMTT(30), SMTT(31)
        <5> QED BY <5>1, <5>2
      <4>2. PICK d \in T : \A e \in T : d <= e
        <5> HIDE DEF T
        <5> QED BY <4>1, FirstIs
      <4>3. PICK k \in 1 .. m - 1 : h[k] # 0 /\ d = (m - 1) - k
        BY <4>2
      <4>4. ASSUME NEW j \in 1 .. m - 1, j > k PROVE h[j] = 0
        <5>1. (m - 1) - j \in T => d <= (m - 1) - j
          BY <4>2
        <5>2. ~(d <= (m - 1) - j)
          BY <4>3, <4>4, SMTT(30), SMTT(31)
        <5> QED BY <5>1, <5>2
      <4> QED BY <3>3, <4>3, <4>4
    <3> QED BY <1>1, <2>1, <3>4 DEF LastIs
  <2>4. CASE l # 1
    <3>1. l - 1 \in 1 .. m - 1 /\ (l - 1) + 1 = l
      BY <2>4, SMTT(30), SMTT(31)
    <3>2. h[l - 1] = t
      BY <2>1, <2>2, <3>1
    <3>3. ASSUME NEW j \in 1 .. m - 1, j > l - 1 PROVE h[j] = 0
      <4>1. g[j + 1] = 0
        BY <1>0, <2>2, <3>3, SMTT(30), SMTT(31)
      <4>2. ~(\A k \in 1 .. m - 1 : k < j => g[k + 1] = 0)
        BY <2>1, <2>2, <3>1, <3>3
      <4> QED BY <4>1, <4>2
    <3> QED BY <1>1, <2>1, <3>1, <3>2, <3>3 DEF LastIs
  <2> QED BY <2>3, <2>4
<1> QED BY <1>2, <1>3

\* The fields of the events of a ring
Fielded(r) == /\ Dims(r) \in [1 .. Len(r) -> Nat] /\ Denses(r) \in [1 .. Len(r) -> Nat]
              /\ Counts(r) \in [1 .. Len(r) -> Nat]
              /\ \A i \in 1 .. Len(r) : /\ Dims(r)[i] = r[i].dim /\ Denses(r)[i] = r[i].dens
                                        /\ Counts(r)[i] = r[i].step

LEMMA FieldsOf == ASSUME NEW r \in Seq(Events) PROVE Fielded(r)
<1>1. \A i \in 1 .. Len(r) : r[i] \in Events
  OBVIOUS
<1>2. \A i \in 1 .. Len(r) : r[i].dim \in Nat /\ r[i].dens \in Nat /\ r[i].step \in Nat
  BY <1>1 DEF Events
<1> QED BY <1>2 DEF Fielded, Dims, Denses, Counts

\* The server enqueues e: what the client knows then says the sum with e in it.
LEMMA KnownAppend == ASSUME TypesS, TypesC, Known, rv # "terminal", NEW e \in Events,
                            ring' = Append(ring, e), seen' = seen,
                            /\ sum'.dim = Keep(e.dim, sum.dim)
                            /\ sum'.dens = Keep(e.dens, sum.dens)
                            /\ sum'.step = Keep(e.step, sum.step)
                     PROVE  Known'
<1>0. /\ ring \in Seq(Events) /\ ring' \in Seq(Events) /\ Len(ring) \in Nat
      /\ Len(ring') = Len(ring) + 1 /\ ring'[Len(ring) + 1] = e
      /\ \A i \in 1 .. Len(ring) : ring'[i] = ring[i]
  BY RingGrows DEF TypesS
<1>9. Fielded(ring) /\ Fielded(ring')
  BY <1>0, FieldsOf
<1>1. LastIs(Dims(ring'), seen.dim, Keep(e.dim, sum.dim))
  <2>1. /\ Dims(ring) \in [1 .. Len(ring) -> Nat] /\ Dims(ring') \in [1 .. Len(ring) + 1 -> Nat]
        /\ \A i \in 1 .. Len(ring) : Dims(ring')[i] = Dims(ring)[i]
        /\ Dims(ring')[Len(ring) + 1] = e.dim
    <3>1. Dims(ring) \in [1 .. Len(ring) -> Nat]
      BY <1>9 DEF Fielded
    <3>2. Dims(ring') \in [1 .. Len(ring) + 1 -> Nat]
      BY <1>0, <1>9 DEF Fielded
    <3>3. ASSUME NEW i \in 1 .. Len(ring) PROVE Dims(ring')[i] = Dims(ring)[i]
      <4>1. i \in 1 .. Len(ring') /\ ring'[i] = ring[i]
        BY <1>0
      <4>2. Dims(ring')[i] = ring'[i].dim /\ Dims(ring)[i] = ring[i].dim
        BY <4>1, <1>9 DEF Fielded
      <4> QED BY <4>1, <4>2
    <3>4. Dims(ring')[Len(ring) + 1] = e.dim
      <4>1. Len(ring) + 1 \in 1 .. Len(ring') /\ ring'[Len(ring) + 1] = e
        BY <1>0
      <4> QED BY <4>1, <1>9 DEF Fielded
    <3> QED BY <3>1, <3>2, <3>3, <3>4
  <2>2. seen.dim \in Nat /\ sum.dim \in Nat /\ LastIs(Dims(ring), seen.dim, sum.dim)
    BY DEF TypesS, TypesC, Fields, Known
  <2> QED BY <1>0, <2>1, <2>2, LastAppend
<1>2. LastIs(Denses(ring'), seen.dens, Keep(e.dens, sum.dens))
  <2>1. /\ Denses(ring) \in [1 .. Len(ring) -> Nat] /\ Denses(ring') \in [1 .. Len(ring) + 1 -> Nat]
        /\ \A i \in 1 .. Len(ring) : Denses(ring')[i] = Denses(ring)[i]
        /\ Denses(ring')[Len(ring) + 1] = e.dens
    <3>1. Denses(ring) \in [1 .. Len(ring) -> Nat]
      BY <1>9 DEF Fielded
    <3>2. Denses(ring') \in [1 .. Len(ring) + 1 -> Nat]
      BY <1>0, <1>9 DEF Fielded
    <3>3. ASSUME NEW i \in 1 .. Len(ring) PROVE Denses(ring')[i] = Denses(ring)[i]
      <4>1. i \in 1 .. Len(ring') /\ ring'[i] = ring[i]
        BY <1>0
      <4>2. Denses(ring')[i] = ring'[i].dens /\ Denses(ring)[i] = ring[i].dens
        BY <4>1, <1>9 DEF Fielded
      <4> QED BY <4>1, <4>2
    <3>4. Denses(ring')[Len(ring) + 1] = e.dens
      <4>1. Len(ring) + 1 \in 1 .. Len(ring') /\ ring'[Len(ring) + 1] = e
        BY <1>0
      <4> QED BY <4>1, <1>9 DEF Fielded
    <3> QED BY <3>1, <3>2, <3>3, <3>4
  <2>2. seen.dens \in Nat /\ sum.dens \in Nat /\ LastIs(Denses(ring), seen.dens, sum.dens)
    BY DEF TypesS, TypesC, Fields, Known
  <2> QED BY <1>0, <2>1, <2>2, LastAppend
<1>3. LastIs(Counts(ring'), seen.step, Keep(e.step, sum.step))
  <2>1. /\ Counts(ring) \in [1 .. Len(ring) -> Nat] /\ Counts(ring') \in [1 .. Len(ring) + 1 -> Nat]
        /\ \A i \in 1 .. Len(ring) : Counts(ring')[i] = Counts(ring)[i]
        /\ Counts(ring')[Len(ring) + 1] = e.step
    <3>1. Counts(ring) \in [1 .. Len(ring) -> Nat]
      BY <1>9 DEF Fielded
    <3>2. Counts(ring') \in [1 .. Len(ring) + 1 -> Nat]
      BY <1>0, <1>9 DEF Fielded
    <3>3. ASSUME NEW i \in 1 .. Len(ring) PROVE Counts(ring')[i] = Counts(ring)[i]
      <4>1. i \in 1 .. Len(ring') /\ ring'[i] = ring[i]
        BY <1>0
      <4>2. Counts(ring')[i] = ring'[i].step /\ Counts(ring)[i] = ring[i].step
        BY <4>1, <1>9 DEF Fielded
      <4> QED BY <4>1, <4>2
    <3>4. Counts(ring')[Len(ring) + 1] = e.step
      <4>1. Len(ring) + 1 \in 1 .. Len(ring') /\ ring'[Len(ring) + 1] = e
        BY <1>0
      <4> QED BY <4>1, <1>9 DEF Fielded
    <3> QED BY <3>1, <3>2, <3>3, <3>4
  <2>2. seen.step \in Nat /\ sum.step \in Nat /\ LastIs(Counts(ring), seen.step, sum.step)
    BY DEF TypesS, TypesC, Fields, Known
  <2> QED BY <1>0, <2>1, <2>2, LastAppend
<1> QED BY <1>1, <1>2, <1>3 DEF Known

LEMMA KnownTail == ASSUME TypesS, TypesC, Known, rv # "terminal", ring # <<>>,
                          ring' = Tail(ring),
                          sum' = sum, seen' \in Fields,
                          (\A i \in 1 .. Len(ring) - 1 : ring[i + 1].dim = 0)
                             => seen'.dim = Keep(ring[1].dim, seen.dim),
                          (\A i \in 1 .. Len(ring) - 1 : ring[i + 1].dens = 0)
                             => seen'.dens = Keep(ring[1].dens, seen.dens),
                          (\A i \in 1 .. Len(ring) - 1 : ring[i + 1].step = 0)
                             => seen'.step = Keep(ring[1].step, seen.step)
                   PROVE  Known'
<1>0. /\ ring \in Seq(Events) /\ ring' \in Seq(Events) /\ Len(ring) \in Nat \ {0}
      /\ Len(ring') = Len(ring) - 1
      /\ \A i \in 1 .. Len(ring) - 1 : i + 1 \in 1 .. Len(ring) /\ ring'[i] = ring[i + 1]
  BY Tailed, SMTT(30), SMTT(31) DEF TypesS
<1>9. Fielded(ring) /\ Fielded(ring')
  BY <1>0, FieldsOf
<1>1. LastIs(Dims(ring'), seen'.dim, sum.dim)
  <2>1. /\ Dims(ring) \in [1 .. Len(ring) -> Nat] /\ Dims(ring') \in [1 .. Len(ring) - 1 -> Nat]
        /\ \A i \in 1 .. Len(ring) - 1 : Dims(ring')[i] = Dims(ring)[i + 1]
        /\ Dims(ring)[1] = ring[1].dim
        /\ \A i \in 1 .. Len(ring) - 1 : Dims(ring)[i + 1] = ring[i + 1].dim
    <3>1. Dims(ring) \in [1 .. Len(ring) -> Nat]
      BY <1>9 DEF Fielded
    <3>2. Dims(ring') \in [1 .. Len(ring) - 1 -> Nat]
      BY <1>0, <1>9 DEF Fielded
    <3>3. ASSUME NEW i \in 1 .. Len(ring) - 1
          PROVE  Dims(ring')[i] = Dims(ring)[i + 1] /\ Dims(ring)[i + 1] = ring[i + 1].dim
      <4>1. i \in 1 .. Len(ring') /\ i + 1 \in 1 .. Len(ring) /\ ring'[i] = ring[i + 1]
        BY <1>0
      <4>2. Dims(ring')[i] = ring'[i].dim /\ Dims(ring)[i + 1] = ring[i + 1].dim
        BY <4>1, <1>9 DEF Fielded
      <4> QED BY <4>1, <4>2
    <3>4. Dims(ring)[1] = ring[1].dim
      <4>1. 1 \in 1 .. Len(ring)
        BY <1>0
      <4> QED BY <4>1, <1>9 DEF Fielded
    <3> QED BY <3>1, <3>2, <3>3, <3>4
  <2>2. /\ seen.dim \in Nat /\ seen'.dim \in Nat /\ sum.dim \in Nat
        /\ LastIs(Dims(ring), seen.dim, sum.dim)
    BY DEF TypesS, TypesC, Fields, Known
  <2>3. (\A i \in 1 .. Len(ring) - 1 : Dims(ring')[i] = 0) => seen'.dim = Keep(Dims(ring)[1], seen.dim)
    BY <2>1
  <2> QED BY <1>0, <2>1, <2>2, <2>3, LastLeave, ZenonT(30)
<1>2. LastIs(Denses(ring'), seen'.dens, sum.dens)
  <2>1. /\ Denses(ring) \in [1 .. Len(ring) -> Nat] /\ Denses(ring') \in [1 .. Len(ring) - 1 -> Nat]
        /\ \A i \in 1 .. Len(ring) - 1 : Denses(ring')[i] = Denses(ring)[i + 1]
        /\ Denses(ring)[1] = ring[1].dens
        /\ \A i \in 1 .. Len(ring) - 1 : Denses(ring)[i + 1] = ring[i + 1].dens
    <3>1. Denses(ring) \in [1 .. Len(ring) -> Nat]
      BY <1>9 DEF Fielded
    <3>2. Denses(ring') \in [1 .. Len(ring) - 1 -> Nat]
      BY <1>0, <1>9 DEF Fielded
    <3>3. ASSUME NEW i \in 1 .. Len(ring) - 1
          PROVE  Denses(ring')[i] = Denses(ring)[i + 1] /\ Denses(ring)[i + 1] = ring[i + 1].dens
      <4>1. i \in 1 .. Len(ring') /\ i + 1 \in 1 .. Len(ring) /\ ring'[i] = ring[i + 1]
        BY <1>0
      <4>2. Denses(ring')[i] = ring'[i].dens /\ Denses(ring)[i + 1] = ring[i + 1].dens
        BY <4>1, <1>9 DEF Fielded
      <4> QED BY <4>1, <4>2
    <3>4. Denses(ring)[1] = ring[1].dens
      <4>1. 1 \in 1 .. Len(ring)
        BY <1>0
      <4> QED BY <4>1, <1>9 DEF Fielded
    <3> QED BY <3>1, <3>2, <3>3, <3>4
  <2>2. /\ seen.dens \in Nat /\ seen'.dens \in Nat /\ sum.dens \in Nat
        /\ LastIs(Denses(ring), seen.dens, sum.dens)
    BY DEF TypesS, TypesC, Fields, Known
  <2>3. (\A i \in 1 .. Len(ring) - 1 : Denses(ring')[i] = 0) => seen'.dens = Keep(Denses(ring)[1], seen.dens)
    BY <2>1
  <2> QED BY <1>0, <2>1, <2>2, <2>3, LastLeave, ZenonT(30)
<1>3. LastIs(Counts(ring'), seen'.step, sum.step)
  <2>1. /\ Counts(ring) \in [1 .. Len(ring) -> Nat] /\ Counts(ring') \in [1 .. Len(ring) - 1 -> Nat]
        /\ \A i \in 1 .. Len(ring) - 1 : Counts(ring')[i] = Counts(ring)[i + 1]
        /\ Counts(ring)[1] = ring[1].step
        /\ \A i \in 1 .. Len(ring) - 1 : Counts(ring)[i + 1] = ring[i + 1].step
    <3>1. Counts(ring) \in [1 .. Len(ring) -> Nat]
      BY <1>9 DEF Fielded
    <3>2. Counts(ring') \in [1 .. Len(ring) - 1 -> Nat]
      BY <1>0, <1>9 DEF Fielded
    <3>3. ASSUME NEW i \in 1 .. Len(ring) - 1
          PROVE  Counts(ring')[i] = Counts(ring)[i + 1] /\ Counts(ring)[i + 1] = ring[i + 1].step
      <4>1. i \in 1 .. Len(ring') /\ i + 1 \in 1 .. Len(ring) /\ ring'[i] = ring[i + 1]
        BY <1>0
      <4>2. Counts(ring')[i] = ring'[i].step /\ Counts(ring)[i + 1] = ring[i + 1].step
        BY <4>1, <1>9 DEF Fielded
      <4> QED BY <4>1, <4>2
    <3>4. Counts(ring)[1] = ring[1].step
      <4>1. 1 \in 1 .. Len(ring)
        BY <1>0
      <4> QED BY <4>1, <1>9 DEF Fielded
    <3> QED BY <3>1, <3>2, <3>3, <3>4
  <2>2. /\ seen.step \in Nat /\ seen'.step \in Nat /\ sum.step \in Nat
        /\ LastIs(Counts(ring), seen.step, sum.step)
    BY DEF TypesS, TypesC, Fields, Known
  <2>3. (\A i \in 1 .. Len(ring) - 1 : Counts(ring')[i] = 0) => seen'.step = Keep(Counts(ring)[1], seen.step)
    BY <2>1
  <2> QED BY <1>0, <2>1, <2>2, <2>3, LastLeave, ZenonT(30)
<1> QED BY <1>1, <1>2, <1>3 DEF Known

LEMMA KnownMerge == ASSUME TypesS, TypesC, Known, RingSound, rv # "terminal", TypesS',
                           NEW i \in 1 .. Len(ring) - 1, Merges(i)
                    PROVE  Known'
<1> DEFINE r == Tail(ring)
           x == merge_dh(r[i], Head(ring))
<1>0. /\ ring \in Seq(Events) /\ ring' \in Seq(Events) /\ Len(ring) \in Nat \ {0}
      /\ Len(ring') = Len(ring) - 1
      /\ \A j \in 1 .. Len(ring) - 1 : j + 1 \in 1 .. Len(ring) /\ (j # i => ring'[j] = ring[j + 1])
      /\ ring'[i] = x /\ r[i] = ring[i + 1] /\ Head(ring) = ring[1]
  <2>1. /\ r \in Seq(Events) /\ Len(r) = Len(ring) - 1 /\ ring' = [r EXCEPT ![i] = x]
        /\ Head(ring) = ring[1] /\ Len(ring) \in Nat \ {0} /\ ring \in Seq(Events)
        /\ \A j \in 1 .. Len(ring) - 1 : j + 1 \in 1 .. Len(ring) /\ r[j] = ring[j + 1]
    BY Tailed, SMTT(30), SMTT(31) DEF Merges, Next1, TypesS
  <2>2. x \in Events
    <3>1. r[i] \in Events /\ ring[1] \in Events
      BY <2>1
    <3> QED BY <2>1, <3>1 DEF merge_dh, Keep, Events
  <2> HIDE DEF r, x
  <2>3. /\ ring' \in Seq(Events) /\ Len(ring') = Len(r) /\ ring'[i] = x
        /\ \A j \in 1 .. Len(r) : j # i => ring'[j] = r[j]
    BY <2>1, <2>2, Replaced, SMTT(30), SMTT(31)
  <2> QED BY <2>1, <2>3, ZenonT(30)
<1>a. /\ x.dim = Keep(ring[i + 1].dim, ring[1].dim) /\ x.dens = Keep(ring[i + 1].dens, ring[1].dens)
      /\ x.step = ring[i + 1].step /\ x \in Events
  <2>1. ring[i + 1] \in Events /\ ring[1] \in Events
    BY <1>0
  <2> QED BY <1>0, <2>1 DEF merge_dh, Events, Keep
<1> HIDE DEF r, x
<1>h. /\ ring[1].step = 0
      /\ \A j \in 1 .. Len(ring) - 1 : j < i => ring[j + 1].dim = 0 /\ ring[j + 1].dens = 0
  <2>1. Sound(ring[1]) /\ IsHint(ring[1])
    BY <1>0, SMTT(30), SMTT(31) DEF RingSound, Merges
  <2>2. ring[1].step = 0
    BY <2>1 DEF Sound, IsHint
  <2>3. ASSUME NEW j \in 1 .. Len(ring) - 1, j < i PROVE ring[j + 1].dim = 0 /\ ring[j + 1].dens = 0
    <3>1. Tail(ring)[j] = ring[j + 1]
      BY Tailed DEF Merges, Next1, TypesS
    <3>2. ~IsHint(ring[j + 1])
      BY <2>3, <3>1 DEF Merges
    <3>3. Sound(ring[j + 1])
      BY <1>0 DEF RingSound
    <3> QED BY <3>2, <3>3 DEF Sound
  <2> QED BY <2>2, <2>3
<1>9. Fielded(ring) /\ Fielded(ring')
  BY <1>0, FieldsOf
<1>1. LastIs(Dims(ring'), seen.dim, sum.dim)
  <2>1. /\ Dims(ring) \in [1 .. Len(ring) -> Nat] /\ Dims(ring') \in [1 .. Len(ring) - 1 -> Nat]
        /\ \A j \in 1 .. Len(ring) - 1 : j # i => Dims(ring')[j] = Dims(ring)[j + 1]
        /\ Dims(ring')[i] = Keep(Dims(ring)[i + 1], Dims(ring)[1])
        /\ \A j \in 1 .. Len(ring) - 1 : j < i => Dims(ring)[j + 1] = 0
    <3>1. Dims(ring) \in [1 .. Len(ring) -> Nat]
      BY <1>9 DEF Fielded
    <3>2. Dims(ring') \in [1 .. Len(ring) - 1 -> Nat]
      BY <1>0, <1>9 DEF Fielded
    <3>a. ASSUME NEW j \in 1 .. Len(ring) - 1
          PROVE  Dims(ring')[j] = ring'[j].dim /\ Dims(ring)[j + 1] = ring[j + 1].dim
      <4>1. j \in 1 .. Len(ring') /\ j + 1 \in 1 .. Len(ring)
        BY <1>0
      <4> QED BY <4>1, <1>9 DEF Fielded
    <3>3. \A j \in 1 .. Len(ring) - 1 : j # i => ring'[j].dim = ring[j + 1].dim
      BY <1>0
    <3>4. Dims(ring)[1] = ring[1].dim
      <4>1. 1 \in 1 .. Len(ring)
        BY <1>0
      <4> QED BY <4>1, <1>9 DEF Fielded
    <3> QED BY <1>0, <1>a, <1>h, <3>1, <3>2, <3>a, <3>3, <3>4
  <2>2. seen.dim \in Nat /\ sum.dim \in Nat /\ LastIs(Dims(ring), seen.dim, sum.dim)
    BY DEF TypesS, TypesC, Fields, Known
  <2> DEFINE g == Dims(ring)
             h == Dims(ring')
  <2> HIDE DEF g, h
  <2>3. \A j \in 1 .. Len(ring) - 1 : g[j + 1] # 0 => h[j] = g[j + 1]
    BY <2>1 DEF Keep, g, h
  <2>4. \A j \in 1 .. Len(ring) - 1 : h[j] # 0 => h[j] = g[j + 1] \/
          (h[j] = g[1] /\ \A k \in 1 .. Len(ring) - 1 : k < j => g[k + 1] = 0)
    BY <2>1 DEF Keep, g, h
  <2>5. (\A j \in 1 .. Len(ring) - 1 : h[j] = 0) => seen.dim = Keep(g[1], seen.dim)
    BY <2>1 DEF Keep, g, h
  <2>6. g \in [1 .. Len(ring) -> Nat] /\ h \in [1 .. Len(ring) - 1 -> Nat] /\ LastIs(g, seen.dim, sum.dim)
    BY <2>1, <2>2 DEF g, h
  <2>7. LastIs(h, seen.dim, sum.dim)
    BY <1>0, <2>2, <2>3, <2>4, <2>5, <2>6, LastLeave
  <2> QED BY <2>7 DEF h
<1>2. LastIs(Denses(ring'), seen.dens, sum.dens)
  <2>1. /\ Denses(ring) \in [1 .. Len(ring) -> Nat] /\ Denses(ring') \in [1 .. Len(ring) - 1 -> Nat]
        /\ \A j \in 1 .. Len(ring) - 1 : j # i => Denses(ring')[j] = Denses(ring)[j + 1]
        /\ Denses(ring')[i] = Keep(Denses(ring)[i + 1], Denses(ring)[1])
        /\ \A j \in 1 .. Len(ring) - 1 : j < i => Denses(ring)[j + 1] = 0
    <3>1. Denses(ring) \in [1 .. Len(ring) -> Nat]
      BY <1>9 DEF Fielded
    <3>2. Denses(ring') \in [1 .. Len(ring) - 1 -> Nat]
      BY <1>0, <1>9 DEF Fielded
    <3>a. ASSUME NEW j \in 1 .. Len(ring) - 1
          PROVE  Denses(ring')[j] = ring'[j].dens /\ Denses(ring)[j + 1] = ring[j + 1].dens
      <4>1. j \in 1 .. Len(ring') /\ j + 1 \in 1 .. Len(ring)
        BY <1>0
      <4> QED BY <4>1, <1>9 DEF Fielded
    <3>3. \A j \in 1 .. Len(ring) - 1 : j # i => ring'[j].dens = ring[j + 1].dens
      BY <1>0
    <3>4. Denses(ring)[1] = ring[1].dens
      <4>1. 1 \in 1 .. Len(ring)
        BY <1>0
      <4> QED BY <4>1, <1>9 DEF Fielded
    <3> QED BY <1>0, <1>a, <1>h, <3>1, <3>2, <3>a, <3>3, <3>4
  <2>2. seen.dens \in Nat /\ sum.dens \in Nat /\ LastIs(Denses(ring), seen.dens, sum.dens)
    BY DEF TypesS, TypesC, Fields, Known
  <2> DEFINE g == Denses(ring)
             h == Denses(ring')
  <2> HIDE DEF g, h
  <2>3. \A j \in 1 .. Len(ring) - 1 : g[j + 1] # 0 => h[j] = g[j + 1]
    BY <2>1 DEF Keep, g, h
  <2>4. \A j \in 1 .. Len(ring) - 1 : h[j] # 0 => h[j] = g[j + 1] \/
          (h[j] = g[1] /\ \A k \in 1 .. Len(ring) - 1 : k < j => g[k + 1] = 0)
    BY <2>1 DEF Keep, g, h
  <2>5. (\A j \in 1 .. Len(ring) - 1 : h[j] = 0) => seen.dens = Keep(g[1], seen.dens)
    BY <2>1 DEF Keep, g, h
  <2>6. g \in [1 .. Len(ring) -> Nat] /\ h \in [1 .. Len(ring) - 1 -> Nat] /\ LastIs(g, seen.dens, sum.dens)
    BY <2>1, <2>2 DEF g, h
  <2>7. LastIs(h, seen.dens, sum.dens)
    BY <1>0, <2>2, <2>3, <2>4, <2>5, <2>6, LastLeave
  <2> QED BY <2>7 DEF h
<1>3. LastIs(Counts(ring'), seen.step, sum.step)
  <2>1. /\ Counts(ring) \in [1 .. Len(ring) -> Nat] /\ Counts(ring') \in [1 .. Len(ring) - 1 -> Nat]
        /\ \A j \in 1 .. Len(ring) - 1 : Counts(ring')[j] = Counts(ring)[j + 1]
        /\ Counts(ring)[1] = 0
    <3>1. Counts(ring) \in [1 .. Len(ring) -> Nat]
      BY <1>9 DEF Fielded
    <3>2. Counts(ring') \in [1 .. Len(ring) - 1 -> Nat]
      BY <1>0, <1>9 DEF Fielded
    <3>a. ASSUME NEW j \in 1 .. Len(ring) - 1
          PROVE  Counts(ring')[j] = ring'[j].step /\ Counts(ring)[j + 1] = ring[j + 1].step
      <4>1. j \in 1 .. Len(ring') /\ j + 1 \in 1 .. Len(ring)
        BY <1>0
      <4> QED BY <4>1, <1>9 DEF Fielded
    <3>3. \A j \in 1 .. Len(ring) - 1 : j # i => ring'[j].step = ring[j + 1].step
      BY <1>0
    <3>4. Counts(ring)[1] = ring[1].step
      <4>1. 1 \in 1 .. Len(ring)
        BY <1>0
      <4> QED BY <4>1, <1>9 DEF Fielded
    <3> QED BY <1>0, <1>a, <1>h, <3>1, <3>2, <3>a, <3>3, <3>4
  <2>2. seen.step \in Nat /\ sum.step \in Nat /\ LastIs(Counts(ring), seen.step, sum.step)
    BY DEF TypesS, TypesC, Fields, Known
  <2> QED BY <1>0, <2>1, <2>2, LastLeave DEF Keep
<1> QED BY <1>1, <1>2, <1>3 DEF Known, Merges, Next1, theirs

\* What the client knows, with what is in the ring, is what was pushed.
LEMMA KnownInv == ASSUME TypesS, TypesC, RingSound, Waits, Moves, cf \in Configs, cf' = cf,
                         Known, TypesS', TypesC'
                  PROVE  Known'
<1>0. rv' # "terminal" => rv # "terminal" \/ pc = "idle"
  BY DEF Waits
<1>s. ASSUME ring' = ring, seen' = seen, sum' = sum, rv' # "terminal" => rv # "terminal"
      PROVE  Known'
  BY <1>s DEF Known
<1>r. pc # "idle" => rv # "terminal"
  BY DEF Waits
<1>h. ring # <<>> => Sound(Head(ring)) /\ Head(ring) = ring[1] /\ Head(ring) \in Events
  BY Tailed, SMTT(30), SMTT(31) DEF TypesS, RingSound
<1>k. seen \in Fields /\ sum \in Fields /\ seen' \in Fields
  BY DEF TypesS, TypesC
<1>1. ASSUME NEW e \in Events, Plain(e) PROVE Known'
  <2>1. CASE rv # "terminal"
    <3>1. /\ sum'.dim = Keep(e.dim, sum.dim) /\ sum'.dens = Keep(e.dens, sum.dens)
          /\ sum'.step = Keep(e.step, sum.step)
      BY <1>1 DEF Plain, Apply
    <3>2. ring' = Append(ring, e) /\ seen' = seen
      BY <1>1 DEF Plain, Pushes, mine
    <3> QED BY <2>1, <3>1, <3>2, KnownAppend
  <2>2. CASE rv = "terminal"
    BY <1>1, <2>2 DEF Plain, Pushes, mine, Known
  <2> QED BY <2>1, <2>2
<1>2. ASSUME NEW e \in Events, WithFd(e) PROVE Known'
  BY <1>2, <1>s DEF WithFd, Pushes, mine
<1>3. ASSUME NEW e \in Events, Refused(e) PROVE Known'
  BY <1>3, <1>s DEF Refused, Pushes, mine
<1>4. CASE EventIn
  <2>1. CASE rv # "terminal"
    <3>0. sev.dim = 0 /\ sev.dens = 0 /\ sev.step = 0 /\ sev \in Events
      BY <1>4, NoFields DEF EventIn, RingSound, TypesS
    <3>1. /\ sum'.dim = Keep(sev.dim, sum.dim) /\ sum'.dens = Keep(sev.dens, sum.dens)
          /\ sum'.step = Keep(sev.step, sum.step)
      BY <1>4, <3>0 DEF EventIn, Keep
    <3>2. ring' = Append(ring, sev) /\ seen' = seen
      BY <1>4 DEF EventIn, mine
    <3> QED BY <2>1, <3>0, <3>1, <3>2, KnownAppend
  <2>2. CASE rv = "terminal"
    BY <1>4, <2>2 DEF EventIn, mine, Known
  <2> QED BY <2>1, <2>2
<1>5. CASE EventLost
  BY <1>5, <1>s DEF EventLost, mine
<1>6. CASE Pings
  BY <1>6, <1>s DEF Pings, mine
<1>7. CASE Ends
  BY <1>7, <1>s DEF Ends, mine
<1>8. CASE Called
  BY <1>8, <1>s, <1>r DEF Called, theirs, Back
<1>9. CASE Closes
  BY <1>9, <1>s, <1>r DEF Closes, theirs, Back
<1>10. CASE Leaves
  BY <1>10, <1>s, <1>r DEF Leaves, theirs, Back
<1>11. ASSUME NEW f \in Nat, Fetches(f) PROVE Known'
  BY <1>11, <1>s, <1>r DEF Fetches, theirs, Back
<1>12. ASSUME NEW f \in Nat, Gives(f) PROVE Known'
  <2>1. CASE rv' = "terminal"
    BY <2>1 DEF Known
  <2>2. CASE rv' # "terminal"
    <3>1. alive /\ dst.k # "exit" /\ ~consumed /\ rv # "terminal"
      BY <1>12 DEF Waits, Gives
    <3>2. check_dms /\ seen' = Apply(seen, dst)
      BY <1>12, <2>2, <3>1 DEF Gives, Told
    <3>3. dst.dim = 0 /\ dst.dens = 0 /\ dst.step = 0
      BY <1>12, <3>1, <3>2 DEF Waits, Half, Gives
    <3>4. seen' = seen
      BY <1>k, <3>2, <3>3 DEF Apply, Keep, Fields
    <3> QED BY <1>12, <3>1, <3>4, <1>s DEF Gives, theirs
  <2> QED BY <2>1, <2>2
<1>13. ASSUME NEW f \in Nat, Cleans(f) PROVE Known'
  BY <1>13, <1>s, <1>r DEF Cleans, theirs, Back
<1>14. CASE Again
  BY <1>14, <1>s, <1>r DEF Again, theirs, Back
<1>15. CASE Returns
  BY <1>15, <1>s, <1>r DEF Returns, theirs, Back
<1>16. CASE EmptyAgain
  BY <1>16, <1>s, <1>r DEF EmptyAgain, theirs, Back
<1>17. CASE EmptyReturns
  BY <1>17, <1>s, <1>r DEF EmptyReturns, theirs, Back
<1>18. ASSUME NEW i \in 1 .. Len(ring) - 1, Merges(i) PROVE Known'
  <2>1. rv # "terminal"
    BY <1>18, <1>r DEF Merges, Next1
  <2> QED BY <1>18, <2>1, KnownMerge
<1>19. ASSUME NEW i \in 1 .. Len(ring) - 1, Coalesces(i) PROVE Known'
  <2>1. /\ ring # <<>> /\ rv # "terminal" /\ ring' = Tail(ring) /\ seen' = seen /\ sum' = sum
    BY <1>19, <1>r DEF Coalesces, Next1, theirs
  <2>2. Sound(ring[1]) /\ ring[1].k = "step"
    BY <1>19, <2>1, <1>h DEF Coalesces
  <2>3. ring[1].dim = 0 /\ ring[1].dens = 0
    BY <2>2 DEF Sound, IsHint
  <2>4. /\ i + 1 \in 1 .. Len(ring) /\ ring[i + 1].k = "step"
    BY <1>19, <2>1, Tailed, SMTT(30), SMTT(31) DEF Coalesces, TypesS
  <2>5. ring[i + 1].step # 0
    BY <2>4 DEF RingSound, Sound
  <2> QED BY <1>k, <2>1, <2>3, <2>5, KnownTail DEF Keep
<1>20. CASE Unpauses
  <2>1. /\ ring # <<>> /\ rv # "terminal" /\ ring' = Tail(ring) /\ seen' = seen /\ sum' = sum
    BY <1>20, <1>r DEF Unpauses, Next1, theirs
  <2>2. Sound(ring[1]) /\ (HasFd(ring[1]) \/ ring[1].k = "unpause")
    BY <1>20, <2>1, <1>h DEF Unpauses
  <2>3. ring[1].dim = 0 /\ ring[1].dens = 0 /\ ring[1].step = 0
    BY <2>2, NoFields
  <2> QED BY <1>k, <2>1, <2>3, KnownTail DEF Keep
<1>21. CASE TakesFd
  <2>1. /\ ring # <<>> /\ rv # "terminal" /\ ring' = Tail(ring) /\ seen' = seen /\ sum' = sum
    BY <1>21, <1>r DEF TakesFd, Next1, theirs
  <2>2. Sound(ring[1]) /\ (HasFd(ring[1]) \/ ring[1].k = "unpause")
    BY <1>21, <2>1, <1>h DEF TakesFd
  <2>3. ring[1].dim = 0 /\ ring[1].dens = 0 /\ ring[1].step = 0
    BY <2>2, NoFields
  <2> QED BY <1>k, <2>1, <2>3, KnownTail DEF Keep
<1>22. CASE Takes
  <2>1. CASE rv' = "terminal"
    BY <2>1 DEF Known
  <2>2. CASE rv' # "terminal"
    <3>1. /\ ring # <<>> /\ rv # "terminal" /\ ring' = Tail(ring) /\ sum' = sum
          /\ Head(ring) = ring[1]
      BY <1>22, <1>r, <1>h DEF Takes, Next1, theirs
    <3>2. seen' = Apply(seen, ring[1])
      BY <1>22, <2>2, <3>1 DEF Takes, Told
    <3>3. /\ seen'.dim = Keep(ring[1].dim, seen.dim) /\ seen'.dens = Keep(ring[1].dens, seen.dens)
          /\ seen'.step = Keep(ring[1].step, seen.step)
      BY <3>2 DEF Apply
    <3> QED BY <1>k, <3>1, <3>3, KnownTail
  <2> QED BY <2>1, <2>2
<1> QED BY <1>1, <1>2, <1>3, <1>4, <1>5, <1>6, <1>7, <1>8, <1>9, <1>10, <1>11, <1>12, <1>13,
   <1>14, <1>15, <1>16, <1>17, <1>18, <1>19, <1>20, <1>21, <1>22 DEF Moves

-----------------------------------------------------------------------------

LEMMA FrozenConfig == ASSUME Next PROVE cf' = cf
<1>1. CASE Server
  BY <1>1 DEF Server, Push, Pushfd_Event, Push_Ping
<1>2. CASE Client
  BY <1>2 DEF Client, Call, Reset_Hint, Reset, Checkfd, Checkfd_Event, Dequeue_Empty,
     Dequeue_Paused, Pause_Fetch, Dequeue
<1>3. CASE Enqueue \/ Crash \/ Guard
  BY <1>3 DEF Enqueue, Crash, Guard
<1> QED BY <1>1, <1>2, <1>3 DEF Next

LEMMA Stutters == ASSUME IInv, UNCHANGED vars PROVE IInv'
<1>0. /\ cf' = cf /\ ring' = ring /\ sock' = sock /\ spc' = spc /\ sev' = sev /\ sent' = sent /\ sum' = sum
      /\ srv' = srv /\ dms' = dms /\ pc' = pc /\ mode' = mode /\ dst' = dst /\ fd' = fd /\ gotev' = gotev
      /\ consumed' = consumed /\ paused' = paused /\ ph' = ph /\ alive' = alive /\ rv' = rv /\ seen' = seen
  BY DEF vars, server, pev, pause, fds, result
<1>1. /\ Kinds' = Kinds /\ Modes' = Modes /\ Fresh' = Fresh /\ (check_dms' <=> check_dms) /\ (Half' <=> Half)
  BY <1>0 DEF Kinds, Modes, Fresh, check_dms, Half
<1>2. TypesS => TypesS'
  BY <1>0 DEF TypesS
<1>3. TypesC => TypesC'
  BY <1>0 DEF TypesC
<1>4. Unpaused => Unpaused'
  BY <1>0 DEF Unpaused
<1>5. RingSound => RingSound'
  BY <1>0, <1>1 DEF RingSound, Sound, IsHint, HasFd
<1>6. Waits => Waits'
  BY <1>0, <1>1 DEF Waits
<1>7. Known => Known'
  <2>1. Dims(ring)' = Dims(ring) /\ Denses(ring)' = Denses(ring) /\ Counts(ring)' = Counts(ring)
    BY <1>0 DEF Dims, Denses, Counts
  <2>2. Known' <=> Known
    BY <1>0, <2>1 DEF Known, LastIs
  <2> QED BY <2>2
<1> QED BY <1>0, <1>1, <1>2, <1>3, <1>4, <1>5, <1>6, <1>7 DEF IInv

LEMMA InitInv == Init => IInv
<1> SUFFICES ASSUME Init PROVE IInv
  OBVIOUS
<1> USE DEF BADFD
<1>0. None \in Events /\ None.n = 0 /\ None.k = "none" /\ None.dim = 0 /\ None.dens = 0 /\ None.step = 0
  BY DEF None, Event, Events, AllKinds
<1>1. TypesS /\ TypesC
  <2>1. TypesS
    BY <1>0 DEF Init, TypesS, Fields, Nothing
  <2>2. {gotev, consumed, dms, alive} \subseteq BOOLEAN
    BY DEF Init
  <2>3. TypesC
    BY <1>0, <2>2 DEF Init, TypesC, Fields, Nothing
  <2> QED BY <2>1, <2>3
<1>2. Unpaused /\ RingSound
  BY DEF Init, Unpaused, RingSound
<1>3. Waits
  BY <1>0 DEF Init, Waits, Half
<1>4. Known
  <2>1. /\ DOMAIN Dims(ring) = {} /\ DOMAIN Denses(ring) = {} /\ DOMAIN Counts(ring) = {}
        /\ seen.dim = 0 /\ sum.dim = 0 /\ seen.dens = 0 /\ sum.dens = 0 /\ seen.step = 0 /\ sum.step = 0
    BY DEF Init, Dims, Denses, Counts, Nothing
  <2> QED BY <2>1 DEF Known, LastIs
<1> QED BY <1>1, <1>2, <1>3, <1>4 DEF IInv, Init

LEMMA NextInv == IInv /\ [Next]_vars => IInv'
<1> SUFFICES ASSUME IInv, [Next]_vars PROVE IInv'
  OBVIOUS
<1>1. CASE Next
  <2>0. cf' = cf
    BY <1>1, FrozenConfig
  <2> SUFFICES ASSUME "pause" \notin Kinds PROVE IInv'
    BY <2>0 DEF IInv, Kinds
  <2>1. /\ cf \in Configs /\ TypesS /\ TypesC /\ Unpaused /\ RingSound /\ Waits /\ Known
    BY DEF IInv
  <2>2. Moves /\ Unpaused'
    BY <1>1, <2>1, StepsAre
  <2>3. TypesS' /\ TypesC'
    BY <2>0, <2>1, <2>2, TypesServer, TypesClient
  <2>4. RingSound'
    BY <2>0, <2>1, <2>2, SoundInv
  <2>5. Waits'
    BY <2>0, <2>1, <2>2, WaitsInv
  <2>6. Known'
    BY <2>0, <2>1, <2>2, <2>3, KnownInv
  <2> QED BY <2>0, <2>1, <2>2, <2>3, <2>4, <2>5, <2>6 DEF IInv
<1>2. CASE UNCHANGED vars
  BY <1>2, Stutters
<1> QED BY <1>1, <1>2

LEMMA Inductive == Spec => []IInv
  BY InitInv, NextInv, PTL DEF Spec

\* Neither the merging of display hints (scan_disp_event) nor the coalescing of
\* stepframes loses anything, however many events are in the ring: a client
\* that is never paused and has taken all events knows the last size, density
\* and frame that were pushed.
THEOREM HintsAppliedAlways == Spec => []HintsAppliedUnpaused
<1>1. ASSUME IInv PROVE HintsAppliedUnpaused
  <2> SUFFICES ASSUME "pause" \notin Kinds, ring = <<>>, rv # "terminal" PROVE seen = sum
    BY DEF HintsAppliedUnpaused, HintsApplied
  <2>1. Known /\ seen \in Fields /\ sum \in Fields
    BY <1>1 DEF IInv, TypesS, TypesC
  <2>2. DOMAIN Dims(ring) = {} /\ DOMAIN Denses(ring) = {} /\ DOMAIN Counts(ring) = {}
    BY DEF Dims, Denses, Counts
  <2>3. seen.dim = sum.dim /\ seen.dens = sum.dens /\ seen.step = sum.step
    BY <2>1, <2>2 DEF Known, LastIs
  <2> QED BY <2>1, <2>3, SMTT(30), SMTT(31) DEF Fields
<1> QED BY <1>1, Inductive, PTL

-----------------------------------------------------------------------------
(* each descriptor with its own event *)

\* The ring has room for the event of a descriptor already sent.
Room == /\ sent <= Limit /\ Len(ring) <= sent
        /\ spc = "event" => Len(ring) < sent /\ sev.n = sent /\ HasFd(sev)

\* Events are in the ring, and descriptors in the socket, in the order of the
\* pushes; the descriptor and the event taken out are older.
RingOrder ==
  /\ \A i \in 1 .. Len(ring) : ring[i].n <= sent /\ (spc = "event" => ring[i].n < sent)
  /\ \A i, j \in 1 .. Len(ring) : i < j => ring[i].n < ring[j].n

SockOrder ==
  /\ \A i \in 1 .. Len(sock) : sock[i] <= sent
  /\ \A i, j \in 1 .. Len(sock) : i < j /\ sock[i] # 0 /\ sock[j] # 0 => sock[i] < sock[j]
  /\ fd <= sent
  /\ fd # BADFD /\ ~consumed => \A i \in 1 .. Len(sock) : sock[i] # 0 => fd < sock[i]

DstOrder ==
  check_dms /\ Half =>
    /\ HasFd(dst) /\ dst.n # 0 /\ (Fresh => pc = "checkfd")
    /\ dst.n <= sent /\ (spc = "event" => dst.n < sent)
    /\ \A i \in 1 .. Len(ring) : dst.n < ring[i].n

\* Event n waits for its descriptor; descriptor n waits for its event.
EventWaits(n) == \/ \E i \in 1 .. Len(ring) : HasFd(ring[i]) /\ ring[i].n = n
                 \/ spc = "event" /\ sev.n = n
                 \/ Half /\ dst.n = n
FdWaits(n) == \/ \E i \in 1 .. Len(sock) : sock[i] = n
              \/ ~consumed /\ fd = n

Match == check_dms => \A n \in 1 .. sent : EventWaits(n) <=> FdWaits(n)

\* The client holds the one descriptor of pev.
Holds == owned = {fd} \ {BADFD} /\ foreign = FALSE

Paired == Room /\ RingOrder /\ SockOrder /\ DstOrder /\ Match /\ Holds /\ FdPaired

-----------------------------------------------------------------------------

\* What is left of the ring: the same events but the first, up to the fields.
Shrinks == /\ ring # <<>> /\ Len(ring) \in Nat \ {0} /\ Len(ring') = Len(ring) - 1
           /\ \A j \in 1 .. Len(ring) - 1 :
                j + 1 \in 1 .. Len(ring) /\ ring'[j].n = ring[j + 1].n /\ ring'[j].k = ring[j + 1].k

LEMMA MergedRing == ASSUME TypesS, NEW i \in 1 .. Len(ring) - 1, Merges(i)
                    PROVE  Shrinks /\ Len(ring') = Len(ring) - 1
<1> DEFINE r == Tail(ring)
           x == merge_dh(r[i], Head(ring))
<1>1. /\ r \in Seq(Events) /\ Len(r) = Len(ring) - 1 /\ ring' = [r EXCEPT ![i] = x]
      /\ ring # <<>> /\ Len(ring) \in Nat \ {0} /\ ring \in Seq(Events) /\ Head(ring) \in Events
      /\ \A j \in 1 .. Len(ring) - 1 : j + 1 \in 1 .. Len(ring) /\ r[j] = ring[j + 1]
  BY Tailed, SMTT(30), SMTT(31) DEF Merges, Next1, TypesS
<1>2. x \in Events /\ x.n = r[i].n /\ x.k = r[i].k
  <2>1. r[i] \in Events
    BY <1>1
  <2> QED BY <1>1, <2>1 DEF merge_dh, Keep, Events
<1> HIDE DEF r, x
<1>3. /\ Len(ring') = Len(r) /\ ring'[i] = x /\ \A j \in 1 .. Len(r) : j # i => ring'[j] = r[j]
  BY <1>1, <1>2, Replaced, SMTT(30), SMTT(31)
<1>4. ASSUME NEW j \in 1 .. Len(ring) - 1
      PROVE  j + 1 \in 1 .. Len(ring) /\ ring'[j].n = ring[j + 1].n /\ ring'[j].k = ring[j + 1].k
  <2>1. j + 1 \in 1 .. Len(ring) /\ r[j] = ring[j + 1]
    BY <1>1
  <2>2. CASE j = i
    BY <1>2, <1>3, <2>1, <2>2
  <2>3. CASE j # i
    <3>1. ring'[j] = r[j]
      BY <1>1, <1>3, <2>3
    <3> QED BY <2>1, <3>1
  <2> QED BY <2>2, <2>3
<1> QED BY <1>1, <1>3, <1>4 DEF Shrinks

LEMMA TailRing == ASSUME TypesS, ring # <<>>, ring' = Tail(ring) PROVE Shrinks
<1>1. /\ Len(ring) \in Nat \ {0} /\ Len(ring') = Len(ring) - 1
      /\ \A j \in 1 .. Len(ring) - 1 : j + 1 \in 1 .. Len(ring) /\ ring'[j] = ring[j + 1]
  BY Tailed, SMTT(30), SMTT(31) DEF TypesS
<1> QED BY <1>1 DEF Shrinks

LEMMA NumberTypes == ASSUME TypesS
                     PROVE  /\ \A i \in 1 .. Len(ring) : ring[i] \in Events /\ ring[i].n \in Nat
                            /\ \A i \in 1 .. Len(sock) : sock[i] \in Nat
                            /\ Len(ring) \in Nat /\ Len(sock) \in Nat
<1>1. \A i \in 1 .. Len(ring) : ring[i] \in Events
  BY DEF TypesS
<1>2. \A i \in 1 .. Len(ring) : ring[i].n \in Nat
  BY <1>1 DEF Events
<1> QED BY <1>1, <1>2 DEF TypesS

\* The other end of the socket: what Reads leaves there
LEMMA ReadSock == ASSUME TypesS, TypesC, SockOrder, ~consumed, NEW f, Reads(f)
                  PROVE  /\ f \in Nat /\ f <= sent /\ Len(sock') \in Nat
                         /\ \A i \in 1 .. Len(sock') : sock'[i] \in Nat /\ sock'[i] <= sent
                         /\ \A i, j \in 1 .. Len(sock') :
                              i < j /\ sock'[i] # 0 /\ sock'[j] # 0 => sock'[i] < sock'[j]
                         /\ f # 0 => \A i \in 1 .. Len(sock') : sock'[i] # 0 => f < sock'[i]
                         /\ \A n \in Nat \ {0} :
                              (\E i \in 1 .. Len(sock) : sock[i] = n) \/ fd = n
                                <=> (\E i \in 1 .. Len(sock') : sock'[i] = n) \/ f = n
<1> USE DEF BADFD
<1>0. fd \in Nat /\ sent \in Nat
  BY DEF TypesS, TypesC
<1>1. CASE sock' = sock /\ f = fd
  BY <1>0, <1>1, NumberTypes DEF SockOrder
<1>2. CASE fd = 0 /\ sock # <<>> /\ f = Head(sock) /\ sock' = Tail(sock)
  <2>1. /\ Len(sock) \in Nat \ {0} /\ Len(sock') = Len(sock) - 1 /\ f = sock[1]
        /\ \A i \in 1 .. Len(sock) - 1 : i + 1 \in 1 .. Len(sock) /\ sock'[i] = sock[i + 1]
    BY <1>2, Tailed, SMTT(30), SMTT(31) DEF TypesS
  <2>2. f \in Nat /\ f <= sent
    BY <2>1, NumberTypes, SMTT(30), SMTT(31) DEF SockOrder
  <2>3. \A i \in 1 .. Len(sock') : sock'[i] \in Nat /\ sock'[i] <= sent
    BY <2>1, NumberTypes DEF SockOrder
  <2>4. ASSUME NEW i \in 1 .. Len(sock'), NEW j \in 1 .. Len(sock'), i < j, sock'[i] # 0, sock'[j] # 0
        PROVE  sock'[i] < sock'[j]
    <3>1. i + 1 \in 1 .. Len(sock) /\ j + 1 \in 1 .. Len(sock) /\ i + 1 < j + 1
      BY <2>1, <2>4
    <3>2. sock'[i] = sock[i + 1] /\ sock'[j] = sock[j + 1]
      BY <2>1
    <3> QED BY <2>4, <3>1, <3>2 DEF SockOrder
  <2>5. ASSUME f # 0, NEW i \in 1 .. Len(sock'), sock'[i] # 0 PROVE f < sock'[i]
    <3>1. i + 1 \in 1 .. Len(sock) /\ 1 \in 1 .. Len(sock) /\ 1 < i + 1 /\ sock'[i] = sock[i + 1]
      BY <2>1
    <3> QED BY <2>1, <2>5, <3>1 DEF SockOrder
  <2>6. ASSUME NEW n \in Nat \ {0}
        PROVE  (\E i \in 1 .. Len(sock) : sock[i] = n) \/ fd = n
                 <=> (\E i \in 1 .. Len(sock') : sock'[i] = n) \/ f = n
    <3>1. ASSUME NEW i \in 1 .. Len(sock), sock[i] = n
          PROVE  (\E j \in 1 .. Len(sock') : sock'[j] = n) \/ f = n
      <4>1. CASE i = 1
        BY <2>1, <3>1, <4>1
      <4>2. CASE i # 1
        <5>1. i - 1 \in 1 .. Len(sock') /\ i - 1 \in 1 .. Len(sock) - 1 /\ (i - 1) + 1 = i
          BY <2>1, <4>2
        <5>2. sock'[i - 1] = n
          BY <2>1, <3>1, <5>1
        <5> QED BY <5>1, <5>2
      <4> QED BY <4>1, <4>2
    <3>2. ASSUME NEW i \in 1 .. Len(sock'), sock'[i] = n
          PROVE  \E j \in 1 .. Len(sock) : sock[j] = n
      <4>1. i + 1 \in 1 .. Len(sock) /\ sock[i + 1] = n
        BY <2>1, <3>2
      <4> QED BY <4>1
    <3>3. f = n => \E j \in 1 .. Len(sock) : sock[j] = n
      <4>1. 1 \in 1 .. Len(sock)
        BY <2>1
      <4> QED BY <2>1, <4>1
    <3> QED BY <1>2, <3>1, <3>2, <3>3
  <2> QED BY <2>1, <2>2, <2>3, <2>4, <2>5, <2>6, SMTT(30), SMTT(31)
<1> QED BY <1>1, <1>2 DEF Reads

\* The ring has room.
LEMMA RoomInv == ASSUME TypesS, TypesC, RingSound, Waits, Moves, cf \in Configs, cf' = cf,
                        Undisturbed, Room
                 PROVE  Room'
<1>0. /\ Limit' = Limit /\ Limit \in Nat /\ Q' = Q /\ Q \in Nat /\ Limit <= Q
      /\ Len(ring) \in Nat /\ sent \in Nat
  BY Bounds, SMTT(30), SMTT(31) DEF Limit, Q, Undisturbed, TypesS
<1>s. ASSUME ring' = ring, sent' = sent, spc' = "event" => spc = "event" /\ sev' = sev PROVE Room'
  BY <1>0, <1>s DEF Room, HasFd
<1>t. ASSUME Len(ring') = Len(ring) - 1, sent' = sent, spc' = spc, sev' = sev PROVE Room'
  BY <1>0, <1>t DEF Room, HasFd
<1>1. ASSUME NEW e \in Events, Plain(e) PROVE Room'
  <2>1. Len(ring') = Len(ring) + 1
    BY <1>1, RingGrows DEF Plain
  <2> QED BY <1>1, <1>0, <2>1 DEF Plain, Pushes, Room
<1>2. ASSUME NEW e \in Events, WithFd(e) PROVE Room'
  BY <1>2, <1>0 DEF WithFd, Pushes, Room, HasFd
<1>3. ASSUME NEW e \in Events, Refused(e) PROVE Room'
  BY <1>3, <1>0 DEF Refused, Pushes, Room
<1>4. CASE EventIn
  <2>1. Len(ring') = Len(ring) + 1
    BY <1>4, RingGrows DEF EventIn, TypesS
  <2> QED BY <1>4, <1>0, <2>1 DEF EventIn, Room
<1>5. CASE EventLost
  BY <1>5, <1>s DEF EventLost
<1>6. CASE Pings
  BY <1>6, <1>s DEF Pings
<1>7. CASE Ends
  BY <1>7, <1>s DEF Ends
<1>8. CASE Called
  BY <1>8, <1>s DEF Called, theirs
<1>9. CASE Closes
  BY <1>9, <1>s DEF Closes, theirs
<1>10. CASE Leaves
  BY <1>10, <1>s DEF Leaves, theirs
<1>11. ASSUME NEW f \in Nat, Fetches(f) PROVE Room'
  BY <1>11, <1>s DEF Fetches, theirs
<1>12. ASSUME NEW f \in Nat, Gives(f) PROVE Room'
  BY <1>12, <1>s DEF Gives, theirs
<1>13. ASSUME NEW f \in Nat, Cleans(f) PROVE Room'
  BY <1>13, <1>s DEF Cleans, theirs
<1>14. CASE Again
  BY <1>14, <1>s DEF Again, theirs
<1>15. CASE Returns
  BY <1>15, <1>s DEF Returns, theirs
<1>16. CASE EmptyAgain
  BY <1>16, <1>s DEF EmptyAgain, theirs
<1>17. CASE EmptyReturns
  BY <1>17, <1>s DEF EmptyReturns, theirs
<1>18. ASSUME NEW i \in 1 .. Len(ring) - 1, Merges(i) PROVE Room'
  <2>1. Len(ring') = Len(ring) - 1
    BY <1>18, MergedRing
  <2> QED BY <1>18, <1>t, <2>1 DEF Merges, Next1, theirs
<1>19. ASSUME NEW i \in 1 .. Len(ring) - 1, Coalesces(i) PROVE Room'
  BY <1>19, <1>t, Tailed DEF Coalesces, Next1, theirs, TypesS
<1>20. CASE Unpauses
  BY <1>20, <1>t, Tailed DEF Unpauses, Next1, theirs, TypesS
<1>21. CASE TakesFd
  BY <1>21, <1>t, Tailed DEF TakesFd, Next1, theirs, TypesS
<1>22. CASE Takes
  BY <1>22, <1>t, Tailed DEF Takes, Next1, theirs, TypesS
<1> QED BY <1>1, <1>2, <1>3, <1>4, <1>5, <1>6, <1>7, <1>8, <1>9, <1>10, <1>11, <1>12, <1>13,
   <1>14, <1>15, <1>16, <1>17, <1>18, <1>19, <1>20, <1>21, <1>22 DEF Moves

\* The order of the ring
LEMMA RingOrderInv == ASSUME TypesS, TypesC, RingSound, Waits, Moves, cf \in Configs,
                             cf' = cf, Undisturbed, Room, RingOrder
                      PROVE  RingOrder'
<1>0. sent \in Nat /\ sev.n \in Nat /\ \A i \in 1 .. Len(ring) : ring[i].n \in Nat
  BY NumberTypes DEF TypesS, Events
<1>s. ASSUME ring' = ring, sent' = sent, spc' = "event" => spc = "event" PROVE RingOrder'
  BY <1>s DEF RingOrder
<1>a. ASSUME ring' = ring, sent' = sent + 1 PROVE RingOrder'
  BY <1>0, <1>a DEF RingOrder
<1>g. ASSUME NEW e \in Events, ring' = Append(ring, e), e.n <= sent', sent <= sent', sent' \in Nat,
             \A i \in 1 .. Len(ring) : ring[i].n < e.n, spc' # "event"
      PROVE  RingOrder'
  <2>1. /\ Len(ring) \in Nat /\ Len(ring') = Len(ring) + 1 /\ ring'[Len(ring) + 1] = e
        /\ \A i \in 1 .. Len(ring) : ring'[i] = ring[i]
        /\ \A i \in 1 .. Len(ring') : i = Len(ring) + 1 \/ i \in 1 .. Len(ring)
    BY <1>g, RingGrows
  <2>2. ASSUME NEW i \in 1 .. Len(ring') PROVE ring'[i].n <= sent'
    <3>1. CASE i = Len(ring) + 1
      BY <1>g, <2>1, <3>1
    <3>2. CASE i \in 1 .. Len(ring)
      <4>1. ring'[i] = ring[i] /\ ring[i].n <= sent
        BY <2>1, <3>2 DEF RingOrder
      <4> QED BY <1>0, <1>g, <3>2, <4>1
    <3> QED BY <2>1, <3>1, <3>2
  <2>3. ASSUME NEW i \in 1 .. Len(ring'), NEW j \in 1 .. Len(ring'), i < j
        PROVE  ring'[i].n < ring'[j].n
    <3>1. i \in 1 .. Len(ring) /\ ring'[i] = ring[i]
      BY <2>1, <2>3
    <3>2. CASE j = Len(ring) + 1
      BY <1>g, <2>1, <3>1, <3>2
    <3>3. CASE j \in 1 .. Len(ring)
      BY <2>1, <2>3, <3>1, <3>3 DEF RingOrder
    <3> QED BY <2>1, <3>2, <3>3
  <2> QED BY <1>g, <2>2, <2>3 DEF RingOrder
<1>t. ASSUME Shrinks, sent' = sent, spc' = spc PROVE RingOrder'
  <2>1. ASSUME NEW i \in 1 .. Len(ring')
        PROVE  ring'[i].n <= sent' /\ (spc' = "event" => ring'[i].n < sent')
    <3>1. i + 1 \in 1 .. Len(ring) /\ ring'[i].n = ring[i + 1].n
      BY <1>t DEF Shrinks
    <3> QED BY <1>t, <3>1 DEF RingOrder
  <2>2. ASSUME NEW i \in 1 .. Len(ring'), NEW j \in 1 .. Len(ring'), i < j
        PROVE  ring'[i].n < ring'[j].n
    <3>1. /\ i + 1 \in 1 .. Len(ring) /\ ring'[i].n = ring[i + 1].n
          /\ j + 1 \in 1 .. Len(ring) /\ ring'[j].n = ring[j + 1].n /\ i + 1 < j + 1
      BY <1>t, <2>2 DEF Shrinks
    <3> QED BY <3>1 DEF RingOrder
  <2> QED BY <2>1, <2>2 DEF RingOrder
<1>1. ASSUME NEW e \in Events, Plain(e) PROVE RingOrder'
  <2>1. /\ ring' = Append(ring, e) /\ e.n = sent + 1 /\ sent' = sent + 1 /\ spc' # "event"
    BY <1>1 DEF Plain, Pushes
  <2>2. \A i \in 1 .. Len(ring) : ring[i].n < e.n
    BY <1>0, <2>1 DEF RingOrder
  <2> QED BY <1>0, <2>1, <2>2, <1>g
<1>2. ASSUME NEW e \in Events, WithFd(e) PROVE RingOrder'
  BY <1>2, <1>a DEF WithFd, Pushes
<1>3. ASSUME NEW e \in Events, Refused(e) PROVE RingOrder'
  BY <1>3, <1>a DEF Refused, Pushes
<1>4. CASE EventIn
  <2>1. /\ ring' = Append(ring, sev) /\ sev.n = sent /\ sent' = sent /\ spc' # "event" /\ sev \in Events
    BY <1>4 DEF EventIn, Room, TypesS
  <2>2. \A i \in 1 .. Len(ring) : ring[i].n < sev.n
    BY <1>4, <1>0, <2>1 DEF RingOrder, EventIn
  <2> QED BY <1>0, <2>1, <2>2, <1>g
<1>5. CASE EventLost
  BY <1>5, <1>s DEF EventLost
<1>6. CASE Pings
  BY <1>6, <1>s DEF Pings
<1>7. CASE Ends
  BY <1>7, <1>s DEF Ends
<1>8. CASE Called
  BY <1>8, <1>s DEF Called, theirs
<1>9. CASE Closes
  BY <1>9, <1>s DEF Closes, theirs
<1>10. CASE Leaves
  BY <1>10, <1>s DEF Leaves, theirs
<1>11. ASSUME NEW f \in Nat, Fetches(f) PROVE RingOrder'
  BY <1>11, <1>s DEF Fetches, theirs
<1>12. ASSUME NEW f \in Nat, Gives(f) PROVE RingOrder'
  BY <1>12, <1>s DEF Gives, theirs
<1>13. ASSUME NEW f \in Nat, Cleans(f) PROVE RingOrder'
  BY <1>13, <1>s DEF Cleans, theirs
<1>14. CASE Again
  BY <1>14, <1>s DEF Again, theirs
<1>15. CASE Returns
  BY <1>15, <1>s DEF Returns, theirs
<1>16. CASE EmptyAgain
  BY <1>16, <1>s DEF EmptyAgain, theirs
<1>17. CASE EmptyReturns
  BY <1>17, <1>s DEF EmptyReturns, theirs
<1>18. ASSUME NEW i \in 1 .. Len(ring) - 1, Merges(i) PROVE RingOrder'
  <2>1. Shrinks /\ sent' = sent /\ spc' = spc
    BY <1>18, MergedRing DEF Merges, Next1, theirs
  <2> QED BY <2>1, <1>t
<1>19. ASSUME NEW i \in 1 .. Len(ring) - 1, Coalesces(i) PROVE RingOrder'
  <2>1. Shrinks /\ sent' = sent /\ spc' = spc
    BY <1>19, TailRing DEF Coalesces, Next1, theirs
  <2> QED BY <2>1, <1>t
<1>20. CASE Unpauses
  <2>1. Shrinks /\ sent' = sent /\ spc' = spc
    BY <1>20, TailRing DEF Unpauses, Next1, theirs
  <2> QED BY <2>1, <1>t
<1>21. CASE TakesFd
  <2>1. Shrinks /\ sent' = sent /\ spc' = spc
    BY <1>21, TailRing DEF TakesFd, Next1, theirs
  <2> QED BY <2>1, <1>t
<1>22. CASE Takes
  <2>1. Shrinks /\ sent' = sent /\ spc' = spc
    BY <1>22, TailRing DEF Takes, Next1, theirs
  <2> QED BY <2>1, <1>t
<1> QED BY <1>1, <1>2, <1>3, <1>4, <1>5, <1>6, <1>7, <1>8, <1>9, <1>10, <1>11, <1>12, <1>13,
   <1>14, <1>15, <1>16, <1>17, <1>18, <1>19, <1>20, <1>21, <1>22 DEF Moves

\* The order of the socket
LEMMA SockOrderInv == ASSUME TypesS, TypesC, RingSound, Waits, Moves, cf \in Configs,
                             cf' = cf, Undisturbed, Room, SockOrder
                      PROVE  SockOrder'
<1> USE DEF BADFD
<1>0. sent \in Nat /\ fd \in Nat /\ \A i \in 1 .. Len(sock) : sock[i] \in Nat
  BY NumberTypes DEF TypesS, TypesC
<1>s. ASSUME sock' = sock, fd' = fd, consumed' = consumed, sent' = sent PROVE SockOrder'
  BY <1>s DEF SockOrder
<1>a. ASSUME sock' = sock, fd' = fd, consumed' = consumed, sent' = sent + 1 PROVE SockOrder'
  BY <1>0, <1>a DEF SockOrder
<1>f. ASSUME sock' = sock, fd' = 0, sent' = sent PROVE SockOrder'
  BY <1>0, <1>f DEF SockOrder
<1>g. ASSUME NEW n \in Nat, sock' = Append(sock, n), n <= sent', sent <= sent', sent' \in Nat,
             n # 0 => n = sent + 1, fd' = fd, consumed' = consumed
      PROVE  SockOrder'
  <2>1. /\ Len(sock) \in Nat /\ Len(sock') = Len(sock) + 1 /\ sock'[Len(sock) + 1] = n
        /\ \A i \in 1 .. Len(sock) : sock'[i] = sock[i]
        /\ \A i \in 1 .. Len(sock') : i = Len(sock) + 1 \/ i \in 1 .. Len(sock)
    BY <1>g, SockGrows
  <2>2. ASSUME NEW i \in 1 .. Len(sock')
        PROVE  sock'[i] <= sent' /\ (fd' # 0 /\ ~consumed' /\ sock'[i] # 0 => fd' < sock'[i])
    <3>1. CASE i = Len(sock) + 1
      <4>1. sock'[i] = n /\ (n # 0 => fd < n)
        BY <1>0, <1>g, <2>1, <3>1 DEF SockOrder
      <4> QED BY <1>g, <4>1
    <3>2. CASE i \in 1 .. Len(sock)
      <4>1. sock'[i] = sock[i] /\ sock[i] <= sent /\ (fd # 0 /\ ~consumed /\ sock[i] # 0 => fd < sock[i])
        BY <2>1, <3>2 DEF SockOrder
      <4> QED BY <1>0, <1>g, <3>2, <4>1
    <3> QED BY <2>1, <3>1, <3>2
  <2>3. ASSUME NEW i \in 1 .. Len(sock'), NEW j \in 1 .. Len(sock'), i < j, sock'[i] # 0, sock'[j] # 0
        PROVE  sock'[i] < sock'[j]
    <3>1. i \in 1 .. Len(sock) /\ sock'[i] = sock[i] /\ sock[i] <= sent
      BY <2>1, <2>3 DEF SockOrder
    <3>2. CASE j = Len(sock) + 1
      BY <1>0, <1>g, <2>1, <2>3, <3>1, <3>2
    <3>3. CASE j \in 1 .. Len(sock)
      <4>1. sock'[j] = sock[j]
        BY <2>1, <3>3
      <4> QED BY <2>3, <3>1, <3>3, <4>1 DEF SockOrder
    <3> QED BY <2>1, <3>2, <3>3
  <2>4. fd' <= sent'
    BY <1>0, <1>g DEF SockOrder
  <2> QED BY <2>2, <2>3, <2>4 DEF SockOrder
<1>r. ASSUME NEW f, Reads(f), ~consumed, sent' = sent, fd' = f \/ fd' = 0 PROVE SockOrder'
  BY <1>0, <1>r, ReadSock DEF SockOrder
<1>z. ASSUME Reads(0), ~consumed, sent' = sent, fd' = fd PROVE SockOrder'
  <2>1. fd = 0
    BY <1>z DEF Reads
  <2> QED BY <1>r, <1>z, <2>1
<1>1. ASSUME NEW e \in Events, Plain(e) PROVE SockOrder'
  BY <1>1, <1>a DEF Plain, Pushes, mine
<1>2. ASSUME NEW e \in Events, WithFd(e) PROVE SockOrder'
  <2>1. e.n = sent + 1 /\ sent' = sent + 1 /\ sock' = Append(sock, e.n) /\ fd' = fd /\ consumed' = consumed
    BY <1>2 DEF WithFd, Pushes, mine
  <2> QED BY <1>0, <1>g, <2>1
<1>3. ASSUME NEW e \in Events, Refused(e) PROVE SockOrder'
  BY <1>3, <1>a DEF Refused, Pushes, mine
<1>4. CASE EventIn
  BY <1>4, <1>s DEF EventIn, mine
<1>5. CASE EventLost
  BY <1>5, <1>s DEF EventLost, mine
<1>6. CASE Pings
  <2>1. CASE sock' = sock
    BY <1>6, <2>1, <1>s DEF Pings, mine
  <2>2. CASE sock' = Append(sock, 0)
    BY <1>6, <2>2, <1>0, <1>g DEF Pings, mine
  <2> QED BY <1>6, <2>1, <2>2 DEF Pings
<1>7. CASE Ends
  BY <1>7, <1>s DEF Ends, mine
<1>8. CASE Called
  BY <1>8, <1>s DEF Called, theirs
<1>9. CASE Closes
  BY <1>9, <1>f DEF Closes, theirs
<1>10. CASE Leaves
  BY <1>10, <1>s DEF Leaves, theirs
<1>11. ASSUME NEW f \in Nat, Fetches(f) PROVE SockOrder'
  <2>1. ~consumed
    BY <1>11 DEF Fetches, Waits
  <2> QED BY <1>11, <2>1, <1>r DEF Fetches, theirs
<1>12. ASSUME NEW f \in Nat, Gives(f) PROVE SockOrder'
  <2>1. ~consumed
    BY <1>12 DEF Gives, Waits
  <2> QED BY <1>12, <2>1, <1>r DEF Gives, theirs
<1>13. ASSUME NEW f \in Nat, Cleans(f) PROVE SockOrder'
  <2>1. ~consumed
    BY <1>13 DEF Cleans, Waits
  <2> QED BY <1>13, <2>1, <1>r DEF Cleans, theirs
<1>14. CASE Again
  <2>1. ~consumed
    BY <1>14 DEF Again, Waits
  <2> QED BY <1>14, <2>1, <1>z DEF Again, theirs
<1>15. CASE Returns
  <2>1. ~consumed
    BY <1>15 DEF Returns, Waits
  <2> QED BY <1>15, <2>1, <1>z DEF Returns, theirs
<1>16. CASE EmptyAgain
  BY <1>16, <1>s DEF EmptyAgain, theirs
<1>17. CASE EmptyReturns
  BY <1>17, <1>s DEF EmptyReturns, theirs
<1>18. ASSUME NEW i \in 1 .. Len(ring) - 1, Merges(i) PROVE SockOrder'
  BY <1>18, <1>s DEF Merges, Next1, theirs
<1>19. ASSUME NEW i \in 1 .. Len(ring) - 1, Coalesces(i) PROVE SockOrder'
  BY <1>19, <1>s DEF Coalesces, Next1, theirs
<1>20. CASE Unpauses
  BY <1>20, <1>s DEF Unpauses, Next1, theirs
<1>21. CASE TakesFd
  BY <1>21, <1>s DEF TakesFd, Next1, theirs
<1>22. CASE Takes
  BY <1>22, <1>s DEF Takes, Next1, theirs
<1> QED BY <1>1, <1>2, <1>3, <1>4, <1>5, <1>6, <1>7, <1>8, <1>9, <1>10, <1>11, <1>12, <1>13,
   <1>14, <1>15, <1>16, <1>17, <1>18, <1>19, <1>20, <1>21, <1>22 DEF Moves

\* The event that waits for its descriptor is older than those in the ring.
LEMMA DstOrderInv == ASSUME TypesS, TypesC, RingSound, Waits, Moves, cf \in Configs,
                            cf' = cf, Undisturbed, Room,
                        RingOrder, DstOrder
                     PROVE  DstOrder'
<1>0. /\ sent \in Nat /\ sev.n \in Nat /\ dst.n \in Nat /\ Fresh' = Fresh
      /\ \A i \in 1 .. Len(ring) : ring[i].n \in Nat
  BY NumberTypes DEF TypesS, TypesC, Events, Fresh
<1>n. ASSUME ~Half' \/ ~check_dms' PROVE DstOrder'
  BY <1>n DEF DstOrder
<1>s. ASSUME check_dms' => check_dms, Half' => Half, dst' = dst, ring' = ring, sent' = sent,
             spc' = "event" => spc = "event", pc' = "checkfd" \/ pc' = pc \/ ~Fresh
      PROVE  DstOrder'
  BY <1>0, <1>s DEF DstOrder, HasFd
<1>a. ASSUME check_dms' => check_dms, Half' => Half, dst' = dst, ring' = ring, sent' = sent + 1, pc' = pc
      PROVE  DstOrder'
  BY <1>0, <1>a DEF DstOrder, HasFd
<1>g. ASSUME check_dms' => check_dms, Half' => Half, dst' = dst, pc' = pc, spc' # "event",
             NEW e \in Events, ring' = Append(ring, e), sent <= sent', sent' \in Nat,
             e.n = sent + 1 \/ (spc = "event" /\ e.n = sent)
      PROVE  DstOrder'
  <2> SUFFICES ASSUME check_dms', Half' PROVE DstOrder'
    BY <1>n
  <2>0. /\ HasFd(dst) /\ dst.n # 0 /\ (Fresh => pc = "checkfd")
        /\ dst.n <= sent /\ (spc = "event" => dst.n < sent)
        /\ \A i \in 1 .. Len(ring) : dst.n < ring[i].n
    BY <1>g DEF DstOrder
  <2>1. dst.n < e.n
    BY <1>0, <1>g, <2>0
  <2>2. /\ Len(ring') = Len(ring) + 1 /\ ring'[Len(ring) + 1] = e
        /\ \A i \in 1 .. Len(ring) : ring'[i] = ring[i]
        /\ \A i \in 1 .. Len(ring') : i = Len(ring) + 1 \/ i \in 1 .. Len(ring)
    BY <1>g, RingGrows
  <2>3. ASSUME NEW i \in 1 .. Len(ring') PROVE dst.n < ring'[i].n
    BY <2>0, <2>1, <2>2
  <2>4. dst.n <= sent'
    BY <1>0, <1>g, <2>0
  <2> QED BY <1>0, <1>g, <2>0, <2>3, <2>4 DEF DstOrder, HasFd
<1>d. ASSUME pc = "dequeue", gotev' = gotev, check_dms' => check_dms PROVE DstOrder'
  BY <1>n, <1>d DEF Waits, Half
<1>1. ASSUME NEW e \in Events, Plain(e) PROVE DstOrder'
  <2>1. /\ ring' = Append(ring, e) /\ e.n = sent + 1 /\ sent' = sent + 1 /\ spc' # "event"
        /\ (check_dms' => check_dms) /\ (Half' => Half) /\ dst' = dst /\ pc' = pc
    BY <1>1 DEF Plain, Pushes, mine, check_dms, Half
  <2>2. sent <= sent' /\ sent' \in Nat
    BY <1>0, <2>1
  <2> QED BY <1>g, <2>1, <2>2
<1>2. ASSUME NEW e \in Events, WithFd(e) PROVE DstOrder'
  BY <1>2, <1>a DEF WithFd, Pushes, mine, check_dms, Half
<1>3. ASSUME NEW e \in Events, Refused(e) PROVE DstOrder'
  BY <1>3, <1>a DEF Refused, Pushes, mine, check_dms, Half
<1>4. CASE EventIn
  <2>1. /\ ring' = Append(ring, sev) /\ sev.n = sent /\ sent' = sent /\ spc' # "event"
        /\ sev \in Events /\ spc = "event"
        /\ (check_dms' => check_dms) /\ (Half' => Half) /\ dst' = dst /\ pc' = pc
    BY <1>4 DEF EventIn, Room, TypesS, mine, check_dms, Half
  <2>2. sent <= sent' /\ sent' \in Nat
    BY <1>0, <2>1
  <2> QED BY <1>g, <2>1, <2>2
<1>5. CASE EventLost
  BY <1>5, <1>s DEF EventLost, mine, check_dms, Half
<1>6. CASE Pings
  BY <1>6, <1>s DEF Pings, mine, check_dms, Half
<1>7. CASE Ends
  <2>1. CASE dms' = dms
    BY <1>7, <2>1, <1>s DEF Ends, mine, check_dms, Half
  <2>2. CASE dms' = FALSE
    BY <2>2, <1>n DEF check_dms
  <2> QED BY <1>7, <2>1, <2>2 DEF Ends
<1>8. CASE Called
  <2>1. CASE Fresh
    <3>1. ~(check_dms /\ Half)
      BY <1>8, <2>1 DEF Called, DstOrder
    <3> QED BY <1>8, <1>n, <3>1 DEF Called, theirs, check_dms, Half
  <2>2. CASE ~Fresh
    BY <1>8, <1>s, <2>2 DEF Called, theirs, check_dms, Half
  <2> QED BY <2>1, <2>2
<1>9. CASE Closes
  BY <1>9, <1>n DEF Closes, Half
<1>10. CASE Leaves
  BY <1>10, <1>s DEF Leaves, theirs, check_dms, Half
<1>11. ASSUME NEW f \in Nat, Fetches(f) PROVE DstOrder'
  BY <1>11, <1>n DEF Fetches, Half
<1>12. ASSUME NEW f \in Nat, Gives(f) PROVE DstOrder'
  BY <1>12, <1>n DEF Gives, Half
<1>13. ASSUME NEW f \in Nat, Cleans(f) PROVE DstOrder'
  BY <1>13, <1>n DEF Cleans, Half
<1>14. CASE Again
  <2>1. CASE check_dms
    BY <1>14, <1>s, <2>1 DEF Again, theirs, check_dms, Half
  <2>2. CASE ~check_dms
    BY <1>14, <1>n, <2>2 DEF Again, theirs, check_dms
  <2> QED BY <2>1, <2>2
<1>15. CASE Returns
  <2>1. ~Fresh
    BY <1>15 DEF Returns, Waits, Undisturbed
  <2> QED BY <1>15, <1>s, <2>1 DEF Returns, theirs, check_dms, Half
<1>16. CASE EmptyAgain
  BY <1>16, <1>d DEF EmptyAgain, theirs, check_dms
<1>17. CASE EmptyReturns
  BY <1>17, <1>d DEF EmptyReturns, theirs, check_dms
<1>18. ASSUME NEW i \in 1 .. Len(ring) - 1, Merges(i) PROVE DstOrder'
  BY <1>18, <1>d DEF Merges, Next1, theirs, check_dms
<1>19. ASSUME NEW i \in 1 .. Len(ring) - 1, Coalesces(i) PROVE DstOrder'
  BY <1>19, <1>d DEF Coalesces, Next1, theirs, check_dms
<1>20. CASE Unpauses
  BY <1>20, <1>d DEF Unpauses, Next1, theirs, check_dms
<1>21. CASE TakesFd
  <2>1. Shrinks /\ sent' = sent /\ spc' = spc /\ dst' = Head(ring) /\ pc' = "checkfd" /\ HasFd(Head(ring))
    BY <1>21, TailRing DEF TakesFd, Next1, theirs
  <2>2. 1 \in 1 .. Len(ring) /\ Head(ring) = ring[1]
    BY <2>1, Tailed, SMTT(30), SMTT(31) DEF Shrinks, TypesS
  <2>3. dst'.n # 0 /\ dst'.n <= sent /\ (spc = "event" => dst'.n < sent) /\ HasFd(dst)'
    BY <2>1, <2>2 DEF RingSound, Sound, RingOrder, HasFd
  <2>4. ASSUME NEW i \in 1 .. Len(ring') PROVE dst'.n < ring'[i].n
    <3>1. i + 1 \in 1 .. Len(ring) /\ 1 < i + 1 /\ ring'[i].n = ring[i + 1].n
      BY <2>1 DEF Shrinks
    <3> QED BY <2>1, <2>2, <3>1 DEF RingOrder
  <2> QED BY <2>1, <2>3, <2>4 DEF DstOrder
<1>22. CASE Takes
  BY <1>22, <1>d DEF Takes, Next1, theirs, check_dms
<1> QED BY <1>1, <1>2, <1>3, <1>4, <1>5, <1>6, <1>7, <1>8, <1>9, <1>10, <1>11, <1>12, <1>13,
   <1>14, <1>15, <1>16, <1>17, <1>18, <1>19, <1>20, <1>21, <1>22 DEF Moves

\* The client holds the descriptor of pev, and closes no other.
LEMMA HoldsInv == ASSUME TypesS, TypesC, RingSound, Waits, Moves, cf \in Configs, cf' = cf,
                         Undisturbed, Room, Holds
                  PROVE  Holds'
<1> USE DEF BADFD
<1>s. ASSUME owned' = owned, foreign' = foreign, fd' = fd PROVE Holds'
  BY <1>s DEF Holds
<1>r. ASSUME NEW f, Reads(f), Owns(f), foreign' = foreign, fd' = f PROVE Holds'
  <2>1. CASE fd # 0
    <3>1. f = fd /\ owned' = owned
      BY <1>r, <2>1 DEF Reads, Owns
    <3> QED BY <1>r, <3>1 DEF Holds
  <2>2. CASE fd = 0
    <3>1. owned = {} /\ owned' = owned \cup ({f} \ {0})
      BY <1>r, <2>2 DEF Owns, Holds
    <3> QED BY <1>r, <3>1 DEF Holds
  <2> QED BY <2>1, <2>2
<1>z. ASSUME Reads(0), Owns(0), foreign' = foreign, fd' = fd PROVE Holds'
  <2>1. fd = 0
    BY <1>z DEF Reads
  <2> QED BY <1>r, <1>z, <2>1
<1>1. ASSUME NEW e \in Events, Plain(e) PROVE Holds'
  BY <1>1, <1>s DEF Plain, Pushes, mine
<1>2. ASSUME NEW e \in Events, WithFd(e) PROVE Holds'
  BY <1>2, <1>s DEF WithFd, Pushes, mine
<1>3. ASSUME NEW e \in Events, Refused(e) PROVE Holds'
  BY <1>3, <1>s DEF Refused, Pushes, mine
<1>4. CASE EventIn
  BY <1>4, <1>s DEF EventIn, mine
<1>5. CASE EventLost
  BY <1>5, <1>s DEF EventLost, mine
<1>6. CASE Pings
  BY <1>6, <1>s DEF Pings, mine
<1>7. CASE Ends
  BY <1>7, <1>s DEF Ends, mine
<1>8. CASE Called
  BY <1>8, <1>s DEF Called
<1>9. CASE Closes
  <2>1. owned = {fd} \ {0} /\ foreign = FALSE
    BY DEF Holds
  <2>2. owned' = {}
    BY <1>9, <2>1 DEF Closes
  <2>3. foreign' = FALSE
    BY <1>9, <2>1 DEF Closes
  <2> QED BY <1>9, <2>2, <2>3 DEF Closes, Holds
<1>10. CASE Leaves
  BY <1>10, <1>s DEF Leaves
<1>11. ASSUME NEW f \in Nat, Fetches(f) PROVE Holds'
  BY <1>11, <1>r DEF Fetches
<1>12. ASSUME NEW f \in Nat, Gives(f) PROVE Holds'
  BY <1>12, <1>r DEF Gives
<1>13. ASSUME NEW f \in Nat, Cleans(f) PROVE Holds'
  <2>1. owned = {fd} \ {0} /\ foreign = FALSE /\ (fd # 0 => f = fd)
    BY <1>13 DEF Holds, Cleans, Reads
  <2>2. owned' = {}
    BY <1>13, <2>1 DEF Cleans
  <2> QED BY <1>13, <2>1, <2>2 DEF Cleans, Holds
<1>14. CASE Again
  BY <1>14, <1>z DEF Again
<1>15. CASE Returns
  BY <1>15, <1>z DEF Returns
<1>16. CASE EmptyAgain
  BY <1>16, <1>s DEF EmptyAgain
<1>17. CASE EmptyReturns
  BY <1>17, <1>s DEF EmptyReturns
<1>18. ASSUME NEW i \in 1 .. Len(ring) - 1, Merges(i) PROVE Holds'
  BY <1>18, <1>s DEF Merges, Next1
<1>19. ASSUME NEW i \in 1 .. Len(ring) - 1, Coalesces(i) PROVE Holds'
  BY <1>19, <1>s DEF Coalesces, Next1
<1>20. CASE Unpauses
  BY <1>20, <1>s DEF Unpauses, Next1
<1>21. CASE TakesFd
  BY <1>21, <1>s DEF TakesFd, Next1
<1>22. CASE Takes
  BY <1>22, <1>s DEF Takes, Next1
<1> QED BY <1>1, <1>2, <1>3, <1>4, <1>5, <1>6, <1>7, <1>8, <1>9, <1>10, <1>11, <1>12, <1>13,
   <1>14, <1>15, <1>16, <1>17, <1>18, <1>19, <1>20, <1>21, <1>22 DEF Moves

RingWaits(n) == \E i \in 1 .. Len(ring) : HasFd(ring[i]) /\ ring[i].n = n

\* An event without a descriptor has left the ring.
LEMMA ShrinkWaits == ASSUME TypesS, Shrinks, ~HasFd(Head(ring)), NEW n
                     PROVE  RingWaits(n)' <=> RingWaits(n)
<1>0. Head(ring) = ring[1] /\ Len(ring) \in Nat \ {0} /\ Len(ring') = Len(ring) - 1
  BY Tailed DEF TypesS, Shrinks
<1>1. ASSUME NEW i \in 1 .. Len(ring), HasFd(ring[i]), ring[i].n = n
      PROVE  RingWaits(n)'
  <2>1. i # 1
    BY <1>0, <1>1
  <2>2. i - 1 \in 1 .. Len(ring) - 1 /\ i - 1 \in 1 .. Len(ring') /\ (i - 1) + 1 = i
    BY <1>0, <2>1
  <2>3. ring'[i - 1].n = ring[i].n /\ ring'[i - 1].k = ring[i].k
    BY <2>2 DEF Shrinks
  <2>4. HasFd(ring'[i - 1]) /\ ring'[i - 1].n = n
    BY <1>1, <2>3 DEF HasFd
  <2> QED BY <2>2, <2>4 DEF RingWaits
<1>2. ASSUME NEW i \in 1 .. Len(ring'), HasFd(ring'[i]), ring'[i].n = n
      PROVE  RingWaits(n)
  <2>1. i + 1 \in 1 .. Len(ring) /\ ring'[i].n = ring[i + 1].n /\ ring'[i].k = ring[i + 1].k
    BY <1>0 DEF Shrinks
  <2>2. HasFd(ring[i + 1]) /\ ring[i + 1].n = n
    BY <1>2, <2>1 DEF HasFd
  <2> QED BY <2>1, <2>2 DEF RingWaits
<1> QED BY <1>1, <1>2 DEF RingWaits, HasFd

\* An event with a descriptor has left the ring.
LEMMA HeadWaits == ASSUME TypesS, RingOrder, Shrinks, HasFd(Head(ring)), NEW n
                   PROVE  RingWaits(n)' \/ Head(ring).n = n <=> RingWaits(n)
<1>0. Head(ring) = ring[1] /\ Len(ring) \in Nat \ {0} /\ Len(ring') = Len(ring) - 1 /\ 1 \in 1 .. Len(ring)
  BY Tailed, SMTT(30), SMTT(31) DEF TypesS, Shrinks
<1>1. ASSUME NEW i \in 1 .. Len(ring), HasFd(ring[i]), ring[i].n = n
      PROVE  RingWaits(n)' \/ Head(ring).n = n
  <2>1. CASE i = 1
    BY <1>0, <1>1, <2>1
  <2>2. CASE i # 1
    <3>2. i - 1 \in 1 .. Len(ring) - 1 /\ i - 1 \in 1 .. Len(ring') /\ (i - 1) + 1 = i
      BY <1>0, <2>2
    <3>3. ring'[i - 1].n = ring[i].n /\ ring'[i - 1].k = ring[i].k
      BY <3>2 DEF Shrinks
    <3>4. HasFd(ring'[i - 1]) /\ ring'[i - 1].n = n
      BY <1>1, <3>3 DEF HasFd
    <3> QED BY <3>2, <3>4 DEF RingWaits
  <2> QED BY <2>1, <2>2
<1>2. ASSUME NEW i \in 1 .. Len(ring'), HasFd(ring'[i]), ring'[i].n = n
      PROVE  RingWaits(n)
  <2>1. i + 1 \in 1 .. Len(ring) /\ ring'[i].n = ring[i + 1].n /\ ring'[i].k = ring[i + 1].k
    BY <1>0 DEF Shrinks
  <2>2. HasFd(ring[i + 1]) /\ ring[i + 1].n = n
    BY <1>2, <2>1 DEF HasFd
  <2> QED BY <2>1, <2>2 DEF RingWaits
<1>3. Head(ring).n = n => RingWaits(n)
  BY <1>0 DEF RingWaits
<1> QED BY <1>1, <1>2, <1>3 DEF RingWaits, HasFd

\* A new event at the end of the ring
LEMMA GrownWaits == ASSUME TypesS, NEW e \in Events, ring' = Append(ring, e), NEW n
                    PROVE  RingWaits(n)' <=> RingWaits(n) \/ (HasFd(e) /\ e.n = n)
<1>0. /\ Len(ring) \in Nat /\ Len(ring') = Len(ring) + 1 /\ ring'[Len(ring) + 1] = e
      /\ \A i \in 1 .. Len(ring) : ring'[i] = ring[i]
      /\ \A i \in 1 .. Len(ring') : i = Len(ring) + 1 \/ i \in 1 .. Len(ring)
  BY RingGrows
<1>1. Len(ring) + 1 \in 1 .. Len(ring') /\ \A i \in 1 .. Len(ring) : i \in 1 .. Len(ring')
  BY <1>0
<1>2. HasFd(e) /\ e.n = n => \E i \in 1 .. Len(ring') : HasFd(ring'[i]) /\ ring'[i].n = n
  BY <1>0, <1>1
<1>3. RingWaits(n) => \E i \in 1 .. Len(ring') : HasFd(ring'[i]) /\ ring'[i].n = n
  BY <1>0, <1>1 DEF RingWaits
<1>4. ASSUME NEW i \in 1 .. Len(ring'), HasFd(ring'[i]), ring'[i].n = n
      PROVE  RingWaits(n) \/ (HasFd(e) /\ e.n = n)
  BY <1>0, <1>4 DEF RingWaits
<1>5. RingWaits(n)' <=> \E i \in 1 .. Len(ring') : HasFd(ring'[i]) /\ ring'[i].n = n
  BY DEF RingWaits, HasFd
<1> QED BY <1>2, <1>3, <1>4, <1>5

SockWaits(n) == \E i \in 1 .. Len(sock) : sock[i] = n

LEMMA GrownSock == ASSUME TypesS, NEW m \in Nat, sock' = Append(sock, m), NEW n
                   PROVE  SockWaits(n)' <=> SockWaits(n) \/ m = n
<1>0. /\ Len(sock) \in Nat /\ Len(sock') = Len(sock) + 1 /\ sock'[Len(sock) + 1] = m
      /\ \A i \in 1 .. Len(sock) : sock'[i] = sock[i]
      /\ \A i \in 1 .. Len(sock') : i = Len(sock) + 1 \/ i \in 1 .. Len(sock)
  BY SockGrows
<1>1. Len(sock) + 1 \in 1 .. Len(sock') /\ \A i \in 1 .. Len(sock) : i \in 1 .. Len(sock')
  BY <1>0
<1> QED BY <1>0, <1>1 DEF SockWaits

LEMMA WaitsAre == ASSUME NEW n
                  PROVE  /\ EventWaits(n) <=> \/ RingWaits(n)
                                              \/ spc = "event" /\ sev.n = n
                                              \/ Half /\ dst.n = n
                         /\ EventWaits(n)' <=> \/ RingWaits(n)'
                                               \/ spc' = "event" /\ sev'.n = n
                                               \/ Half' /\ dst'.n = n
                         /\ FdWaits(n) <=> SockWaits(n) \/ (~consumed /\ fd = n)
                         /\ FdWaits(n)' <=> SockWaits(n)' \/ (~consumed' /\ fd' = n)
<1>1. EventWaits(n) <=> RingWaits(n) \/ (spc = "event" /\ sev.n = n) \/ (Half /\ dst.n = n)
  BY DEF EventWaits, RingWaits
<1>2. EventWaits(n)' <=> RingWaits(n)' \/ (spc' = "event" /\ sev'.n = n) \/ (Half' /\ dst'.n = n)
  BY DEF EventWaits, RingWaits
<1>3. FdWaits(n) <=> SockWaits(n) \/ (~consumed /\ fd = n)
  BY DEF FdWaits, SockWaits
<1>4. FdWaits(n)' <=> SockWaits(n)' \/ (~consumed' /\ fd' = n)
  BY DEF FdWaits, SockWaits
<1> QED BY <1>1, <1>2, <1>3, <1>4

\* Nothing waits that has not been pushed.
LEMMA NoFuture == ASSUME TypesS, TypesC, Room, RingOrder, SockOrder, DstOrder, check_dms,
                         NEW n \in Nat, n > sent
                  PROVE  /\ ~EventWaits(n) /\ ~FdWaits(n) /\ ~RingWaits(n) /\ ~SockWaits(n)
                         /\ ~(Half /\ dst.n = n) /\ fd # n
<1>0. /\ sent \in Nat /\ sev.n \in Nat /\ dst.n \in Nat /\ fd \in Nat
      /\ \A i \in 1 .. Len(ring) : ring[i].n \in Nat
      /\ \A i \in 1 .. Len(sock) : sock[i] \in Nat
  BY NumberTypes DEF TypesS, TypesC, Events
<1>a. \A m \in Nat : m <= sent => m # n
  BY <1>0
<1>1. ~RingWaits(n)
  BY <1>0, <1>a DEF RingWaits, RingOrder
<1>2. ~SockWaits(n) /\ fd # n
  BY <1>0, <1>a DEF SockWaits, SockOrder
<1>3. ~(Half /\ dst.n = n)
  BY <1>0, <1>a DEF DstOrder
<1>4. ~(spc = "event" /\ sev.n = n)
  BY <1>0 DEF Room
<1> QED BY <1>1, <1>2, <1>3, <1>4, WaitsAre

\* The descriptor that is read while an event waits for one is its own: both
\* are the oldest.
LEMMA Oldest == ASSUME TypesS, TypesC, Room, RingOrder, SockOrder, DstOrder, Match,
                       check_dms, Half, NEW f \in Nat, f # 0, Reads(f)
                PROVE  f = dst.n
<1>0. /\ sent \in Nat /\ sev.n \in Nat /\ dst.n \in Nat /\ fd \in Nat
      /\ \A i \in 1 .. Len(ring) : ring[i].n \in Nat
      /\ \A i \in 1 .. Len(sock) : sock[i] \in Nat
  BY NumberTypes DEF TypesS, TypesC, Events
<1>1. dst.n \in 1 .. sent
  BY <1>0 DEF DstOrder
<1>2. ~consumed /\ FdWaits(dst.n)
  <2>1. EventWaits(dst.n) /\ ~consumed
    BY WaitsAre DEF Half
  <2> QED BY <1>1, <2>1 DEF Match
<1>3. (fd # 0 /\ f = fd) \/ (fd = 0 /\ sock # <<>> /\ f = sock[1] /\ Len(sock) \in Nat \ {0})
  BY Tailed DEF Reads, TypesS
<1>4. FdWaits(f) /\ f \in 1 .. sent
  <2>1. CASE fd # 0 /\ f = fd
    <3>1. FdWaits(f)
      BY <1>2, <2>1, WaitsAre
    <3>2. f \in 1 .. sent
      BY <1>0, <2>1 DEF SockOrder
    <3> QED BY <3>1, <3>2
  <2>2. CASE f = sock[1] /\ Len(sock) \in Nat \ {0}
    <3>1. 1 \in 1 .. Len(sock)
      BY <2>2
    <3>2. SockWaits(f) /\ f <= sent
      BY <2>2, <3>1 DEF SockWaits, SockOrder
    <3>3. FdWaits(f)
      BY <3>2, WaitsAre
    <3>4. f \in 1 .. sent
      BY <1>0, <3>2
    <3> QED BY <3>3, <3>4
  <2> QED BY <1>3, <2>1, <2>2
<1>5. EventWaits(f)
  BY <1>4 DEF Match
<1> SUFFICES ASSUME f # dst.n PROVE FALSE
  OBVIOUS
<1>6. dst.n < f
  <2>1. CASE RingWaits(f)
    BY <2>1 DEF RingWaits, DstOrder
  <2>2. CASE spc = "event" /\ sev.n = f
    BY <2>2 DEF DstOrder, Room
  <2> QED BY <1>5, <2>1, <2>2, WaitsAre
<1>7. CASE fd # 0 /\ f = fd
  <2>1. PICK i \in 1 .. Len(sock) : sock[i] = dst.n
    BY <1>2, <1>7, WaitsAre DEF SockWaits
  <2>2. fd < sock[i]
    BY <1>1, <1>2, <1>7, <2>1 DEF SockOrder, BADFD
  <2> QED BY <1>0, <1>6, <1>7, <2>1, <2>2
<1>8. CASE fd = 0 /\ f = sock[1] /\ Len(sock) \in Nat \ {0}
  <2>1. PICK i \in 1 .. Len(sock) : sock[i] = dst.n
    BY <1>1, <1>2, <1>8, WaitsAre, SMTT(30), SMTT(31) DEF SockWaits
  <2>2. 1 \in 1 .. Len(sock) /\ 1 < i
    BY <1>8, <2>1
  <2>3. sock[1] < sock[i]
    BY <1>1, <1>8, <2>1, <2>2 DEF SockOrder
  <2> QED BY <1>0, <1>6, <1>8, <2>1, <2>3
<1> QED BY <1>3, <1>7, <1>8

\* Events that wait and descriptors under way match.
LEMMA MatchInv == ASSUME TypesS, TypesC, RingSound, Waits, Moves, cf \in Configs, cf' = cf,
                         Undisturbed, Room,
                     RingOrder, SockOrder, DstOrder, Match
                  PROVE  Match'
<1> USE DEF BADFD
<1>0. /\ sent \in Nat /\ sev.n \in Nat /\ dst.n \in Nat /\ fd \in Nat
      /\ \A i \in 1 .. Len(ring) : ring[i].n \in Nat
  BY NumberTypes DEF TypesS, TypesC, Events
<1>n. ASSUME ~check_dms' PROVE Match'
  BY <1>n DEF Match
<1>e. ASSUME check_dms' => check_dms, sent' = sent,
             \A n \in 1 .. sent : (EventWaits(n)' <=> EventWaits(n)) /\ (FdWaits(n)' <=> FdWaits(n))
      PROVE  Match'
  BY <1>e DEF Match
<1>s. ASSUME check_dms' => check_dms, sent' = sent, ring' = ring, sock' = sock, fd' = fd, consumed' = consumed,
             check_dms => (Half' <=> Half), sev' = sev,
             spc' = "event" <=> spc = "event", check_dms /\ Half => dst' = dst
      PROVE  Match'
  <2> SUFFICES ASSUME check_dms' PROVE Match'
    BY <1>n
  <2>1. ASSUME NEW n \in 1 .. sent
        PROVE  (EventWaits(n)' <=> EventWaits(n)) /\ (FdWaits(n)' <=> FdWaits(n))
    <3>1. (RingWaits(n)' <=> RingWaits(n)) /\ (SockWaits(n)' <=> SockWaits(n))
      BY <1>s DEF RingWaits, SockWaits, HasFd
    <3>2. Half' /\ dst'.n = n <=> Half /\ dst.n = n
      BY <1>s
    <3> QED BY <1>s, <3>1, <3>2, WaitsAre
  <2> QED BY <1>e, <1>s, <2>1
<1>t. ASSUME Shrinks, ~HasFd(Head(ring)), pc = "dequeue", gotev' = gotev, check_dms' => check_dms,
             sent' = sent, sock' = sock, fd' = fd, consumed' = consumed, spc' = spc, sev' = sev
      PROVE  Match'
  <2> SUFFICES ASSUME check_dms' PROVE Match'
    BY <1>n
  <2>0. ~Half /\ ~Half'
    BY <1>t DEF Waits, Half
  <2>1. ASSUME NEW n \in 1 .. sent
        PROVE  (EventWaits(n)' <=> EventWaits(n)) /\ (FdWaits(n)' <=> FdWaits(n))
    <3>1. (RingWaits(n)' <=> RingWaits(n)) /\ (SockWaits(n)' <=> SockWaits(n))
      BY <1>t, ShrinkWaits DEF SockWaits
    <3> QED BY <1>t, <2>0, <3>1, WaitsAre
  <2> QED BY <1>e, <1>t, <2>1
<1>p. ASSUME sent' = sent + 1, check_dms' => check_dms,
             check_dms => \A n \in 1 .. sent : (EventWaits(n)' <=> EventWaits(n)) /\ (FdWaits(n)' <=> FdWaits(n)),
             check_dms => \A n : n = sent + 1 => (EventWaits(n)' <=> FdWaits(n)')
      PROVE  Match'
  <2> SUFFICES ASSUME check_dms', NEW n \in 1 .. sent' PROVE EventWaits(n)' <=> FdWaits(n)'
    BY DEF Match
  <2>1. CASE n = sent + 1
    BY <1>p, <2>1
  <2>2. CASE n # sent + 1
    <3>1. n \in 1 .. sent
      BY <1>0, <1>p, <2>2
    <3> QED BY <1>p, <3>1 DEF Match
  <2> QED BY <2>1, <2>2
<1>r. ASSUME NEW f, Reads(f), ~consumed, ~consumed', fd' = f, check_dms' => check_dms, sent' = sent,
             ring' = ring, spc' = spc, sev' = sev, dst' = dst, gotev' = gotev
      PROVE  Match'
  <2>1. ASSUME NEW n \in 1 .. sent
        PROVE  (EventWaits(n)' <=> EventWaits(n)) /\ (FdWaits(n)' <=> FdWaits(n))
    <3>1. n \in Nat \ {0}
      BY <1>0
    <3>2. SockWaits(n) \/ fd = n <=> SockWaits(n)' \/ f = n
      BY <1>r, <3>1, ReadSock DEF SockWaits
    <3>3. (RingWaits(n)' <=> RingWaits(n)) /\ (Half' <=> Half)
      BY <1>r DEF RingWaits, Half
    <3>4. FdWaits(n)' <=> FdWaits(n)
      BY <1>r, <3>2, WaitsAre
    <3>5. EventWaits(n)' <=> EventWaits(n)
      BY <1>r, <3>3, WaitsAre
    <3> QED BY <3>4, <3>5
  <2> QED BY <1>e, <1>r, <2>1
<1>z. ASSUME Reads(0), ~consumed, ~consumed', fd' = fd, check_dms' => check_dms, sent' = sent,
             ring' = ring, spc' = spc, sev' = sev, dst' = dst, gotev' = gotev
      PROVE  Match'
  <2>1. fd = 0
    BY <1>z DEF Reads
  <2> QED BY <1>r, <1>z, <2>1
<1>1. ASSUME NEW e \in Events, Plain(e) PROVE Match'
  <2>0. /\ sent' = sent + 1 /\ (check_dms' => check_dms) /\ e.n = sent + 1 /\ (Half' <=> Half) /\ dst' = dst
        /\ fd' = fd /\ consumed' = consumed /\ spc = "idle" /\ sev' = e
    BY <1>1 DEF Plain, Pushes, mine, check_dms, Half
  <2>1. ASSUME NEW n PROVE (RingWaits(n)' <=> RingWaits(n)) /\ (SockWaits(n)' <=> SockWaits(n))
    BY <1>1, GrownWaits DEF Plain, SockWaits
  <2>2. ASSUME check_dms, NEW n, n = sent + 1 PROVE EventWaits(n)' <=> FdWaits(n)'
    <3>1. ~RingWaits(n) /\ ~SockWaits(n) /\ ~(Half /\ dst.n = n) /\ fd # n
      BY <1>0, <2>2, NoFuture
    <3> QED BY <1>1, <2>0, <2>1, <2>2, <3>1, WaitsAre DEF Plain
  <2>3. ASSUME NEW n \in 1 .. sent
        PROVE  (EventWaits(n)' <=> EventWaits(n)) /\ (FdWaits(n)' <=> FdWaits(n))
    <3>1. e.n # n /\ sent + 1 # n /\ spc # "event"
      BY <1>0, <2>0
    <3> QED BY <2>0, <2>1, <3>1, WaitsAre
  <2> QED BY <1>p, <2>0, <2>2, <2>3
<1>2. ASSUME NEW e \in Events, WithFd(e) PROVE Match'
  <2>0. /\ sent' = sent + 1 /\ (check_dms' => check_dms) /\ e.n = sent + 1 /\ (Half' <=> Half) /\ dst' = dst
        /\ fd' = fd /\ consumed' = consumed /\ spc = "idle" /\ sev' = e
    BY <1>2 DEF WithFd, Pushes, mine, check_dms, Half
  <2>1. ASSUME NEW n PROVE (RingWaits(n)' <=> RingWaits(n)) /\ (SockWaits(n)' <=> SockWaits(n) \/ e.n = n)
    <3>1. e.n \in Nat
      BY <1>0, <2>0
    <3>2. RingWaits(n)' <=> RingWaits(n)
      BY <1>2 DEF WithFd, RingWaits
    <3>3. SockWaits(n)' <=> SockWaits(n) \/ e.n = n
      BY <1>2, <3>1, GrownSock DEF WithFd
    <3> QED BY <3>2, <3>3, ZenonT(30)
  <2>2. ASSUME check_dms, NEW n, n = sent + 1 PROVE EventWaits(n)' <=> FdWaits(n)'
    <3>1. ~RingWaits(n) /\ ~SockWaits(n) /\ ~(Half /\ dst.n = n) /\ fd # n
      BY <1>0, <2>2, NoFuture
    <3> QED BY <1>2, <2>0, <2>1, <2>2, <3>1, WaitsAre DEF WithFd
  <2>3. ASSUME NEW n \in 1 .. sent
        PROVE  (EventWaits(n)' <=> EventWaits(n)) /\ (FdWaits(n)' <=> FdWaits(n))
    <3>1. e.n # n /\ sent + 1 # n /\ spc # "event"
      BY <1>0, <2>0
    <3> QED BY <2>0, <2>1, <3>1, WaitsAre
  <2> QED BY <1>p, <2>0, <2>2, <2>3
<1>3. ASSUME NEW e \in Events, Refused(e) PROVE Match'
  <2>0. /\ sent' = sent + 1 /\ (check_dms' => check_dms) /\ e.n = sent + 1 /\ (Half' <=> Half) /\ dst' = dst
        /\ fd' = fd /\ consumed' = consumed /\ spc = "idle" /\ sev' = e
    BY <1>3 DEF Refused, Pushes, mine, check_dms, Half
  <2>1. ASSUME NEW n PROVE (RingWaits(n)' <=> RingWaits(n)) /\ (SockWaits(n)' <=> SockWaits(n))
    BY <1>3 DEF Refused, RingWaits, SockWaits
  <2>2. ASSUME check_dms, NEW n, n = sent + 1 PROVE EventWaits(n)' <=> FdWaits(n)'
    <3>1. ~RingWaits(n) /\ ~SockWaits(n) /\ ~(Half /\ dst.n = n) /\ fd # n
      BY <1>0, <2>2, NoFuture
    <3> QED BY <1>3, <2>0, <2>1, <2>2, <3>1, WaitsAre DEF Refused
  <2>3. ASSUME NEW n \in 1 .. sent
        PROVE  (EventWaits(n)' <=> EventWaits(n)) /\ (FdWaits(n)' <=> FdWaits(n))
    <3>1. e.n # n /\ sent + 1 # n /\ spc # "event"
      BY <1>0, <2>0
    <3> QED BY <2>0, <2>1, <3>1, WaitsAre
  <2> QED BY <1>p, <2>0, <2>2, <2>3
<1>4. CASE EventIn
  <2>0. /\ ring' = Append(ring, sev) /\ HasFd(sev) /\ sev \in Events /\ spc = "event" /\ spc' # "event"
        /\ (check_dms' => check_dms) /\ (Half' <=> Half) /\ dst' = dst /\ sent' = sent
        /\ fd' = fd /\ consumed' = consumed /\ sock' = sock
    BY <1>4 DEF EventIn, Room, TypesS, mine, check_dms, Half
  <2>1. ASSUME NEW n \in 1 .. sent
        PROVE  (EventWaits(n)' <=> EventWaits(n)) /\ (FdWaits(n)' <=> FdWaits(n))
    <3>1. RingWaits(n)' <=> RingWaits(n) \/ sev.n = n
      BY <2>0, GrownWaits
    <3>2. SockWaits(n)' <=> SockWaits(n)
      BY <2>0 DEF SockWaits
    <3> QED BY <2>0, <3>1, <3>2, WaitsAre
  <2> QED BY <1>e, <2>0, <2>1
<1>5. CASE EventLost
  <2>1. Len(ring) < sent /\ sent <= Limit /\ Limit <= Q /\ Q \in Nat /\ Limit \in Nat /\ Len(ring) = Q
    BY <1>5, Bounds DEF EventLost, Room, Undisturbed
  <2> QED BY <1>0, <2>1
<1>6. CASE Pings
  <2>0. /\ (check_dms' => check_dms) /\ (Half' <=> Half) /\ dst' = dst /\ sent' = sent /\ ring' = ring
        /\ fd' = fd /\ consumed' = consumed /\ spc # "event" /\ spc' # "event"
    BY <1>6 DEF Pings, mine, check_dms, Half
  <2>1. ASSUME NEW n \in 1 .. sent
        PROVE  (EventWaits(n)' <=> EventWaits(n)) /\ (FdWaits(n)' <=> FdWaits(n))
    <3>1. n # 0
      BY <1>0
    <3>2. SockWaits(n)' <=> SockWaits(n)
      <4>1. CASE sock' = sock
        BY <4>1 DEF SockWaits
      <4>2. CASE sock' = Append(sock, 0)
        BY <3>1, <4>2, GrownSock
      <4> QED BY <1>6, <4>1, <4>2 DEF Pings
    <3>3. RingWaits(n)' <=> RingWaits(n)
      BY <2>0 DEF RingWaits
    <3> QED BY <2>0, <3>2, <3>3, WaitsAre
  <2> QED BY <1>e, <2>0, <2>1
<1>7. CASE Ends
  <2>1. CASE dms' = dms
    BY <1>7, <2>1, <1>s DEF Ends, mine, check_dms, Half
  <2>2. CASE dms' = FALSE
    BY <2>2, <1>n DEF check_dms
  <2> QED BY <1>7, <2>1, <2>2 DEF Ends
<1>8. CASE Called
  <2>1. check_dms /\ Half => ~Fresh
    BY <1>8 DEF Called, DstOrder
  <2> QED BY <1>8, <1>s, <2>1, ZenonT(30) DEF Called, theirs, check_dms, Half
<1>9. CASE Closes
  <2>0. /\ (check_dms' => check_dms) /\ ~Half' /\ ~Half /\ sent' = sent /\ ring' = ring /\ sock' = sock
        /\ fd' = 0 /\ consumed /\ spc' = spc /\ sev' = sev
    BY <1>9 DEF Closes, theirs, check_dms, Half
  <2>1. ASSUME NEW n \in 1 .. sent
        PROVE  (EventWaits(n)' <=> EventWaits(n)) /\ (FdWaits(n)' <=> FdWaits(n))
    <3>1. n # 0
      BY <1>0
    <3>2. (SockWaits(n)' <=> SockWaits(n)) /\ (RingWaits(n)' <=> RingWaits(n))
      BY <2>0 DEF SockWaits, RingWaits
    <3> QED BY <2>0, <3>1, <3>2, WaitsAre
  <2> QED BY <1>e, <2>0, <2>1
<1>10. CASE Leaves
  BY <1>10, <1>s DEF Leaves, theirs, check_dms, Half
<1>11. ASSUME NEW f \in Nat, Fetches(f) PROVE Match'
  <2>1. ~consumed
    BY <1>11 DEF Fetches, Waits
  <2> QED BY <1>11, <2>1, <1>r DEF Fetches, theirs, check_dms
<1>12. ASSUME NEW f \in Nat, Gives(f) PROVE Match'
  <2> SUFFICES ASSUME check_dms' PROVE Match'
    BY <1>n
  <2>0. check_dms /\ sent' = sent /\ spc' = spc /\ sev' = sev /\ ring' = ring /\ Reads(f) /\ ~consumed /\ Half
    BY <1>12 DEF Gives, theirs, check_dms, Waits, Half
  <2>1. f = dst.n
    BY <1>12, <2>0, Oldest DEF Gives
  <2>2. \A k \in Nat \ {0} : SockWaits(k) \/ fd = k <=> SockWaits(k)' \/ f = k
    BY <2>0, ReadSock DEF SockWaits
  <2>3. ~SockWaits(f)'
    BY <1>12, <2>0, ReadSock, SMTT(30), SMTT(31) DEF SockWaits, Gives
  <2>4. ~RingWaits(f) /\ ~(spc = "event" /\ sev.n = f)
    BY <1>0, <2>0, <2>1 DEF DstOrder, RingWaits, Room
  <2>5. ~Half'
    BY <1>12 DEF Gives, Half
  <2>6. ASSUME NEW k \in 1 .. sent PROVE EventWaits(k)' <=> FdWaits(k)'
    <3>1. k # 0 /\ k \in Nat
      BY <1>0
    <3>2. ~(~consumed' /\ fd' = k)
      BY <1>12, <3>1 DEF Gives
    <3>3. RingWaits(k)' <=> RingWaits(k)
      BY <2>0 DEF RingWaits
    <3>4. CASE k = f
      BY <2>0, <2>3, <2>4, <2>5, <3>2, <3>3, <3>4, WaitsAre
    <3>5. CASE k # f
      <4>1. SockWaits(k)' <=> FdWaits(k)
        BY <2>0, <2>2, <3>1, <3>5, WaitsAre
      <4>2. EventWaits(k) <=> FdWaits(k)
        BY <2>0 DEF Match
      <4>3. EventWaits(k)' <=> EventWaits(k)
        BY <2>0, <2>1, <2>5, <3>3, <3>5, WaitsAre, ZenonT(30)
      <4> QED BY <3>2, <4>1, <4>2, <4>3, WaitsAre
    <3> QED BY <3>4, <3>5
  <2> QED BY <2>0, <2>6 DEF Match
<1>13. ASSUME NEW f \in Nat, Cleans(f) PROVE Match'
  <2> SUFFICES ASSUME check_dms' PROVE Match'
    BY <1>n
  <2>0. check_dms /\ sent' = sent /\ spc' = spc /\ sev' = sev /\ ring' = ring /\ Reads(f) /\ ~consumed /\ Half
    BY <1>13 DEF Cleans, theirs, check_dms, Waits, Half
  <2>1. f = dst.n
    BY <1>13, <2>0, Oldest, ZenonT(30) DEF Cleans
  <2>2. \A k \in Nat \ {0} : SockWaits(k) \/ fd = k <=> SockWaits(k)' \/ f = k
    BY <2>0, ReadSock DEF SockWaits
  <2>3. ~SockWaits(f)'
    BY <1>13, <2>0, ReadSock, SMTT(30), SMTT(31) DEF SockWaits, Cleans
  <2>4. ~RingWaits(f) /\ ~(spc = "event" /\ sev.n = f)
    BY <1>0, <2>0, <2>1 DEF DstOrder, RingWaits, Room
  <2>5. ~Half'
    BY <1>13 DEF Cleans, Half
  <2>6. ASSUME NEW k \in 1 .. sent PROVE EventWaits(k)' <=> FdWaits(k)'
    <3>1. k # 0 /\ k \in Nat
      BY <1>0
    <3>2. ~(~consumed' /\ fd' = k)
      BY <1>13, <3>1 DEF Cleans
    <3>3. RingWaits(k)' <=> RingWaits(k)
      BY <2>0 DEF RingWaits
    <3>4. CASE k = f
      BY <2>0, <2>3, <2>4, <2>5, <3>2, <3>3, <3>4, WaitsAre
    <3>5. CASE k # f
      <4>1. SockWaits(k)' <=> FdWaits(k)
        BY <2>0, <2>2, <3>1, <3>5, WaitsAre
      <4>2. EventWaits(k) <=> FdWaits(k)
        BY <2>0 DEF Match
      <4>3. EventWaits(k)' <=> EventWaits(k)
        BY <2>0, <2>1, <2>5, <3>3, <3>5, WaitsAre
      <4> QED BY <3>2, <4>1, <4>2, <4>3, WaitsAre
    <3> QED BY <3>4, <3>5
  <2> QED BY <2>0, <2>6 DEF Match
<1>14. CASE Again
  <2>1. ~consumed
    BY <1>14 DEF Again, Waits
  <2> QED BY <1>14, <2>1, <1>z DEF Again, theirs, check_dms
<1>15. CASE Returns
  <2>1. ~consumed
    BY <1>15 DEF Returns, Waits
  <2> QED BY <1>15, <2>1, <1>z DEF Returns, theirs, check_dms
<1>16. CASE EmptyAgain
  BY <1>16, <1>s DEF EmptyAgain, theirs, check_dms, Half
<1>17. CASE EmptyReturns
  BY <1>17, <1>s DEF EmptyReturns, theirs, check_dms, Half
<1>18. ASSUME NEW i \in 1 .. Len(ring) - 1, Merges(i) PROVE Match'
  <2>1. Shrinks /\ ~HasFd(Head(ring))
    BY <1>18, MergedRing DEF Merges, Next1, HasFd, IsHint
  <2> QED BY <1>18, <1>t, <2>1 DEF Merges, Next1, theirs, check_dms
<1>19. ASSUME NEW i \in 1 .. Len(ring) - 1, Coalesces(i) PROVE Match'
  <2>1. Shrinks /\ ~HasFd(Head(ring))
    BY <1>19, TailRing DEF Coalesces, Next1, HasFd, IsHint
  <2> QED BY <1>19, <1>t, <2>1 DEF Coalesces, Next1, theirs, check_dms
<1>20. CASE Unpauses
  <2>1. Shrinks /\ ~HasFd(Head(ring))
    BY <1>20, TailRing DEF Unpauses, Next1, HasFd, IsHint
  <2> QED BY <1>20, <1>t, <2>1 DEF Unpauses, Next1, theirs, check_dms
<1>21. CASE TakesFd
  <2> SUFFICES ASSUME check_dms' PROVE Match'
    BY <1>n
  <2>0. /\ check_dms /\ Shrinks /\ HasFd(Head(ring)) /\ dst' = Head(ring) /\ sock' = sock /\ fd' = fd
        /\ consumed' = consumed /\ spc' = spc /\ sev' = sev /\ sent' = sent
    BY <1>21, TailRing DEF TakesFd, Next1, theirs, check_dms
  <2>1. ~Half /\ Half'
    BY <1>21, <2>0 DEF TakesFd, Next1, Waits, Half
  <2>2. ASSUME NEW n \in 1 .. sent
        PROVE  (EventWaits(n)' <=> EventWaits(n)) /\ (FdWaits(n)' <=> FdWaits(n))
    <3>1. RingWaits(n)' \/ Head(ring).n = n <=> RingWaits(n)
      BY <2>0, HeadWaits
    <3>2. SockWaits(n)' <=> SockWaits(n)
      BY <2>0 DEF SockWaits
    <3> QED BY <2>0, <2>1, <3>1, <3>2, WaitsAre
  <2> QED BY <1>e, <2>0, <2>2
<1>22. CASE Takes
  <2>1. Shrinks /\ ~HasFd(Head(ring))
    BY <1>22, TailRing DEF Takes, Next1, HasFd, IsHint
  <2> QED BY <1>22, <1>t, <2>1 DEF Takes, Next1, theirs, check_dms
<1> QED BY <1>1, <1>2, <1>3, <1>4, <1>5, <1>6, <1>7, <1>8, <1>9, <1>10, <1>11, <1>12, <1>13,
   <1>14, <1>15, <1>16, <1>17, <1>18, <1>19, <1>20, <1>21, <1>22 DEF Moves

\* An event is returned with its own descriptor.
LEMMA FdPairedInv == ASSUME TypesS, TypesC, RingSound, Waits, Moves, cf \in Configs,
                            cf' = cf, Undisturbed, Room,
                        RingOrder, SockOrder, DstOrder, Match, FdPaired
                     PROVE  FdPaired'
<1>s. ASSUME out' = out PROVE FdPaired'
  BY <1>s DEF FdPaired, HasFd, BADFD
<1>g. ASSUME NEW e, NEW f, Told(e, f), check_dms \/ e.k = "exit" => f = IF HasFd(e) THEN e.n ELSE BADFD
      PROVE  FdPaired'
  <2>1. CASE out' = out
    BY <1>s, <2>1
  <2>2. CASE out' = [ev |-> e, fd |-> f] /\ (check_dms \/ e.k = "exit")
    BY <1>g, <2>2 DEF FdPaired, HasFd, BADFD
  <2> QED BY <1>g, <2>1, <2>2 DEF Told
<1>1. ASSUME NEW e \in Events, Plain(e) PROVE FdPaired'
  BY <1>1, <1>s DEF Plain, Pushes, mine
<1>2. ASSUME NEW e \in Events, WithFd(e) PROVE FdPaired'
  BY <1>2, <1>s DEF WithFd, Pushes, mine
<1>3. ASSUME NEW e \in Events, Refused(e) PROVE FdPaired'
  BY <1>3, <1>s DEF Refused, Pushes, mine
<1>4. CASE EventIn
  BY <1>4, <1>s DEF EventIn, mine
<1>5. CASE EventLost
  BY <1>5, <1>s DEF EventLost, mine
<1>6. CASE Pings
  BY <1>6, <1>s DEF Pings, mine
<1>7. CASE Ends
  BY <1>7, <1>s DEF Ends, mine
<1>8. CASE Called
  BY <1>8, <1>s DEF Called, Back
<1>9. CASE Closes
  BY <1>9, <1>s DEF Closes, Back
<1>10. CASE Leaves
  BY <1>10, <1>s DEF Leaves, Back
<1>11. ASSUME NEW f \in Nat, Fetches(f) PROVE FdPaired'
  BY <1>11, <1>s DEF Fetches, Back
<1>12. ASSUME NEW f \in Nat, Gives(f) PROVE FdPaired'
  <2>1. dst.k # "exit" /\ Half
    BY <1>12 DEF Gives, Waits, Half
  <2>2. check_dms => f = dst.n /\ HasFd(dst)
    BY <1>12, <2>1, Oldest DEF Gives, DstOrder
  <2> QED BY <1>12, <1>g, <2>1, <2>2 DEF Gives
<1>13. ASSUME NEW f \in Nat, Cleans(f) PROVE FdPaired'
  BY <1>13, <1>s DEF Cleans, Back
<1>14. CASE Again
  BY <1>14, <1>s DEF Again, Back
<1>15. CASE Returns
  BY <1>15, <1>s DEF Returns, Back
<1>16. CASE EmptyAgain
  BY <1>16, <1>s DEF EmptyAgain, Back
<1>17. CASE EmptyReturns
  BY <1>17, <1>s DEF EmptyReturns, Back
<1>18. ASSUME NEW i \in 1 .. Len(ring) - 1, Merges(i) PROVE FdPaired'
  BY <1>18, <1>s DEF Merges
<1>19. ASSUME NEW i \in 1 .. Len(ring) - 1, Coalesces(i) PROVE FdPaired'
  BY <1>19, <1>s DEF Coalesces
<1>20. CASE Unpauses
  BY <1>20, <1>s DEF Unpauses
<1>21. CASE TakesFd
  BY <1>21, <1>s DEF TakesFd
<1>22. CASE Takes
  <2>1. Told(Head(ring), 0) /\ ~HasFd(Head(ring))
    BY <1>22 DEF Takes
  <2> QED BY <1>g, <2>1 DEF BADFD
<1> QED BY <1>1, <1>2, <1>3, <1>4, <1>5, <1>6, <1>7, <1>8, <1>9, <1>10, <1>11, <1>12, <1>13,
   <1>14, <1>15, <1>16, <1>17, <1>18, <1>19, <1>20, <1>21, <1>22 DEF Moves

-----------------------------------------------------------------------------

LEMMA PairedInv == ASSUME TypesS, TypesC, RingSound, Waits, Moves, cf \in Configs, cf' = cf,
                          Undisturbed, Paired
                   PROVE  Paired'
<1> USE DEF Paired
<1>1. Room'      BY RoomInv
<1>2. RingOrder' BY RingOrderInv
<1>3. SockOrder' BY SockOrderInv
<1>4. DstOrder'  BY DstOrderInv
<1>5. Match'     BY MatchInv
<1>6. Holds'     BY HoldsInv
<1>7. FdPaired'  BY FdPairedInv
<1> QED BY <1>1, <1>2, <1>3, <1>4, <1>5, <1>6, <1>7

LEMMA StuttersPaired == ASSUME Undisturbed => Paired, UNCHANGED vars PROVE (Undisturbed => Paired)'
<1>0. /\ cf' = cf /\ ring' = ring /\ sock' = sock /\ spc' = spc /\ sev' = sev /\ sent' = sent /\ sum' = sum
      /\ srv' = srv /\ dms' = dms /\ pc' = pc /\ dst' = dst /\ fd' = fd /\ gotev' = gotev
      /\ consumed' = consumed /\ owned' = owned /\ foreign' = foreign
      /\ alive' = alive /\ out' = out /\ rv' = rv
  BY DEF vars, server, pev, pause, fds, result
<1>1. /\ Kinds' = Kinds /\ Modes' = Modes /\ Fresh' = Fresh /\ Q' = Q /\ Limit' = Limit
      /\ (check_dms' <=> check_dms) /\ (Half' <=> Half)
  BY <1>0 DEF Kinds, Modes, Fresh, Q, Limit, check_dms, Half
<1>8. Room /\ RingOrder /\ SockOrder /\ DstOrder => Room' /\ RingOrder' /\ SockOrder' /\ DstOrder'
  BY <1>0, <1>1 DEF Room, RingOrder, SockOrder, DstOrder, HasFd
<1>9. Match => Match'
  <2>1. ASSUME NEW n PROVE (EventWaits(n)' <=> EventWaits(n)) /\ (FdWaits(n)' <=> FdWaits(n))
    BY <1>0, <1>1 DEF EventWaits, FdWaits, HasFd
  <2> QED BY <1>0, <1>1, <2>1 DEF Match
<1>10. Holds /\ FdPaired => Holds' /\ FdPaired'
  BY <1>0 DEF Holds, FdPaired, HasFd
<1>11. Undisturbed' => Undisturbed
  BY <1>1 DEF Undisturbed
<1> QED BY <1>8, <1>9, <1>10, <1>11 DEF Paired

\* The inductive invariant of ShmifEventsProofs, and the order of events and
\* descriptors
PInv == IInv /\ ("pause" \notin Kinds /\ Undisturbed => Paired)

LEMMA InitPaired == Init => PInv
<1> SUFFICES ASSUME Init PROVE PInv
  OBVIOUS
<1> USE DEF BADFD
<1>0. None \in Events /\ None.n = 0 /\ None.k = "none"
  BY DEF None, Event, Events, AllKinds
<1>5. Paired
  <2>0. cf \in Configs /\ Limit \in Nat
    BY Bounds DEF Init
  <2>1. Room /\ RingOrder /\ SockOrder /\ DstOrder
    BY <2>0 DEF Init, Room, RingOrder, SockOrder, DstOrder, Half
  <2>2. Match
    BY DEF Init, Match
  <2>3. Holds
    BY DEF Init, Holds
  <2>4. FdPaired
    BY <1>0 DEF Init, FdPaired, HasFd
  <2> QED BY <2>1, <2>2, <2>3, <2>4 DEF Paired
<1> QED BY <1>5, InitInv DEF PInv

LEMMA NextPaired == PInv /\ [Next]_vars => PInv'
<1> SUFFICES ASSUME PInv, [Next]_vars PROVE PInv'
  OBVIOUS
<1>0. IInv'
  BY NextInv DEF PInv
<1>1. CASE Next
  <2>0. cf' = cf /\ cf \in Configs
    BY <1>1, FrozenConfig DEF PInv, IInv
  <2>1. Undisturbed' => Undisturbed
    BY <2>0 DEF Undisturbed, Kinds, Q, Limit, Fresh, Modes
  <2>2. ASSUME Undisturbed PROVE Paired'
    <3>1. /\ "pause" \notin Kinds /\ Paired
          /\ TypesS /\ TypesC /\ Unpaused /\ RingSound /\ Waits
      BY <2>2 DEF PInv, IInv, Undisturbed
    <3>2. Moves
      BY <1>1, <2>0, <3>1, StepsAre
    <3> QED BY <2>0, <2>2, <3>1, <3>2, PairedInv
  <2> QED BY <1>0, <2>1, <2>2 DEF PInv
<1>2. CASE UNCHANGED vars
  BY <1>0, <1>2, StuttersPaired DEF PInv, Undisturbed
<1> QED BY <1>1, <1>2

LEMMA PairedInductive == Spec => []PInv
  BY InitPaired, NextPaired, PTL DEF Spec

\* For every size of the ring and of the socket, every number of events and
\* every moment a server dies: process_events returns an event that has a
\* descriptor with its own descriptor and any other event with none, loses no
\* descriptor, and closes none it did not receive; as long as the client is not
\* paused, the ring does not overflow, and a client that polls keeps its buffer.
THEOREM FdPairedAlways == Spec => []FdPairedUndisturbed
<1>1. ASSUME PInv PROVE FdPairedUndisturbed
  <2> SUFFICES ASSUME Undisturbed PROVE FdPaired /\ owned \subseteq {fd, fh.fd} /\ ~foreign
    BY DEF FdPairedUndisturbed
  <2>1. FdPaired /\ Holds
    BY <1>1 DEF PInv, Paired, Undisturbed
  <2> QED BY <2>1 DEF Holds
<1> QED BY <1>1, PairedInductive, PTL
==============================================================================
