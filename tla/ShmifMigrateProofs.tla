------------------------- MODULE ShmifMigrateProofs --------------------------
(***************************************************************************)
(* That a client has one home, and that no guard thread takes it from it,  *)
(* for any number of servers, segments and events, and any client.         *)
(***************************************************************************)
EXTENDS ShmifMigrate, TLAPS

USE SMTT(30), SMTT(31), ZenonT(30)   \* a leaf that runs out of time is tried again

PageSet == [srv : Nat, dms : BOOLEAN, q : Seq(Events), guid : Nat]
PrivSet == [alive : BOOLEAN, local : BOOLEAN, alt : BOOLEAN, primary : BOOLEAN, guid : Nat, reset : BOOLEAN]
GuardAt == {"none", "watch", "seen", "loaded", "done"}
GuardSet == [at : GuardAt, active : BOOLEAN, dms : Places \cup {None}, held : Places \cup {None}]
MainAt == {"idle", "poll", "fall", "failed", "connect", "setup", "drop", "remap", "moved"}
CallSet == {"none", "poll", "wait", "enqueue", "resize", "signal"}
MainSet == [at : MainAt, call : CallSet, force : BOOLEAN, new : Pages \cup {None},
            got : {"none", "reset"} \cup Events, ret : {"none", "event", "nothing", "end"}]

Types ==
  /\ cf \in Configs /\ server \in Nat /\ started \in Nat /\ ctx \in Pages
  /\ page \in [Pages -> PageSet] /\ priv \in [Pages -> PrivSet] /\ guard \in [Pages -> GuardSet]
  /\ place \in [Places -> Pages \cup {None}] /\ main \in MainSet
  /\ ended \in [Pages -> Int]

\* Which segments may be alive and guarded, and where they are mapped, in the
\* course of a migration.
Homes ==
  /\ ~Migrating => \E pl \in Places : place[pl] = ctx /\ place[3 - pl] = None
  /\ main.at \in {"setup", "drop"} =>
       /\ main.new \in Pages /\ main.new # ctx
       /\ \E pl \in Places : place[pl] = ctx /\ place[3 - pl] = main.new
  /\ main.at = "remap" =>
       /\ main.new \in Pages /\ main.new # ctx
       /\ \E pl \in Places : place[pl] = main.new /\ place[3 - pl] = None

Held == IF ~Migrating THEN {ctx} ELSE IF main.at = "remap" THEN {main.new} ELSE {ctx, main.new}

\* Segments that are alive or guarded are held, and exist.
Alive ==
  /\ \A k \in Pages : page[k].dms \/ guard[k].active => k \in Held
  /\ \A k \in Pages : k \in Held \cup {ctx} => page[k].srv # None
  /\ \A k \in Pages : page[k].dms => priv[k].local

\* A guard thread that runs keeps the address of its own segment, or none once
\* the segment was dropped.
Guards ==
  \A k \in Pages :
    LET g == guard[k]
    IN /\ page[k].srv = None => g.at = "none"
       /\ IF g.at \in {"watch", "seen", "loaded"}
          THEN \/ g.active /\ g.dms \in Places /\ place[g.dms] = k /\ (g.at = "loaded" => g.held = g.dms)
               \/ ~g.active /\ g.dms = None /\ ~page[k].dms /\ k \notin Held
          ELSE ~g.active

\* The guid the client left its first server with is the one it has had since;
\* it leaves that server when the second segment is made.
Guids ==
  cf.noreg =>
    /\ page[1].srv # None /\ priv[1].guid \in {OwnGuid, page[1].guid}
    /\ Migrating => main.new # 1
    /\ \A k \in Pages \ {1} : page[k].srv # None =>
         /\ page[k].guid = priv[1].guid /\ priv[k].guid = priv[1].guid
         /\ ctx = 1 => Migrating /\ k = main.new

IInv == Types /\ Homes /\ Alive /\ Guards /\ Guids /\ OwnSwitch

-----------------------------------------------------------------------------
(* where things are *)

\* There are two places, and a segment mapped at one of them is found there.
LEMMA PlaceFound ==
  ASSUME NEW k, NEW pl \in Places, place[pl] = k, place[3 - pl] # k
  PROVE  PlaceOf(k) = pl /\ 3 - pl \in Places /\ 3 - pl # pl /\ 3 - (3 - pl) = pl
<1>1. 3 - pl \in Places /\ 3 - pl # pl /\ 3 - (3 - pl) = pl
  BY DEF Places
<1>2. \A o \in Places : o = pl \/ o = 3 - pl
  BY DEF Places
<1>3. \A o \in Places : place[o] = k => o = pl
  BY <1>2
<1>4. PlaceOf(k) \in Places /\ place[PlaceOf(k)] = k
  BY DEF PlaceOf
<1> QED BY <1>1, <1>3, <1>4

\* A segment about to be made does not exist yet.
LEMMA FreshUnmade ==
  ASSUME Unmade # {}
  PROVE  Fresh \in Pages /\ page[Fresh].srv = None
<1>1. Fresh \in Unmade
  BY DEF Fresh
<1> QED BY <1>1 DEF Unmade

\* The client was opened.
LEMMA FirstPage == 1 \in Pages
  BY MigrateAssumption DEF Pages

LEMMA InitInv == Init => IInv
<1> SUFFICES ASSUME Init PROVE IInv
  OBVIOUS
<1> USE MigrateAssumption
<1>1. 1 \in Pages /\ 1 \in Places /\ 3 - 1 \in Places /\ 3 - 1 # 1
  BY DEF Pages, Places
<1>2. Types
  <2>1. page \in [Pages -> PageSet]
    <3>1. OwnGuid \in Nat
      BY DEF OwnGuid
    <3> QED BY <1>1, <3>1 DEF Init, PageSet, NoPage, None
  <2>2. cf.alt \in BOOLEAN /\ cf \in Configs
    BY DEF Init
  <2>3. priv \in [Pages -> PrivSet]
    BY <1>1, <2>2 DEF Init, PrivSet, NoPriv, None, OwnGuid
  <2>4. guard \in [Pages -> GuardSet]
    BY <1>1 DEF Init, GuardSet, GuardAt, NoGuard, Watching, None
  <2>5. place \in [Places -> Pages \cup {None}]
    BY <1>1 DEF Init
  <2>6. main \in MainSet
    BY DEF Init, MainSet, MainAt, CallSet, Idle
  <2>7. server \in Nat /\ started \in Nat /\ ctx \in Pages /\ ended \in [Pages -> Int]
    BY <1>1 DEF Init, None
  <2> QED BY <2>1, <2>2, <2>3, <2>4, <2>5, <2>6, <2>7 DEF Types
<1>3. ~Migrating /\ main.at = "idle"
  BY DEF Init, Migrating, Idle
<1>4. Homes
  BY <1>1, <1>3, Zenon DEF Init, Homes
<1>5. Alive
  BY <1>1, <1>3 DEF Init, Alive, Held, NoPage, NoPriv, NoGuard, Watching, None
<1>6. Guards
  BY <1>1 DEF Init, Guards, NoPage, NoGuard, Watching, None
<1>7. Guids
  BY FirstPage DEF Init, Guids, Idle, Migrating, NoPage, None
<1>8. OwnSwitch
  BY DEF Init, OwnSwitch
<1> QED BY <1>2, <1>4, <1>5, <1>6, <1>7, <1>8 DEF IInv

-----------------------------------------------------------------------------
(* steps that leave the homes alone *)

\* What the invariant reads of pages and contexts.
SameFields ==
  \A k \in Pages : /\ page'[k].dms = page[k].dms /\ page'[k].srv = page[k].srv /\ page'[k].guid = page[k].guid
                   /\ priv'[k].local = priv[k].local /\ priv'[k].guid = priv[k].guid

\* A step outside a migration, or one that the main thread does not take, that
\* changes nothing but a guid of what the invariant reads.
LEMMA QuietMost ==
  ASSUME IInv, Types', main' = main \/ (~Migrating /\ ~Migrating'),
         \A k \in Pages : /\ page'[k].dms = page[k].dms /\ page'[k].srv = page[k].srv
                          /\ priv'[k].local = priv[k].local,
         UNCHANGED <<cf, guard, place, ctx, ended, dev>>, Guids'
  PROVE  IInv'
<1> USE DEF IInv
<1>1. Homes'
  <2>1. CASE main' = main
    BY <2>1 DEF Homes, Migrating
  <2>2. CASE ~Migrating /\ ~Migrating'
    BY <2>2 DEF Homes, Migrating
  <2> QED BY <2>1, <2>2
<1>2. Held' = Held
  <2>1. CASE main' = main
    BY <2>1 DEF Held, Migrating
  <2>2. CASE ~Migrating /\ ~Migrating'
    BY <2>2 DEF Held
  <2> QED BY <2>1, <2>2
<1>3. Alive'
  BY <1>2 DEF Alive
<1>4. Guards'
  BY <1>2 DEF Guards
<1>6. OwnSwitch'
  BY DEF OwnSwitch
<1> QED BY <1>1, <1>3, <1>4, <1>6

\* One that does not change the guids either.
LEMMA QuietInv ==
  ASSUME IInv, Types', SameFields, main' = main \/ (~Migrating /\ ~Migrating'),
         UNCHANGED <<cf, guard, place, ctx, ended, dev>>
  PROVE  IInv'
<1>1. Guids'
  <2>1. ctx' = ctx /\ cf' = cf /\ Migrating' = Migrating /\ (Migrating => main'.new = main.new)
    BY DEF Migrating
  <2> QED BY <2>1, FirstPage DEF IInv, Guids, SameFields
<1> QED BY <1>1, QuietMost DEF SameFields

LEMMA ServerStartInv == IInv /\ ServerStart => IInv'
<1> SUFFICES ASSUME IInv, ServerStart PROVE IInv'
  OBVIOUS
<1>1. Types'
  BY DEF IInv, Types, ServerStart
<1>2. SameFields
  BY DEF ServerStart, SameFields
<1> QED BY <1>1, <1>2, QuietInv DEF ServerStart

LEMMA ServerCrashInv == IInv /\ ServerCrash => IInv'
<1> SUFFICES ASSUME IInv, ServerCrash PROVE IInv'
  OBVIOUS
<1>1. \A k \in Pages : page[k] \in PageSet
  BY DEF IInv, Types
<1>2. \A k \in Pages : [page[k] EXCEPT !.q = <<>>] \in PageSet
  <2>1. <<>> \in Seq(Events)
    OBVIOUS
  <2> DEFINE empty == <<>>
  <2> HIDE DEF empty
  <2>2. \A k \in Pages : [page[k] EXCEPT !.q = empty] \in PageSet
    BY <1>1, <2>1, Zenon DEF PageSet, empty
  <2> QED BY <2>2 DEF empty
<1>3. page' \in [Pages -> PageSet]
  BY <1>1, <1>2, ZenonT(30) DEF ServerCrash, IInv, Types
<1>4. Types'
  BY <1>3 DEF IInv, Types, ServerCrash, None
<1>5. \A k \in Pages : page'[k] = page[k] \/ page'[k] = [page[k] EXCEPT !.q = <<>>]
  BY DEF ServerCrash
<1>6. \A k \in Pages : page'[k].dms = page[k].dms /\ page'[k].srv = page[k].srv /\ page'[k].guid = page[k].guid
  BY <1>1, <1>5, Zenon DEF PageSet
<1>7. SameFields
  BY <1>6 DEF SameFields, ServerCrash
<1> QED BY <1>4, <1>7, QuietInv DEF ServerCrash

LEMMA ServerSendInv == \A k \in Pages : IInv /\ ServerSend(k) => IInv'
<1> SUFFICES ASSUME NEW k \in Pages, IInv, ServerSend(k) PROVE IInv'
  OBVIOUS
<1>1. PICK e \in cf.events : page' = [page EXCEPT ![k].q = Append(@, e)]
  BY Zenon DEF ServerSend
<1>2. e \in Events /\ page[k] \in PageSet
  BY MigrateAssumption DEF IInv, Types
<1>3. [page[k] EXCEPT !.q = Append(page[k].q, e)] \in PageSet
  <2> DEFINE q == Append(page[k].q, e)
  <2>1. q \in Seq(Events)
    BY <1>2 DEF PageSet
  <2> HIDE DEF q
  <2>2. [page[k] EXCEPT !.q = q] \in PageSet
    BY <1>2, <2>1, ZenonT(30) DEF PageSet
  <2> QED BY <2>2 DEF q
<1>4. page' \in [Pages -> PageSet]
  BY <1>1, <1>3 DEF IInv, Types
<1>5. Types'
  BY <1>4 DEF IInv, Types, ServerSend
<1>6. SameFields
  BY <1>1, <1>2, ZenonT(30) DEF SameFields, ServerSend, IInv, Types, PageSet
<1> QED BY <1>5, <1>6, QuietInv DEF ServerSend

LEMMA CallInv == \A c \in CallSet : IInv /\ Call(c) => IInv'
<1> SUFFICES ASSUME NEW c \in CallSet, IInv, Call(c) PROVE IInv'
  OBVIOUS
<1>1. main' \in MainSet /\ main'.at \in {"poll", "fall"}
  BY Zenon DEF Call, Idle, MainSet, MainAt, CallSet
<1>2. Types'
  BY <1>1 DEF IInv, Types, Call
<1>3. SameFields
  BY DEF SameFields, Call
<1> QED BY <1>1, <1>2, <1>3, QuietInv DEF Call, Idle, Migrating

\* A call that ends leaves the main thread idle.
LEMMA DoneIdle ==
  ASSUME main \in MainSet, NEW rv \in {"event", "nothing", "end"}, NEW noks,
         NEW got \in {"none", "reset"} \cup Events, Done(rv, noks, got)
  PROVE  main' \in MainSet /\ main'.at = "idle"
<1>1. main.call \in CallSet
  BY DEF MainSet
<1>2. PICK r \in {"event", "nothing", "end"}, g \in {"none", "reset"} \cup Events :
         main' = [Idle EXCEPT !.call = main.call, !.ret = r, !.got = g]
  BY Zenon DEF Done
<1> QED BY <1>1, <1>2, Zenon DEF Idle, MainSet, MainAt

LEMMA PollResetInv == IInv /\ PollReset => IInv'
<1> SUFFICES ASSUME IInv, PollReset PROVE IInv'
  OBVIOUS
<1>1. main' \in MainSet /\ main'.at = "idle"
  BY DoneIdle, Zenon DEF PollReset, IInv, Types
<1>2. priv[ctx] \in PrivSet /\ ctx \in Pages
  BY DEF IInv, Types
<1>3. [priv[ctx] EXCEPT !.reset = FALSE] \in PrivSet
  BY <1>2, Zenon DEF PrivSet
<1>4. priv' = [priv EXCEPT ![ctx].reset = FALSE]
  BY DEF PollReset
<1>5. priv' \in [Pages -> PrivSet]
  BY <1>3, <1>4 DEF IInv, Types
<1>6. Types'
  BY <1>1, <1>5 DEF IInv, Types, PollReset
<1>7. SameFields
  BY <1>2, <1>4 DEF SameFields, PollReset, IInv, Types, PrivSet
<1> QED BY <1>1, <1>6, <1>7, QuietInv DEF PollReset, Migrating

LEMMA PollEventInv == IInv /\ PollEvent => IInv'
<1> SUFFICES ASSUME IInv, PollEvent PROVE IInv'
  OBVIOUS
<1> DEFINE e == Head(page[ctx].q)
<1>1. ctx \in Pages /\ page[ctx] \in PageSet /\ priv[ctx] \in PrivSet /\ main \in MainSet
  BY DEF IInv, Types
<1>2. page[ctx].q \in Seq(Events) /\ page[ctx].q # <<>>
  BY <1>1 DEF PageSet, PollEvent
<1>3. e \in Events /\ Tail(page[ctx].q) \in Seq(Events)
  BY <1>2
<1>4. [page[ctx] EXCEPT !.q = Tail(page[ctx].q)] \in PageSet
  BY <1>1, <1>3, Zenon DEF PageSet
<1>5. page' = [page EXCEPT ![ctx].q = Tail(@)]
  BY DEF PollEvent
<1>6. page' \in [Pages -> PageSet]
  BY <1>4, <1>5 DEF IInv, Types
<1>7. main' \in MainSet /\ main'.at \in {"idle", "poll", "connect"}
  <2>1. CASE e = "data" /\ Done("event", FALSE, e)
    BY <1>1, <1>3, <2>1, DoneIdle, Zenon
  <2>2. CASE main' = main
    BY <1>1, <2>2 DEF PollEvent
  <2>3. CASE e = "exit" /\ Done("event", TRUE, e)
    BY <1>1, <1>3, <2>3, DoneIdle, Zenon
  <2>4. CASE main' = [main EXCEPT !.at = "connect", !.force = FALSE]
    BY <1>1, <2>4, Zenon DEF MainSet, MainAt
  <2> QED BY <2>1, <2>2, <2>3, <2>4, Zenon DEF PollEvent
<1>8. PICK b \in BOOLEAN : \/ priv' = priv
                           \/ priv' = [priv EXCEPT ![ctx].alt = b, ![ctx].guid = page[ctx].guid]
                           \/ priv' = [priv EXCEPT ![ctx].alive = b]
  BY Zenon DEF PollEvent
<1>9. /\ [priv[ctx] EXCEPT !.alt = b, !.guid = page[ctx].guid] \in PrivSet
      /\ [priv[ctx] EXCEPT !.alive = b] \in PrivSet
  BY <1>1 DEF PrivSet, PageSet
<1>10. priv' \in [Pages -> PrivSet]
  BY <1>8, <1>9 DEF IInv, Types
<1>11. Types'
  BY <1>6, <1>7, <1>10 DEF IInv, Types, PollEvent
<1>12. \A k \in Pages : page'[k].dms = page[k].dms /\ page'[k].srv = page[k].srv /\ page'[k].guid = page[k].guid
  BY <1>1, <1>5 DEF IInv, Types, PageSet
<1>13. /\ \A k \in Pages : /\ priv'[k].local = priv[k].local
                           /\ k # ctx => priv'[k].guid = priv[k].guid
       /\ priv'[ctx].guid \in {priv[ctx].guid, page[ctx].guid}
  BY <1>1, <1>8 DEF IInv, Types, PrivSet
<1>14. ~Migrating /\ ~Migrating' /\ UNCHANGED <<cf, guard, place, ctx, ended, dev>>
  BY <1>7 DEF PollEvent, Migrating
\* the client holds the first segment and there is no other one, or a later one,
\* the server of which knows it by the guid it has
<1>15. Guids'
  <2> SUFFICES ASSUME cf.noreg PROVE Guids'
    BY <1>14 DEF Guids
  <2>1. CASE ctx = 1
    <3>1. \A k \in Pages \ {1} : page[k].srv = None
      BY <1>14, <2>1 DEF IInv, Guids
    <3> QED BY <1>12, <1>13, <1>14, <2>1, <3>1, FirstPage DEF IInv, Guids
  <2>2. CASE ctx # 1
    <3>1. page[ctx].srv # None
      BY <1>1 DEF IInv, Alive
    <3>2. page[ctx].guid = priv[1].guid /\ priv[ctx].guid = priv[1].guid
      BY <1>1, <2>2, <3>1 DEF IInv, Guids
    <3>3. \A k \in Pages : priv'[k].guid = priv[k].guid
      <4>1. priv'[ctx].guid = priv[ctx].guid
        BY <1>13, <3>2, Zenon
      <4> QED BY <1>13, <4>1, Zenon
    <3> QED BY <1>12, <1>14, <2>2, <3>3, FirstPage DEF IInv, Guids
  <2> QED BY <2>1, <2>2
<1>16. \A k \in Pages : /\ page'[k].dms = page[k].dms /\ page'[k].srv = page[k].srv
                         /\ priv'[k].local = priv[k].local
  BY <1>12, <1>13, Zenon
<1> QED BY <1>11, <1>14, <1>15, <1>16, QuietMost, Zenon

LEMMA PollEmptyInv == IInv /\ PollEmpty => IInv'
<1> SUFFICES ASSUME IInv, PollEmpty PROVE IInv'
  OBVIOUS
<1>1. main' \in MainSet /\ main'.at \in {"idle", "fall"}
  <2>1. CASE main' = [main EXCEPT !.at = "fall"]
    BY <2>1 DEF IInv, Types, MainSet, MainAt
  <2>2. CASE Done("nothing", FALSE, "none")
    BY <2>2, DoneIdle, Zenon DEF IInv, Types
  <2> QED BY <2>1, <2>2, Zenon DEF PollEmpty
<1>2. Types'
  BY <1>1 DEF IInv, Types, PollEmpty
<1>3. SameFields
  BY DEF SameFields, PollEmpty
<1> QED BY <1>1, <1>2, <1>3, QuietInv DEF PollEmpty, Migrating

LEMMA FallInv == IInv /\ Fall => IInv'
<1> SUFFICES ASSUME IInv, Fall PROVE IInv'
  OBVIOUS
<1>1. main' \in MainSet /\ main'.at \in {"failed", "connect"}
  BY ZenonT(30) DEF Fall, IInv, Types, MainSet, MainAt
<1>2. Types'
  BY <1>1 DEF IInv, Types, Fall
<1>3. SameFields
  BY DEF SameFields, Fall
<1> QED BY <1>1, <1>2, <1>3, QuietInv DEF Fall, Migrating

\* fallback_migrate returns to a caller that is done.
LEMMA BackIdle ==
  ASSUME main \in MainSet, NEW ok \in BOOLEAN, Back(ok)
  PROVE  main' \in MainSet /\ main'.at = "idle"
<1>1. main.call \in CallSet
  BY DEF MainSet
<1>2. CASE main' = [Idle EXCEPT !.call = main.call]
  BY <1>1, <1>2, Zenon DEF Idle, MainSet, MainAt
<1>3. CASE \E rv \in {"event", "nothing", "end"} : Done(rv, FALSE, "none")
  BY <1>3, DoneIdle, Zenon
<1> QED BY <1>2, <1>3, Zenon DEF Back

LEMMA FailedInv == IInv /\ Failed => IInv'
<1> SUFFICES ASSUME IInv, Failed PROVE IInv'
  OBVIOUS
<1>1. main' \in MainSet /\ main'.at = "idle"
  BY BackIdle, Zenon DEF Failed, IInv, Types
<1>2. Types'
  BY <1>1 DEF IInv, Types, Failed
<1>3. SameFields
  BY DEF SameFields, Failed
<1> QED BY <1>1, <1>2, <1>3, QuietInv DEF Failed, Migrating

LEMMA ReturnInv == IInv /\ Return => IInv'
<1> SUFFICES ASSUME IInv, Return PROVE IInv'
  OBVIOUS
<1>1. main' \in MainSet /\ main'.at \in {"idle", "poll"}
  <2>1. CASE main' = [main EXCEPT !.at = "poll"]
    BY <2>1 DEF IInv, Types, MainSet, MainAt
  <2>2. CASE Back(TRUE)
    BY <2>2, BackIdle, Zenon DEF IInv, Types
  <2> QED BY <2>1, <2>2, Zenon DEF Return
<1>2. Types'
  BY <1>1 DEF IInv, Types, Return
<1>3. SameFields
  BY DEF SameFields, Return
<1> QED BY <1>1, <1>2, <1>3, QuietInv DEF Return, Migrating

-----------------------------------------------------------------------------
(* guard threads and the server's own switch *)

LEMMA ServerPullInv == \A k \in Pages : IInv /\ ServerPull(k) => IInv'
<1> SUFFICES ASSUME NEW k \in Pages, IInv, ServerPull(k) PROVE IInv'
  OBVIOUS
<1> DEFINE q == Append(page[k].q, "exit")
<1>1. page[k] \in PageSet /\ "exit" \in Events
  BY DEF IInv, Types, Events
<1>2. q \in Seq(Events)
  BY <1>1 DEF PageSet
<1>3. page' = [page EXCEPT ![k] = [page[k] EXCEPT !.q = q, !.dms = FALSE]]
  BY <1>1, Zenon DEF ServerPull, IInv, Types, PageSet
<1> HIDE DEF q
<1>4. [page[k] EXCEPT !.q = q, !.dms = FALSE] \in PageSet
  BY <1>1, <1>2, Zenon DEF PageSet
<1>5. page' \in [Pages -> PageSet]
  BY <1>3, <1>4 DEF IInv, Types
<1>6. ended' \in [Pages -> Int]
  BY DEF IInv, Types, ServerPull, Server
<1>7. Types'
  BY <1>5, <1>6 DEF IInv, Types, ServerPull
<1>8. \A j \in Pages : /\ page'[j].srv = page[j].srv /\ page'[j].guid = page[j].guid
                       /\ page'[j].dms => page[j].dms
  BY <1>1, <1>3, ZenonT(30) DEF IInv, Types, PageSet
<1>9. Homes' /\ Held' = Held
  BY DEF IInv, Homes, Held, Migrating, ServerPull
<1>10. Alive'
  BY <1>8, <1>9, Zenon DEF IInv, Alive, ServerPull
<1>11. Guards'
  BY <1>8, <1>9, Zenon DEF IInv, Guards, ServerPull
<1>12. Guids'
  BY <1>8, FirstPage DEF IInv, Guids, Migrating, ServerPull
<1>13. OwnSwitch'
  BY DEF IInv, Types, OwnSwitch, ServerPull, Server
<1> QED BY <1>7, <1>9, <1>10, <1>11, <1>12, <1>13 DEF IInv

\* A guard thread that goes on to another place in its loop.
LEMMA GuardMoves ==
  ASSUME IInv, NEW k \in Pages, NEW g \in GuardSet,
         guard' = [guard EXCEPT ![k] = g], g.active = guard[k].active, guard[k].at # "none", g.at # "none",
         IF g.at \in {"watch", "seen", "loaded"}
         THEN /\ guard[k].at \in {"watch", "seen", "loaded"} /\ g.dms = guard[k].dms
              /\ g.at = "loaded" => g.held = g.dms
         ELSE ~g.active,
         UNCHANGED <<cf, server, started, page, place, priv, ctx, main, ended, dev>>
  PROVE  IInv'
<1>1. Types'
  BY DEF IInv, Types
<1>2. Homes' /\ Held' = Held
  BY DEF IInv, Homes, Held, Migrating
<1>3. \A j \in Pages : guard'[j].active = guard[j].active
  BY DEF IInv, Types
<1>4. Alive'
  BY <1>2, <1>3 DEF IInv, Alive
<1>5. Guards'
  <2> SUFFICES ASSUME NEW j \in Pages
               PROVE  /\ page[j].srv = None => guard'[j].at = "none"
                      /\ IF guard'[j].at \in {"watch", "seen", "loaded"}
                         THEN \/ /\ guard'[j].active /\ guard'[j].dms \in Places /\ place[guard'[j].dms] = j
                                 /\ guard'[j].at = "loaded" => guard'[j].held = guard'[j].dms
                              \/ ~guard'[j].active /\ guard'[j].dms = None /\ ~page[j].dms /\ j \notin Held
                         ELSE ~guard'[j].active
    BY <1>2 DEF Guards
  <2>1. CASE j = k
    <3>1. guard'[j] = g
      BY <2>1 DEF IInv, Types
    <3> QED BY <2>1, <3>1 DEF IInv, Guards
  <2>2. CASE j # k
    <3>1. guard'[j] = guard[j]
      BY <2>2 DEF IInv, Types
    <3> QED BY <3>1 DEF IInv, Guards
  <2> QED BY <2>1, <2>2
<1>6. Guids' /\ OwnSwitch'
  BY DEF IInv, Guids, Migrating, OwnSwitch
<1> QED BY <1>1, <1>2, <1>4, <1>5, <1>6 DEF IInv

LEMMA GuardSeeInv == \A k \in Pages : IInv /\ GuardSee(k) => IInv'
<1> SUFFICES ASSUME NEW k \in Pages, IInv, GuardSee(k) PROVE IInv'
  OBVIOUS
<1> DEFINE g == [guard[k] EXCEPT !.at = "seen"]
<1>1. guard[k] \in GuardSet
  BY DEF IInv, Types
<1>2. g \in GuardSet /\ g.at = "seen" /\ g.active = guard[k].active /\ g.dms = guard[k].dms
  BY <1>1 DEF GuardSet, GuardAt
<1>3. guard' = [guard EXCEPT ![k] = g] /\ guard[k].at = "watch"
  BY DEF GuardSee
<1> HIDE DEF g
<1> QED BY <1>2, <1>3, GuardMoves, Zenon DEF GuardSee

LEMMA GuardLoadInv == \A k \in Pages : IInv /\ GuardLoad(k) => IInv'
<1> SUFFICES ASSUME NEW k \in Pages, IInv, GuardLoad(k) PROVE IInv'
  OBVIOUS
<1> DEFINE g == [guard[k] EXCEPT !.at = "loaded", !.held = guard[k].dms]
<1>1. guard[k] \in GuardSet
  BY DEF IInv, Types
<1>2. g \in GuardSet /\ g.at = "loaded" /\ g.active = guard[k].active /\ g.dms = guard[k].dms /\ g.held = g.dms
  BY <1>1, Zenon DEF GuardSet, GuardAt
<1>3. guard' = [guard EXCEPT ![k] = g] /\ guard[k].at = "seen"
  BY <1>1, Zenon DEF GuardLoad, IInv, Types, GuardSet
<1> HIDE DEF g
<1> QED BY <1>2, <1>3, GuardMoves, Zenon DEF GuardLoad

LEMMA GuardLeaveInv == \A k \in Pages : IInv /\ GuardLeave(k) => IInv'
<1> SUFFICES ASSUME NEW k \in Pages, IInv, GuardLeave(k) PROVE IInv'
  OBVIOUS
<1> DEFINE g == [NoGuard EXCEPT !.at = "done"]
<1>1. g \in GuardSet /\ g.at = "done" /\ ~g.active /\ g.active \in BOOLEAN
  BY Zenon DEF NoGuard, GuardSet, GuardAt, None
<1>2. guard' = [guard EXCEPT ![k] = g] /\ ~guard[k].active /\ guard[k].active \in BOOLEAN
  BY DEF GuardLeave, IInv, Types, GuardSet
<1> HIDE DEF g
<1> QED BY <1>1, <1>2, GuardMoves, Zenon DEF GuardLeave

LEMMA GuardFireInv == \A k \in Pages : IInv /\ GuardFire(k) => IInv'
<1> SUFFICES ASSUME NEW k \in Pages, IInv, GuardFire(k) PROVE IInv'
  OBVIOUS
<1> DEFINE g == [NoGuard EXCEPT !.at = "done"]
<1>1. g \in GuardSet /\ g.at = "done" /\ ~g.active
  BY Zenon DEF NoGuard, GuardSet, GuardAt, None
<1>2. guard' = [guard EXCEPT ![k] = g] /\ guard[k].at = "loaded" /\ priv' = [priv EXCEPT ![k].local = FALSE]
  BY DEF GuardFire
<1> HIDE DEF g
<1>3. guard[k] \in GuardSet /\ priv[k] \in PrivSet
  BY DEF IInv, Types
\* the segment the loaded address leads to
<1>4. \/ UNCHANGED <<page, ended>> /\ ~(guard[k].held # None /\ place[guard[k].held] # None)
      \/ \E j \in Pages : Cleared(j, k) /\ guard[k].held \in Places /\ place[guard[k].held] = j
  <2>1. CASE guard[k].held # None /\ place[guard[k].held] # None
    <3>1. guard[k].held \in Places
      BY <1>3, <2>1 DEF GuardSet
    <3>2. place[guard[k].held] \in Pages
      BY <2>1, <3>1 DEF IInv, Types
    <3>3. Cleared(place[guard[k].held], k)
      BY <2>1 DEF GuardFire
    <3> QED BY <3>1, <3>2, <3>3
  <2>2. CASE ~(guard[k].held # None /\ place[guard[k].held] # None)
    BY <2>2 DEF GuardFire
  <2> QED BY <2>1, <2>2
<1>5. page' \in [Pages -> PageSet] /\ ended' \in [Pages -> Int]
  <2>1. ASSUME NEW j \in Pages, Cleared(j, k)
        PROVE  page' \in [Pages -> PageSet] /\ ended' \in [Pages -> Int]
    <3>1. page[j] \in PageSet /\ [page[j] EXCEPT !.dms = FALSE] \in PageSet
      BY Zenon DEF IInv, Types, PageSet
    <3>2. k \in Int
      BY MigrateAssumption DEF Pages
    <3> QED BY <2>1, <3>1, <3>2 DEF Cleared, IInv, Types
  <2> QED BY <1>4, <2>1 DEF IInv, Types
<1>6. priv' \in [Pages -> PrivSet]
  <2>1. [priv[k] EXCEPT !.local = FALSE] \in PrivSet
    BY <1>3, Zenon DEF PrivSet
  <2> QED BY <1>2, <2>1 DEF IInv, Types
<1>7. Types'
  BY <1>1, <1>2, <1>5, <1>6 DEF IInv, Types, GuardFire
<1>8. Homes' /\ Held' = Held
  BY DEF IInv, Homes, Held, Migrating, GuardFire
<1>9. \A j \in Pages : /\ page'[j].srv = page[j].srv /\ page'[j].guid = page[j].guid
                       /\ page'[j].dms => page[j].dms
  <2>1. ASSUME NEW i \in Pages, Cleared(i, k)
        PROVE  \A j \in Pages : /\ page'[j].srv = page[j].srv /\ page'[j].guid = page[j].guid
                                /\ page'[j].dms => page[j].dms
    BY <2>1, Zenon DEF Cleared, IInv, Types, PageSet
  <2> QED BY <1>4, <2>1
<1>10. \A j \in Pages : priv'[j].guid = priv[j].guid /\ (j # k => priv'[j].local = priv[j].local)
  BY <1>2, <1>3, Zenon DEF IInv, Types, PrivSet
<1>11. \A j \in Pages : j # k => guard'[j] = guard[j]
  BY <1>2 DEF IInv, Types
<1>12. guard'[k] = g
  BY <1>2 DEF IInv, Types
\* an active thread clears its own segment, a retired one left a dead segment
<1>13. \/ guard[k].active /\ guard[k].held = guard[k].dms /\ guard[k].dms \in Places /\ place[guard[k].dms] = k
       \/ ~guard[k].active /\ guard[k].dms = None /\ ~page[k].dms
  BY <1>2 DEF IInv, Guards
<1>14. ~page'[k].dms
  <2>1. CASE guard[k].active /\ guard[k].held = guard[k].dms /\ guard[k].dms \in Places /\ place[guard[k].dms] = k
    <3>1. guard[k].held # None /\ place[guard[k].held] # None
      BY <2>1 DEF Places, Pages, None
    <3>2. Cleared(k, k)
      BY <1>4, <2>1, <3>1
    <3> QED BY <3>2 DEF Cleared, IInv, Types, PageSet
  <2>2. CASE ~page[k].dms
    BY <2>2, <1>9
  <2> QED BY <1>13, <2>1, <2>2
<1>15. Alive'
  <2>1. \A j \in Pages : page'[j].dms \/ guard'[j].active => page[j].dms \/ guard[j].active
    BY <1>1, <1>9, <1>11, <1>12
  <2>2. \A j \in Pages : page'[j].dms => priv'[j].local
    BY <1>9, <1>10, <1>14 DEF IInv, Alive
  <2>3. ctx' = ctx
    BY DEF GuardFire
  <2> QED BY <1>8, <1>9, <2>1, <2>2, <2>3 DEF IInv, Alive
<1>16. Guards'
  <2>1. place' = place
    BY DEF GuardFire
  <2>2. ASSUME NEW j \in Pages, j # k
        PROVE  /\ page'[j].srv = None => guard'[j].at = "none"
               /\ IF guard'[j].at \in {"watch", "seen", "loaded"}
                  THEN \/ /\ guard'[j].active /\ guard'[j].dms \in Places /\ place'[guard'[j].dms] = j
                          /\ guard'[j].at = "loaded" => guard'[j].held = guard'[j].dms
                       \/ ~guard'[j].active /\ guard'[j].dms = None /\ ~page'[j].dms /\ j \notin Held'
                  ELSE ~guard'[j].active
    BY <1>8, <1>9, <1>11, <2>1, <2>2 DEF IInv, Guards
  <2>3. page'[k].srv # None
    BY <1>2, <1>9 DEF IInv, Guards
  <2> QED BY <1>1, <1>12, <2>2, <2>3 DEF Guards
<1>17. Guids'
  BY <1>9, <1>10, FirstPage DEF IInv, Guids, Migrating, GuardFire
<1>18. OwnSwitch'
  <2> SUFFICES ASSUME dev' = {} PROVE \A j \in Pages : ended'[j] \in {None, Server, Client, j}
    BY DEF OwnSwitch
  <2>1. guard[k].held = guard[k].dms /\ dev = {}
    BY DEF GuardFire
  <2>2. \A j \in Pages : ended[j] \in {None, Server, Client, j}
    BY <2>1 DEF IInv, OwnSwitch
  <2>3. ASSUME NEW j \in Pages, Cleared(j, k), guard[k].held \in Places, place[guard[k].held] = j
        PROVE  j = k
    BY <1>13, <2>1, <2>3 DEF Places, None
  <2>4. UNCHANGED ended \/ Cleared(k, k)
    BY <1>4, <2>3
  <2>5. CASE Cleared(k, k)
    BY <2>2, <2>5 DEF Cleared, IInv, Types
  <2> QED BY <2>2, <2>4, <2>5
<1> QED BY <1>7, <1>8, <1>15, <1>16, <1>17, <1>18 DEF IInv

-----------------------------------------------------------------------------
(* the steps of a migration *)

LEMMA ConnectInv == IInv /\ Connect => IInv'
<1> SUFFICES ASSUME IInv, Connect PROVE IInv'
  OBVIOUS
<1>1. main.at = "connect" /\ ~Migrating /\ main \in MainSet /\ ctx \in Pages
  BY DEF Connect, Migrating, IInv, Types
<1>2. CASE main' = [main EXCEPT !.at = "failed"] /\ UNCHANGED <<page, place, priv, guard>>
  <2>1. main' \in MainSet /\ main'.at = "failed"
    BY <1>1, <1>2 DEF MainSet, MainAt
  <2>2. Types'
    BY <1>2, <2>1 DEF IInv, Types, Connect
  <2>3. SameFields
    BY <1>2 DEF SameFields
  <2> QED BY <1>1, <1>2, <2>1, <2>2, <2>3, QuietInv DEF Connect, Migrating
<1>3. CASE /\ server # None /\ Unmade # {}
           /\ page' = [page EXCEPT ![Fresh] = [srv |-> server, dms |-> TRUE, q |-> <<>>, guid |-> Identity(Fresh)]]
           /\ place' = [place EXCEPT ![NewPlace] = Fresh]
           /\ priv' = [priv EXCEPT ![Fresh] = [alive |-> TRUE, local |-> TRUE, alt |-> FALSE, primary |-> FALSE,
                                               guid |-> Identity(Fresh), reset |-> FALSE]]
           /\ guard' = IF cf.guard THEN [guard EXCEPT ![Fresh] = Watching(NewPlace)] ELSE guard
           /\ main' = [main EXCEPT !.at = "setup", !.new = Fresh]
  <2> DEFINE n  == Fresh
             id == Identity(Fresh)
             np == NewPlace
             nq == <<>>
  <2>1. n \in Pages /\ page[n].srv = None
    BY <1>3, FreshUnmade
  <2>2. n # ctx /\ page[ctx].srv # None /\ n \notin Held
    BY <1>1, <2>1 DEF IInv, Alive, Held
  <2>3. PICK pl \in Places : place[pl] = ctx /\ place[3 - pl] = None
    BY <1>1 DEF IInv, Homes
  <2>4. None \notin Pages /\ \A k \in Pages : k \in Nat
    BY DEF Pages, None
  <2>5. place[3 - pl] # ctx
    BY <1>1, <2>3, <2>4
  <2>6. np = 3 - pl /\ np \in Places /\ np # pl /\ 3 - np = pl
    BY <2>3, <2>5, PlaceFound DEF NewPlace
  <2>7. id \in Nat /\ (cf.noreg => n # 1 /\ id = priv[1].guid)
    <3>1. id \in Nat
      BY <1>1, <2>1, <2>4 DEF Identity, IInv, Types, PrivSet
    <3>2. cf.noreg => n # 1 /\ (ctx # 1 => priv[ctx].guid = priv[1].guid)
      BY <1>1, <2>1, <2>2 DEF IInv, Guids
    <3> QED BY <3>1, <3>2 DEF Identity
  <2>8. nq \in Seq(Events) /\ server \in Nat
    BY DEF IInv, Types
  <2>9. /\ server # None
        /\ page' = [page EXCEPT ![n] = [srv |-> server, dms |-> TRUE, q |-> nq, guid |-> id]]
        /\ place' = [place EXCEPT ![np] = n]
        /\ priv' = [priv EXCEPT ![n] = [alive |-> TRUE, local |-> TRUE, alt |-> FALSE, primary |-> FALSE,
                                        guid |-> id, reset |-> FALSE]]
        /\ guard' = IF cf.guard THEN [guard EXCEPT ![n] = Watching(np)] ELSE guard
        /\ main' = [main EXCEPT !.at = "setup", !.new = n]
    BY <1>3
  <2> HIDE DEF n, id, np, nq
  <2>10. UNCHANGED <<cf, server, started, ctx, ended, dev>>
    BY DEF Connect
  <2>11. main' \in MainSet /\ main'.at = "setup" /\ main'.new = n
    BY <1>1, <2>1, <2>9, Zenon DEF MainSet, MainAt
  <2>12. Watching(np) \in GuardSet
    BY <2>6 DEF Watching, GuardSet, GuardAt
  <2>13. Types'
    <3>1. page' \in [Pages -> PageSet]
      BY <2>1, <2>7, <2>8, <2>9 DEF IInv, Types, PageSet
    <3>2. priv' \in [Pages -> PrivSet]
      BY <2>1, <2>7, <2>9 DEF IInv, Types, PrivSet
    <3>3. guard' \in [Pages -> GuardSet]
      BY <2>1, <2>9, <2>12 DEF IInv, Types
    <3>4. place' \in [Places -> Pages \cup {None}]
      BY <2>1, <2>6, <2>9 DEF IInv, Types
    <3> QED BY <2>10, <2>11, <3>1, <3>2, <3>3, <3>4 DEF IInv, Types
  <2>14. place'[pl] = ctx /\ place'[3 - pl] = n /\ \A o \in Places : o # np => place'[o] = place[o]
    BY <2>3, <2>6, <2>9 DEF IInv, Types
  <2>15. Homes'
    BY <2>1, <2>2, <2>3, <2>10, <2>11, <2>14 DEF Homes, Migrating
  <2>16. Held' = {ctx, n} /\ Held = {ctx}
    BY <1>1, <2>10, <2>11 DEF Held, Migrating
  <2>17. /\ page'[n].srv # None /\ page'[n].dms /\ page'[n].guid = id /\ priv'[n].local /\ priv'[n].guid = id
         /\ \A k \in Pages : k # n => page'[k] = page[k] /\ priv'[k] = priv[k] /\ guard'[k] = guard[k]
    BY <2>1, <2>9 DEF IInv, Types
  <2>18. Alive'
    BY <2>2, <2>10, <2>16, <2>17 DEF IInv, Alive
  <2>19. guard'[n] = Watching(np) \/ (guard'[n].at = "none" /\ ~guard'[n].active)
    <3>1. guard[n].at = "none" /\ ~guard[n].active
      BY <2>1 DEF IInv, Guards
    <3> QED BY <2>1, <2>9, <3>1 DEF IInv, Types
  <2>20. Guards'
    <3>1. ASSUME NEW k \in Pages, k # n
          PROVE  /\ page'[k].srv = None => guard'[k].at = "none"
                 /\ IF guard'[k].at \in {"watch", "seen", "loaded"}
                    THEN \/ /\ guard'[k].active /\ guard'[k].dms \in Places /\ place'[guard'[k].dms] = k
                            /\ guard'[k].at = "loaded" => guard'[k].held = guard'[k].dms
                         \/ ~guard'[k].active /\ guard'[k].dms = None /\ ~page'[k].dms /\ k \notin Held'
                    ELSE ~guard'[k].active
      <4>1. page'[k] = page[k] /\ guard'[k] = guard[k] /\ (k \notin Held => k \notin Held')
        BY <2>16, <2>17, <3>1
      <4>2. guard[k].dms \in Places /\ place[guard[k].dms] = k => place'[guard[k].dms] = k
        BY <2>3, <2>4, <2>6, <2>14, Zenon
      <4> QED BY <4>1, <4>2 DEF IInv, Guards
    <3>2. /\ page'[n].srv # None
          /\ IF guard'[n].at \in {"watch", "seen", "loaded"}
             THEN /\ guard'[n].active /\ guard'[n].dms \in Places /\ place'[guard'[n].dms] = n
                  /\ guard'[n].at = "loaded" => guard'[n].held = guard'[n].dms
             ELSE ~guard'[n].active
      BY <2>6, <2>14, <2>17, <2>19 DEF Watching
    <3> QED BY <3>1, <3>2 DEF Guards
  <2>21. Guids'
    <3> SUFFICES ASSUME cf.noreg PROVE Guids'
      BY <2>10 DEF Guids
    <3>1. page'[1] = page[1] /\ priv'[1] = priv[1]
      BY <2>7, <2>17, FirstPage
    <3>2. Migrating'
      BY <2>11 DEF Migrating
    <3>3. ASSUME NEW k \in Pages \ {1}, page'[k].srv # None, k # n
          PROVE  page'[k].guid = priv'[1].guid /\ priv'[k].guid = priv'[1].guid /\ ctx' # 1
      BY <1>1, <2>10, <2>17, <3>1, <3>3 DEF IInv, Guids
    <3> QED BY <2>7, <2>10, <2>11, <2>17, <3>1, <3>2, <3>3 DEF IInv, Guids
  <2>22. OwnSwitch'
    BY <2>10 DEF IInv, OwnSwitch
  <2> QED BY <2>13, <2>15, <2>18, <2>20, <2>21, <2>22 DEF IInv
<1> QED BY <1>2, <1>3 DEF Connect

LEMMA SetupInv == IInv /\ Setup => IInv'
<1> SUFFICES ASSUME IInv, Setup PROVE IInv'
  OBVIOUS
<1>1. main' \in MainSet /\ main.at = "setup" /\ main'.at = "drop" /\ main'.new = main.new
  BY DEF Setup, IInv, Types, MainSet, MainAt
<1>2. Types'
  BY <1>1 DEF IInv, Types, Setup
<1>3. Homes' /\ Held' = Held
  BY <1>1 DEF IInv, Homes, Held, Migrating, Setup
<1>4. Alive' /\ Guards'
  BY <1>3 DEF IInv, Alive, Guards, Setup
<1>5. Guids' /\ OwnSwitch'
  BY <1>1 DEF IInv, Guids, Migrating, OwnSwitch, Setup
<1> QED BY <1>2, <1>3, <1>4, <1>5 DEF IInv

LEMMA DropInv == IInv /\ Drop => IInv'
<1> SUFFICES ASSUME IInv, Drop PROVE IInv'
  OBVIOUS
<1> DEFINE n == main.new
<1>1. main.at = "drop" /\ Migrating /\ main \in MainSet /\ ctx \in Pages /\ UNCHANGED <<cf, server, started, priv, ctx, dev>>
  BY DEF Drop, Migrating, IInv, Types
<1>2. n \in Pages /\ n # ctx
  BY <1>1 DEF IInv, Homes
<1>3. PICK pl \in Places : place[pl] = ctx /\ place[3 - pl] = n
  BY <1>1 DEF IInv, Homes
<1>4. PlaceOf(ctx) = pl /\ 3 - pl \in Places /\ 3 - pl # pl /\ 3 - (3 - pl) = pl
  BY <1>2, <1>3, PlaceFound
<1>5. place' = [place EXCEPT ![pl] = None]
  BY <1>4 DEF Drop
<1>6. place'[3 - pl] = n /\ place'[pl] = None /\ \A o \in Places : o # pl => place'[o] = place[o]
  BY <1>3, <1>4, <1>5 DEF IInv, Types
<1>7. main' \in MainSet /\ main'.at = "remap" /\ main'.new = n
  BY <1>1 DEF Drop, MainSet, MainAt
<1>8. page[ctx] \in PageSet /\ [page[ctx] EXCEPT !.dms = FALSE] \in PageSet
  BY <1>1, Zenon DEF IInv, Types, PageSet
<1>9. page' = [page EXCEPT ![ctx].dms = FALSE]
  BY DEF Drop, Cleared
<1>10. /\ ~page'[ctx].dms /\ page'[ctx].srv = page[ctx].srv /\ page'[ctx].guid = page[ctx].guid
       /\ \A k \in Pages : k # ctx => page'[k] = page[k]
  BY <1>1, <1>8, <1>9 DEF IInv, Types, PageSet
<1>11. guard[ctx] \in GuardSet /\ Retired(guard[ctx]) \in GuardSet
  BY <1>1, Zenon DEF IInv, Types, GuardSet, Retired
<1>12. guard' = IF guard[ctx].active THEN [guard EXCEPT ![ctx] = Retired(guard[ctx])] ELSE guard
  BY DEF Drop
<1>13. /\ \A k \in Pages : k # ctx => guard'[k] = guard[k]
       /\ ~guard'[ctx].active /\ guard'[ctx].at = guard[ctx].at
       /\ guard'[ctx].dms = None \/ guard'[ctx] = guard[ctx]
  BY <1>1, <1>11, <1>12 DEF IInv, Types, GuardSet, Retired
<1>14. Types'
  <2>1. page' \in [Pages -> PageSet]
    BY <1>8, <1>9 DEF IInv, Types
  <2>2. guard' \in [Pages -> GuardSet]
    BY <1>11, <1>12 DEF IInv, Types
  <2>3. place' \in [Places -> Pages \cup {None}]
    BY <1>5 DEF IInv, Types
  <2>4. ended' \in [Pages -> Int]
    BY DEF Drop, Cleared, IInv, Types, Client
  <2> QED BY <1>1, <1>7, <2>1, <2>2, <2>3, <2>4 DEF IInv, Types
<1>15. Homes'
  <2>1. ~Migrating' = FALSE
    BY <1>7 DEF Migrating
  <2>2. \E o \in Places : place'[o] = n /\ place'[3 - o] = None
    BY <1>4, <1>6
  <2> QED BY <1>1, <1>2, <1>7, <2>1, <2>2 DEF Homes
<1>16. Held' = {n} /\ Held = {ctx, n}
  BY <1>1, <1>7 DEF Held, Migrating
<1>17. Alive'
  BY <1>1, <1>10, <1>13, <1>16 DEF IInv, Alive
<1>18. Guards'
  <2>1. ASSUME NEW k \in Pages, k # ctx
        PROVE  /\ page'[k].srv = None => guard'[k].at = "none"
               /\ IF guard'[k].at \in {"watch", "seen", "loaded"}
                  THEN \/ /\ guard'[k].active /\ guard'[k].dms \in Places /\ place'[guard'[k].dms] = k
                          /\ guard'[k].at = "loaded" => guard'[k].held = guard'[k].dms
                       \/ ~guard'[k].active /\ guard'[k].dms = None /\ ~page'[k].dms /\ k \notin Held'
                  ELSE ~guard'[k].active
    <3>1. page'[k] = page[k] /\ guard'[k] = guard[k] /\ (k \notin Held => k \notin Held')
      BY <1>10, <1>13, <1>16, <2>1
    <3>2. guard[k].dms \in Places /\ place[guard[k].dms] = k => place'[guard[k].dms] = k
      BY <1>3, <1>6, <2>1
    <3> QED BY <3>1, <3>2 DEF IInv, Guards
  <2>2. /\ page'[ctx].srv = None => guard'[ctx].at = "none"
        /\ guard'[ctx].at \in {"watch", "seen", "loaded"} =>
             ~guard'[ctx].active /\ guard'[ctx].dms = None /\ ~page'[ctx].dms /\ ctx \notin Held'
        /\ ~guard'[ctx].active
    BY <1>1, <1>2, <1>10, <1>13, <1>16 DEF IInv, Guards
  <2> QED BY <2>1, <2>2 DEF Guards
<1>19. Guids'
  <2>1. Migrating'
    BY <1>7 DEF Migrating
  <2>2. \A k \in Pages : page'[k].srv = page[k].srv /\ page'[k].guid = page[k].guid
    BY <1>10
  <2> QED BY <1>1, <1>7, <2>1, <2>2, FirstPage DEF IInv, Guids
<1>20. OwnSwitch'
  BY <1>1 DEF IInv, Types, OwnSwitch, Drop, Cleared
<1> QED BY <1>14, <1>15, <1>17, <1>18, <1>19, <1>20 DEF IInv

LEMMA RemapInv == IInv /\ Remap => IInv'
<1> SUFFICES ASSUME IInv, Remap PROVE IInv'
  OBVIOUS
<1> DEFINE n == main.new
<1>1. /\ main.at = "remap" /\ Migrating /\ main \in MainSet /\ guard[n].at # "loaded" /\ ctx' = n
      /\ UNCHANGED <<cf, server, started, page, ended, dev>>
  BY DEF Remap, Migrating, IInv, Types
<1>2. n \in Pages /\ Held = {n} /\ None \notin Pages
  BY <1>1 DEF IInv, Homes, Held, Pages, None
<1>3. PICK pl \in Places : place[pl] = n /\ place[3 - pl] = None
  BY <1>1 DEF IInv, Homes
<1>4. PlaceOf(n) = pl /\ 3 - pl \in Places /\ 3 - pl # pl /\ 3 - (3 - pl) = pl
  BY <1>2, <1>3, PlaceFound
<1>5. main' \in MainSet /\ main'.at = "moved" /\ ~Migrating'
  BY <1>1, Zenon DEF Remap, MainSet, MainAt, Migrating
<1>6. priv[n] \in PrivSet /\ [priv[n] EXCEPT !.reset = TRUE] \in PrivSet /\ priv' = [priv EXCEPT ![n].reset = TRUE]
  <2>1. priv[n] \in PrivSet
    BY <1>2 DEF IInv, Types
  <2>2. [priv[n] EXCEPT !.reset = TRUE] \in PrivSet
    BY <2>1, Zenon DEF PrivSet
  <2>3. priv' = [priv EXCEPT ![n].reset = TRUE]
    BY DEF Remap
  <2> QED BY <2>1, <2>2, <2>3
<1>7. \A k \in Pages : priv'[k].local = priv[k].local /\ priv'[k].guid = priv[k].guid
  BY <1>2, <1>6 DEF IInv, Types, PrivSet
<1>8. guard[n] \in GuardSet /\ Moved(guard[n], 3 - pl) \in GuardSet
  BY <1>2, <1>4 DEF IInv, Types, GuardSet, Moved
\* the segment stays where it is mapped, or is mapped where the old one was
<1>9. \/ UNCHANGED <<place, guard>>
      \/ /\ place' = [place EXCEPT ![3 - pl] = n, ![pl] = None]
         /\ guard' = [guard EXCEPT ![n] = Moved(guard[n], 3 - pl)]
  BY <1>4 DEF Remap
<1>10. Types'
  <2>1. priv' \in [Pages -> PrivSet]
    BY <1>6, Zenon DEF IInv, Types
  <2>2. guard' \in [Pages -> GuardSet]
    BY <1>8, <1>9 DEF IInv, Types
  <2>3. place' \in [Places -> Pages \cup {None}]
    BY <1>2, <1>9 DEF IInv, Types
  <2> QED BY <1>1, <1>2, <1>5, <2>1, <2>2, <2>3 DEF IInv, Types
<1>11. Held' = {n}
  BY <1>1, <1>5 DEF Held
<1>12. PICK np \in Places : place'[np] = n /\ place'[3 - np] = None
  BY <1>3, <1>4, <1>9 DEF IInv, Types
<1>13. Homes'
  BY <1>1, <1>5, <1>12 DEF Homes, Migrating
<1>14. \A k \in Pages : guard'[k].active = guard[k].active /\ guard'[k].at = guard[k].at
  BY <1>8, <1>9 DEF IInv, Types, Moved, GuardSet
<1>15. Alive'
  BY <1>1, <1>2, <1>7, <1>11, <1>14 DEF IInv, Alive
<1>16. Guards'
  <2>1. CASE UNCHANGED <<place, guard>>
    BY <1>1, <1>2, <1>11, <2>1 DEF IInv, Guards
  <2>2. CASE /\ place' = [place EXCEPT ![3 - pl] = n, ![pl] = None]
             /\ guard' = [guard EXCEPT ![n] = Moved(guard[n], 3 - pl)]
    <3>1. ASSUME NEW k \in Pages, k # n
          PROVE  /\ page'[k].srv = None => guard'[k].at = "none"
                 /\ guard'[k].at \in {"watch", "seen", "loaded"} =>
                      ~guard'[k].active /\ guard'[k].dms = None /\ ~page'[k].dms /\ k \notin Held'
                 /\ ~guard'[k].active
      <4>1. ~guard[k].active
        BY <1>2, <3>1 DEF IInv, Alive
      <4>2. guard'[k] = guard[k]
        BY <2>2, <3>1 DEF IInv, Types
      <4> QED BY <1>1, <1>2, <1>11, <4>1, <4>2 DEF IInv, Guards
    <3>2. guard'[n].dms = 3 - pl /\ place'[3 - pl] = n
      BY <1>2, <1>4, <1>8, <2>2, ZenonT(30) DEF IInv, Types, GuardSet, Moved
    <3>3. /\ page'[n].srv = None => guard'[n].at = "none"
          /\ IF guard'[n].at \in {"watch", "seen", "loaded"}
             THEN /\ guard'[n].active /\ guard'[n].dms \in Places /\ place'[guard'[n].dms] = n
                  /\ guard'[n].at # "loaded"
             ELSE ~guard'[n].active
      BY <1>1, <1>2, <1>4, <1>14, <3>2, ZenonT(30) DEF IInv, Guards
    <3> QED BY <3>1, <3>3 DEF Guards
  <2> QED BY <1>9, <2>1, <2>2
<1>17. Guids' /\ OwnSwitch'
  <2>1. (cf.noreg => n # 1) /\ ~Migrating'
    BY <1>1, <1>2, <1>5 DEF IInv, Guids, Migrating
  <2> QED BY <1>1, <1>7, <2>1, FirstPage DEF IInv, Guids, OwnSwitch
<1> QED BY <1>10, <1>13, <1>15, <1>16, <1>17 DEF IInv

-----------------------------------------------------------------------------
(* the invariant and what follows from it *)

LEMMA NextInv == IInv /\ [Next]_vars => IInv'
<1> SUFFICES ASSUME IInv, [Next]_vars PROVE IInv'
  OBVIOUS
<1>1. CASE ServerStart \/ ServerCrash
  BY <1>1, ServerStartInv, ServerCrashInv
<1>2. CASE \E k \in Pages : ServerPull(k) \/ ServerSend(k)
  BY <1>2, ServerPullInv, ServerSendInv
<1>3. CASE \E k \in Pages : Guard(k)
  BY <1>3, GuardSeeInv, GuardLoadInv, GuardFireInv, GuardLeaveInv DEF Guard
<1>4. CASE Calls
  BY <1>4, CallInv DEF Calls, CallSet
<1>5. CASE Step
  BY <1>5, PollResetInv, PollEventInv, PollEmptyInv, FallInv, FailedInv, ConnectInv, SetupInv, DropInv, RemapInv,
     ReturnInv DEF Step
<1>6. CASE UNCHANGED vars
  <2>1. SameFields /\ Types'
    BY <1>6 DEF vars, SameFields, IInv, Types
  <2> QED BY <1>6, <2>1, QuietInv DEF vars
<1> QED BY <1>1, <1>2, <1>3, <1>4, <1>5, <1>6 DEF Next

LEMMA Invariance == Spec => []IInv
BY InitInv, NextInv, PTL DEF Spec

\* A client has one home: outside a migration one segment, mapped once, whose
\* server alone believes that it has the client (arcan_shmif_migrate,
\* arcan_shmif_drop).
THEOREM OneHomeAlways == Spec => []OneHome
<1>1. IInv => OneHome
  BY DEF IInv, OneHome, Homes, Alive, Held
<1> QED BY <1>1, Invariance, PTL, ZenonT(30)

\* As long as no guard thread was late, every connection was ended by its
\* server, by the client, or by its own guard thread (guard_thread).
THEOREM OwnSwitchAlways == Spec => []OwnSwitch
<1>1. IInv => OwnSwitch
  BY DEF IInv
<1> QED BY <1>1, Invariance, PTL

\* Dropped segments are not watched (arcan_shmif_drop).
THEOREM GuardsOwnedAlways == Spec => []GuardsOwned
<1>1. IInv => GuardsOwned
  BY DEF IInv, GuardsOwned, Alive, Held, Migrating
<1> QED BY <1>1, Invariance, PTL

\* A connection that the guard thread ended is ended for all who share the
\* page (guard_thread, arcan_shmif_migrate).
THEOREM GuardHitsAlways == Spec => []GuardHits
<1>1. IInv => GuardHits
  BY DEF IInv, Types, GuardHits, Alive
<1> QED BY <1>1, Invariance, PTL

\* However often it moves, a client has one guid with all servers it moves to:
\* the one its first server told it together with a connection point, or else
\* its own (arcan_shmif_migrate, process_events).
THEOREM GuidKeptAlways == Spec => []GuidKept
<1>1. IInv => GuidKept
  BY DEF IInv, GuidKept, Guids
<1> QED BY <1>1, Invariance, PTL

-----------------------------------------------------------------------------
(* the RESET after a migration *)

\* A RESET that nobody was told of is still to come, or the connection is dead
\* again, and stays so; a call that is under way has not returned anything.
ResetInv ==
  /\ fresh => priv[ctx].reset \/ ~check_dms(ctx)
  /\ main.at # "idle" => main.ret = "none"

LEMMA InitReset == Init => ResetInv
BY DEF Init, ResetInv, Idle

\* A context that is not replaced keeps its RESET, or its connection ends.
LEMMA ResetStays ==
  ASSUME ResetInv, ctx' = ctx, fresh' => fresh, priv[ctx].reset => priv'[ctx].reset,
         page'[ctx].dms => page[ctx].dms, priv'[ctx].local => priv[ctx].local, priv'[ctx].alive => priv[ctx].alive
  PROVE  fresh' => priv'[ctx'].reset \/ ~check_dms(ctx)'
BY ZenonT(30) DEF ResetInv, check_dms

\* Servers and guard threads.
LEMMA OthersReset ==
  ASSUME IInv, ResetInv, NEW k \in Pages,
         ServerStart \/ ServerCrash \/ ServerPull(k) \/ ServerSend(k) \/ Guard(k)
  PROVE  ResetInv'
<1>1. ctx \in Pages /\ page \in [Pages -> PageSet] /\ priv \in [Pages -> PrivSet]
  BY DEF IInv, Types
<1>2. UNCHANGED <<ctx, fresh, main>>
  BY DEF ServerStart, ServerCrash, ServerPull, ServerSend, Guard, GuardSee, GuardLoad, GuardFire, GuardLeave
<1>3. /\ priv[ctx].reset => priv'[ctx].reset
      /\ priv'[ctx].local => priv[ctx].local
      /\ priv'[ctx].alive => priv[ctx].alive
  <2>1. priv' = priv \/ priv' = [priv EXCEPT ![k].local = FALSE]
    BY ZenonT(30) DEF ServerStart, ServerCrash, ServerPull, ServerSend, Guard, GuardSee, GuardLoad, GuardFire, GuardLeave
  <2> QED BY <1>1, <2>1 DEF PrivSet
<1>4. page'[ctx].dms => page[ctx].dms
  <2>1. CASE ServerCrash
    BY <1>1, <2>1, ZenonT(30) DEF ServerCrash, PageSet
  <2>2. CASE ServerPull(k)
    BY <1>1, <2>2 DEF ServerPull, PageSet
  <2>3. CASE ServerSend(k)
    BY <1>1, <2>3 DEF ServerSend, PageSet
  <2>4. CASE GuardFire(k)
    <3>1. CASE UNCHANGED page
      BY <3>1
    <3>2. CASE guard[k].held # None /\ place[guard[k].held] # None
      <4> DEFINE j == place[guard[k].held]
      <4>1. page' = [page EXCEPT ![j].dms = FALSE]
        BY <2>4, <3>2 DEF GuardFire, Cleared
      <4> HIDE DEF j
      <4> QED BY <1>1, <4>1 DEF PageSet
    <3> QED BY <2>4, <3>1, <3>2 DEF GuardFire
  <2>5. CASE ServerStart \/ GuardSee(k) \/ GuardLoad(k) \/ GuardLeave(k)
    BY <2>5 DEF ServerStart, GuardSee, GuardLoad, GuardLeave
  <2> QED BY <2>1, <2>2, <2>3, <2>4, <2>5 DEF Guard
<1>5. main'.at # "idle" => main'.ret = "none"
  BY <1>2 DEF ResetInv
<1> QED BY <1>2, <1>3, <1>4, <1>5, ResetStays DEF ResetInv

\* Steps of the main thread that touch neither pages nor contexts.
LEMMA MainReset ==
  ASSUME IInv, ResetInv,
         (\E c \in CallSet : Call(c)) \/ PollEmpty \/ Fall \/ Failed \/ Setup \/ Return
  PROVE  ResetInv'
<1>1. UNCHANGED <<page, priv, ctx>>
  BY Zenon DEF Call, PollEmpty, Fall, Failed, Setup, Return
<1>2. main \in MainSet
  BY DEF IInv, Types
<1>3. (fresh' => fresh) /\ (main'.at # "idle" => main'.ret = "none")
  <2>1. CASE \E c \in CallSet : Call(c)
    <3>1. fresh' = fresh
      BY <2>1, ZenonT(30) DEF Call
    <3>2. main'.ret = "none"
      BY <2>1, Zenon DEF Call, Idle
    <3> QED BY <3>1, <3>2
  <2>2. ASSUME NEW rv, NEW noks, NEW got, Done(rv, noks, got)
        PROVE  (fresh' => fresh) /\ main'.at = "idle"
    BY <2>2, Zenon DEF Done, Idle
  <2>3. ASSUME NEW ok, Back(ok)
        PROVE  (fresh' => fresh) /\ main'.at = "idle"
    BY <2>2, <2>3, Zenon DEF Back, Idle
  <2>4. CASE PollEmpty
    <3>1. CASE main' = [main EXCEPT !.at = "fall"] /\ UNCHANGED fresh
      <4>1. main'.ret = "none"
        BY <1>2, <2>4, <3>1 DEF PollEmpty, ResetInv, MainSet
      <4> QED BY <3>1, <4>1
    <3>2. CASE Done("nothing", FALSE, "none")
      BY <2>2, <3>2, Zenon
    <3> QED BY <2>4, <3>1, <3>2, Zenon DEF PollEmpty
  <2>5. CASE Fall \/ Setup
    <3>1. fresh' = fresh
      BY <2>5 DEF Fall, Setup
    <3>2. main'.ret = "none"
      BY <1>2, <2>5, Zenon DEF Fall, Setup, ResetInv, MainSet
    <3> QED BY <3>1, <3>2
  <2>6. CASE Failed
    BY <2>3, <2>6, Zenon DEF Failed
  <2>7. CASE Return
    BY <1>2, <2>3, <2>7, Zenon DEF Return, ResetInv, MainSet
  <2> QED BY <2>1, <2>4, <2>5, <2>6, <2>7
<1> QED BY <1>1, <1>3, ResetStays DEF ResetInv

LEMMA NextReset == IInv /\ ResetInv /\ [Next]_vars => ResetInv'
<1> SUFFICES ASSUME IInv, ResetInv, [Next]_vars PROVE ResetInv'
  OBVIOUS
<1>1. /\ ctx \in Pages /\ page \in [Pages -> PageSet] /\ priv \in [Pages -> PrivSet] /\ main \in MainSet
      /\ 1 \in Pages
  BY MigrateAssumption DEF IInv, Types, Pages
<1>2. CASE ServerStart \/ ServerCrash \/ (\E k \in Pages : ServerPull(k) \/ ServerSend(k))
           \/ (\E k \in Pages : Guard(k))
  BY <1>1, <1>2, OthersReset
<1>3. CASE Calls \/ PollEmpty \/ Fall \/ Failed \/ Setup \/ Return
  BY <1>3, MainReset DEF Calls, CallSet
<1>4. CASE PollReset
  <2>1. main'.at = "idle" /\ (fresh' => ~check_dms(ctx)) /\ ctx' = ctx /\ page' = page
    BY <1>4, Zenon DEF PollReset, Done, Idle
  <2>2. priv'[ctx].local = priv[ctx].local /\ priv'[ctx].alive = priv[ctx].alive
    BY <1>1, <1>4 DEF PollReset, PrivSet
  <2> QED BY <2>1, <2>2 DEF ResetInv, check_dms
<1>5. CASE PollEvent
  <2>1. ctx' = ctx /\ page'[ctx].dms = page[ctx].dms
    BY <1>1, <1>5 DEF PollEvent, PageSet
  <2>2. (fresh' => fresh) /\ (main'.at # "idle" => main'.ret = "none")
    <3>1. ASSUME NEW rv, NEW noks, NEW got, Done(rv, noks, got)
          PROVE  (fresh' => fresh) /\ main'.at = "idle"
      BY <3>1, Zenon DEF Done, Idle
    <3>2. CASE main' = main /\ UNCHANGED fresh
      BY <3>2 DEF ResetInv
    <3>3. CASE main' = [main EXCEPT !.at = "connect", !.force = FALSE] /\ UNCHANGED fresh
      <4>1. main'.ret = "none"
        BY <1>1, <1>5, <3>3 DEF PollEvent, ResetInv, MainSet
      <4> QED BY <3>3, <4>1
    <3> QED BY <1>5, <3>1, <3>2, <3>3, Zenon DEF PollEvent
  <2>3. PICK b \in BOOLEAN : \/ priv' = priv
                             \/ priv' = [priv EXCEPT ![ctx].alt = b, ![ctx].guid = page[ctx].guid]
                             \/ priv' = [priv EXCEPT ![ctx].alive = FALSE]
    BY <1>5, Zenon DEF PollEvent
  <2>4. /\ priv[ctx].reset => priv'[ctx].reset
        /\ priv'[ctx].local => priv[ctx].local
        /\ priv'[ctx].alive => priv[ctx].alive
    BY <1>1, <2>3 DEF PrivSet
  <2> QED BY <2>1, <2>2, <2>4, ResetStays DEF ResetInv
<1>6. CASE Connect
  <2>1. ctx' = ctx /\ fresh' = fresh /\ main'.ret = main.ret /\ main.at = "connect"
    BY <1>1, <1>6, Zenon DEF Connect, MainSet
  <2>2. page'[ctx] = page[ctx] /\ priv'[ctx] = priv[ctx]
    <3>1. CASE UNCHANGED <<page, priv>>
      BY <3>1
    <3>2. CASE /\ Unmade # {} /\ \E p : page' = [page EXCEPT ![Fresh] = p]
               /\ \E p : priv' = [priv EXCEPT ![Fresh] = p]
      <4>1. Fresh \in Pages /\ Fresh # ctx
        BY <1>1, <3>2, FreshUnmade DEF IInv, Alive
      <4> QED BY <1>1, <3>2, <4>1
    <3> QED BY <1>6, <3>1, <3>2 DEF Connect
  <2> QED BY <2>1, <2>2, ResetStays DEF ResetInv
<1>7. CASE Drop
  <2>1. ctx' = ctx /\ ~page'[ctx].dms /\ main'.ret = main.ret /\ main.at = "drop"
    BY <1>1, <1>7 DEF Drop, Cleared, PageSet, MainSet
  <2> QED BY <2>1 DEF ResetInv, check_dms
<1>8. CASE Remap
  <2>1. main.new \in Pages /\ priv[main.new] \in PrivSet
    BY <1>1, <1>8 DEF Remap, IInv, Homes
  <2>2. ctx' = main.new /\ priv'[main.new].reset
    BY <1>1, <1>8, <2>1 DEF Remap, PrivSet
  <2>3. main'.ret = main.ret /\ main.at = "remap"
    BY <1>1, <1>8 DEF Remap, MainSet
  <2> QED BY <2>2, <2>3 DEF ResetInv
<1>9. CASE UNCHANGED vars
  BY <1>9 DEF vars, ResetInv, check_dms
<1> QED BY <1>2, <1>3, <1>4, <1>5, <1>6, <1>7, <1>8, <1>9 DEF Next, Step

\* The first event that a client gets after a migration is the RESET that tells
\* it to draw and to announce itself anew (fallback_migrate, process_events).
THEOREM ResetFirstAlways == Spec => ResetFirst
<1> DEFINE A == fresh /\ check_dms(ctx) /\ main.at = "poll" /\ main'.ret = "event" => main'.got = "reset"
<1>1. IInv /\ ResetInv /\ [Next]_vars => [A]_vars
  <2> SUFFICES ASSUME IInv, ResetInv, Next, fresh, check_dms(ctx), main.at = "poll", main'.ret = "event"
               PROVE  main'.got = "reset"
    OBVIOUS
  <2>1. InReset /\ main.ret = "none"
    BY DEF ResetInv, InReset
  <2>2. main' # main
    BY <2>1
  <2>3. ~(ServerStart \/ ServerCrash \/ \E k \in Pages : ServerPull(k) \/ ServerSend(k) \/ Guard(k))
    BY <2>2, Zenon DEF ServerStart, ServerCrash, ServerPull, ServerSend, Guard, GuardSee, GuardLoad, GuardFire, GuardLeave
  <2>4. ~Calls
    BY DEF Calls, Call
  <2>5. PollReset
    BY <2>1, <2>3, <2>4 DEF Next, Step, PollEvent, PollEmpty, Fall, Failed, Connect, Setup, Drop, Remap, Return
  <2>6. Done("event", FALSE, "reset")
    BY <2>5, Zenon DEF PollReset
  <2> QED BY <2>6 DEF Done, Idle
<1>2. Spec => []ResetInv
  BY InitReset, NextReset, Invariance, PTL DEF Spec
<1> QED BY <1>1, <1>2, Invariance, PTL DEF Spec, ResetFirst
==============================================================================
