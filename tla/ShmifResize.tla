----------------------------- MODULE ShmifResize -----------------------------
(***************************************************************************)
(* The renegotiation of a shmif segment.  The client (shmif_resize) waits  *)
(* until the server has released its buffers, stores the dimensions,       *)
(* buffer counts and audio buffer size it wants in the page, sets          *)
(* `resized' and spins.  The server (platform_fsrv_resynch) clamps the     *)
(* request, resizes the file, lays the buffers out, acknowledges, and      *)
(* stores the counts it granted; vpending and apending carry counts during *)
(* the handshake and are bit masks of buffers otherwise.                   *)
(*                                                                         *)
(* Width and height are one number w; of the hints there is the one the    *)
(* server may refuse, SHMIF_RHINT_AUTH_TOK; samplerate, the other hints    *)
(* and subprotocols are left out.                                          *)
(***************************************************************************)
EXTENDS Integers, FiniteSets

CONSTANTS Configs,          \* configurations of the segment and its users
          SEM_VALUE_MAX,
          PP_SHMPAGE_MAXW,  \* limit the client checks
          VBUFC_LIM, ABUFC_LIM,
          default_abuf_sz,
          MAX_SZ            \* ARCAN_SHMPAGE_MAX_SZ

ASSUME ResizeAssumption ==
  /\ {PP_SHMPAGE_MAXW, MAX_SZ} \subseteq Nat
  /\ {SEM_VALUE_MAX, VBUFC_LIM, ABUFC_LIM, default_abuf_sz} \subseteq Nat \ {0}
  /\ \A c \in Configs :
       /\ c.requests \subseteq [w : Nat, v : Nat \cup {-1}, a : Nat \cup {-1}, b : Nat \cup {-1},
                          auth : BOOLEAN]
       /\ {c.max_w, c.ops} \subseteq Nat /\ c.server \in {"engine", "shmifsrv"}
       /\ c.drmauth \in BOOLEAN
       /\ c.faults \subseteq {"crash", "destroy", "nomem"}

VARIABLES
  cf,                          \* the configuration, never changed
  dev,                         \* history: what happened that the protocol does not foresee
  w, abufsize, vpending, apending, segment_size, resized, ready,  \* page
  hints,                       \* page: SHMIF_RHINT_AUTH_TOK is set
  file,                        \* size of the backing file
  sem, dms, local_dms, gpc,    \* vsem and asem; dead man's switch, guard thread
  pc, req, ctx, ops, result,   \* client: call, arguments, its context
  srv, spc, sv, want, refused  \* server: its settings, the request it read

page   == <<w, abufsize, vpending, apending, segment_size, resized>>
client == <<pc, req, ctx, ops, result>>
server == <<spc, sv, want, refused>>
conn   == <<dms, local_dms, gpc>>
vars   == <<cf, dev, page, ready, hints, file, sem, conn, client, srv, server>>

Requests == cf.requests   \* arguments: [w, v, a, b]; -1 keeps the setting; the hint
max_w    == cf.max_w      \* limit the script set on the segment, 0 for none
Server   == cf.server     \* "engine" or "shmifsrv"
Faults   == cf.faults     \* "crash", "destroy", "nomem"
MaxOps   == cf.ops        \* bound: calls the client makes
DrmAuth  == cf.drmauth    \* a server built with PLATFORM_VIDEO_DRMAUTH

AV == {"v", "a"}

SetBit0(n) == IF n % 2 = 0 THEN n + 1 ELSE n

Pick(a, b) == IF a > b THEN a ELSE b

check_dms == dms /\ local_dms

Post(s) == IF s < SEM_VALUE_MAX THEN s + 1 ELSE s

\* arcan_shmif_mapav: the end of the last buffer.  One unit stands for the
\* header of the page.
mapav(s) == 1 + s.a * s.b + s.v * s.w

\* The size allocated leaves room for alignment.
shmpage_size(s) == mapav(s) + 1

Clamp(n, lim) == IF n > lim THEN lim ELSE n

\* A request as the server takes it: counts limited, at least one video
\* buffer, at least the default audio buffer.
Clamped(s) == [w |-> s.w,
               v |-> Pick(Clamp(s.v, VBUFC_LIM), 1),
               a |-> Clamp(s.a, ABUFC_LIM),
               b |-> Pick(s.b, default_abuf_sz)]

\* "shrink number of video buffers if we don't fit"
Fitting(s) == {n \in 1 .. s.v : shmpage_size([s EXCEPT !.v = n]) <= MAX_SZ}

Shrunk(s) ==
  IF Fitting(s) = {} THEN s
  ELSE [s EXCEPT !.v = CHOOSE n \in Fitting(s) : \A k \in Fitting(s) : k <= n]

\* What decides where the buffers are.
Layout(s) == <<s.w, s.v, s.a, IF s.a > 0 THEN s.b ELSE 0>>

\* The request is granted, if it is, as it stands.
AsItStands(s) == Layout(Shrunk(Clamped(s))) = Layout(s)

\* prepare_segment: one video buffer, audio only when it is asked for
First == [w |-> 1, v |-> 1, a |-> 0, b |-> 0]

\* A segment right after prepare_segment and the client's setup_avbuf.
Init ==
  /\ cf \in Configs /\ dev = {}
  /\ w = 1 /\ abufsize = 0 /\ vpending = 0 /\ apending = 0
  /\ segment_size = mapav(First) /\ resized = 0 /\ ready = {}
  /\ hints = FALSE /\ file = shmpage_size(First)
  /\ sem = [x \in AV |-> 0] /\ dms = TRUE /\ local_dms = TRUE /\ gpc = "watch"
  /\ pc = "idle" /\ req = [w |-> 1, v |-> 1, a |-> 0, b |-> 0, auth |-> FALSE] /\ ops = 0 /\ result = "none"
  /\ ctx = [set |-> First, size |-> mapav(First)]
  /\ srv = "run" /\ spc = "idle" /\ want = First /\ refused = FALSE
  /\ sv = [set |-> First, size |-> shmpage_size(First)]

-----------------------------------------------------------------------------
(* client *)

\* arcan_shmif_signal hands over the first buffer of a kind.
Signal(x) ==
  /\ pc = "idle" /\ ops < MaxOps /\ check_dms /\ ctx.set[x] > 0
  /\ ops' = ops + 1
  /\ ready' = ready \cup {x}
  /\ IF x = "v" THEN vpending' = SetBit0(vpending) /\ UNCHANGED apending
                ELSE apending' = SetBit0(apending) /\ UNCHANGED vpending
  /\ UNCHANGED <<cf, dev, w, abufsize, segment_size, resized, hints, file, sem, conn,
                 pc, req, ctx, result, srv, server>>

\* Entry of arcan_shmif_resize(_ext).  The first form passes the audio buffer
\* size found in the page.  A dead connection goes to fallback_migrate.
Resize_Begin(r) ==
  /\ pc = "idle" /\ ops < MaxOps
  /\ ops' = ops + 1
  /\ req' = [r EXCEPT !.b = IF r.b = -1 THEN abufsize ELSE r.b]
  /\ refused' = FALSE
  /\ \/ r.w > PP_SHMPAGE_MAXW /\ result' = "false" /\ pc' = "idle"
     \/ /\ r.w <= PP_SHMPAGE_MAXW /\ result' = "none"
        /\ pc' = IF check_dms THEN "wait_v" ELSE "migrate"
  /\ UNCHANGED <<cf, dev, page, ready, hints, file, sem, conn, ctx, srv, spc, sv, want>>

WaitPC == [v |-> "wait_v", a |-> "wait_a"]
SemPC  == [v |-> "sem_v", a |-> "sem_a"]
NextPC == [v |-> "wait_a", a |-> "recheck"]
PostPC == [v |-> "post_v", a |-> "post_a"]

\* wait for any outstanding v/asynch
Resize_Wait(x) ==
  /\ pc = WaitPC[x]
  /\ pc' = IF x \in ready /\ check_dms THEN SemPC[x] ELSE NextPC[x]
  /\ UNCHANGED <<cf, dev, page, ready, hints, file, sem, conn, req, ctx, ops, result, srv, server>>

Resize_SemWait(x) ==
  /\ pc = SemPC[x] /\ sem[x] > 0
  /\ sem' = [sem EXCEPT ![x] = @ - 1]
  /\ pc' = WaitPC[x]
  /\ UNCHANGED <<cf, dev, page, ready, hints, file, conn, req, ctx, ops, result, srv, server>>

\* What the arguments ask for, the kept settings filled in.
Goal ==
  [w |-> Pick(req.w, 1),
   v |-> IF req.v = -1 THEN ctx.set.v ELSE req.v,
   a |-> IF req.a = -1 THEN ctx.set.a ELSE req.a,
   b |-> req.b]

\* "don't negotiate unless the goals have changed"
NoChange ==
  /\ ctx.set.v > 0
  /\ Goal.w = ctx.set.w /\ Goal.v = ctx.set.v /\ Goal.a = ctx.set.a
  /\ Goal.b \in {0, abufsize} /\ req.auth = hints

\* mutant: the counts are left as they are
Resize_Request_NoCount ==
  /\ pc = "recheck"
  /\ \/ ~check_dms /\ pc' = "migrate" /\ UNCHANGED <<dev, page, hints, result>>
     \/ check_dms /\ NoChange /\ pc' = "idle" /\ result' = "true" /\ UNCHANGED <<dev, page, hints>>
     \/ /\ check_dms /\ ~NoChange /\ pc' = "flag"
        /\ w' = Goal.w /\ abufsize' = Goal.b /\ hints' = req.auth
        /\ dev' = IF AsItStands(Goal) THEN dev ELSE dev \cup {"changed"}
        /\ UNCHANGED <<vpending, apending, segment_size, resized, result>>
  /\ UNCHANGED <<cf, ready, file, sem, conn, req, ctx, ops, srv, server>>

\* The connection is checked again, then the request is stored.
Resize_Request ==
  /\ pc = "recheck"
  /\ \/ ~check_dms /\ pc' = "migrate" /\ UNCHANGED <<dev, page, hints, result>>
     \/ check_dms /\ NoChange /\ pc' = "idle" /\ result' = "true" /\ UNCHANGED <<dev, page, hints>>
     \/ /\ check_dms /\ ~NoChange /\ pc' = "flag"
        /\ w' = Goal.w /\ abufsize' = Goal.b /\ hints' = req.auth
        /\ vpending' = Goal.v /\ apending' = Goal.a
        /\ dev' = IF AsItStands(Goal) THEN dev ELSE dev \cup {"changed"}
        /\ UNCHANGED <<segment_size, resized, result>>
  /\ UNCHANGED <<cf, ready, file, sem, conn, req, ctx, ops, srv, server>>

Resize_Flag ==
  /\ pc = "flag"
  /\ resized' = 1 /\ pc' = "spin"
  /\ UNCHANGED <<cf, dev, w, abufsize, vpending, apending, segment_size, ready, hints, file, sem, conn,
                 req, ctx, ops, result, srv, server>>

\* mutant: the loop does not notice that the server is gone
Resize_Spin_Blind ==
  /\ pc = "spin"
  /\ sem' = [sem EXCEPT !["v"] = Pick(@ - 1, 0)]
  /\ pc' = IF resized > 0 THEN "spin" ELSE "answer"
  /\ UNCHANGED <<cf, dev, page, ready, hints, file, conn, req, ctx, ops, result, srv, server>>

\* One turn of the loop: a token of the video semaphore is taken if there is
\* one, then the flag is tested.
Resize_Spin ==
  /\ pc = "spin"
  /\ sem' = [sem EXCEPT !["v"] = Pick(@ - 1, 0)]
  /\ pc' = IF resized > 0 /\ check_dms THEN "spin" ELSE "answer"
  /\ UNCHANGED <<cf, dev, page, ready, hints, file, conn, req, ctx, ops, result, srv, server>>

\* Dead, refused, or remapped to the size the server stored.
Resize_Answer ==
  /\ pc = "answer"
  /\ \/ /\ ~check_dms
        /\ pc' = "migrate" /\ UNCHANGED <<resized, result, ctx>>
     \/ /\ check_dms /\ resized = -1
        /\ resized' = 0 /\ result' = "false" /\ pc' = "idle" /\ UNCHANGED ctx
     \/ /\ check_dms /\ resized # -1
        /\ ctx' = [ctx EXCEPT !.size = segment_size]
        /\ pc' = "counts" /\ UNCHANGED <<resized, result>>
  /\ UNCHANGED <<cf, dev, w, abufsize, vpending, apending, segment_size, ready, hints, file, sem, conn,
                 req, ops, srv, server>>

\* setup_avbuf: dimensions and counts are read, the counts cleared to become
\* masks, then the size of an audio buffer is read.
Setup_Counts ==
  /\ pc = "counts"
  /\ ctx' = [ctx EXCEPT !.set = [w |-> w, v |-> vpending, a |-> apending, b |-> @.b]]
  /\ pc' = "clear"
  /\ UNCHANGED <<cf, dev, page, ready, hints, file, sem, conn, req, ops, result, srv, server>>

Setup_Clear ==
  /\ pc = "clear"
  /\ vpending' = 0 /\ apending' = 0
  /\ pc' = "abuf"
  /\ UNCHANGED <<cf, dev, w, abufsize, segment_size, resized, ready, hints, file, sem, conn,
                 req, ctx, ops, result, srv, server>>

Setup_Abuf ==
  /\ pc = "abuf"
  /\ ctx' = [ctx EXCEPT !.set.b = abufsize]
  /\ result' = "true" /\ pc' = "idle"
  /\ UNCHANGED <<cf, dev, page, ready, hints, file, sem, conn, req, ops, srv, server>>

InResize ==
  \/ \E x \in AV : Resize_Wait(x) \/ Resize_SemWait(x)
  \/ Resize_Request \/ Resize_Flag \/ Resize_Spin \/ Resize_Answer
  \/ Setup_Counts \/ Setup_Clear \/ Setup_Abuf

Client == (\E x \in AV : Signal(x)) \/ (\E r \in Requests : Resize_Begin(r)) \/ InResize

-----------------------------------------------------------------------------
(* server *)

\* A buffer of kind x is used up: the flag and the mask are cleared, then the
\* semaphore is posted.
Consume(x) ==
  /\ srv = "run" /\ spc = "idle" /\ resized = 0 /\ x \in ready
  /\ ready' = ready \ {x}
  /\ IF x = "v" THEN vpending' = 0 /\ UNCHANGED apending
                ELSE apending' = 0 /\ UNCHANGED vpending
  /\ spc' = PostPC[x]
  /\ UNCHANGED <<cf, dev, w, abufsize, segment_size, resized, hints, file, sem, conn, client,
                 srv, sv, want, refused>>

Consume_Post(x) ==
  /\ srv = "run" /\ spc = PostPC[x]
  /\ sem' = [sem EXCEPT ![x] = Post(@)]
  /\ spc' = "idle"
  /\ UNCHANGED <<cf, dev, page, ready, hints, file, conn, client, srv, sv, want, refused>>

\* What the page asks for.
Asked == [w |-> w, v |-> vpending, a |-> apending, b |-> abufsize]

\* platform_fsrv_resynch: the request is copied out of the page.  The test
\* that leads here is for any value of the flag but 0, so a request that was
\* refused is read again if the client has not yet seen the refusal.
Resynch_Read ==
  /\ srv = "run" /\ spc = "idle" /\ resized # 0
  /\ want' = Shrunk(Clamped(Asked))
  /\ spc' = "layout"
  /\ dev' = IF resized = -1 THEN dev \cup {"reread"} ELSE dev
  /\ UNCHANGED <<cf, page, ready, hints, file, sem, conn, client, srv, sv, refused>>

Insane == shmpage_size(want) > MAX_SZ \/ (max_w # 0 /\ want.w > max_w)

\* mutant: the file is resized only to give memory back
Remaps_Shrink == 10 * shmpage_size(want) < 8 * sv.size

Remaps == \/ shmpage_size(want) > sv.size
          \/ 10 * shmpage_size(want) < 8 * sv.size

Resized == IF Remaps THEN shmpage_size(want) ELSE file

\* The file is resized if it has to grow or would shrink by a fifth; the
\* settings are taken over, a token is authenticated, the buffers are laid out
\* and the size of the mapping is stored.
Resynch_Layout ==
  /\ srv = "run" /\ spc = "layout" /\ ~Insane
  /\ file' = Resized /\ hints' = (hints /\ ~DrmAuth)
  /\ sv' = [set |-> want, size |-> shmpage_size(want)]
  /\ w' = want.w
  /\ segment_size' = mapav(want)
  /\ spc' = "ack"
  /\ UNCHANGED <<cf, dev, abufsize, vpending, apending, resized, ready, sem, conn, client,
                 srv, want, refused>>

\* The script does not let the client use the GPU, or the token is not good.  By
\* then file, dimensions and counts are the new ones, the buffers and the size
\* of the mapping the old ones, and so it stays.
Resynch_AuthFail ==
  /\ srv = "run" /\ spc = "layout" /\ ~Insane /\ hints /\ DrmAuth
  /\ file' = Resized /\ hints' = FALSE
  /\ sv' = [set |-> [want EXCEPT !.b = sv.set.b], size |-> shmpage_size(want)]
  /\ w' = want.w /\ abufsize' = want.b /\ apending' = want.a /\ vpending' = want.v
  /\ resized' = -1 /\ refused' = TRUE /\ spc' = "failed"
  /\ dev' = IF Layout(want) = Layout(sv.set) THEN dev ELSE dev \cup {"unauth"}
  /\ UNCHANGED <<cf, segment_size, ready, sem, conn, client, srv, want>>

\* "commit to shared page": the flag first, then what was granted.
Resynch_Ack ==
  /\ srv = "run" /\ spc = "ack"
  /\ resized' = 0 /\ spc' = "abufsize"
  /\ UNCHANGED <<cf, dev, w, abufsize, vpending, apending, segment_size, ready, hints, file, sem, conn,
                 client, srv, sv, want, refused>>

\* The client was quick: it has its next request in the page.
NextIsUp == pc = "flag" \/ (pc = "spin" /\ resized = 1)

Stored(old, new) == dev' = IF NextIsUp /\ old # new THEN dev \cup {"late"} ELSE dev

Resynch_Abufsize ==
  /\ srv = "run" /\ spc = "abufsize"
  /\ abufsize' = sv.set.b /\ spc' = "apending" /\ Stored(abufsize, sv.set.b)
  /\ UNCHANGED <<cf, w, vpending, apending, segment_size, resized, ready, hints, file, sem, conn,
                 client, srv, sv, want, refused>>

Resynch_Apending ==
  /\ srv = "run" /\ spc = "apending"
  /\ apending' = sv.set.a /\ spc' = "vpending" /\ Stored(apending, sv.set.a)
  /\ UNCHANGED <<cf, w, abufsize, vpending, segment_size, resized, ready, hints, file, sem, conn,
                 client, srv, sv, want, refused>>

Resynch_Vpending ==
  /\ srv = "run" /\ spc = "vpending"
  /\ vpending' = sv.set.v /\ spc' = "done" /\ Stored(vpending, sv.set.v)
  /\ UNCHANGED <<cf, w, abufsize, apending, segment_size, resized, ready, hints, file, sem, conn,
                 client, srv, sv, want, refused>>

\* The settings in force go back into the page, and the flag says so.
Refuse ==
  /\ abufsize' = want.b /\ apending' = sv.set.a /\ vpending' = sv.set.v
  /\ w' = sv.set.w
  /\ refused' = TRUE /\ spc' = "failed"
  /\ UNCHANGED <<cf, dev, segment_size, ready, hints, file, sem, conn, client, srv, sv, want>>

CanFail == Insane \/ (Remaps /\ "nomem" \in Faults)

\* mutant: the failure is acknowledged like a success
Resynch_Fail_Zero == srv = "run" /\ spc = "layout" /\ CanFail /\ resized' = 0 /\ Refuse

\* A request beyond the limits, or ftruncate or mremap failed.
Resynch_Fail == srv = "run" /\ spc = "layout" /\ CanFail /\ resized' = -1 /\ Refuse

\* Barrier and signal.  A shmif server gives up on a client it refused.
Resynch_Post ==
  /\ srv = "run" /\ spc \in {"done", "failed"}
  /\ sem' = [sem EXCEPT !["v"] = Post(@)]
  /\ srv' = IF spc = "failed" /\ Server = "shmifsrv" THEN "broken" ELSE srv
  /\ spc' = "idle"
  /\ UNCHANGED <<cf, dev, page, ready, hints, file, conn, client, sv, want, refused>>

Resynch ==
  \/ Resynch_Read \/ Resynch_Layout \/ Resynch_AuthFail \/ Resynch_Ack \/ Resynch_Abufsize
  \/ Resynch_Apending \/ Resynch_Vpending \/ Resynch_Fail \/ Resynch_Post

Consumer == \E x \in AV : Consume(x) \/ Consume_Post(x)

-----------------------------------------------------------------------------
(* the connection ends *)

Crash ==
  /\ "crash" \in Faults /\ srv \in {"run", "broken"}
  /\ srv' = "crashed"
  /\ UNCHANGED <<cf, dev, page, ready, hints, file, sem, conn, client, server>>

\* platform_fsrv_destroy: the switch, then the flags and the semaphores.  The
\* user of a shmif server frees a client reported as dead.
Destroy_Dms ==
  /\ spc = "idle"
  /\ (srv = "run" /\ "destroy" \in Faults) \/ srv = "broken"
  /\ dms' = FALSE
  /\ srv' = "destroyed" /\ spc' = "bye"
  /\ UNCHANGED <<cf, dev, page, ready, hints, file, sem, local_dms, gpc, client, sv, want, refused>>

Destroy_Post ==
  /\ spc = "bye"
  /\ ready' = {}
  /\ sem' = [x \in AV |-> Post(sem[x])]
  /\ spc' = "gone"
  /\ UNCHANGED <<cf, dev, page, hints, file, conn, client, srv, sv, want, refused>>

\* guard_thread of the client
Guard_Flags ==
  /\ gpc = "watch" /\ srv = "crashed"
  /\ dms' = FALSE /\ local_dms' = FALSE
  /\ gpc' = "post"
  /\ UNCHANGED <<cf, dev, page, ready, hints, file, sem, client, srv, server>>

Guard_Post ==
  /\ gpc = "post"
  /\ sem' = [x \in AV |-> Post(sem[x])]
  /\ gpc' = "done"
  /\ UNCHANGED <<cf, dev, page, ready, hints, file, dms, local_dms, client, srv, server>>

Guard == Guard_Flags \/ Guard_Post

Next == Client \/ Resynch \/ Consumer \/ Guard \/ Crash \/ Destroy_Dms \/ Destroy_Post

Spec == Init /\ [][Next]_vars

\* The client is inside the call; the server polls every segment; the guard
\* thread wakes every second; a client reported as dead is freed; a destroy
\* that has begun runs to its end.
FairSpec == /\ Spec
            /\ WF_vars(InResize) /\ WF_vars(Resynch) /\ WF_vars(Consumer)
            /\ WF_vars(Guard) /\ WF_vars(Destroy_Post)
            /\ WF_vars(srv = "broken" /\ Destroy_Dms)

-----------------------------------------------------------------------------
(* properties *)

Settled == pc = "idle" /\ srv = "run" /\ spc = "idle" /\ resized = 0

\* Between two handshakes both sides have the same buffers at the same places.
LayoutAgrees == Settled => Layout(ctx.set) = Layout(sv.set)

\* So they have unless the server was asked for what it does not grant as it
\* stands, answered a request a second time, overwrote the next one, or turned
\* an authentication down after it had taken another layout over.
LayoutAgreesAsGranted == dev = {} => LayoutAgrees

\* The server's buffers are inside the file.  A client outside the handshake
\* has its buffers inside its mapping if the two agree on them, and its mapping
\* inside the file: the file is not cut while the client may touch what is cut
\* off, unless a refused request was taken for a new one, or an authentication
\* was turned down after the file had been cut.
MappedEnough ==
  /\ "unauth" \notin dev => mapav(sv.set) <= file
  /\ pc = "idle" /\ check_dms =>
       /\ dev = {} => mapav(ctx.set) <= ctx.size
       /\ dev \cap {"reread", "unauth"} = {} => ctx.size <= file

\* shmif_resize returns, wherever it waits, or finds its connection dead.
ResizeReturns == pc # "idle" ~> pc \in {"idle", "migrate"}

\* A refused request is reported as such ("can be declined (false return
\* value)").
FailureReported == pc = "idle" /\ result = "true" => ~refused

\* So it is, unless the server answered a second time before the client saw
\* the first answer.
FailureReportedOnce == "reread" \notin dev => FailureReported
==============================================================================
