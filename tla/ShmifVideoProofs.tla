-------------------------- MODULE ShmifVideoProofs ---------------------------
(***************************************************************************)
(* For any number of frames and every configuration: with blocking signals *)
(* the client keeps off the buffer the server uploads from, with up to two *)
(* buffers, or with any number of them against a shmif server; no client   *)
(* sleeps on the video semaphore without a reason; and what is shown never *)
(* goes back to an earlier frame.                                          *)
(***************************************************************************)
EXTENDS ShmifVideo, TLAPS

USE SMTT(30), SMTT(31), ZenonT(30)   \* a leaf that runs out of time is tried again

Types ==
  /\ cf \in Configs
  /\ vready \in 0 .. Cnt /\ vpending \subseteq Bufs /\ vsem \in Nat
  /\ dms \in BOOLEAN /\ local_dms \in BOOLEAN /\ gpc \in {"watch", "post", "done"}
  /\ pc \in {"draw", "drawn", "subwait", "subsem", "step", "ready", "wait", "sem",
             "try", "migrate"}
  /\ mask \in {"block", "none"} /\ old \subseteq Bufs /\ vbuf_ind \in Bufs
  /\ buf \in [Bufs -> Nat] /\ frame \in Nat
  /\ srv \in {"run", "crashed", "destroyed"}
  /\ spc \in {"idle", "render", "mask", "upload", "release", "post", "bye", "gone"}
  /\ sbuf \in Bufs /\ smask \subseteq Bufs
  /\ locked \in {0, 2} /\ release_pending \in BOOLEAN

\* The connection of a server that runs is intact, and one that is gone has
\* cleared the dead man's switch or left that to the guard thread.
Link ==
  /\ srv = "run" => dms /\ local_dms /\ gpc = "watch" /\ spc \notin {"bye", "gone"}
  /\ srv = "crashed" /\ gpc = "watch" => spc \notin {"bye", "gone"}
  /\ gpc # "watch" => ~local_dms
  /\ srv = "destroyed" => "keepdms" \in Faults \/ ~dms

\* A frame has been announced that the server has not uploaded.
Due == vready # 0 /\ spc # "release" /\ ~release_pending

\* Between Poll and Release vready names a frame; a frame is held back by an
\* idle server only.
Announced ==
  srv = "run" => /\ spc \in {"render", "mask", "upload", "release"} => vready # 0
                 /\ release_pending => spc = "idle" /\ vready # 0

\* The client neither waits for a frame to be taken nor has lost its server.
AtWork == pc \notin {"wait", "sem", "migrate"}

Blocking == Masks = {"block"} /\ (Cnt <= 2 \/ Server = "shmifsrv")

\* With one or two buffers, or a shmif server, a frame that is due is in a
\* buffer other than the client's.  The buffer is marked in vpending, so that
\* the client, about to move on to it, sees that it has to wait.
Apart ==
  Blocking =>
    /\ mask = "block"
    /\ srv = "run" /\ AtWork /\ Due =>
         /\ vready - 1 # vbuf_ind /\ vready - 1 \in vpending
         /\ spc \in {"mask", "upload"} => sbuf \in vpending /\ sbuf # vbuf_ind
         /\ pc = "ready" => /\ vready - 1 \in old
                            /\ spc \in {"mask", "upload"} => sbuf \in old
    /\ srv = "run" /\ pc = "ready" /\ NextBuf \notin old => vbuf_ind \in vpending
    /\ Server = "shmifsrv" =>
         /\ spc = "upload" => smask = {}
         /\ pc = "ready" => vpending = old \cup {vbuf_ind}
         /\ srv = "run" /\ AtWork /\ Due /\ pc # "ready" => vbuf_ind \notin vpending

\* What is read during an upload stays what it was.
Steady == Blocking => NoTear

IInv == Types /\ Link /\ Announced /\ Apart /\ Steady

-----------------------------------------------------------------------------

\* The configuration is a legal one.
LEMMA Conf == ASSUME cf \in Configs
              PROVE  /\ Cnt \in Nat \ {0} /\ SEM_VALUE_MAX \in Nat \ {0}
                     /\ Bufs = 0 .. Cnt - 1 /\ 0 \in Bufs
                     /\ Masks \subseteq {"block", "none"} /\ Synch \subseteq {0, 2}
                     /\ SynchSize \in BOOLEAN /\ Subregion \in BOOLEAN
                     /\ Server \in {"engine", "shmifsrv"}
<1>1. /\ Cnt \in Nat \ {0} /\ SEM_VALUE_MAX \in Nat \ {0}
      /\ Masks \subseteq {"block", "none"} /\ Synch \subseteq {0, 2}
      /\ SynchSize \in BOOLEAN /\ Subregion \in BOOLEAN /\ Server \in {"engine", "shmifsrv"}
  BY VideoAssumption DEF Cnt, Masks, Synch, SynchSize, Subregion, Server
<1> QED BY <1>1 DEF Bufs

\* It stays what it is.
LEMMA Same == ASSUME cf' = cf
              PROVE  /\ Cnt' = Cnt /\ Bufs' = Bufs /\ Masks' = Masks /\ Faults' = Faults
                     /\ Server' = Server /\ (Blocking' <=> Blocking)
  BY DEF Cnt, Bufs, Masks, Faults, Server, Blocking

\* The next buffer is one, and another one if there are two.
LEMMA NextIsBuf == ASSUME Types
                   PROVE  /\ NextBuf \in Bufs
                          /\ Cnt > 1 => NextBuf # vbuf_ind
                          /\ Cnt = 2 => \A b \in Bufs : b = vbuf_ind \/ b = NextBuf
                          /\ \A b \in 1 .. Cnt : b - 1 \in Bufs
<1>1. Cnt \in Nat \ {0} /\ Bufs = 0 .. Cnt - 1 /\ vbuf_ind \in Bufs
  BY Conf DEF Types
<1> QED BY <1>1 DEF NextBuf

LEMMA InitInv == Init => IInv
<1> SUFFICES ASSUME Init PROVE IInv
  OBVIOUS
<1>1. Types
  <2>1. cf \in Configs
    BY DEF Init
  <2>2. buf \in [Bufs -> Nat]
    BY <2>1, Conf DEF Init
  <2>3. locked \in {0, 2}
    BY <2>1, Conf DEF Init
  <2>4. /\ vready \in 0 .. Cnt /\ vpending \subseteq Bufs /\ old \subseteq Bufs
        /\ vbuf_ind \in Bufs /\ sbuf \in Bufs /\ smask \subseteq Bufs
    BY <2>1, Conf DEF Init
  <2> QED BY <2>1, <2>2, <2>3, <2>4, Zenon DEF Init, Types
<1>2. Link /\ Announced
  BY DEF Init, Link, Announced
<1>3. Apart /\ Steady
  BY DEF Init, Apart, Steady, Due, NoTear
<1> QED BY <1>1, <1>2, <1>3 DEF IInv

LEMMA DrawInv == ASSUME IInv, Draw PROVE IInv'
<1>0. Types /\ Link /\ Announced /\ Apart /\ Steady
  BY DEF IInv
<1>1. cf' = cf /\ cf \in Configs
  BY <1>0 DEF Draw, Types
<1>2. Types'
  <2>1. /\ vready' \in 0 .. Cnt /\ vpending' \subseteq Bufs
        /\ old' \subseteq Bufs /\ vbuf_ind' \in Bufs
        /\ sbuf' \in Bufs /\ smask' \subseteq Bufs
    BY <1>0, <1>1, Conf, NextIsBuf, Zenon DEF Draw, page, conn, upload, hold, resz, Types
  <2>2. buf' \in [Bufs -> Nat] /\ frame' \in Nat /\ vsem' \in Nat
    BY <1>0, <1>1, Conf DEF Draw, page, conn, upload, hold, resz, Types
  <2>3. /\ pc' \in {"draw", "drawn", "subwait", "subsem", "step", "ready", "wait", "sem",
                   "try", "migrate"}
        /\ mask' \in {"block", "none"} /\ gpc' \in {"watch", "post", "done"}
        /\ srv' \in {"run", "crashed", "destroyed"}
        /\ spc' \in {"idle", "render", "mask", "upload", "release", "post", "bye", "gone"}
        /\ locked' \in {0, 2}
    BY <1>0, <1>1, Conf DEF Draw, page, conn, upload, hold, resz, Types
  <2>4. dms' \in BOOLEAN /\ local_dms' \in BOOLEAN /\ release_pending' \in BOOLEAN
    BY <1>0 DEF Draw, page, conn, upload, hold, resz, Types
  <2> QED BY <1>1, <2>1, <2>2, <2>3, <2>4, Same DEF Types
<1>3. Link' /\ Announced'
  BY <1>0, <1>1, Same DEF Draw, page, conn, upload, hold, resz, Types, Link, Announced
<1>4. Apart'
  BY <1>0, <1>1, Conf, Same, NextIsBuf DEF Draw, page, conn, upload, hold, resz, Types, Link, Announced, Apart, AtWork, Due, NextBuf
<1>5. Steady'
  BY <1>0, <1>1, Same DEF Draw, page, conn, upload, hold, resz, Types, Link, Announced, Apart, AtWork, Due, Steady, NoTear
<1> QED BY <1>2, <1>3, <1>4, <1>5 DEF IInv

LEMMA Signal_BeginInv == ASSUME IInv, NEW m \in Masks, Signal_Begin(m)
                         PROVE  IInv'
<1>0. Types /\ Link /\ Announced /\ Apart /\ Steady
  BY DEF IInv
<1>1. cf' = cf /\ cf \in Configs
  BY <1>0 DEF Signal_Begin, Types
<1>2. Types'
  <2>1. /\ vready' \in 0 .. Cnt /\ vpending' \subseteq Bufs
        /\ old' \subseteq Bufs /\ vbuf_ind' \in Bufs
        /\ sbuf' \in Bufs /\ smask' \subseteq Bufs
    BY <1>0, <1>1, Conf, NextIsBuf, ZenonT(30) DEF Signal_Begin, page, conn, upload, hold, resz, Types
  <2>2. buf' \in [Bufs -> Nat] /\ frame' \in Nat /\ vsem' \in Nat
    BY <1>0, <1>1, Conf DEF Signal_Begin, page, conn, upload, hold, resz, Types
  <2>3. /\ pc' \in {"draw", "drawn", "subwait", "subsem", "step", "ready", "wait", "sem",
                   "try", "migrate"}
        /\ mask' \in {"block", "none"} /\ gpc' \in {"watch", "post", "done"}
        /\ srv' \in {"run", "crashed", "destroyed"}
        /\ spc' \in {"idle", "render", "mask", "upload", "release", "post", "bye", "gone"}
        /\ locked' \in {0, 2}
    BY <1>0, <1>1, Conf DEF Signal_Begin, page, conn, upload, hold, resz, Types
  <2>4. dms' \in BOOLEAN /\ local_dms' \in BOOLEAN /\ release_pending' \in BOOLEAN
    BY <1>0 DEF Signal_Begin, page, conn, upload, hold, resz, Types
  <2> QED BY <1>1, <2>1, <2>2, <2>3, <2>4, Same DEF Types
<1>3. Link' /\ Announced'
  BY <1>0, <1>1, Same DEF Signal_Begin, page, conn, upload, hold, resz, Types, Link, Announced
<1>6. Blocking => mask' = "block"
  BY DEF Signal_Begin, Blocking
<1>4. Apart'
  BY <1>0, <1>1, <1>6, Same DEF Signal_Begin, page, conn, upload, hold, resz, Types, Link, Announced, Apart, AtWork, Due, NextBuf
<1>5. Steady'
  BY <1>0, <1>1, Same DEF Signal_Begin, page, conn, upload, hold, resz, Types, Link, Announced, Apart, AtWork, Due, Steady, NoTear
<1> QED BY <1>2, <1>3, <1>4, <1>5 DEF IInv

LEMMA Signal_SubWaitInv == ASSUME IInv, Signal_SubWait PROVE IInv'
<1>0. Types /\ Link /\ Announced /\ Apart /\ Steady
  BY DEF IInv
<1>1. cf' = cf /\ cf \in Configs
  BY <1>0 DEF Signal_SubWait, Types
<1>2. Types'
  <2>1. /\ vready' \in 0 .. Cnt /\ vpending' \subseteq Bufs
        /\ old' \subseteq Bufs /\ vbuf_ind' \in Bufs
        /\ sbuf' \in Bufs /\ smask' \subseteq Bufs
    BY <1>0, <1>1, Conf, NextIsBuf, ZenonT(30) DEF Signal_SubWait, check_dms, page, conn, upload, hold, resz, Types
  <2>2. buf' \in [Bufs -> Nat] /\ frame' \in Nat /\ vsem' \in Nat
    BY <1>0, <1>1, Conf DEF Signal_SubWait, check_dms, page, conn, upload, hold, resz, Types
  <2>3. /\ pc' \in {"draw", "drawn", "subwait", "subsem", "step", "ready", "wait", "sem",
                   "try", "migrate"}
        /\ mask' \in {"block", "none"} /\ gpc' \in {"watch", "post", "done"}
        /\ srv' \in {"run", "crashed", "destroyed"}
        /\ spc' \in {"idle", "render", "mask", "upload", "release", "post", "bye", "gone"}
        /\ locked' \in {0, 2}
    BY <1>0, <1>1, Conf DEF Signal_SubWait, check_dms, page, conn, upload, hold, resz, Types
  <2>4. dms' \in BOOLEAN /\ local_dms' \in BOOLEAN /\ release_pending' \in BOOLEAN
    BY <1>0 DEF Signal_SubWait, check_dms, page, conn, upload, hold, resz, Types
  <2> QED BY <1>1, <2>1, <2>2, <2>3, <2>4, Same DEF Types
<1>3. Link' /\ Announced'
  BY <1>0, <1>1, Same DEF Signal_SubWait, check_dms, page, conn, upload, hold, resz, Types, Link, Announced
<1>4. Apart'
  BY <1>0, <1>1, Conf, Same, NextIsBuf DEF Signal_SubWait, check_dms, page, conn, upload, hold, resz, Types, Link, Announced, Apart, AtWork, Due, NextBuf
<1>5. Steady'
  BY <1>0, <1>1, Same DEF Signal_SubWait, check_dms, page, conn, upload, hold, resz, Types, Link, Announced, Apart, AtWork, Due, Steady, NoTear
<1> QED BY <1>2, <1>3, <1>4, <1>5 DEF IInv

LEMMA Step_NoChangeInv == ASSUME IInv, Step_NoChange PROVE IInv'
<1>0. Types /\ Link /\ Announced /\ Apart /\ Steady
  BY DEF IInv
<1>1. cf' = cf /\ cf \in Configs
  BY <1>0 DEF Step_NoChange, Types
<1>2. Types'
  <2>1. /\ vready' \in 0 .. Cnt /\ vpending' \subseteq Bufs
        /\ old' \subseteq Bufs /\ vbuf_ind' \in Bufs
        /\ sbuf' \in Bufs /\ smask' \subseteq Bufs
    BY <1>0, <1>1, Conf, NextIsBuf, ZenonT(30) DEF Step_NoChange, page, conn, upload, hold, resz, Types
  <2>2. buf' \in [Bufs -> Nat] /\ frame' \in Nat /\ vsem' \in Nat
    BY <1>0, <1>1, Conf DEF Step_NoChange, page, conn, upload, hold, resz, Types
  <2>3. /\ pc' \in {"draw", "drawn", "subwait", "subsem", "step", "ready", "wait", "sem",
                   "try", "migrate"}
        /\ mask' \in {"block", "none"} /\ gpc' \in {"watch", "post", "done"}
        /\ srv' \in {"run", "crashed", "destroyed"}
        /\ spc' \in {"idle", "render", "mask", "upload", "release", "post", "bye", "gone"}
        /\ locked' \in {0, 2}
    BY <1>0, <1>1, Conf DEF Step_NoChange, page, conn, upload, hold, resz, Types
  <2>4. dms' \in BOOLEAN /\ local_dms' \in BOOLEAN /\ release_pending' \in BOOLEAN
    BY <1>0 DEF Step_NoChange, page, conn, upload, hold, resz, Types
  <2> QED BY <1>1, <2>1, <2>2, <2>3, <2>4, Same DEF Types
<1>3. Link' /\ Announced'
  BY <1>0, <1>1, Same DEF Step_NoChange, page, conn, upload, hold, resz, Types, Link, Announced
<1>4. Apart'
  BY <1>0, <1>1, Conf, Same, NextIsBuf DEF Step_NoChange, page, conn, upload, hold, resz, Types, Link, Announced, Apart, AtWork, Due, NextBuf
<1>5. Steady'
  BY <1>0, <1>1, Same DEF Step_NoChange, page, conn, upload, hold, resz, Types, Link, Announced, Apart, AtWork, Due, Steady, NoTear
<1> QED BY <1>2, <1>3, <1>4, <1>5 DEF IInv

LEMMA Step_PendingInv == ASSUME IInv, Step_Pending PROVE IInv'
<1>0. Types /\ Link /\ Announced /\ Apart /\ Steady
  BY DEF IInv
<1>1. cf' = cf /\ cf \in Configs
  BY <1>0 DEF Step_Pending, Types
<1>2. Types'
  <2>1. /\ vready' \in 0 .. Cnt /\ vpending' \subseteq Bufs
        /\ old' \subseteq Bufs /\ vbuf_ind' \in Bufs
        /\ sbuf' \in Bufs /\ smask' \subseteq Bufs
    BY <1>0, <1>1, Conf, NextIsBuf, ZenonT(30) DEF Step_Pending, conn, upload, hold, resz, Types
  <2>2. buf' \in [Bufs -> Nat] /\ frame' \in Nat /\ vsem' \in Nat
    BY <1>0, <1>1, Conf DEF Step_Pending, conn, upload, hold, resz, Types
  <2>3. /\ pc' \in {"draw", "drawn", "subwait", "subsem", "step", "ready", "wait", "sem",
                   "try", "migrate"}
        /\ mask' \in {"block", "none"} /\ gpc' \in {"watch", "post", "done"}
        /\ srv' \in {"run", "crashed", "destroyed"}
        /\ spc' \in {"idle", "render", "mask", "upload", "release", "post", "bye", "gone"}
        /\ locked' \in {0, 2}
    BY <1>0, <1>1, Conf DEF Step_Pending, conn, upload, hold, resz, Types
  <2>4. dms' \in BOOLEAN /\ local_dms' \in BOOLEAN /\ release_pending' \in BOOLEAN
    BY <1>0 DEF Step_Pending, conn, upload, hold, resz, Types
  <2> QED BY <1>1, <2>1, <2>2, <2>3, <2>4, Same DEF Types
<1>3. Link' /\ Announced'
  BY <1>0, <1>1, Same DEF Step_Pending, conn, upload, hold, resz, Types, Link, Announced
<1>4. Apart'
  BY <1>0, <1>1, Conf, Same, NextIsBuf DEF Step_Pending, conn, upload, hold, resz, Types, Link, Announced, Apart, AtWork, Due, NextBuf
<1>5. Steady'
  BY <1>0, <1>1, Same DEF Step_Pending, conn, upload, hold, resz, Types, Link, Announced, Apart, AtWork, Due, Steady, NoTear
<1> QED BY <1>2, <1>3, <1>4, <1>5 DEF IInv

LEMMA Step_ReadyInv == ASSUME IInv, Step_Ready PROVE IInv'
<1>0. Types /\ Link /\ Announced /\ Apart /\ Steady
  BY DEF IInv
<1>1. cf' = cf /\ cf \in Configs
  BY <1>0 DEF Step_Ready, Types
<1>6. /\ pc = "ready" /\ vready' = vbuf_ind + 1 /\ vbuf_ind' = NextBuf
      /\ pc' = IF Lock /\ mask = "block" THEN "wait" ELSE "try"
      /\ vpending' = vpending /\ dms' = dms /\ local_dms' = local_dms /\ gpc' = gpc
      /\ mask' = mask /\ old' = old /\ srv' = srv /\ spc' = spc /\ sbuf' = sbuf
      /\ smask' = smask /\ release_pending' = release_pending
  BY DEF Step_Ready, conn, upload, hold
<1>7. Cnt \in Nat \ {0} /\ vbuf_ind \in 0 .. Cnt - 1
  BY <1>0, <1>1, Conf DEF Types
<1>8. vready' \in 1 .. Cnt /\ vready' # 0 /\ vready' - 1 = vbuf_ind
  BY <1>6, <1>7
<1>2. Types'
  <2>1. /\ vready' \in 0 .. Cnt /\ vpending' \subseteq Bufs
        /\ old' \subseteq Bufs /\ vbuf_ind' \in Bufs
        /\ sbuf' \in Bufs /\ smask' \subseteq Bufs
    BY <1>0, <1>6, <1>7, <1>8, NextIsBuf DEF Types
  <2>2. buf' \in [Bufs -> Nat] /\ frame' \in Nat /\ vsem' \in Nat
    BY <1>0, <1>1, Conf DEF Step_Ready, Lock, conn, upload, hold, resz, Types
  <2>3. /\ pc' \in {"draw", "drawn", "subwait", "subsem", "step", "ready", "wait", "sem",
                   "try", "migrate"}
        /\ mask' \in {"block", "none"} /\ gpc' \in {"watch", "post", "done"}
        /\ srv' \in {"run", "crashed", "destroyed"}
        /\ spc' \in {"idle", "render", "mask", "upload", "release", "post", "bye", "gone"}
        /\ locked' \in {0, 2}
    BY <1>0, <1>1, Conf DEF Step_Ready, Lock, conn, upload, hold, resz, Types
  <2>4. dms' \in BOOLEAN /\ local_dms' \in BOOLEAN /\ release_pending' \in BOOLEAN
    BY <1>0 DEF Step_Ready, Lock, conn, upload, hold, resz, Types
  <2> QED BY <1>1, <2>1, <2>2, <2>3, <2>4, Same DEF Types
<1>3. Link' /\ Announced'
  <2>1. Link'
    BY <1>0, <1>1, <1>6, Same DEF Link
  <2>2. Announced'
    BY <1>0, <1>6, <1>8 DEF Announced
  <2> QED BY <2>1, <2>2
<1>4. Apart'
  <2> SUFFICES ASSUME Blocking PROVE Apart'
    BY <1>1, Same DEF Apart
  <2>1. mask' = "block"
    BY <1>0, <1>6 DEF Apart
  <2>2. CASE Lock
    <3>1. pc' = "wait"
      BY <1>0, <1>6, <2>2 DEF Apart
    <3> QED BY <1>0, <1>1, <1>6, <2>1, <3>1, Same DEF Apart, AtWork
  <2>3. CASE ~Lock
    <3>1. /\ Cnt > 1 /\ NextBuf \notin old /\ NextBuf # vbuf_ind /\ pc' = "try"
      BY <1>0, <1>6, <1>7, <2>3, NextIsBuf DEF Lock
    <3>2. Server = "shmifsrv" => vpending = old \cup {vbuf_ind}
      BY <1>0, <1>6 DEF Apart
    <3>3. srv = "run" => vbuf_ind \in vpending
      BY <1>0, <1>6, <3>1 DEF Apart
    <3>4. Server = "shmifsrv" => vbuf_ind' \notin vpending'
      BY <1>6, <3>1, <3>2
    <3>5. ASSUME srv = "run", spc \in {"mask", "upload"}
          PROVE  sbuf \in vpending /\ sbuf # NextBuf
      <4>1. Due
        BY <1>0, <3>5 DEF Due, Announced
      <4> QED BY <1>0, <1>6, <3>1, <3>5, <4>1 DEF Apart, AtWork
    <3>6. (srv = "run" /\ AtWork /\ Due)' =>
            /\ (vready - 1 # vbuf_ind /\ vready - 1 \in vpending)'
            /\ (spc \in {"mask", "upload"} => sbuf \in vpending /\ sbuf # vbuf_ind)'
      BY <1>6, <1>8, <3>1, <3>3, <3>5
    <3>7. (pc # "ready")'
      BY <3>1
    <3> QED BY <1>0, <1>1, <1>6, <2>1, <3>4, <3>6, <3>7, Same DEF Apart
  <2> QED BY <2>2, <2>3
<1>5. Steady'
  BY <1>0, <1>1, Same DEF Step_Ready, Lock, conn, upload, hold, resz, Types, Link, Announced, Apart, AtWork, Due, Steady, NoTear
<1> QED BY <1>2, <1>3, <1>4, <1>5 DEF IInv

LEMMA Signal_WaitInv == ASSUME IInv, Signal_Wait PROVE IInv'
<1>0. Types /\ Link /\ Announced /\ Apart /\ Steady
  BY DEF IInv
<1>1. cf' = cf /\ cf \in Configs
  BY <1>0 DEF Signal_Wait, Types
<1>2. Types'
  <2>1. /\ vready' \in 0 .. Cnt /\ vpending' \subseteq Bufs
        /\ old' \subseteq Bufs /\ vbuf_ind' \in Bufs
        /\ sbuf' \in Bufs /\ smask' \subseteq Bufs
    BY <1>0, <1>1, Conf, NextIsBuf, ZenonT(30) DEF Signal_Wait, check_dms, page, conn, upload, hold, resz, Types
  <2>2. buf' \in [Bufs -> Nat] /\ frame' \in Nat /\ vsem' \in Nat
    BY <1>0, <1>1, Conf DEF Signal_Wait, check_dms, page, conn, upload, hold, resz, Types
  <2>3. /\ pc' \in {"draw", "drawn", "subwait", "subsem", "step", "ready", "wait", "sem",
                   "try", "migrate"}
        /\ mask' \in {"block", "none"} /\ gpc' \in {"watch", "post", "done"}
        /\ srv' \in {"run", "crashed", "destroyed"}
        /\ spc' \in {"idle", "render", "mask", "upload", "release", "post", "bye", "gone"}
        /\ locked' \in {0, 2}
    BY <1>0, <1>1, Conf DEF Signal_Wait, check_dms, page, conn, upload, hold, resz, Types
  <2>4. dms' \in BOOLEAN /\ local_dms' \in BOOLEAN /\ release_pending' \in BOOLEAN
    BY <1>0 DEF Signal_Wait, check_dms, page, conn, upload, hold, resz, Types
  <2> QED BY <1>1, <2>1, <2>2, <2>3, <2>4, Same DEF Types
<1>3. Link' /\ Announced'
  BY <1>0, <1>1, Same DEF Signal_Wait, check_dms, page, conn, upload, hold, resz, Types, Link, Announced
<1>4. Apart'
  BY <1>0, <1>1, Conf, Same, NextIsBuf, ZenonT(30) DEF Signal_Wait, check_dms, page, conn, upload, hold, resz, Types, Link, Announced, Apart, AtWork, Due, NextBuf
<1>5. Steady'
  BY <1>0, <1>1, Same DEF Signal_Wait, check_dms, page, conn, upload, hold, resz, Types, Link, Announced, Apart, AtWork, Due, Steady, NoTear
<1> QED BY <1>2, <1>3, <1>4, <1>5 DEF IInv

LEMMA Signal_SemWaitInv == ASSUME IInv, Signal_SemWait PROVE IInv'
<1>0. Types /\ Link /\ Announced /\ Apart /\ Steady
  BY DEF IInv
<1>1. cf' = cf /\ cf \in Configs
  BY <1>0 DEF Signal_SemWait, Types
<1>2. Types'
  <2>1. /\ vready' \in 0 .. Cnt /\ vpending' \subseteq Bufs
        /\ old' \subseteq Bufs /\ vbuf_ind' \in Bufs
        /\ sbuf' \in Bufs /\ smask' \subseteq Bufs
    BY <1>0, <1>1, Conf, NextIsBuf, ZenonT(30) DEF Signal_SemWait, page, conn, upload, hold, resz, Types
  <2>2. buf' \in [Bufs -> Nat] /\ frame' \in Nat /\ vsem' \in Nat
    BY <1>0, <1>1, Conf DEF Signal_SemWait, page, conn, upload, hold, resz, Types
  <2>3. /\ pc' \in {"draw", "drawn", "subwait", "subsem", "step", "ready", "wait", "sem",
                   "try", "migrate"}
        /\ mask' \in {"block", "none"} /\ gpc' \in {"watch", "post", "done"}
        /\ srv' \in {"run", "crashed", "destroyed"}
        /\ spc' \in {"idle", "render", "mask", "upload", "release", "post", "bye", "gone"}
        /\ locked' \in {0, 2}
    BY <1>0, <1>1, Conf DEF Signal_SemWait, page, conn, upload, hold, resz, Types
  <2>4. dms' \in BOOLEAN /\ local_dms' \in BOOLEAN /\ release_pending' \in BOOLEAN
    BY <1>0 DEF Signal_SemWait, page, conn, upload, hold, resz, Types
  <2> QED BY <1>1, <2>1, <2>2, <2>3, <2>4, Same DEF Types
<1>3. Link' /\ Announced'
  BY <1>0, <1>1, Same DEF Signal_SemWait, page, conn, upload, hold, resz, Types, Link, Announced
<1>4. Apart'
  BY <1>0, <1>1, Conf, Same, NextIsBuf, ZenonT(30) DEF Signal_SemWait, page, conn, upload, hold, resz, Types, Link, Announced, Apart, AtWork, Due, NextBuf
<1>5. Steady'
  BY <1>0, <1>1, Same DEF Signal_SemWait, page, conn, upload, hold, resz, Types, Link, Announced, Apart, AtWork, Due, Steady, NoTear
<1> QED BY <1>2, <1>3, <1>4, <1>5 DEF IInv

LEMMA Signal_TryWaitInv == ASSUME IInv, Signal_TryWait PROVE IInv'
<1>0. Types /\ Link /\ Announced /\ Apart /\ Steady
  BY DEF IInv
<1>1. cf' = cf /\ cf \in Configs
  BY <1>0 DEF Signal_TryWait, Types
<1>2. Types'
  <2>1. /\ vready' \in 0 .. Cnt /\ vpending' \subseteq Bufs
        /\ old' \subseteq Bufs /\ vbuf_ind' \in Bufs
        /\ sbuf' \in Bufs /\ smask' \subseteq Bufs
    BY <1>0, <1>1, Conf, NextIsBuf, ZenonT(30) DEF Signal_TryWait, page, conn, upload, hold, resz, Types
  <2>2. buf' \in [Bufs -> Nat] /\ frame' \in Nat /\ vsem' \in Nat
    BY <1>0, <1>1, Conf DEF Signal_TryWait, page, conn, upload, hold, resz, Types
  <2>3. /\ pc' \in {"draw", "drawn", "subwait", "subsem", "step", "ready", "wait", "sem",
                   "try", "migrate"}
        /\ mask' \in {"block", "none"} /\ gpc' \in {"watch", "post", "done"}
        /\ srv' \in {"run", "crashed", "destroyed"}
        /\ spc' \in {"idle", "render", "mask", "upload", "release", "post", "bye", "gone"}
        /\ locked' \in {0, 2}
    BY <1>0, <1>1, Conf DEF Signal_TryWait, page, conn, upload, hold, resz, Types
  <2>4. dms' \in BOOLEAN /\ local_dms' \in BOOLEAN /\ release_pending' \in BOOLEAN
    BY <1>0 DEF Signal_TryWait, page, conn, upload, hold, resz, Types
  <2> QED BY <1>1, <2>1, <2>2, <2>3, <2>4, Same DEF Types
<1>3. Link' /\ Announced'
  BY <1>0, <1>1, Same DEF Signal_TryWait, page, conn, upload, hold, resz, Types, Link, Announced
<1>4. Apart'
  BY <1>0, <1>1, Conf, Same, NextIsBuf DEF Signal_TryWait, page, conn, upload, hold, resz, Types, Link, Announced, Apart, AtWork, Due, NextBuf
<1>5. Steady'
  BY <1>0, <1>1, Same DEF Signal_TryWait, page, conn, upload, hold, resz, Types, Link, Announced, Apart, AtWork, Due, Steady, NoTear
<1> QED BY <1>2, <1>3, <1>4, <1>5 DEF IInv

LEMMA PollInv == ASSUME IInv, Poll PROVE IInv'
<1>0. Types /\ Link /\ Announced /\ Apart /\ Steady
  BY DEF IInv
<1>1. cf' = cf /\ cf \in Configs
  BY <1>0 DEF Poll, Types
<1>2. Types'
  <2>1. /\ vready' \in 0 .. Cnt /\ vpending' \subseteq Bufs
        /\ old' \subseteq Bufs /\ vbuf_ind' \in Bufs
        /\ sbuf' \in Bufs /\ smask' \subseteq Bufs
    BY <1>0, <1>1, Conf, NextIsBuf, Zenon DEF Poll, page, conn, client, upload, hold, resz, Types
  <2>2. buf' \in [Bufs -> Nat] /\ frame' \in Nat /\ vsem' \in Nat
    BY <1>0, <1>1, Conf DEF Poll, page, conn, client, upload, hold, resz, Types
  <2>3. /\ pc' \in {"draw", "drawn", "subwait", "subsem", "step", "ready", "wait", "sem",
                   "try", "migrate"}
        /\ mask' \in {"block", "none"} /\ gpc' \in {"watch", "post", "done"}
        /\ srv' \in {"run", "crashed", "destroyed"}
        /\ spc' \in {"idle", "render", "mask", "upload", "release", "post", "bye", "gone"}
        /\ locked' \in {0, 2}
    BY <1>0, <1>1, Conf DEF Poll, page, conn, client, upload, hold, resz, Types
  <2>4. dms' \in BOOLEAN /\ local_dms' \in BOOLEAN /\ release_pending' \in BOOLEAN
    BY <1>0 DEF Poll, page, conn, client, upload, hold, resz, Types
  <2> QED BY <1>1, <2>1, <2>2, <2>3, <2>4, Same DEF Types
<1>3. Link' /\ Announced'
  BY <1>0, <1>1, Same, ZenonT(30) DEF Poll, page, conn, client, upload, hold, resz, Types, Link, Announced
<1>4. Apart'
  BY <1>0, <1>1, Conf, Same, NextIsBuf DEF Poll, page, conn, client, upload, hold, resz, Types, Link, Announced, Apart, AtWork, Due, NextBuf
<1>5. Steady'
  BY <1>0, <1>1, Same DEF Poll, page, conn, client, upload, hold, resz, Types, Link, Announced, Apart, AtWork, Due, Steady, NoTear
<1> QED BY <1>2, <1>3, <1>4, <1>5 DEF IInv

LEMMA Push_ReadyInv == ASSUME IInv, Push_Ready PROVE IInv'
<1>0. Types /\ Link /\ Announced /\ Apart /\ Steady
  BY DEF IInv
<1>1. cf' = cf /\ cf \in Configs
  BY <1>0 DEF Push_Ready, Types
<1>6. sbuf' \in Bufs
  <2>1. CASE vready = 0
    BY <1>1, <2>1, Conf DEF Push_Ready
  <2>2. CASE vready \in 1 .. Cnt
    BY <1>0, <1>1, <2>2, Conf, NextIsBuf DEF Push_Ready
  <2>3. vready = 0 \/ vready \in 1 .. Cnt
    BY <1>0, <1>1, Conf DEF Types
  <2> QED BY <2>1, <2>2, <2>3
<1>2. Types'
  <2>1. /\ vready' \in 0 .. Cnt /\ vpending' \subseteq Bufs
        /\ old' \subseteq Bufs /\ vbuf_ind' \in Bufs
        /\ sbuf' \in Bufs /\ smask' \subseteq Bufs
    BY <1>0, <1>6 DEF Push_Ready, page, conn, client, hold, resz, Types
  <2>2. buf' \in [Bufs -> Nat] /\ frame' \in Nat /\ vsem' \in Nat
    BY <1>0, <1>1, Conf DEF Push_Ready, page, conn, client, hold, resz, Types
  <2>3. /\ pc' \in {"draw", "drawn", "subwait", "subsem", "step", "ready", "wait", "sem",
                   "try", "migrate"}
        /\ mask' \in {"block", "none"} /\ gpc' \in {"watch", "post", "done"}
        /\ srv' \in {"run", "crashed", "destroyed"}
        /\ spc' \in {"idle", "render", "mask", "upload", "release", "post", "bye", "gone"}
        /\ locked' \in {0, 2}
    BY <1>0, <1>1, Conf DEF Push_Ready, page, conn, client, hold, resz, Types
  <2>4. dms' \in BOOLEAN /\ local_dms' \in BOOLEAN /\ release_pending' \in BOOLEAN
    BY <1>0 DEF Push_Ready, page, conn, client, hold, resz, Types
  <2> QED BY <1>1, <2>1, <2>2, <2>3, <2>4, Same DEF Types
<1>3. Link' /\ Announced'
  BY <1>0, <1>1, Same, ZenonT(30) DEF Push_Ready, page, conn, client, hold, resz, Types, Link, Announced
<1>4. Apart'
  BY <1>0, <1>1, Conf, Same, NextIsBuf DEF Push_Ready, page, conn, client, hold, resz, Types, Link, Announced, Apart, AtWork, Due, NextBuf
<1>5. Steady'
  BY <1>0, <1>1, Same DEF Push_Ready, page, conn, client, hold, resz, Types, Link, Announced, Apart, AtWork, Due, Steady, NoTear
<1> QED BY <1>2, <1>3, <1>4, <1>5 DEF IInv

LEMMA Push_MaskInv == ASSUME IInv, Push_Mask PROVE IInv'
<1>0. Types /\ Link /\ Announced /\ Apart /\ Steady
  BY DEF IInv
<1>1. cf' = cf /\ cf \in Configs
  BY <1>0 DEF Push_Mask, Types
<1>2. Types'
  <2>1. /\ vready' \in 0 .. Cnt /\ vpending' \subseteq Bufs
        /\ old' \subseteq Bufs /\ vbuf_ind' \in Bufs
        /\ sbuf' \in Bufs /\ smask' \subseteq Bufs
    BY <1>0, <1>1, Conf, NextIsBuf, ZenonT(30) DEF Push_Mask, Awaiting, page, conn, client, upload, hold, Types
  <2>2. buf' \in [Bufs -> Nat] /\ frame' \in Nat /\ vsem' \in Nat
    BY <1>0, <1>1, Conf DEF Push_Mask, Awaiting, page, conn, client, upload, hold, Types
  <2>3. /\ pc' \in {"draw", "drawn", "subwait", "subsem", "step", "ready", "wait", "sem",
                   "try", "migrate"}
        /\ mask' \in {"block", "none"} /\ gpc' \in {"watch", "post", "done"}
        /\ srv' \in {"run", "crashed", "destroyed"}
        /\ spc' \in {"idle", "render", "mask", "upload", "release", "post", "bye", "gone"}
        /\ locked' \in {0, 2}
    BY <1>0, <1>1, Conf DEF Push_Mask, Awaiting, page, conn, client, upload, hold, Types
  <2>4. dms' \in BOOLEAN /\ local_dms' \in BOOLEAN /\ release_pending' \in BOOLEAN
    BY <1>0 DEF Push_Mask, Awaiting, page, conn, client, upload, hold, Types
  <2> QED BY <1>1, <2>1, <2>2, <2>3, <2>4, Same DEF Types
<1>3. Link' /\ Announced'
  BY <1>0, <1>1, Same DEF Push_Mask, Awaiting, page, conn, client, upload, hold, Types, Link, Announced
<1>4. Apart'
  BY <1>0, <1>1, Conf, Same, NextIsBuf, ZenonT(30) DEF Push_Mask, Awaiting, page, conn, client, upload, hold, Types, Link, Announced, Apart, AtWork, Due, NextBuf
<1>5. Steady'
  BY <1>0, <1>1, Same DEF Push_Mask, Awaiting, page, conn, client, upload, hold, Types, Link, Announced, Apart, AtWork, Due, Steady, NoTear
<1> QED BY <1>2, <1>3, <1>4, <1>5 DEF IInv

LEMMA Push_CommitInv == ASSUME IInv, Push_Commit PROVE IInv'
<1>0. Types /\ Link /\ Announced /\ Apart /\ Steady
  BY DEF IInv
<1>1. cf' = cf /\ cf \in Configs
  BY <1>0 DEF Push_Commit, Types
<1>2. Types'
  <2>1. /\ vready' \in 0 .. Cnt /\ vpending' \subseteq Bufs
        /\ old' \subseteq Bufs /\ vbuf_ind' \in Bufs
        /\ sbuf' \in Bufs /\ smask' \subseteq Bufs
    BY <1>0, <1>1, Conf, NextIsBuf, ZenonT(30) DEF Push_Commit, conn, client, hold, resz, Types
  <2>2. buf' \in [Bufs -> Nat] /\ frame' \in Nat /\ vsem' \in Nat
    BY <1>0, <1>1, Conf DEF Push_Commit, conn, client, hold, resz, Types
  <2>3. /\ pc' \in {"draw", "drawn", "subwait", "subsem", "step", "ready", "wait", "sem",
                   "try", "migrate"}
        /\ mask' \in {"block", "none"} /\ gpc' \in {"watch", "post", "done"}
        /\ srv' \in {"run", "crashed", "destroyed"}
        /\ spc' \in {"idle", "render", "mask", "upload", "release", "post", "bye", "gone"}
        /\ locked' \in {0, 2}
    BY <1>0, <1>1, Conf DEF Push_Commit, conn, client, hold, resz, Types
  <2>4. dms' \in BOOLEAN /\ local_dms' \in BOOLEAN /\ release_pending' \in BOOLEAN
    BY <1>0 DEF Push_Commit, conn, client, hold, resz, Types
  <2> QED BY <1>1, <2>1, <2>2, <2>3, <2>4, Same DEF Types
<1>3. Link' /\ Announced'
  BY <1>0, <1>1, Same DEF Push_Commit, conn, client, hold, resz, Types, Link, Announced
<1>6. /\ spc' = "release" /\ ~Due'
      /\ mask' = mask /\ pc' = pc /\ old' = old /\ vbuf_ind' = vbuf_ind /\ srv' = srv
      /\ vpending' = vpending \ smask
  BY DEF Push_Commit, Due, client
<1>7. NextBuf' = NextBuf
  BY <1>1, <1>6, Same DEF NextBuf
<1>8. ASSUME Blocking, Cnt <= 2, pc = "ready", NextBuf \notin old
      PROVE  FALSE
  <2>1. Due /\ AtWork
    BY <1>0, <1>8 DEF Push_Commit, Announced, Due, AtWork
  <2>2. sbuf \in old /\ sbuf # vbuf_ind
    BY <1>0, <1>8, <2>1 DEF Apart, Push_Commit
  <2>3. sbuf \in Bufs /\ vbuf_ind \in Bufs /\ Cnt \in Nat \ {0} /\ Bufs = 0 .. Cnt - 1
    BY <1>0, <1>1, Conf DEF Types
  <2>4. Cnt = 2
    BY <1>8, <2>2, <2>3
  <2> QED BY <1>0, <1>8, <2>2, <2>3, <2>4, NextIsBuf
<1>9. Blocking /\ Server = "shmifsrv" => vpending' = vpending
  BY <1>0, <1>6 DEF Apart, Push_Commit
<1>a. Blocking => Cnt <= 2 \/ Server = "shmifsrv"
  BY DEF Blocking
<1>4. Apart'
  <2> SUFFICES ASSUME Blocking PROVE Apart'
    BY <1>1, Same DEF Apart
  <2>1. (pc = "ready" /\ NextBuf \notin old /\ srv = "run" => vbuf_ind \in vpending)'
    BY <1>0, <1>6, <1>7, <1>8, <1>9, <1>a DEF Apart
  <2>2. (Server = "shmifsrv" /\ pc = "ready" => vpending = old \cup {vbuf_ind})'
    BY <1>0, <1>1, <1>6, <1>9, Same DEF Apart
  <2>3. (mask = "block" /\ spc # "upload")'
    BY <1>0, <1>6, ZenonT(30) DEF Apart
  <2> QED BY <1>1, <1>6, <2>1, <2>2, <2>3 DEF Apart
<1>5. Steady'
  BY <1>0, <1>1, Same DEF Push_Commit, conn, client, hold, resz, Types, Link, Announced, Apart, AtWork, Due, Steady, NoTear
<1> QED BY <1>2, <1>3, <1>4, <1>5 DEF IInv

LEMMA ReleaseInv == ASSUME IInv, Release PROVE IInv'
<1>0. Types /\ Link /\ Announced /\ Apart /\ Steady
  BY DEF IInv
<1>1. cf' = cf /\ cf \in Configs
  BY <1>0 DEF Release, Types
<1>6. vready' \in 0 .. Cnt
  <2>1. vready' = 0 \/ vready' = vready
    BY DEF Release
  <2> QED BY <1>0, <1>1, <2>1, Conf DEF Types
<1>2. Types'
  <2>1. /\ vready' \in 0 .. Cnt /\ vpending' \subseteq Bufs
        /\ old' \subseteq Bufs /\ vbuf_ind' \in Bufs
        /\ sbuf' \in Bufs /\ smask' \subseteq Bufs
    BY <1>0, <1>6, ZenonT(30) DEF Release, conn, client, upload, resz, Types
  <2>2. buf' \in [Bufs -> Nat] /\ frame' \in Nat /\ vsem' \in Nat
    BY <1>0, <1>1, Conf, ZenonT(30) DEF Release, conn, client, upload, resz, Types
  <2>3. /\ pc' \in {"draw", "drawn", "subwait", "subsem", "step", "ready", "wait", "sem",
                   "try", "migrate"}
        /\ mask' \in {"block", "none"} /\ gpc' \in {"watch", "post", "done"}
        /\ srv' \in {"run", "crashed", "destroyed"}
        /\ spc' \in {"idle", "render", "mask", "upload", "release", "post", "bye", "gone"}
        /\ locked' \in {0, 2}
    BY <1>0, <1>1, Conf DEF Release, conn, client, upload, resz, Types
  <2>4. dms' \in BOOLEAN /\ local_dms' \in BOOLEAN /\ release_pending' \in BOOLEAN
    BY <1>0, Zenon DEF Release, conn, client, upload, resz, Types
  <2> QED BY <1>1, <2>1, <2>2, <2>3, <2>4, Same DEF Types
<1>3. Link' /\ Announced'
  BY <1>0, <1>1, Same, ZenonT(30) DEF Release, conn, client, upload, resz, Types, Link, Announced
<1>4. Apart'
  BY <1>0, <1>1, Conf, Same, NextIsBuf, ZenonT(30) DEF Release, conn, client, upload, resz, Types, Link, Announced, Apart, AtWork, Due, NextBuf
<1>5. Steady'
  BY <1>0, <1>1, Same DEF Release, conn, client, upload, resz, Types, Link, Announced, Apart, AtWork, Due, Steady, NoTear
<1> QED BY <1>2, <1>3, <1>4, <1>5 DEF IInv

LEMMA Release_PostInv == ASSUME IInv, Release_Post PROVE IInv'
<1>0. Types /\ Link /\ Announced /\ Apart /\ Steady
  BY DEF IInv
<1>1. cf' = cf /\ cf \in Configs
  BY <1>0 DEF Release_Post, Types
<1>2. Types'
  <2>1. /\ vready' \in 0 .. Cnt /\ vpending' \subseteq Bufs
        /\ old' \subseteq Bufs /\ vbuf_ind' \in Bufs
        /\ sbuf' \in Bufs /\ smask' \subseteq Bufs
    BY <1>0, <1>1, Conf, NextIsBuf, ZenonT(30) DEF Release_Post, Post, page, conn, client, upload, hold, resz, Types
  <2>2. buf' \in [Bufs -> Nat] /\ frame' \in Nat /\ vsem' \in Nat
    BY <1>0, <1>1, Conf DEF Release_Post, Post, page, conn, client, upload, hold, resz, Types
  <2>3. /\ pc' \in {"draw", "drawn", "subwait", "subsem", "step", "ready", "wait", "sem",
                   "try", "migrate"}
        /\ mask' \in {"block", "none"} /\ gpc' \in {"watch", "post", "done"}
        /\ srv' \in {"run", "crashed", "destroyed"}
        /\ spc' \in {"idle", "render", "mask", "upload", "release", "post", "bye", "gone"}
        /\ locked' \in {0, 2}
    BY <1>0, <1>1, Conf DEF Release_Post, Post, page, conn, client, upload, hold, resz, Types
  <2>4. dms' \in BOOLEAN /\ local_dms' \in BOOLEAN /\ release_pending' \in BOOLEAN
    BY <1>0 DEF Release_Post, Post, page, conn, client, upload, hold, resz, Types
  <2> QED BY <1>1, <2>1, <2>2, <2>3, <2>4, Same DEF Types
<1>3. Link' /\ Announced'
  BY <1>0, <1>1, Same, ZenonT(30) DEF Release_Post, Post, page, conn, client, upload, hold, resz, Types, Link, Announced
<1>4. Apart'
  BY <1>0, <1>1, Conf, Same, NextIsBuf, ZenonT(30) DEF Release_Post, Post, page, conn, client, upload, hold, resz, Types, Link, Announced, Apart, AtWork, Due, NextBuf
<1>5. Steady'
  BY <1>0, <1>1, Same DEF Release_Post, Post, page, conn, client, upload, hold, resz, Types, Link, Announced, Apart, AtWork, Due, Steady, NoTear
<1> QED BY <1>2, <1>3, <1>4, <1>5 DEF IInv

LEMMA ReleaselockInv == ASSUME IInv, Releaselock PROVE IInv'
<1>0. Types /\ Link /\ Announced /\ Apart /\ Steady
  BY DEF IInv
<1>1. cf' = cf /\ cf \in Configs
  BY <1>0, ZenonT(30) DEF Releaselock, Types
<1>2. Types'
  <2>1. /\ vready' \in 0 .. Cnt /\ vpending' \subseteq Bufs
        /\ old' \subseteq Bufs /\ vbuf_ind' \in Bufs
        /\ sbuf' \in Bufs /\ smask' \subseteq Bufs
    BY <1>0, <1>1, Conf, NextIsBuf DEF Releaselock, conn, client, upload, resz, Types
  <2>2. buf' \in [Bufs -> Nat] /\ frame' \in Nat /\ vsem' \in Nat
    BY <1>0, <1>1, Conf DEF Releaselock, conn, client, upload, resz, Types
  <2>3. /\ pc' \in {"draw", "drawn", "subwait", "subsem", "step", "ready", "wait", "sem",
                   "try", "migrate"}
        /\ mask' \in {"block", "none"} /\ gpc' \in {"watch", "post", "done"}
        /\ srv' \in {"run", "crashed", "destroyed"}
        /\ spc' \in {"idle", "render", "mask", "upload", "release", "post", "bye", "gone"}
        /\ locked' \in {0, 2}
    BY <1>0, <1>1, Conf DEF Releaselock, conn, client, upload, resz, Types
  <2>4. dms' \in BOOLEAN /\ local_dms' \in BOOLEAN /\ release_pending' \in BOOLEAN
    BY <1>0, Zenon DEF Releaselock, conn, client, upload, resz, Types
  <2> QED BY <1>1, <2>1, <2>2, <2>3, <2>4, Same DEF Types
<1>3. Link' /\ Announced'
  BY <1>0, <1>1, Same, ZenonT(30) DEF Releaselock, conn, client, upload, resz, Types, Link, Announced
<1>4. Apart'
  BY <1>0, <1>1, Conf, Same, NextIsBuf, ZenonT(30) DEF Releaselock, conn, client, upload, resz, Types, Link, Announced, Apart, AtWork, Due, NextBuf
<1>5. Steady'
  BY <1>0, <1>1, Same DEF Releaselock, conn, client, upload, resz, Types, Link, Announced, Apart, AtWork, Due, Steady, NoTear
<1> QED BY <1>2, <1>3, <1>4, <1>5 DEF IInv

LEMMA SetsynchInv == ASSUME IInv, NEW l \in Synch, Setsynch(l)
                     PROVE  IInv'
<1>0. Types /\ Link /\ Announced /\ Apart /\ Steady
  BY DEF IInv
<1>1. cf' = cf /\ cf \in Configs
  BY <1>0 DEF Setsynch, Types
<1>6. vready' \in 0 .. Cnt
  <2>1. vready' = 0 \/ vready' = vready
    BY DEF Setsynch
  <2> QED BY <1>0, <1>1, <2>1, Conf DEF Types
<1>2. Types'
  <2>1. /\ vready' \in 0 .. Cnt /\ vpending' \subseteq Bufs
        /\ old' \subseteq Bufs /\ vbuf_ind' \in Bufs
        /\ sbuf' \in Bufs /\ smask' \subseteq Bufs
    BY <1>0, <1>6 DEF Setsynch, conn, client, upload, resz, Types
  <2>2. buf' \in [Bufs -> Nat] /\ frame' \in Nat /\ vsem' \in Nat
    BY <1>0, <1>1, Conf DEF Setsynch, conn, client, upload, resz, Types
  <2>3. /\ pc' \in {"draw", "drawn", "subwait", "subsem", "step", "ready", "wait", "sem",
                   "try", "migrate"}
        /\ mask' \in {"block", "none"} /\ gpc' \in {"watch", "post", "done"}
        /\ srv' \in {"run", "crashed", "destroyed"}
        /\ spc' \in {"idle", "render", "mask", "upload", "release", "post", "bye", "gone"}
        /\ locked' \in {0, 2}
    BY <1>0, <1>1, Conf, ZenonT(30) DEF Setsynch, conn, client, upload, resz, Types
  <2>4. dms' \in BOOLEAN /\ local_dms' \in BOOLEAN /\ release_pending' \in BOOLEAN
    BY <1>0, Zenon DEF Setsynch, conn, client, upload, resz, Types
  <2> QED BY <1>1, <2>1, <2>2, <2>3, <2>4, Same DEF Types
<1>3. Link' /\ Announced'
  BY <1>0, <1>1, Same DEF Setsynch, conn, client, upload, resz, Types, Link, Announced
<1>4. Apart'
  BY <1>0, <1>1, Conf, Same, NextIsBuf, Zenon DEF Setsynch, conn, client, upload, resz, Types, Link, Announced, Apart, AtWork, Due, NextBuf
<1>5. Steady'
  BY <1>0, <1>1, Same DEF Setsynch, conn, client, upload, resz, Types, Link, Announced, Apart, AtWork, Due, Steady, NoTear
<1> QED BY <1>2, <1>3, <1>4, <1>5 DEF IInv

LEMMA StepframeInv == ASSUME IInv, Stepframe PROVE IInv'
<1>0. Types /\ Link /\ Announced /\ Apart /\ Steady
  BY DEF IInv
<1>1. cf' = cf /\ cf \in Configs
  BY <1>0, ZenonT(30) DEF Stepframe, Types
<1>2. Types'
  <2>1. /\ vready' \in 0 .. Cnt /\ vpending' \subseteq Bufs
        /\ old' \subseteq Bufs /\ vbuf_ind' \in Bufs
        /\ sbuf' \in Bufs /\ smask' \subseteq Bufs
    BY <1>0, <1>1, Conf, NextIsBuf, ZenonT(30) DEF Stepframe, page, conn, client, upload, hold, Types
  <2>2. buf' \in [Bufs -> Nat] /\ frame' \in Nat /\ vsem' \in Nat
    BY <1>0, <1>1, Conf DEF Stepframe, page, conn, client, upload, hold, Types
  <2>3. /\ pc' \in {"draw", "drawn", "subwait", "subsem", "step", "ready", "wait", "sem",
                   "try", "migrate"}
        /\ mask' \in {"block", "none"} /\ gpc' \in {"watch", "post", "done"}
        /\ srv' \in {"run", "crashed", "destroyed"}
        /\ spc' \in {"idle", "render", "mask", "upload", "release", "post", "bye", "gone"}
        /\ locked' \in {0, 2}
    BY <1>0, <1>1, Conf DEF Stepframe, page, conn, client, upload, hold, Types
  <2>4. dms' \in BOOLEAN /\ local_dms' \in BOOLEAN /\ release_pending' \in BOOLEAN
    BY <1>0 DEF Stepframe, page, conn, client, upload, hold, Types
  <2> QED BY <1>1, <2>1, <2>2, <2>3, <2>4, Same DEF Types
<1>3. Link' /\ Announced'
  BY <1>0, <1>1, Same, ZenonT(30) DEF Stepframe, page, conn, client, upload, hold, Types, Link, Announced
<1>4. Apart'
  BY <1>0, <1>1, Conf, Same, NextIsBuf, ZenonT(30) DEF Stepframe, page, conn, client, upload, hold, Types, Link, Announced, Apart, AtWork, Due, NextBuf
<1>5. Steady'
  BY <1>0, <1>1, Same DEF Stepframe, page, conn, client, upload, hold, Types, Link, Announced, Apart, AtWork, Due, Steady, NoTear
<1> QED BY <1>2, <1>3, <1>4, <1>5 DEF IInv

LEMMA CrashInv == ASSUME IInv, Crash PROVE IInv'
<1>0. Types /\ Link /\ Announced /\ Apart /\ Steady
  BY DEF IInv
<1>1. cf' = cf /\ cf \in Configs
  BY <1>0, ZenonT(30) DEF Crash, Types
<1>2. Types'
  <2>1. /\ vready' \in 0 .. Cnt /\ vpending' \subseteq Bufs
        /\ old' \subseteq Bufs /\ vbuf_ind' \in Bufs
        /\ sbuf' \in Bufs /\ smask' \subseteq Bufs
    BY <1>0, <1>1, Conf, NextIsBuf, ZenonT(30) DEF Crash, page, conn, client, upload, hold, resz, Types
  <2>2. buf' \in [Bufs -> Nat] /\ frame' \in Nat /\ vsem' \in Nat
    BY <1>0, <1>1, Conf DEF Crash, page, conn, client, upload, hold, resz, Types
  <2>3. /\ pc' \in {"draw", "drawn", "subwait", "subsem", "step", "ready", "wait", "sem",
                   "try", "migrate"}
        /\ mask' \in {"block", "none"} /\ gpc' \in {"watch", "post", "done"}
        /\ srv' \in {"run", "crashed", "destroyed"}
        /\ spc' \in {"idle", "render", "mask", "upload", "release", "post", "bye", "gone"}
        /\ locked' \in {0, 2}
    BY <1>0, <1>1, Conf DEF Crash, page, conn, client, upload, hold, resz, Types
  <2>4. dms' \in BOOLEAN /\ local_dms' \in BOOLEAN /\ release_pending' \in BOOLEAN
    BY <1>0 DEF Crash, page, conn, client, upload, hold, resz, Types
  <2> QED BY <1>1, <2>1, <2>2, <2>3, <2>4, Same DEF Types
<1>3. Link' /\ Announced'
  BY <1>0, <1>1, Same, ZenonT(30) DEF Crash, page, conn, client, upload, hold, resz, Types, Link, Announced
<1>4. Apart'
  BY <1>0, <1>1, Conf, Same, NextIsBuf, ZenonT(30) DEF Crash, page, conn, client, upload, hold, resz, Types, Link, Announced, Apart, AtWork, Due, NextBuf
<1>5. Steady'
  BY <1>0, <1>1, Same DEF Crash, page, conn, client, upload, hold, resz, Types, Link, Announced, Apart, AtWork, Due, Steady, NoTear
<1> QED BY <1>2, <1>3, <1>4, <1>5 DEF IInv

LEMMA Destroy_DmsInv == ASSUME IInv, Destroy_Dms PROVE IInv'
<1>0. Types /\ Link /\ Announced /\ Apart /\ Steady
  BY DEF IInv
<1>1. cf' = cf /\ cf \in Configs
  BY <1>0, ZenonT(30) DEF Destroy_Dms, Types
<1>2. Types'
  <2>1. /\ vready' \in 0 .. Cnt /\ vpending' \subseteq Bufs
        /\ old' \subseteq Bufs /\ vbuf_ind' \in Bufs
        /\ sbuf' \in Bufs /\ smask' \subseteq Bufs
    BY <1>0, <1>1, Conf, NextIsBuf, ZenonT(30) DEF Destroy_Dms, page, client, upload, hold, resz, Types
  <2>2. buf' \in [Bufs -> Nat] /\ frame' \in Nat /\ vsem' \in Nat
    BY <1>0, <1>1, Conf DEF Destroy_Dms, page, client, upload, hold, resz, Types
  <2>3. /\ pc' \in {"draw", "drawn", "subwait", "subsem", "step", "ready", "wait", "sem",
                   "try", "migrate"}
        /\ mask' \in {"block", "none"} /\ gpc' \in {"watch", "post", "done"}
        /\ srv' \in {"run", "crashed", "destroyed"}
        /\ spc' \in {"idle", "render", "mask", "upload", "release", "post", "bye", "gone"}
        /\ locked' \in {0, 2}
    BY <1>0, <1>1, Conf DEF Destroy_Dms, page, client, upload, hold, resz, Types
  <2>4. dms' \in BOOLEAN /\ local_dms' \in BOOLEAN /\ release_pending' \in BOOLEAN
    BY <1>0, Zenon DEF Destroy_Dms, page, client, upload, hold, resz, Types
  <2> QED BY <1>1, <2>1, <2>2, <2>3, <2>4, Same DEF Types
<1>3. Link' /\ Announced'
  BY <1>0, <1>1, Same, Zenon DEF Destroy_Dms, page, client, upload, hold, resz, Types, Link, Announced
<1>4. Apart'
  BY <1>0, <1>1, Conf, Same, NextIsBuf, ZenonT(30) DEF Destroy_Dms, page, client, upload, hold, resz, Types, Link, Announced, Apart, AtWork, Due, NextBuf
<1>5. Steady'
  BY <1>0, <1>1, Same DEF Destroy_Dms, page, client, upload, hold, resz, Types, Link, Announced, Apart, AtWork, Due, Steady, NoTear
<1> QED BY <1>2, <1>3, <1>4, <1>5 DEF IInv

LEMMA Destroy_PostInv == ASSUME IInv, Destroy_Post PROVE IInv'
<1>0. Types /\ Link /\ Announced /\ Apart /\ Steady
  BY DEF IInv
<1>1. cf' = cf /\ cf \in Configs
  BY <1>0, ZenonT(30) DEF Destroy_Post, Types
<1>2. Types'
  <2>1. /\ vready' \in 0 .. Cnt /\ vpending' \subseteq Bufs
        /\ old' \subseteq Bufs /\ vbuf_ind' \in Bufs
        /\ sbuf' \in Bufs /\ smask' \subseteq Bufs
    BY <1>0, <1>1, Conf, NextIsBuf DEF Destroy_Post, Post, conn, client, upload, hold, resz, Types
  <2>2. buf' \in [Bufs -> Nat] /\ frame' \in Nat /\ vsem' \in Nat
    BY <1>0, <1>1, Conf DEF Destroy_Post, Post, conn, client, upload, hold, resz, Types
  <2>3. /\ pc' \in {"draw", "drawn", "subwait", "subsem", "step", "ready", "wait", "sem",
                   "try", "migrate"}
        /\ mask' \in {"block", "none"} /\ gpc' \in {"watch", "post", "done"}
        /\ srv' \in {"run", "crashed", "destroyed"}
        /\ spc' \in {"idle", "render", "mask", "upload", "release", "post", "bye", "gone"}
        /\ locked' \in {0, 2}
    BY <1>0, <1>1, Conf DEF Destroy_Post, Post, conn, client, upload, hold, resz, Types
  <2>4. dms' \in BOOLEAN /\ local_dms' \in BOOLEAN /\ release_pending' \in BOOLEAN
    BY <1>0, ZenonT(30) DEF Destroy_Post, Post, conn, client, upload, hold, resz, Types
  <2> QED BY <1>1, <2>1, <2>2, <2>3, <2>4, Same DEF Types
<1>3. Link' /\ Announced'
  BY <1>0, <1>1, Same, ZenonT(30) DEF Destroy_Post, Post, conn, client, upload, hold, resz, Types, Link, Announced
<1>4. Apart'
  BY <1>0, <1>1, Conf, Same, NextIsBuf, ZenonT(30) DEF Destroy_Post, Post, conn, client, upload, hold, resz, Types, Link, Announced, Apart, AtWork, Due, NextBuf
<1>5. Steady'
  BY <1>0, <1>1, Same DEF Destroy_Post, Post, conn, client, upload, hold, resz, Types, Link, Announced, Apart, AtWork, Due, Steady, NoTear
<1> QED BY <1>2, <1>3, <1>4, <1>5 DEF IInv

LEMMA Guard_FlagsInv == ASSUME IInv, Guard_Flags PROVE IInv'
<1>0. Types /\ Link /\ Announced /\ Apart /\ Steady
  BY DEF IInv
<1>1. cf' = cf /\ cf \in Configs
  BY <1>0 DEF Guard_Flags, Types
<1>2. Types'
  <2>1. /\ vready' \in 0 .. Cnt /\ vpending' \subseteq Bufs
        /\ old' \subseteq Bufs /\ vbuf_ind' \in Bufs
        /\ sbuf' \in Bufs /\ smask' \subseteq Bufs
    BY <1>0, <1>1, Conf, NextIsBuf, Zenon DEF Guard_Flags, page, client, upload, hold, resz, Types
  <2>2. buf' \in [Bufs -> Nat] /\ frame' \in Nat /\ vsem' \in Nat
    BY <1>0, <1>1, Conf, ZenonT(30) DEF Guard_Flags, page, client, upload, hold, resz, Types
  <2>3. /\ pc' \in {"draw", "drawn", "subwait", "subsem", "step", "ready", "wait", "sem",
                   "try", "migrate"}
        /\ mask' \in {"block", "none"} /\ gpc' \in {"watch", "post", "done"}
        /\ srv' \in {"run", "crashed", "destroyed"}
        /\ spc' \in {"idle", "render", "mask", "upload", "release", "post", "bye", "gone"}
        /\ locked' \in {0, 2}
    BY <1>0, <1>1, Conf DEF Guard_Flags, page, client, upload, hold, resz, Types
  <2>4. dms' \in BOOLEAN /\ local_dms' \in BOOLEAN /\ release_pending' \in BOOLEAN
    BY <1>0, Zenon DEF Guard_Flags, page, client, upload, hold, resz, Types
  <2> QED BY <1>1, <2>1, <2>2, <2>3, <2>4, Same DEF Types
<1>3. Link' /\ Announced'
  BY <1>0, <1>1, Same, ZenonT(30) DEF Guard_Flags, page, client, upload, hold, resz, Types, Link, Announced
<1>4. Apart'
  BY <1>0, <1>1, Conf, Same, NextIsBuf, ZenonT(30) DEF Guard_Flags, page, client, upload, hold, resz, Types, Link, Announced, Apart, AtWork, Due, NextBuf
<1>5. Steady'
  BY <1>0, <1>1, Same DEF Guard_Flags, page, client, upload, hold, resz, Types, Link, Announced, Apart, AtWork, Due, Steady, NoTear
<1> QED BY <1>2, <1>3, <1>4, <1>5 DEF IInv

LEMMA Guard_PostInv == ASSUME IInv, Guard_Post PROVE IInv'
<1>0. Types /\ Link /\ Announced /\ Apart /\ Steady
  BY DEF IInv
<1>1. cf' = cf /\ cf \in Configs
  BY <1>0, ZenonT(30) DEF Guard_Post, Types
<1>2. Types'
  <2>1. /\ vready' \in 0 .. Cnt /\ vpending' \subseteq Bufs
        /\ old' \subseteq Bufs /\ vbuf_ind' \in Bufs
        /\ sbuf' \in Bufs /\ smask' \subseteq Bufs
    BY <1>0, <1>1, Conf, NextIsBuf, ZenonT(30) DEF Guard_Post, Post, page, client, upload, hold, resz, Types
  <2>2. buf' \in [Bufs -> Nat] /\ frame' \in Nat /\ vsem' \in Nat
    BY <1>0, <1>1, Conf DEF Guard_Post, Post, page, client, upload, hold, resz, Types
  <2>3. /\ pc' \in {"draw", "drawn", "subwait", "subsem", "step", "ready", "wait", "sem",
                   "try", "migrate"}
        /\ mask' \in {"block", "none"} /\ gpc' \in {"watch", "post", "done"}
        /\ srv' \in {"run", "crashed", "destroyed"}
        /\ spc' \in {"idle", "render", "mask", "upload", "release", "post", "bye", "gone"}
        /\ locked' \in {0, 2}
    BY <1>0, <1>1, Conf DEF Guard_Post, Post, page, client, upload, hold, resz, Types
  <2>4. dms' \in BOOLEAN /\ local_dms' \in BOOLEAN /\ release_pending' \in BOOLEAN
    BY <1>0, ZenonT(30) DEF Guard_Post, Post, page, client, upload, hold, resz, Types
  <2> QED BY <1>1, <2>1, <2>2, <2>3, <2>4, Same DEF Types
<1>3. Link' /\ Announced'
  BY <1>0, <1>1, Same, ZenonT(30) DEF Guard_Post, Post, page, client, upload, hold, resz, Types, Link, Announced
<1>4. Apart'
  BY <1>0, <1>1, Conf, Same, NextIsBuf, ZenonT(30) DEF Guard_Post, Post, page, client, upload, hold, resz, Types, Link, Announced, Apart, AtWork, Due, NextBuf
<1>5. Steady'
  BY <1>0, <1>1, Same DEF Guard_Post, Post, page, client, upload, hold, resz, Types, Link, Announced, Apart, AtWork, Due, Steady, NoTear
<1> QED BY <1>2, <1>3, <1>4, <1>5 DEF IInv

-----------------------------------------------------------------------------
(* theorems *)

\* Every step keeps IInv.
LEMMA NextInv == IInv /\ [Next]_vars => IInv'
<1> SUFFICES ASSUME IInv, [Next]_vars PROVE IInv'
  OBVIOUS
<1>1. ASSUME Client PROVE IInv'
  BY <1>1, DrawInv, Signal_BeginInv, Signal_SubWaitInv, Step_NoChangeInv, Step_PendingInv,
     Step_ReadyInv, Signal_WaitInv, Signal_SemWaitInv, Signal_TryWaitInv
  DEF Client, InSignal
<1>2. ASSUME Frameserver PROVE IInv'
  BY <1>2, PollInv, Push_ReadyInv, Push_MaskInv, Push_CommitInv, ReleaseInv,
     Release_PostInv, ReleaselockInv
  DEF Frameserver
<1>3. ASSUME Guard PROVE IInv'
  BY <1>3, Guard_FlagsInv, Guard_PostInv DEF Guard
<1>4. ASSUME (\E l \in Synch : Setsynch(l)) \/ Stepframe PROVE IInv'
  BY <1>4, SetsynchInv, StepframeInv
<1>5. ASSUME Crash \/ Destroy_Dms \/ Destroy_Post PROVE IInv'
  BY <1>5, CrashInv, Destroy_DmsInv, Destroy_PostInv
<1>6. ASSUME UNCHANGED vars PROVE IInv'
  <2>1. /\ cf' = cf /\ vready' = vready /\ vpending' = vpending /\ vsem' = vsem /\ dms' = dms
        /\ local_dms' = local_dms /\ gpc' = gpc /\ pc' = pc /\ mask' = mask /\ old' = old
        /\ vbuf_ind' = vbuf_ind /\ buf' = buf /\ frame' = frame /\ srv' = srv /\ spc' = spc
        /\ sbuf' = sbuf /\ smask' = smask /\ grab' = grab /\ locked' = locked
        /\ release_pending' = release_pending
    BY <1>6 DEF vars, page, conn, client, upload, hold
  <2>2. NextBuf' = NextBuf
    BY <2>1, Same, ZenonT(30) DEF NextBuf
  <2>3. Types' /\ Link' /\ Announced'
    BY <2>1, Same DEF IInv, Types, Link, Announced
  <2>4. Apart' /\ Steady'
    BY <2>1, <2>2, Same DEF IInv, Apart, AtWork, Due, Steady, NoTear
  <2> QED BY <2>3, <2>4, ZenonT(30) DEF IInv
<1> QED BY <1>1, <1>2, <1>3, <1>4, <1>5, <1>6 DEF Next

LEMMA IInvAlways == Spec => []IInv
  BY InitInv, NextInv, PTL DEF Spec

\* step_v and push_buffer: with one or two buffers, and against a shmif server
\* with any number of them, a client whose signals block does not draw into
\* the buffer that is being uploaded.
THEOREM NoTearBlockingAlways == Spec => []NoTearBlocking
<1>1. IInv => NoTearBlocking
  BY DEF IInv, Steady, Blocking, NoTearBlocking
<1> QED BY <1>1, IInvAlways, PTL

\* No step lets a client oversleep.
LEMMA AsleepNext == IInv /\ AsleepForAReason /\ [Next]_vars => AsleepForAReason'
<1> SUFFICES ASSUME IInv, AsleepForAReason, [Next]_vars PROVE AsleepForAReason'
  OBVIOUS
<1>0. Types /\ Link /\ SEM_VALUE_MAX \in Nat \ {0}
  BY VideoAssumption DEF IInv
<1>00. cf' = cf => (("keepdms" \in Faults)' <=> "keepdms" \in Faults)
  BY ZenonT(30) DEF Faults
<1>1. ASSUME Draw PROVE AsleepForAReason'
  BY <1>0, <1>00, <1>1, ZenonT(30) DEF Draw, page, conn, upload, hold, resz, Types, Link, AsleepForAReason, check_dms
<1>2. ASSUME NEW m \in Masks, Signal_Begin(m) PROVE AsleepForAReason'
  BY <1>0, <1>00, <1>2, ZenonT(30) DEF Signal_Begin, page, conn, upload, hold, resz, Types, Link, AsleepForAReason, check_dms
<1>3. ASSUME Signal_SubWait PROVE AsleepForAReason'
  BY <1>0, <1>00, <1>3, ZenonT(30) DEF Signal_SubWait, page, conn, upload, hold, resz, Types, Link, AsleepForAReason, check_dms
<1>4. ASSUME Step_NoChange PROVE AsleepForAReason'
  BY <1>0, <1>00, <1>4, ZenonT(30) DEF Step_NoChange, page, conn, upload, hold, resz, Types, Link, AsleepForAReason, check_dms
<1>5. ASSUME Step_Pending PROVE AsleepForAReason'
  BY <1>0, <1>00, <1>5, ZenonT(30) DEF Step_Pending, conn, upload, hold, resz, Types, Link, AsleepForAReason, check_dms
<1>6. ASSUME Step_Ready PROVE AsleepForAReason'
  BY <1>0, <1>00, <1>6, ZenonT(30) DEF Step_Ready, Lock, conn, upload, hold, resz, Types, Link, AsleepForAReason, check_dms
<1>7. ASSUME Signal_Wait PROVE AsleepForAReason'
  BY <1>0, <1>00, <1>7, ZenonT(30) DEF Signal_Wait, page, conn, upload, hold, resz, Types, Link, AsleepForAReason, check_dms
<1>8. ASSUME Signal_SemWait PROVE AsleepForAReason'
  BY <1>0, <1>00, <1>8, ZenonT(30) DEF Signal_SemWait, page, conn, upload, hold, resz, Types, Link, AsleepForAReason, check_dms
<1>9. ASSUME Signal_TryWait PROVE AsleepForAReason'
  BY <1>0, <1>00, <1>9, ZenonT(30) DEF Signal_TryWait, page, conn, upload, hold, resz, Types, Link, AsleepForAReason, check_dms
<1>10. ASSUME Poll PROVE AsleepForAReason'
  BY <1>0, <1>00, <1>10, ZenonT(30) DEF Poll, page, conn, client, upload, hold, resz, Types, Link, AsleepForAReason, check_dms
<1>11. ASSUME Push_Ready PROVE AsleepForAReason'
  BY <1>0, <1>00, <1>11, ZenonT(30) DEF Push_Ready, page, conn, client, hold, resz, Types, Link, AsleepForAReason, check_dms
<1>12. ASSUME Push_Mask PROVE AsleepForAReason'
  BY <1>0, <1>00, <1>12, ZenonT(30) DEF Push_Mask, Awaiting, page, conn, client, upload, hold, Types, Link, AsleepForAReason, check_dms
<1>13. ASSUME Push_Commit PROVE AsleepForAReason'
  BY <1>0, <1>00, <1>13, ZenonT(30) DEF Push_Commit, conn, client, hold, resz, Types, Link, AsleepForAReason, check_dms
<1>14. ASSUME Release PROVE AsleepForAReason'
  BY <1>0, <1>00, <1>14, ZenonT(30) DEF Release, conn, client, upload, resz, Types, Link, AsleepForAReason, check_dms
<1>15. ASSUME Release_Post PROVE AsleepForAReason'
  BY <1>0, <1>00, <1>15 DEF Release_Post, Post, page, conn, client, upload, hold, resz, Types, Link, AsleepForAReason, check_dms
<1>16. ASSUME Releaselock PROVE AsleepForAReason'
  BY <1>0, <1>00, <1>16, ZenonT(30) DEF Releaselock, conn, client, upload, resz, Types, Link, AsleepForAReason, check_dms
<1>17. ASSUME NEW l \in Synch, Setsynch(l) PROVE AsleepForAReason'
  BY <1>0, <1>00, <1>17, ZenonT(30) DEF Setsynch, conn, client, upload, resz, Types, Link, AsleepForAReason, check_dms
<1>18. ASSUME Stepframe PROVE AsleepForAReason'
  BY <1>0, <1>00, <1>18, ZenonT(30) DEF Stepframe, page, conn, client, upload, hold, Types, Link, AsleepForAReason, check_dms
<1>19. ASSUME Crash PROVE AsleepForAReason'
  BY <1>0, <1>00, <1>19, ZenonT(30) DEF Crash, page, conn, client, upload, hold, resz, Types, Link, AsleepForAReason, check_dms
<1>20. ASSUME Destroy_Dms PROVE AsleepForAReason'
  BY <1>0, <1>00, <1>20, ZenonT(30) DEF Destroy_Dms, page, client, upload, hold, resz, Types, Link, AsleepForAReason, check_dms
<1>21. ASSUME Destroy_Post PROVE AsleepForAReason'
  BY <1>0, <1>00, <1>21 DEF Destroy_Post, Post, conn, client, upload, hold, resz, Types, Link, AsleepForAReason, check_dms
<1>22. ASSUME Guard_Flags PROVE AsleepForAReason'
  BY <1>0, <1>00, <1>22, ZenonT(30) DEF Guard_Flags, page, client, upload, hold, resz, Types, Link, AsleepForAReason, check_dms
<1>23. ASSUME Guard_Post PROVE AsleepForAReason'
  BY <1>0, <1>00, <1>23 DEF Guard_Post, Post, page, client, upload, hold, resz, Types, Link, AsleepForAReason, check_dms
<1>24. ASSUME UNCHANGED vars PROVE AsleepForAReason'
  BY <1>00, <1>24 DEF vars, page, conn, client, AsleepForAReason, check_dms
<1> QED
  BY <1>1, <1>2, <1>3, <1>4, <1>5, <1>6, <1>7, <1>8, <1>9, <1>10, <1>11, <1>12, <1>13,
     <1>14, <1>15, <1>16, <1>17, <1>18, <1>19, <1>20, <1>21, <1>22, <1>23, <1>24
  DEF Next, Client, InSignal, Frameserver, Guard

\* arcan_shmif_signal: unless the server leaves its switch set, a client asleep
\* on the video semaphore has a frame with a live server, or is about to be
\* woken by the release, by platform_fsrv_destroy or by its guard thread.
THEOREM AsleepAlways == Spec => []AsleepForAReason
<1>1. Init => AsleepForAReason
  BY ZenonT(30) DEF Init, AsleepForAReason
<1> QED BY <1>1, AsleepNext, IInvAlways, PTL DEF Spec

-----------------------------------------------------------------------------
(* frames are shown in the order they were drawn *)

\* The client has drawn the frame it is about to announce.
Drawn == pc \in {"drawn", "subwait", "subsem", "step", "ready"}

\* A frame is announced that no release is going to take back unseen.
Up == spc \in {"idle", "post", "render"} /\ vready # 0 /\ release_pending = FALSE

\* Whatever the server goes on to upload is no older than what it showed: the
\* frame announced, the buffer chosen, the contents read.
Newest ==
  /\ grab \in Nat /\ shown \in Nat /\ grab <= frame /\ shown <= frame
  /\ \A i \in Bufs : buf[i] <= frame
  /\ Drawn => buf[vbuf_ind] = frame
  /\ srv = "run" => /\ Up => shown <= buf[vready - 1]
                    /\ spc = "mask" => shown <= buf[sbuf]
                    /\ spc = "upload" => shown <= grab

\* A step that neither draws nor reads a buffer: it may announce what is drawn
\* and choose what is announced.
Passes ==
  /\ UNCHANGED <<cf, buf, frame, grab, shown>>
  /\ Drawn' => Drawn /\ vbuf_ind' = vbuf_ind
  /\ srv' = "run" =>
       /\ srv = "run"
       /\ Up' => (Up /\ vready' = vready) \/ (Drawn /\ vready' = vbuf_ind + 1)
       /\ spc' = "mask" => (spc = "mask" /\ sbuf' = sbuf) \/ (Up /\ sbuf' = vready - 1)
       /\ spc' = "upload" => spc = "upload"

LEMMA PassesNewest == ASSUME IInv, Newest, Passes PROVE Newest'
<1>1. Bufs' = Bufs /\ buf \in [Bufs -> Nat] /\ frame \in Nat /\ vbuf_ind \in Nat /\ vbuf_ind \in Bufs
  BY Conf, Same DEF Passes, IInv, Types
<1>2. (vbuf_ind + 1) - 1 = vbuf_ind
  BY <1>1
<1>3. Drawn' => buf'[vbuf_ind'] = frame'
  BY DEF Passes, Newest
<1>4. ASSUME srv' = "run", Up' PROVE shown' <= buf'[vready' - 1]
  BY <1>1, <1>2, <1>4 DEF Passes, Newest
<1>5. ASSUME srv' = "run" PROVE /\ spc' = "mask" => shown' <= buf'[sbuf']
                               /\ spc' = "upload" => shown' <= grab'
  BY <1>5 DEF Passes, Newest
<1> QED BY <1>1, <1>3, <1>4, <1>5, ZenonT(30) DEF Passes, Newest

LEMMA NewestNext == IInv /\ Newest /\ [Next]_vars => Newest'
<1> SUFFICES ASSUME IInv, Newest, [Next]_vars PROVE Newest'
  OBVIOUS
<1>0. Types /\ Announced
  BY ZenonT(30) DEF IInv
<1>1. /\ Bufs \in SUBSET Nat /\ buf \in [Bufs -> Nat] /\ frame \in Nat /\ vbuf_ind \in Bufs /\ sbuf \in Bufs
      /\ (vready # 0 => vready - 1 \in Bufs) /\ (cf' = cf => Bufs' = Bufs)
  BY <1>0, Conf, Same DEF Types
<1>2. ASSUME Draw PROVE Newest'
  <2>1. /\ frame' = frame + 1 /\ \A i \in Bufs : buf'[i] = IF i = vbuf_ind THEN frame + 1 ELSE buf[i]
        /\ UNCHANGED <<cf, vready, vbuf_ind, srv, spc, sbuf, grab, shown, release_pending>>
    BY <1>1, <1>2, ZenonT(30) DEF Draw, page, upload, hold
  <2>2. (\A i \in Bufs : buf'[i] <= frame') /\ buf'[vbuf_ind'] = frame' /\ \A i \in Bufs : buf[i] <= buf'[i]
    BY <1>1, <2>1 DEF Newest
  <2>20. \A i \in Bufs : buf[i] \in Nat /\ buf'[i] \in Nat
    BY <1>1, <2>1
  <2>21. shown \in Nat /\ grab \in Nat /\ grab <= frame /\ shown <= frame
    BY DEF Newest
  <2>3. ASSUME srv' = "run", Up' PROVE shown' <= buf'[vready' - 1]
    <3>1. vready # 0 /\ shown <= buf[vready - 1]
      BY <2>1, <2>3 DEF Newest, Up
    <3>2. vready - 1 \in Bufs
      BY <1>1, <3>1
    <3>3. shown <= buf'[vready - 1]
      BY <2>2, <2>20, <2>21, <3>1, <3>2
    <3> QED BY <2>1, <3>3, ZenonT(30)
  <2>4. ASSUME srv' = "run", spc' = "mask" PROVE shown' <= buf'[sbuf']
    <3>1. shown <= buf[sbuf]
      BY <2>1, <2>4 DEF Newest
    <3>2. shown <= buf'[sbuf]
      BY <1>1, <2>2, <2>20, <2>21, <3>1
    <3> QED BY <2>1, <3>2, ZenonT(30)
  <2>5. grab' \in Nat /\ shown' \in Nat /\ grab' <= frame' /\ shown' <= frame'
    BY <1>1, <2>1, <2>21
  <2>6. \A i \in Bufs' : buf'[i] <= frame'
    <3>1. Bufs' = Bufs
      BY <1>1, <2>1
    <3> QED BY <2>2, <3>1
  <2>7. srv' = "run" /\ spc' = "upload" => shown' <= grab'
    BY <2>1, ZenonT(30) DEF Newest
  <2> QED BY <2>2, <2>3, <2>4, <2>5, <2>6, <2>7, ZenonT(30) DEF Newest
<1>3. ASSUME Push_Mask PROVE Newest'
  <2>1. /\ UNCHANGED <<cf, buf, frame, pc, vbuf_ind, srv, shown>> /\ spc = "mask" /\ srv = "run"
        /\ \/ spc' = "release" /\ grab' = grab
           \/ spc' = "upload" /\ grab' = buf[sbuf]
    BY <1>3 DEF Push_Mask, client
  <2>2. ~Up' /\ (Drawn' <=> Drawn)
    BY <2>1 DEF Up, Drawn
  <2>3. grab' \in Nat /\ shown' \in Nat /\ grab' <= frame' /\ shown' <= frame'
    BY <1>1, <2>1 DEF Newest
  <2>4. (\A i \in Bufs' : buf'[i] <= frame') /\ (Drawn' => buf'[vbuf_ind'] = frame')
    <3>1. Bufs' = Bufs /\ buf' = buf /\ frame' = frame
      BY <1>1, <2>1
    <3>2. \A i \in Bufs : buf[i] <= frame
      BY DEF Newest
    <3>3. Drawn' => buf'[vbuf_ind'] = frame'
      BY <2>1, <2>2 DEF Newest
    <3> QED BY <3>1, <3>2, <3>3
  <2>5. spc' # "mask" /\ (spc' = "upload" => shown' <= grab')
    BY <2>1, ZenonT(30) DEF Newest
  <2> QED BY <2>2, <2>3, <2>4, <2>5 DEF Newest
<1>4. ASSUME Push_Commit PROVE Newest'
  <2>1. /\ UNCHANGED <<cf, buf, frame, pc, vbuf_ind, srv, grab>> /\ shown' = grab /\ spc' = "release"
    BY <1>4 DEF Push_Commit, client
  <2>2. ~Up' /\ (Drawn' <=> Drawn) /\ spc' # "mask" /\ spc' # "upload"
    BY <2>1 DEF Up, Drawn
  <2>3. grab' \in Nat /\ shown' \in Nat /\ grab' <= frame' /\ shown' <= frame'
    BY <1>1, <2>1 DEF Newest
  <2>4. (\A i \in Bufs' : buf'[i] <= frame') /\ (Drawn' => buf'[vbuf_ind'] = frame')
    <3>1. Bufs' = Bufs /\ buf' = buf /\ frame' = frame
      BY <1>1, <2>1
    <3>2. \A i \in Bufs : buf[i] <= frame
      BY DEF Newest
    <3>3. Drawn' => buf'[vbuf_ind'] = frame'
      BY <2>1, <2>2, ZenonT(30) DEF Newest
    <3> QED BY <3>1, <3>2, <3>3
  <2> QED BY <2>2, <2>3, <2>4 DEF Newest
<1>5. ASSUME NEW m \in Masks, Signal_Begin(m) PROVE Passes
  BY <1>0, <1>5, ZenonT(30) DEF Signal_Begin, page, upload, hold, Types, Announced, Passes, Drawn, Up
<1>6. ASSUME Signal_SubWait PROVE Passes
  BY <1>0, <1>6, ZenonT(30) DEF Signal_SubWait, page, upload, hold, Types, Announced, Passes, Drawn, Up
<1>7. ASSUME Step_NoChange PROVE Passes
  BY <1>0, <1>7, ZenonT(30) DEF Step_NoChange, page, upload, hold, Types, Announced, Passes, Drawn, Up
<1>8. ASSUME Step_Pending PROVE Passes
  BY <1>0, <1>8, ZenonT(30) DEF Step_Pending, upload, hold, Types, Announced, Passes, Drawn, Up
<1>9. ASSUME Step_Ready PROVE Passes
  BY <1>0, <1>9, ZenonT(30) DEF Step_Ready, upload, hold, Types, Announced, Passes, Drawn, Up
<1>10. ASSUME Signal_Wait PROVE Passes
  BY <1>0, <1>10, ZenonT(30) DEF Signal_Wait, page, upload, hold, Types, Announced, Passes, Drawn, Up
<1>11. ASSUME Signal_SemWait PROVE Passes
  BY <1>0, <1>11, ZenonT(30) DEF Signal_SemWait, page, upload, hold, Types, Announced, Passes, Drawn, Up
<1>12. ASSUME Signal_TryWait PROVE Passes
  BY <1>0, <1>12, ZenonT(30) DEF Signal_TryWait, page, upload, hold, Types, Announced, Passes, Drawn, Up
<1>13. ASSUME Poll PROVE Passes
  BY <1>0, <1>13, ZenonT(30) DEF Poll, page, client, upload, hold, Types, Announced, Passes, Drawn, Up
<1>14. ASSUME Push_Ready PROVE Passes
  <2>1. vready # 0 /\ vready <= Cnt
    BY <1>0, <1>14, Conf DEF Push_Ready, Types, Announced
  <2>2. release_pending = FALSE
    BY <1>0, <1>14, Zenon DEF Push_Ready, Types, Announced
  <2>3. sbuf' = vready - 1
    BY <1>0, <1>14, <2>1, Conf DEF Push_Ready, Types
  <2> QED BY <1>14, <2>1, <2>2, <2>3, ZenonT(30) DEF Push_Ready, page, client, hold, Passes, Drawn, Up
<1>15. ASSUME Release PROVE Passes
  BY <1>0, <1>15, ZenonT(30) DEF Release, client, upload, Types, Announced, Passes, Drawn, Up
<1>16. ASSUME Release_Post PROVE Passes
  BY <1>0, <1>16, ZenonT(30) DEF Release_Post, page, client, upload, hold, Types, Announced, Passes, Drawn, Up
<1>17. ASSUME Releaselock PROVE Passes
  BY <1>0, <1>17, ZenonT(30) DEF Releaselock, client, upload, Types, Announced, Passes, Drawn, Up
<1>18. ASSUME NEW l \in Synch, Setsynch(l) PROVE Passes
  BY <1>0, <1>18, ZenonT(30) DEF Setsynch, client, upload, Types, Announced, Passes, Drawn, Up
<1>19. ASSUME Stepframe PROVE Passes
  BY <1>0, <1>19, ZenonT(30) DEF Stepframe, page, client, upload, hold, Types, Announced, Passes, Drawn, Up
<1>20. ASSUME Crash PROVE Passes
  BY <1>0, <1>20, ZenonT(30) DEF Crash, page, client, upload, hold, Types, Announced, Passes, Drawn, Up
<1>21. ASSUME Destroy_Dms PROVE Passes
  BY <1>0, <1>21, ZenonT(30) DEF Destroy_Dms, page, client, upload, hold, Types, Announced, Passes, Drawn, Up
<1>22. ASSUME Destroy_Post PROVE Passes
  BY <1>0, <1>22, ZenonT(30) DEF Destroy_Post, client, upload, hold, Types, Announced, Passes, Drawn, Up
<1>23. ASSUME Guard_Flags PROVE Passes
  BY <1>0, <1>23, ZenonT(30) DEF Guard_Flags, page, client, upload, hold, Types, Announced, Passes, Drawn, Up
<1>24. ASSUME Guard_Post PROVE Passes
  BY <1>0, <1>24, ZenonT(30) DEF Guard_Post, page, client, upload, hold, Types, Announced, Passes, Drawn, Up
<1>25. ASSUME UNCHANGED vars PROVE Passes
  BY <1>25 DEF vars, page, client, upload, hold, Passes, Drawn, Up
<1> QED
  BY <1>2, <1>3, <1>4, <1>5, <1>6, <1>7, <1>8, <1>9, <1>10, <1>11, <1>12, <1>13, <1>14,
     <1>15, <1>16, <1>17, <1>18, <1>19, <1>20, <1>21, <1>22, <1>23, <1>24, <1>25, PassesNewest
  DEF Next, Client, InSignal, Frameserver, Guard

\* step_v, push_buffer and the release: what is on display never goes back to an
\* earlier frame, in any configuration, blocking or not, although the buffer
\* that is uploaded may be redrawn and announcements may be overwritten.
THEOREM NoOlderFrameAlways == Spec => NoOlderFrame
<1>1. Init => Newest
  <2> SUFFICES ASSUME Init PROVE Newest
    OBVIOUS
  <2>1. 0 \in Bufs /\ \A i \in Bufs : buf[i] = 0
    BY Conf DEF Init
  <2> QED BY <2>1 DEF Init, Newest, Drawn, Up
<1>2. IInv /\ Newest /\ [Next]_vars => [shown' >= shown]_vars
  <2> SUFFICES ASSUME IInv, Newest, Next PROVE shown' >= shown
    OBVIOUS
  <2>1. shown \in Nat
    BY ZenonT(30) DEF Newest
  <2>2. CASE Push_Commit
    BY <2>1, <2>2 DEF Push_Commit, Newest
  <2>3. CASE ~Push_Commit
    <3>1. shown' = shown
      BY <2>3, Zenon DEF Next, Client, Draw, Signal_Begin, InSignal, Signal_SubWait, Step_NoChange,
         Step_Pending, Step_Ready, Signal_Wait, Signal_SemWait, Signal_TryWait, Frameserver, Poll,
         Push_Ready, Push_Mask, Release, Release_Post, Releaselock, Setsynch, Stepframe, Crash,
         Destroy_Dms, Destroy_Post, Guard, Guard_Flags, Guard_Post, upload
    <3> QED BY <2>1, <3>1
  <2> QED BY <2>2, <2>3
<1> QED BY <1>1, <1>2, NewestNext, IInvAlways, PTL DEF Spec, NoOlderFrame

==============================================================================
