-------------------------- MODULE ShmifResizeProofs --------------------------
(***************************************************************************)
(* For any requests, limits and number of calls: the buffers lie inside    *)
(* the file, a refusal is reported, and after a handshake the two sides    *)
(* have the same layout, with the exceptions the properties name.          *)
(***************************************************************************)
EXTENDS ShmifResize, WellFoundedInduction, TLAPS

USE SMTT(30), SMTT(31), ZenonT(30)   \* a leaf that runs out of time is tried again

Settings == [w : Nat, v : Nat, a : Nat, b : Nat]

TypesPage ==
  /\ {w, abufsize, vpending, apending, segment_size, file} \subseteq Nat
  /\ resized \in {-1, 0, 1} /\ ready \subseteq AV
  /\ dms \in BOOLEAN /\ local_dms \in BOOLEAN

TypesCtx ==
  /\ pc \in {"idle", "wait_v", "sem_v", "wait_a", "sem_a", "recheck", "flag", "spin",
             "answer", "counts", "clear", "abuf", "migrate"}
  /\ req \in [w : Nat, v : Nat \cup {-1}, a : Nat \cup {-1}, b : Nat, auth : BOOLEAN]
  /\ ctx \in [set : Settings, size : Nat]

TypesSrv ==
  /\ spc \in {"idle", "post_v", "post_a", "layout", "ack", "abufsize", "apending",
              "vpending", "done", "failed", "bye", "gone"}
  /\ sv \in [set : Settings, size : Nat] /\ want \in Settings
  /\ srv \in {"run", "broken", "crashed", "destroyed"}

Types == cf \in Configs /\ TypesPage /\ TypesCtx /\ TypesSrv

\* The sizes the server keeps and publishes are inside the file, the published
\* one unless an authentication failed after the file was cut; the switch of a
\* server that runs is on; a client that gave up has seen it off.
Sizes ==
  /\ sv.size <= file
  /\ "unauth" \notin dev => sv.size = shmpage_size(sv.set) /\ segment_size <= file
  /\ srv = "run" => check_dms
  /\ pc = "migrate" => ~check_dms

\* Who waits for whom, as long as the server reads each request once.
Waiting == pc \in {"spin", "answer", "migrate"}

Turns ==
  /\ resized # 0 => Waiting
  /\ spc \in {"layout", "ack"} => resized = 1
  /\ pc = "answer" /\ resized = 1 => ~check_dms

\* The server has not changed the settings since the client took them over.
OldSettings == \/ pc \in {"idle", "wait_v", "sem_v", "wait_a", "sem_a", "recheck", "flag"}
               \/ pc \in {"spin", "answer"} /\ resized # 0 /\ spc # "ack"

\* A refused request is one whose refusal is to be seen, or was.
Told == refused => \/ pc = "migrate"
                   \/ pc \in {"spin", "answer"} /\ resized = -1
                   \/ pc = "idle" /\ result = "false"

Once == "reread" \notin dev =>
          /\ Turns /\ Told
          /\ "unauth" \notin dev /\ check_dms
             /\ (OldSettings \/ pc \in {"counts", "clear", "abuf"})
               => ctx.size <= file

\* From the wait on, no buffer is in the hands of the server.
Quiet ==
  check_dms => /\ pc \in {"wait_a", "sem_a"} => "v" \notin ready
               /\ pc \in {"recheck", "flag", "spin", "answer", "counts", "clear", "abuf"}
                    => ready = {}

\* Where the two sides are while nothing disturbs the protocol: before the
\* answer both have the old settings;
AgreeOld == OldSettings => Layout(ctx.set) = Layout(sv.set) /\ mapav(ctx.set) <= ctx.size

\* the page asks for something the server grants as it stands,
AgreeAsked ==
  pc = "flag" \/ (pc = "spin" /\ resized = 1 /\ spc \notin {"layout", "ack"})
    => AsItStands(Asked)

\* the server has read that, and lays it out;
AgreeRead == spc \in {"layout", "ack"} => Layout(want) = Layout(Asked)

AgreeAck == spc = "ack" => sv.set = want /\ segment_size = mapav(want)

\* after the answer the page says what was granted,
AgreeGranted ==
  pc \in {"spin", "answer"} /\ resized = 0
    => Layout(Asked) = Layout(sv.set) /\ segment_size = mapav(sv.set)

AgreeCounts == pc = "counts" => Layout(Asked) = Layout(sv.set) /\ ctx.size = mapav(sv.set)

\* until the client has taken it over.
AgreeClear ==
  pc \in {"clear", "abuf"} =>
    /\ ctx.set.w = sv.set.w /\ ctx.set.v = sv.set.v /\ ctx.set.a = sv.set.a
    /\ sv.set.a > 0 => abufsize = sv.set.b
    /\ ctx.size = mapav(sv.set)

Agreed == /\ AgreeOld /\ AgreeAsked /\ AgreeRead /\ AgreeAck
          /\ AgreeGranted /\ AgreeCounts /\ AgreeClear

Agree == dev = {} /\ check_dms => Agreed

IInv == Types /\ Sizes /\ Once /\ Quiet /\ Agree

-----------------------------------------------------------------------------

Less == {ss \in Nat \X Nat : ss[1] < ss[2]}

LEMMA LessWellFounded == IsWellFoundedOn(Less, Nat)
<1>1. Less = OpToRel(<, Nat)
  BY Zenon DEF Less, OpToRel
<1> QED BY <1>1, NatLessThanWellFounded, Zenon

\* A set of numbers up to a bound has a largest one.
LEMMA Largest == ASSUME NEW n \in Nat, NEW T, T \subseteq 1 .. n, T # {}
                 PROVE  \E x \in T : \A k \in T : k <= x
<1> DEFINE D == {n - k : k \in T}
<1>1. D \subseteq Nat
  OBVIOUS
<1>2. D # {}
  <2>1. PICK k \in T : TRUE
    BY Zenon
  <2>2. n - k \in D
    OBVIOUS
  <2> HIDE DEF D
  <2> QED BY <2>2
<1>3. PICK d \in D : \A e \in D : ~ (<<e, d>> \in Less)
  <2> HIDE DEF D
  <2> QED BY <1>1, <1>2, LessWellFounded, WFMin, Zenon
<1>4. PICK x \in T : d = n - x
  OBVIOUS
<1>5. ASSUME NEW k \in T PROVE k <= x
  <2>1. ~ (<<n - k, d>> \in Less)
    BY <1>3
  <2>2. n - k \in Nat /\ d \in Nat
    BY <1>1
  <2>3. ~ (n - k < d)
    BY <2>1, <2>2 DEF Less
  <2> QED BY <2>3, <1>4
<1> QED BY <1>5

\* What the server makes of a request is a request.
LEMMA TakenType == ASSUME NEW s \in Settings PROVE Shrunk(Clamped(s)) \in Settings
<1> DEFINE c == Clamped(s)
<1>1. c \in Settings
  BY ResizeAssumption DEF Settings, Clamped, Pick, Clamp
<1> HIDE DEF c
<1>2. ASSUME Fitting(c) = {} PROVE Shrunk(c) \in Settings
  BY <1>1, <1>2 DEF Shrunk
<1>3. ASSUME Fitting(c) # {} PROVE Shrunk(c) \in Settings
  <2> DEFINE m == CHOOSE n \in Fitting(c) : \A k \in Fitting(c) : k <= n
  <2>1. c.v \in Nat /\ Fitting(c) \subseteq 1 .. c.v
    BY <1>1 DEF Settings, Fitting
  <2>2. m \in Fitting(c)
    BY <2>1, <1>3, Largest, ZenonT(30)
  <2>3. m \in Nat
    BY <2>1, <2>2
  <2>4. Shrunk(c) = [c EXCEPT !.v = m]
    BY <1>3 DEF Shrunk
  <2> HIDE DEF m
  <2> QED BY <1>1, <2>3, <2>4 DEF Settings
<1> QED BY <1>2, <1>3 DEF c

LEMMA SizeType == ASSUME NEW s \in Settings
                  PROVE  mapav(s) \in Nat /\ shmpage_size(s) = mapav(s) + 1
<1>1. s.a \in Nat /\ s.b \in Nat /\ s.v \in Nat /\ s.w \in Nat
  BY DEF Settings
<1>2. s.a * s.b \in Nat /\ s.v * s.w \in Nat
  BY <1>1
<1> QED BY <1>2 DEF mapav, shmpage_size

\* Two settings that lay the buffers out alike.
LEMMA Alike == ASSUME NEW s \in Settings, NEW t \in Settings
               PROVE  Layout(s) = Layout(t) <=> /\ s.w = t.w /\ s.v = t.v /\ s.a = t.a
                                                /\ s.a > 0 => s.b = t.b
  BY DEF Settings, Layout

LEMMA AlikeSize == ASSUME NEW s \in Settings, NEW t \in Settings, Layout(s) = Layout(t)
                   PROVE  mapav(s) = mapav(t)
<1>1. s.w = t.w /\ s.v = t.v /\ s.a = t.a /\ (s.a > 0 => s.b = t.b)
  BY Alike
<1>2. s.a \in Nat /\ s.b \in Nat /\ t.b \in Nat
  BY DEF Settings
<1>3. CASE s.a = 0
  BY <1>1, <1>2, <1>3 DEF mapav
<1>4. CASE s.a > 0
  BY <1>1, <1>4 DEF mapav
<1> QED BY <1>2, <1>3, <1>4

LEMMA AskedType == ASSUME Types PROVE Asked \in Settings
  BY DEF Types, TypesPage, Asked, Settings

LEMMA GoalType == ASSUME Types PROVE Goal \in Settings
<1>1. /\ req.w \in Nat /\ req.v \in Nat \cup {-1} /\ req.a \in Nat \cup {-1} /\ req.b \in Nat
      /\ ctx.set.v \in Nat /\ ctx.set.a \in Nat
  BY DEF Types, TypesCtx, Settings
<1> QED BY <1>1 DEF Goal, Settings, Pick

LEMMA InitInv == Init => IInv
<1> SUFFICES ASSUME Init PROVE IInv
  OBVIOUS
<1>1. First \in Settings
  BY DEF First, Settings
<1>2. mapav(First) \in Nat /\ shmpage_size(First) = mapav(First) + 1
  BY <1>1, SizeType
<1>3. Types
  BY <1>1, <1>2 DEF Init, Types, TypesPage, TypesCtx, TypesSrv, AV, Settings
<1>4. Sizes
  BY <1>2 DEF Init, Sizes, check_dms
<1>5. Once
  BY <1>2 DEF Init, Once, Turns, Told, OldSettings
<1>6. Quiet
  BY DEF Init, Quiet
<1>7. Agree
  <2>1. /\ ctx.set = First /\ sv.set = First /\ ctx.size = mapav(First)
        /\ pc = "idle" /\ spc = "idle"
    BY DEF Init
  <2>2. AgreeOld
    BY <1>2, <2>1 DEF AgreeOld
  <2> QED BY <2>1, <2>2 DEF Agree, Agreed, AgreeAsked, AgreeRead, AgreeAck, AgreeGranted,
          AgreeCounts, AgreeClear
<1> QED BY <1>3, <1>4, <1>5, <1>6, <1>7 DEF IInv

\* A failed authentication that leaves no trace in the history asked for the
\* layout in force, and neither the settings nor the file have moved.
LEMMA AuthFailKeeps ==
  ASSUME TypesSrv, Sizes, Resynch_AuthFail
  PROVE  /\ "unauth" \notin dev' => "unauth" \notin dev /\ sv' = sv /\ file' = file
         /\ "reread" \notin dev' => "reread" \notin dev
<1>1. /\ "unauth" \notin dev' => "unauth" \notin dev /\ Layout(want) = Layout(sv.set)
      /\ "reread" \notin dev' => "reread" \notin dev
  BY DEF Resynch_AuthFail
<1>2. ASSUME "unauth" \notin dev' PROVE sv' = sv /\ file' = file
  <2>1. want \in Settings /\ sv.set \in Settings /\ sv \in [set : Settings, size : Nat]
    BY DEF TypesSrv
  <2>2. want.w = sv.set.w /\ want.v = sv.set.v /\ want.a = sv.set.a
    BY <1>1, <1>2, <2>1, Alike
  <2>3. [want EXCEPT !.b = sv.set.b] = sv.set
    BY <2>1, <2>2 DEF Settings
  <2>4. shmpage_size(want) = sv.size
    <3>1. mapav(want) = mapav(sv.set)
      BY <1>1, <1>2, <2>1, AlikeSize
    <3>2. shmpage_size(want) = mapav(want) + 1 /\ shmpage_size(sv.set) = mapav(sv.set) + 1
      BY <2>1, SizeType
    <3>3. sv.size = shmpage_size(sv.set)
      BY <1>1, <1>2 DEF Sizes
    <3> QED BY <3>1, <3>2, <3>3
  <2>5. sv' = [set |-> sv.set, size |-> sv.size]
    BY <2>3, <2>4, Zenon DEF Resynch_AuthFail
  <2>6. sv' = sv
    BY <2>1, <2>5
  <2>7. ~Remaps
    BY <2>1, <2>4 DEF Remaps
  <2>8. file' = file
    BY <2>7, Zenon DEF Resynch_AuthFail, Resized
  <2> QED BY <2>6, <2>8
<1> QED BY <1>1, <1>2

\* The page and the switches keep their types.
LEMMA PageTypes == ASSUME IInv, Next PROVE TypesPage'
<1>0. TypesPage /\ TypesCtx /\ TypesSrv
  BY DEF IInv, Types
<1>1. ASSUME NEW x \in AV, Signal(x) PROVE TypesPage'
  BY <1>0, <1>1 DEF AV, TypesPage, TypesCtx, TypesSrv, Settings, Signal, SetBit0, page, client,
     server, conn
<1>2. ASSUME NEW r \in Requests, Resize_Begin(r) PROVE TypesPage'
  BY <1>0, <1>2 DEF AV, TypesPage, TypesCtx, TypesSrv, Settings, Resize_Begin, SetBit0, page,
     client, server, conn
<1>3. ASSUME NEW x \in AV, Resize_Wait(x) PROVE TypesPage'
  BY <1>0, <1>3 DEF AV, TypesPage, TypesCtx, TypesSrv, Settings, Resize_Wait, WaitPC, SemPC,
     NextPC, SetBit0, page, client, server, conn
<1>4. ASSUME NEW x \in AV, Resize_SemWait(x) PROVE TypesPage'
  BY <1>0, <1>4 DEF AV, TypesPage, TypesCtx, TypesSrv, Settings, Resize_SemWait, WaitPC, SemPC,
     NextPC, SetBit0, page, client, server, conn
<1>5. CASE Resize_Request
  <2>1. Goal \in Settings
    BY GoalType DEF IInv
  <2>2. Goal.w \in Nat /\ Goal.v \in Nat /\ Goal.a \in Nat /\ Goal.b \in Nat
    BY <2>1 DEF Settings
  <2> QED BY <1>0, <2>2, <1>5 DEF TypesPage, Resize_Request, page, conn
<1>6. CASE Resize_Flag
  BY <1>0, <1>6 DEF AV, TypesPage, TypesCtx, TypesSrv, Settings, Resize_Flag, SetBit0, page,
     client, server, conn
<1>7. CASE Resize_Spin
  BY <1>0, <1>7 DEF AV, TypesPage, TypesCtx, TypesSrv, Settings, Resize_Spin, SetBit0, page,
     client, server, conn
<1>8. CASE Resize_Answer
  BY <1>0, <1>8 DEF AV, TypesPage, TypesCtx, TypesSrv, Settings, Resize_Answer, SetBit0, page,
     client, server, conn
<1>9. CASE Setup_Counts
  BY <1>0, <1>9 DEF AV, TypesPage, TypesCtx, TypesSrv, Settings, Setup_Counts, SetBit0, page,
     client, server, conn
<1>10. CASE Setup_Clear
  BY <1>0, <1>10 DEF AV, TypesPage, TypesCtx, TypesSrv, Settings, Setup_Clear, SetBit0, page,
     client, server, conn
<1>11. CASE Setup_Abuf
  BY <1>0, <1>11 DEF AV, TypesPage, TypesCtx, TypesSrv, Settings, Setup_Abuf, SetBit0, page,
     client, server, conn
<1>12. CASE Resynch_Read
  BY <1>0, <1>12 DEF AV, TypesPage, TypesCtx, TypesSrv, Settings, Resynch_Read, SetBit0, page,
     client, server, conn
<1>13. CASE Resynch_Layout
  <2>1. mapav(want) \in Nat /\ shmpage_size(want) \in Nat
    BY <1>0, SizeType DEF TypesSrv
  <2> QED BY <1>0, <2>1, <1>13 DEF TypesPage, TypesSrv, Settings, Resynch_Layout, Resized, conn
<1>14. CASE Resynch_Ack
  BY <1>0, <1>14 DEF AV, TypesPage, TypesCtx, TypesSrv, Settings, Resynch_Ack, SetBit0, page,
     client, server, conn
<1>15. CASE Resynch_Abufsize
  BY <1>0, <1>15 DEF AV, TypesPage, TypesCtx, TypesSrv, Settings, Resynch_Abufsize, Stored,
     SetBit0, page, client, server, conn
<1>16. CASE Resynch_Apending
  BY <1>0, <1>16 DEF AV, TypesPage, TypesCtx, TypesSrv, Settings, Resynch_Apending, Stored,
     SetBit0, page, client, server, conn
<1>17. CASE Resynch_Vpending
  BY <1>0, <1>17 DEF AV, TypesPage, TypesCtx, TypesSrv, Settings, Resynch_Vpending, Stored,
     SetBit0, page, client, server, conn
<1>18. CASE Resynch_Fail
  BY <1>0, <1>18 DEF AV, TypesPage, TypesCtx, TypesSrv, Settings, Resynch_Fail, Refuse, SetBit0,
     page, client, server, conn
<1>19. CASE Resynch_Post
  BY <1>0, <1>19 DEF AV, TypesPage, TypesCtx, TypesSrv, Settings, Resynch_Post, SetBit0, page,
     client, server, conn
<1>20. ASSUME NEW x \in AV, Consume(x) PROVE TypesPage'
  BY <1>0, <1>20 DEF AV, TypesPage, TypesCtx, TypesSrv, Settings, Consume, PostPC, SetBit0,
     page, client, server, conn
<1>21. ASSUME NEW x \in AV, Consume_Post(x) PROVE TypesPage'
  BY <1>0, <1>21 DEF AV, TypesPage, TypesCtx, TypesSrv, Settings, Consume_Post, PostPC, SetBit0,
     page, client, server, conn
<1>22. CASE Guard_Flags
  BY <1>0, <1>22, Zenon DEF AV, TypesPage, TypesCtx, TypesSrv, Settings, Guard_Flags, SetBit0, page,
     client, server, conn
<1>23. CASE Guard_Post
  BY <1>0, <1>23 DEF AV, TypesPage, TypesCtx, TypesSrv, Settings, Guard_Post, SetBit0, page,
     client, server, conn
<1>24. CASE Crash
  BY <1>0, <1>24 DEF AV, TypesPage, TypesCtx, TypesSrv, Settings, Crash, SetBit0, page, client,
     server, conn
<1>25. CASE Destroy_Dms
  BY <1>0, <1>25, Zenon DEF AV, TypesPage, TypesCtx, TypesSrv, Settings, Destroy_Dms, SetBit0, page,
     client, server, conn
<1>26. CASE Destroy_Post
  BY <1>0, <1>26, ZenonT(30) DEF AV, TypesPage, TypesCtx, TypesSrv, Settings, Destroy_Post, SetBit0, page,
     client, server, conn
<1>27. CASE Resynch_AuthFail
  <2>1. shmpage_size(want) \in Nat
    BY <1>0, SizeType DEF TypesSrv
  <2> QED BY <1>0, <2>1, <1>27 DEF TypesPage, TypesSrv, Settings, Resynch_AuthFail, Resized, conn
<1> QED BY <1>1, <1>2, <1>3, <1>4, <1>5, <1>6, <1>7, <1>8, <1>9, <1>10, <1>11, <1>12, <1>13,
   <1>14, <1>15, <1>16, <1>17, <1>18, <1>19, <1>20, <1>21, <1>22, <1>23, <1>24, <1>25, <1>26, <1>27, ZenonT(30) DEF
   Next, Client, InResize, Resynch, Consumer, Guard

\* So do the variables of the client,
LEMMA CtxTypes == ASSUME IInv, Next PROVE TypesCtx'
<1>0. TypesPage /\ TypesCtx /\ cf \in Configs
  BY DEF IInv, Types
<1>1. ASSUME NEW x \in AV, Signal(x) PROVE TypesCtx'
  BY <1>0, <1>1 DEF TypesCtx, Signal, client
<1>2. ASSUME NEW r \in Requests, Resize_Begin(r) PROVE TypesCtx'
  <2>1. r \in [w : Nat, v : Nat \cup {-1}, a : Nat \cup {-1}, b : Nat \cup {-1},
                auth : BOOLEAN]
    BY <1>0, ResizeAssumption DEF Requests
  <2>2. abufsize \in Nat
    BY <1>0 DEF TypesPage
  <2>3. req' \in [w : Nat, v : Nat \cup {-1}, a : Nat \cup {-1}, b : Nat, auth : BOOLEAN]
    BY <2>1, <2>2, <1>2 DEF Resize_Begin
  <2> QED BY <1>0, <2>3, <1>2 DEF TypesCtx, Resize_Begin
<1>3. ASSUME NEW x \in AV, Resize_Wait(x) PROVE TypesCtx'
  BY <1>0, <1>3 DEF TypesCtx, Resize_Wait, WaitPC, SemPC, NextPC, AV, client
<1>4. ASSUME NEW x \in AV, Resize_SemWait(x) PROVE TypesCtx'
  BY <1>0, <1>4 DEF TypesCtx, Resize_SemWait, WaitPC, SemPC, NextPC, AV, client
<1>5. CASE Resize_Request
  BY <1>0, <1>5 DEF TypesCtx, Resize_Request, client
<1>6. CASE Resize_Flag
  BY <1>0, <1>6 DEF TypesCtx, Resize_Flag, client
<1>7. CASE Resize_Spin
  BY <1>0, <1>7 DEF TypesCtx, Resize_Spin, client
<1>8. CASE Resize_Answer
  BY <1>0, <1>8 DEF TypesPage, TypesCtx, Resize_Answer
<1>9. CASE Setup_Counts
  BY <1>0, <1>9 DEF TypesPage, TypesCtx, Settings, Setup_Counts
<1>10. CASE Setup_Clear
  BY <1>0, <1>10 DEF TypesCtx, Setup_Clear, client
<1>11. CASE Setup_Abuf
  BY <1>0, <1>11 DEF TypesPage, TypesCtx, Settings, Setup_Abuf
<1>12. CASE Resynch_Read
  BY <1>0, <1>12 DEF TypesCtx, Resynch_Read, client
<1>13. CASE Resynch_Layout
  BY <1>0, <1>13 DEF TypesCtx, Resynch_Layout, Resized, client
<1>14. CASE Resynch_Ack
  BY <1>0, <1>14 DEF TypesCtx, Resynch_Ack, client
<1>15. CASE Resynch_Abufsize
  BY <1>0, <1>15 DEF TypesCtx, Resynch_Abufsize, Stored, client
<1>16. CASE Resynch_Apending
  BY <1>0, <1>16 DEF TypesCtx, Resynch_Apending, Stored, client
<1>17. CASE Resynch_Vpending
  BY <1>0, <1>17 DEF TypesCtx, Resynch_Vpending, Stored, client
<1>18. CASE Resynch_Fail
  BY <1>0, <1>18 DEF TypesCtx, Resynch_Fail, Refuse, client
<1>19. CASE Resynch_Post
  BY <1>0, <1>19 DEF TypesCtx, Resynch_Post, client
<1>20. ASSUME NEW x \in AV, Consume(x) PROVE TypesCtx'
  BY <1>0, <1>20 DEF TypesCtx, Consume, PostPC, AV, client
<1>21. ASSUME NEW x \in AV, Consume_Post(x) PROVE TypesCtx'
  BY <1>0, <1>21 DEF TypesCtx, Consume_Post, PostPC, AV, client
<1>22. CASE Guard_Flags
  BY <1>0, <1>22 DEF TypesCtx, Guard_Flags, client
<1>23. CASE Guard_Post
  BY <1>0, <1>23 DEF TypesCtx, Guard_Post, client
<1>24. CASE Crash
  BY <1>0, <1>24 DEF TypesCtx, Crash, client
<1>25. CASE Destroy_Dms
  BY <1>0, <1>25 DEF TypesCtx, Destroy_Dms, client
<1>26. CASE Destroy_Post
  BY <1>0, <1>26, ZenonT(30) DEF TypesCtx, Destroy_Post, client
<1>27. CASE Resynch_AuthFail
  BY <1>0, <1>27 DEF TypesCtx, Resynch_AuthFail, client
<1> QED BY <1>1, <1>2, <1>3, <1>4, <1>5, <1>6, <1>7, <1>8, <1>9, <1>10, <1>11, <1>12, <1>13,
   <1>14, <1>15, <1>16, <1>17, <1>18, <1>19, <1>20, <1>21, <1>22, <1>23, <1>24, <1>25, <1>26, <1>27 DEF
   Next, Client, InResize, Resynch, Consumer, Guard

\* and those of the server.
LEMMA SrvTypes == ASSUME IInv, Next PROVE TypesSrv'
<1>0. TypesPage /\ TypesSrv
  BY DEF IInv, Types
<1>1. ASSUME NEW x \in AV, Signal(x) PROVE TypesSrv'
  BY <1>0, <1>1 DEF TypesSrv, Signal, server
<1>2. ASSUME NEW r \in Requests, Resize_Begin(r) PROVE TypesSrv'
  BY <1>0, <1>2 DEF TypesSrv, Resize_Begin, server
<1>3. ASSUME NEW x \in AV, Resize_Wait(x) PROVE TypesSrv'
  BY <1>0, <1>3 DEF TypesSrv, Resize_Wait, WaitPC, SemPC, NextPC, AV, server
<1>4. ASSUME NEW x \in AV, Resize_SemWait(x) PROVE TypesSrv'
  BY <1>0, <1>4 DEF TypesSrv, Resize_SemWait, WaitPC, SemPC, NextPC, AV, server
<1>5. CASE Resize_Request
  BY <1>0, <1>5 DEF TypesSrv, Resize_Request, server
<1>6. CASE Resize_Flag
  BY <1>0, <1>6 DEF TypesSrv, Resize_Flag, server
<1>7. CASE Resize_Spin
  BY <1>0, <1>7 DEF TypesSrv, Resize_Spin, server
<1>8. CASE Resize_Answer
  BY <1>0, <1>8 DEF TypesSrv, Resize_Answer, server
<1>9. CASE Setup_Counts
  BY <1>0, <1>9 DEF TypesSrv, Setup_Counts, server
<1>10. CASE Setup_Clear
  BY <1>0, <1>10 DEF TypesSrv, Setup_Clear, server
<1>11. CASE Setup_Abuf
  BY <1>0, <1>11 DEF TypesSrv, Setup_Abuf, server
<1>12. CASE Resynch_Read
  <2>1. Shrunk(Clamped(Asked)) \in Settings
    BY AskedType, TakenType DEF IInv
  <2> QED BY <1>0, <2>1, <1>12 DEF TypesSrv, Resynch_Read
<1>13. CASE Resynch_Layout
  <2>1. shmpage_size(want) \in Nat
    BY <1>0, SizeType DEF TypesSrv
  <2> QED BY <1>0, <2>1, <1>13 DEF TypesSrv, Resynch_Layout
<1>14. CASE Resynch_Ack
  BY <1>0, <1>14 DEF TypesSrv, Resynch_Ack, server
<1>15. CASE Resynch_Abufsize
  BY <1>0, <1>15 DEF TypesSrv, Resynch_Abufsize, Stored, server
<1>16. CASE Resynch_Apending
  BY <1>0, <1>16 DEF TypesSrv, Resynch_Apending, Stored, server
<1>17. CASE Resynch_Vpending
  BY <1>0, <1>17 DEF TypesSrv, Resynch_Vpending, Stored, server
<1>18. CASE Resynch_Fail
  BY <1>0, <1>18 DEF TypesSrv, Resynch_Fail, Refuse, server
<1>19. CASE Resynch_Post
  BY <1>0, <1>19 DEF TypesSrv, Resynch_Post, server
<1>20. ASSUME NEW x \in AV, Consume(x) PROVE TypesSrv'
  BY <1>0, <1>20 DEF TypesSrv, Consume, PostPC, AV, server
<1>21. ASSUME NEW x \in AV, Consume_Post(x) PROVE TypesSrv'
  BY <1>0, <1>21 DEF TypesSrv, Consume_Post, PostPC, AV, server
<1>22. CASE Guard_Flags
  BY <1>0, <1>22 DEF TypesSrv, Guard_Flags, server
<1>23. CASE Guard_Post
  BY <1>0, <1>23 DEF TypesSrv, Guard_Post, server
<1>24. CASE Crash
  BY <1>0, <1>24 DEF TypesSrv, Crash, server
<1>25. CASE Destroy_Dms
  BY <1>0, <1>25 DEF TypesSrv, Destroy_Dms, server
<1>26. CASE Destroy_Post
  BY <1>0, <1>26, ZenonT(30) DEF TypesSrv, Destroy_Post, server
<1>27. CASE Resynch_AuthFail
  <2>1. shmpage_size(want) \in Nat
    BY <1>0, SizeType DEF TypesSrv
  <2>2. [want EXCEPT !.b = sv.set.b] \in Settings
    BY <1>0 DEF TypesSrv, Settings
  <2> QED BY <1>0, <2>1, <2>2, <1>27 DEF TypesSrv, Resynch_AuthFail
<1> QED BY <1>1, <1>2, <1>3, <1>4, <1>5, <1>6, <1>7, <1>8, <1>9, <1>10, <1>11, <1>12, <1>13,
   <1>14, <1>15, <1>16, <1>17, <1>18, <1>19, <1>20, <1>21, <1>22, <1>23, <1>24, <1>25, <1>26, <1>27 DEF
   Next, Client, InResize, Resynch, Consumer, Guard

\* The server keeps to the file.
LEMMA SizesInv == ASSUME IInv, Next PROVE Sizes'
<1>0. Sizes /\ TypesPage /\ TypesCtx /\ TypesSrv
  BY DEF IInv, Types
<1>1. ASSUME NEW x \in AV, Signal(x) PROVE Sizes'
  BY <1>0, <1>1 DEF Sizes, check_dms, Signal, page, client, server, conn
<1>2. ASSUME NEW r \in Requests, Resize_Begin(r) PROVE Sizes'
  BY <1>0, <1>2 DEF Sizes, check_dms, Resize_Begin, page, client, server, conn
<1>3. ASSUME NEW x \in AV, Resize_Wait(x) PROVE Sizes'
  BY <1>0, <1>3 DEF Sizes, check_dms, Resize_Wait, WaitPC, SemPC, NextPC, AV, page, client,
     server, conn
<1>4. ASSUME NEW x \in AV, Resize_SemWait(x) PROVE Sizes'
  BY <1>0, <1>4 DEF Sizes, check_dms, Resize_SemWait, WaitPC, SemPC, NextPC, AV, page, client,
     server, conn
<1>5. CASE Resize_Request
  BY <1>0, <1>5 DEF Sizes, check_dms, Resize_Request, page, client, server, conn
<1>6. CASE Resize_Flag
  BY <1>0, <1>6 DEF Sizes, check_dms, Resize_Flag, page, client, server, conn
<1>7. CASE Resize_Spin
  BY <1>0, <1>7 DEF Sizes, check_dms, Resize_Spin, page, client, server, conn
<1>8. CASE Resize_Answer
  BY <1>0, <1>8 DEF Sizes, check_dms, Resize_Answer, page, client, server, conn
<1>9. CASE Setup_Counts
  BY <1>0, <1>9 DEF Sizes, check_dms, Setup_Counts, page, client, server, conn
<1>10. CASE Setup_Clear
  BY <1>0, <1>10 DEF Sizes, check_dms, Setup_Clear, page, client, server, conn
<1>11. CASE Setup_Abuf
  BY <1>0, <1>11 DEF Sizes, check_dms, Setup_Abuf, page, client, server, conn
<1>12. CASE Resynch_Read
  BY <1>0, <1>12 DEF Sizes, check_dms, Resynch_Read, page, client, server, conn
<1>13. CASE Resynch_Layout
  <2>1. mapav(want) \in Nat /\ shmpage_size(want) = mapav(want) + 1
    BY <1>0, SizeType DEF TypesSrv
  <2>2. file \in Nat /\ sv.size \in Nat /\ sv.size <= file
    BY <1>0 DEF Sizes, TypesPage, TypesSrv
  <2>3. shmpage_size(want) <= file'
    BY <2>1, <2>2, <1>13 DEF Resynch_Layout, Resized, Remaps
  <2>4. /\ sv'.set = want /\ sv'.size = shmpage_size(want) /\ segment_size' = mapav(want)
        /\ (check_dms' <=> check_dms) /\ srv' = srv /\ pc' = pc /\ file' \in Int
    BY <2>1, <2>2, <1>13 DEF Resynch_Layout, Resized, check_dms, conn, client
  <2>5. sv'.size = shmpage_size(sv'.set) /\ sv'.size <= file' /\ segment_size' <= file'
    BY <2>1, <2>3, <2>4
  <2> QED BY <1>0, <2>4, <2>5 DEF Sizes
<1>14. CASE Resynch_Ack
  BY <1>0, <1>14 DEF Sizes, check_dms, Resynch_Ack, page, client, server, conn
<1>15. CASE Resynch_Abufsize
  BY <1>0, <1>15 DEF Sizes, check_dms, Resynch_Abufsize, Stored, page, client, server, conn
<1>16. CASE Resynch_Apending
  BY <1>0, <1>16 DEF Sizes, check_dms, Resynch_Apending, Stored, page, client, server, conn
<1>17. CASE Resynch_Vpending
  BY <1>0, <1>17 DEF Sizes, check_dms, Resynch_Vpending, Stored, page, client, server, conn
<1>18. CASE Resynch_Fail
  BY <1>0, <1>18 DEF Sizes, check_dms, Resynch_Fail, Refuse, page, client, server, conn
<1>19. CASE Resynch_Post
  BY <1>0, <1>19 DEF Sizes, check_dms, Resynch_Post, page, client, server, conn
<1>20. ASSUME NEW x \in AV, Consume(x) PROVE Sizes'
  BY <1>0, <1>20 DEF Sizes, check_dms, Consume, PostPC, AV, page, client, server, conn
<1>21. ASSUME NEW x \in AV, Consume_Post(x) PROVE Sizes'
  BY <1>0, <1>21 DEF Sizes, check_dms, Consume_Post, PostPC, AV, page, client, server, conn
<1>22. CASE Guard_Flags
  BY <1>0, <1>22 DEF Sizes, check_dms, Guard_Flags, page, client, server, conn
<1>23. CASE Guard_Post
  BY <1>0, <1>23 DEF Sizes, check_dms, Guard_Post, page, client, server, conn
<1>24. CASE Crash
  BY <1>0, <1>24 DEF Sizes, check_dms, Crash, page, client, server, conn
<1>25. CASE Destroy_Dms
  BY <1>0, <1>25 DEF Sizes, check_dms, Destroy_Dms, page, client, server, conn
<1>26. CASE Destroy_Post
  BY <1>0, <1>26, ZenonT(30) DEF Sizes, check_dms, Destroy_Post, page, client, server, conn
<1>27. CASE Resynch_AuthFail
  <2>1. mapav(want) \in Nat /\ shmpage_size(want) = mapav(want) + 1
    BY <1>0, SizeType DEF TypesSrv
  <2>2. file \in Nat /\ sv.size \in Nat /\ sv.size <= file
    BY <1>0 DEF Sizes, TypesPage, TypesSrv
  <2>3. shmpage_size(want) <= file' /\ sv'.size = shmpage_size(want)
    BY <2>1, <2>2, <1>27 DEF Resynch_AuthFail, Resized, Remaps
  <2>4. /\ "unauth" \notin dev' => "unauth" \notin dev /\ sv' = sv /\ file' = file
        /\ (check_dms' <=> check_dms) /\ UNCHANGED <<srv, pc, segment_size>>
    <3>1. "unauth" \notin dev' => "unauth" \notin dev /\ sv' = sv /\ file' = file
      BY <1>0, <1>27, AuthFailKeeps, Zenon
    <3> QED BY <3>1, <1>27 DEF Resynch_AuthFail, check_dms, conn, client
  <2>5. "unauth" \notin dev' => sv'.size = shmpage_size(sv'.set) /\ segment_size' <= file'
    BY <1>0, <2>4 DEF Sizes
  <2> QED BY <1>0, <2>3, <2>4, <2>5 DEF Sizes
<1> QED BY <1>1, <1>2, <1>3, <1>4, <1>5, <1>6, <1>7, <1>8, <1>9, <1>10, <1>11, <1>12, <1>13,
   <1>14, <1>15, <1>16, <1>17, <1>18, <1>19, <1>20, <1>21, <1>22, <1>23, <1>24, <1>25, <1>26, <1>27 DEF
   Next, Client, InResize, Resynch, Consumer, Guard

\* No buffer is in the hands of the server from the wait on.
LEMMA QuietInv == ASSUME IInv, Next PROVE Quiet'
<1>0. Quiet /\ TypesPage
  BY DEF IInv, Types
<1>1. ASSUME NEW x \in AV, Signal(x) PROVE Quiet'
  BY <1>0, <1>1 DEF Quiet, TypesPage, AV, check_dms, Signal, page, client, server, conn
<1>2. ASSUME NEW r \in Requests, Resize_Begin(r) PROVE Quiet'
  BY <1>0, <1>2 DEF Quiet, TypesPage, AV, check_dms, Resize_Begin, page, client, server, conn
<1>3. ASSUME NEW x \in AV, Resize_Wait(x) PROVE Quiet'
  <2>1. (check_dms' <=> check_dms) /\ ready' = ready /\ ready \subseteq AV
    BY <1>0, <1>3 DEF TypesPage, Resize_Wait, check_dms, conn
  <2>2. CASE x = "v"
    <3>1. pc = "wait_v" /\ pc' \in {"sem_v", "wait_a"}
      BY <2>2, <1>3 DEF Resize_Wait, WaitPC, SemPC, NextPC
    <3>2. pc' = "wait_a" /\ check_dms => "v" \notin ready
      BY <2>2, <1>3 DEF Resize_Wait, SemPC
    <3> QED BY <2>1, <3>1, <3>2 DEF Quiet
  <2>3. CASE x = "a"
    <3>1. pc = "wait_a" /\ pc' \in {"sem_a", "recheck"}
      BY <2>3, <1>3 DEF Resize_Wait, WaitPC, SemPC, NextPC
    <3>2. pc' = "recheck" /\ check_dms => "a" \notin ready
      BY <2>3, <1>3 DEF Resize_Wait, SemPC
    <3>3. check_dms => "v" \notin ready
      BY <1>0, <3>1 DEF Quiet
    <3>4. pc' = "recheck" /\ check_dms => ready = {}
      BY <2>1, <3>2, <3>3 DEF AV
    <3> QED BY <2>1, <3>1, <3>3, <3>4 DEF Quiet
  <2> QED BY <2>2, <2>3 DEF AV
<1>4. ASSUME NEW x \in AV, Resize_SemWait(x) PROVE Quiet'
  BY <1>0, <1>4 DEF Quiet, TypesPage, AV, check_dms, Resize_SemWait, WaitPC, SemPC, NextPC,
     page, client, server, conn
<1>5. CASE Resize_Request
  BY <1>0, <1>5 DEF Quiet, TypesPage, AV, check_dms, Resize_Request, page, client, server, conn
<1>6. CASE Resize_Flag
  BY <1>0, <1>6 DEF Quiet, TypesPage, AV, check_dms, Resize_Flag, page, client, server, conn
<1>7. CASE Resize_Spin
  BY <1>0, <1>7 DEF Quiet, TypesPage, AV, check_dms, Resize_Spin, page, client, server, conn
<1>8. CASE Resize_Answer
  BY <1>0, <1>8 DEF Quiet, TypesPage, AV, check_dms, Resize_Answer, page, client, server, conn
<1>9. CASE Setup_Counts
  BY <1>0, <1>9 DEF Quiet, TypesPage, AV, check_dms, Setup_Counts, page, client, server, conn
<1>10. CASE Setup_Clear
  BY <1>0, <1>10 DEF Quiet, TypesPage, AV, check_dms, Setup_Clear, page, client, server, conn
<1>11. CASE Setup_Abuf
  BY <1>0, <1>11 DEF Quiet, TypesPage, AV, check_dms, Setup_Abuf, page, client, server, conn
<1>12. CASE Resynch_Read
  BY <1>0, <1>12, ZenonT(30) DEF Quiet, TypesPage, AV, check_dms, Resynch_Read, page, client, server, conn
<1>13. CASE Resynch_Layout
  BY <1>0, <1>13 DEF Quiet, TypesPage, AV, check_dms, Resynch_Layout, Resized, page, client, server, conn
<1>14. CASE Resynch_Ack
  BY <1>0, <1>14 DEF Quiet, TypesPage, AV, check_dms, Resynch_Ack, page, client, server, conn
<1>15. CASE Resynch_Abufsize
  BY <1>0, <1>15 DEF Quiet, TypesPage, AV, check_dms, Resynch_Abufsize, Stored, page, client,
     server, conn
<1>16. CASE Resynch_Apending
  BY <1>0, <1>16 DEF Quiet, TypesPage, AV, check_dms, Resynch_Apending, Stored, page, client,
     server, conn
<1>17. CASE Resynch_Vpending
  BY <1>0, <1>17 DEF Quiet, TypesPage, AV, check_dms, Resynch_Vpending, Stored, page, client,
     server, conn
<1>18. CASE Resynch_Fail
  BY <1>0, <1>18 DEF Quiet, TypesPage, AV, check_dms, Resynch_Fail, Refuse, page, client,
     server, conn
<1>19. CASE Resynch_Post
  BY <1>0, <1>19, ZenonT(30) DEF Quiet, TypesPage, AV, check_dms, Resynch_Post, page, client, server, conn
<1>20. ASSUME NEW x \in AV, Consume(x) PROVE Quiet'
  BY <1>0, <1>20, ZenonT(30) DEF Quiet, TypesPage, AV, check_dms, Consume, PostPC, page, client, server,
     conn
<1>21. ASSUME NEW x \in AV, Consume_Post(x) PROVE Quiet'
  BY <1>0, <1>21 DEF Quiet, TypesPage, AV, check_dms, Consume_Post, PostPC, page, client,
     server, conn
<1>22. CASE Guard_Flags
  BY <1>0, <1>22 DEF Quiet, TypesPage, AV, check_dms, Guard_Flags, page, client, server, conn
<1>23. CASE Guard_Post
  BY <1>0, <1>23 DEF Quiet, TypesPage, AV, check_dms, Guard_Post, page, client, server, conn
<1>24. CASE Crash
  BY <1>0, <1>24 DEF Quiet, TypesPage, AV, check_dms, Crash, page, client, server, conn
<1>25. CASE Destroy_Dms
  BY <1>0, <1>25 DEF Quiet, TypesPage, AV, check_dms, Destroy_Dms, page, client, server, conn
<1>26. CASE Destroy_Post
  BY <1>0, <1>26, ZenonT(30) DEF Quiet, TypesPage, AV, check_dms, Destroy_Post, page, client, server, conn
<1>27. CASE Resynch_AuthFail
  BY <1>0, <1>27 DEF Quiet, TypesPage, AV, check_dms, Resynch_AuthFail, page, client, server, conn
<1> QED BY <1>1, <1>2, <1>3, <1>4, <1>5, <1>6, <1>7, <1>8, <1>9, <1>10, <1>11, <1>12, <1>13,
   <1>14, <1>15, <1>16, <1>17, <1>18, <1>19, <1>20, <1>21, <1>22, <1>23, <1>24, <1>25, <1>26, <1>27 DEF
   Next, Client, InResize, Resynch, Consumer, Guard

\* Request and answer alternate, a refusal is seen, the mapping is in the file.
LEMMA OnceInv == ASSUME IInv, Next PROVE Once'
<1>0. Once /\ Sizes /\ TypesPage /\ TypesCtx /\ TypesSrv
  BY ZenonT(30) DEF IInv, Types
<1>1. ASSUME NEW x \in AV, Signal(x) PROVE Once'
  BY <1>0, <1>1 DEF Once, Sizes, Turns, Told, Waiting, OldSettings, TypesPage, TypesCtx,
     TypesSrv, check_dms, Signal, page, client, server, conn
<1>2. ASSUME NEW r \in Requests, Resize_Begin(r) PROVE Once'
  BY <1>0, <1>2, ZenonT(30) DEF Once, Sizes, Turns, Told, Waiting, OldSettings, TypesPage, TypesCtx,
     TypesSrv, check_dms, Resize_Begin, page, client, server, conn
<1>3. ASSUME NEW x \in AV, Resize_Wait(x) PROVE Once'
  BY <1>0, <1>3 DEF Once, Sizes, Turns, Told, Waiting, OldSettings, TypesPage, TypesCtx,
     TypesSrv, check_dms, Resize_Wait, WaitPC, SemPC, NextPC, AV, page, client, server, conn
<1>4. ASSUME NEW x \in AV, Resize_SemWait(x) PROVE Once'
  BY <1>0, <1>4 DEF Once, Sizes, Turns, Told, Waiting, OldSettings, TypesPage, TypesCtx,
     TypesSrv, check_dms, Resize_SemWait, WaitPC, SemPC, NextPC, AV, page, client, server, conn
<1>5. CASE Resize_Request
  BY <1>0, <1>5, ZenonT(30) DEF Once, Sizes, Turns, Told, Waiting, OldSettings, TypesPage, TypesCtx,
     TypesSrv, check_dms, Resize_Request, page, client, server, conn
<1>6. CASE Resize_Flag
  BY <1>0, <1>6, ZenonT(30) DEF Once, Sizes, Turns, Told, Waiting, OldSettings, TypesPage, TypesCtx,
     TypesSrv, check_dms, Resize_Flag, page, client, server, conn
<1>7. CASE Resize_Spin
  BY <1>0, <1>7 DEF Once, Sizes, Turns, Told, Waiting, OldSettings, TypesPage, TypesCtx,
     TypesSrv, check_dms, Resize_Spin, page, client, server, conn
<1>8. CASE Resize_Answer
  BY <1>0, <1>8 DEF Once, Sizes, Turns, Told, Waiting, OldSettings, TypesPage, TypesCtx,
     TypesSrv, check_dms, Resize_Answer, page, client, server, conn
<1>9. CASE Setup_Counts
  BY <1>0, <1>9, ZenonT(30) DEF Once, Sizes, Turns, Told, Waiting, OldSettings, TypesPage, TypesCtx,
     TypesSrv, check_dms, Setup_Counts, page, client, server, conn
<1>10. CASE Setup_Clear
  BY <1>0, <1>10 DEF Once, Sizes, Turns, Told, Waiting, OldSettings, TypesPage, TypesCtx,
     TypesSrv, check_dms, Setup_Clear, page, client, server, conn
<1>11. CASE Setup_Abuf
  BY <1>0, <1>11, ZenonT(30) DEF Once, Sizes, Turns, Told, Waiting, OldSettings, TypesPage, TypesCtx,
     TypesSrv, check_dms, Setup_Abuf, page, client, server, conn
<1>12. CASE Resynch_Read
  BY <1>0, <1>12, ZenonT(30) DEF Once, Sizes, Turns, Told, Waiting, OldSettings, TypesPage, TypesCtx,
     TypesSrv, check_dms, Resynch_Read, page, client, server, conn
<1>13. CASE Resynch_Layout
  BY <1>0, <1>13 DEF Once, Sizes, Turns, Told, Waiting, OldSettings, TypesPage, TypesCtx,
     TypesSrv, check_dms, Resynch_Layout, Resized, page, client, server, conn
<1>14. CASE Resynch_Ack
  BY <1>0, <1>14 DEF Once, Sizes, Turns, Told, Waiting, OldSettings, TypesPage, TypesCtx,
     TypesSrv, check_dms, Resynch_Ack, page, client, server, conn
<1>15. CASE Resynch_Abufsize
  BY <1>0, <1>15, ZenonT(30) DEF Once, Sizes, Turns, Told, Waiting, OldSettings, TypesPage, TypesCtx,
     TypesSrv, check_dms, Resynch_Abufsize, Stored, page, client, server, conn
<1>16. CASE Resynch_Apending
  BY <1>0, <1>16, ZenonT(30) DEF Once, Sizes, Turns, Told, Waiting, OldSettings, TypesPage, TypesCtx,
     TypesSrv, check_dms, Resynch_Apending, Stored, page, client, server, conn
<1>17. CASE Resynch_Vpending
  BY <1>0, <1>17, ZenonT(30) DEF Once, Sizes, Turns, Told, Waiting, OldSettings, TypesPage, TypesCtx,
     TypesSrv, check_dms, Resynch_Vpending, Stored, page, client, server, conn
<1>18. CASE Resynch_Fail
  BY <1>0, <1>18 DEF Once, Sizes, Turns, Told, Waiting, OldSettings, TypesPage, TypesCtx,
     TypesSrv, check_dms, Resynch_Fail, Refuse, page, client, server, conn
<1>19. CASE Resynch_Post
  BY <1>0, <1>19, ZenonT(30) DEF Once, Sizes, Turns, Told, Waiting, OldSettings, TypesPage, TypesCtx,
     TypesSrv, check_dms, Resynch_Post, page, client, server, conn
<1>20. ASSUME NEW x \in AV, Consume(x) PROVE Once'
  BY <1>0, <1>20 DEF Once, Sizes, Turns, Told, Waiting, OldSettings, TypesPage, TypesCtx,
     TypesSrv, check_dms, Consume, PostPC, AV, page, client, server, conn
<1>21. ASSUME NEW x \in AV, Consume_Post(x) PROVE Once'
  BY <1>0, <1>21 DEF Once, Sizes, Turns, Told, Waiting, OldSettings, TypesPage, TypesCtx,
     TypesSrv, check_dms, Consume_Post, PostPC, AV, page, client, server, conn
<1>22. CASE Guard_Flags
  BY <1>0, <1>22, ZenonT(30) DEF Once, Sizes, Turns, Told, Waiting, OldSettings, TypesPage, TypesCtx,
     TypesSrv, check_dms, Guard_Flags, page, client, server, conn
<1>23. CASE Guard_Post
  BY <1>0, <1>23, ZenonT(30) DEF Once, Sizes, Turns, Told, Waiting, OldSettings, TypesPage, TypesCtx,
     TypesSrv, check_dms, Guard_Post, page, client, server, conn
<1>24. CASE Crash
  BY <1>0, <1>24, ZenonT(30) DEF Once, Sizes, Turns, Told, Waiting, OldSettings, TypesPage, TypesCtx,
     TypesSrv, check_dms, Crash, page, client, server, conn
<1>25. CASE Destroy_Dms
  BY <1>0, <1>25, ZenonT(30) DEF Once, Sizes, Turns, Told, Waiting, OldSettings, TypesPage, TypesCtx,
     TypesSrv, check_dms, Destroy_Dms, page, client, server, conn
<1>26. CASE Destroy_Post
  BY <1>0, <1>26, ZenonT(30) DEF Once, Sizes, Turns, Told, Waiting, OldSettings, TypesPage, TypesCtx,
     TypesSrv, check_dms, Destroy_Post, page, client, server, conn
<1>27. CASE Resynch_AuthFail
  <2>1. /\ "unauth" \notin dev' => "unauth" \notin dev /\ sv' = sv /\ file' = file
        /\ "reread" \notin dev' => "reread" \notin dev
    BY <1>0, <1>27, AuthFailKeeps, Zenon
  <2>2. /\ spc = "layout" /\ spc' = "failed" /\ resized' = -1
        /\ UNCHANGED <<pc, ctx, result>> /\ (check_dms' <=> check_dms) /\ srv = "run"
    BY <1>27 DEF Resynch_AuthFail, check_dms, conn, client
  <2> SUFFICES ASSUME "reread" \notin dev' PROVE Once'
    BY DEF Once
  <2>3. pc = "spin" /\ resized = 1
    BY <1>0, <2>1, <2>2 DEF Once, Turns, Waiting, Sizes
  <2>4. Turns' /\ Told'
    BY <2>2, <2>3 DEF Turns, Told, Waiting
  <2>5. "unauth" \notin dev' /\ check_dms' => ctx'.size <= file'
    BY <1>0, <2>1, <2>2, <2>3 DEF Once, OldSettings
  <2> QED BY <2>4, <2>5 DEF Once
<1> QED BY <1>1, <1>2, <1>3, <1>4, <1>5, <1>6, <1>7, <1>8, <1>9, <1>10, <1>11, <1>12, <1>13,
   <1>14, <1>15, <1>16, <1>17, <1>18, <1>19, <1>20, <1>21, <1>22, <1>23, <1>24, <1>25, <1>26, <1>27 DEF
   Next, Client, InResize, Resynch, Consumer, Guard

Free == {"idle", "wait_v", "sem_v", "wait_a", "sem_a", "recheck"}

\* The page and the settings stay.
LEMMA SameData == ASSUME UNCHANGED <<page, ctx, sv, want>>
                  PROVE  /\ Asked' = Asked /\ (AsItStands(Asked)' <=> AsItStands(Asked))
                         /\ Layout(Asked)' = Layout(Asked) /\ Layout(want)' = Layout(want)
                         /\ Layout(ctx.set)' = Layout(ctx.set) /\ Layout(sv.set)' = Layout(sv.set)
                         /\ mapav(want)' = mapav(want) /\ mapav(sv.set)' = mapav(sv.set)
                         /\ mapav(ctx.set)' = mapav(ctx.set)
                         /\ UNCHANGED <<abufsize, segment_size, resized>>
<1>1. UNCHANGED <<w, abufsize, vpending, apending, segment_size, resized>> /\ Asked' = Asked
  BY ZenonT(30) DEF page, Asked
<1> QED BY <1>1

\* A step outside the handshake.
LEMMA AgreeAside == ASSUME Agreed, UNCHANGED <<page, ctx, sv, want>>,
                           pc' = pc \/ (pc \in Free /\ pc' \in Free \cup {"migrate"}),
                           spc' = spc \/ {spc, spc'} \cap {"layout", "ack"} = {}
                    PROVE  Agreed'
<1>1. OldSettings' => OldSettings
  <2>1. resized' = resized
    BY DEF page
  <2> QED BY <2>1, Zenon DEF OldSettings, Free
<1>2. /\ pc' \in {"flag", "spin", "answer", "counts", "clear", "abuf"} => pc = pc'
      /\ spc' \in {"layout", "ack"} => spc = spc'
      /\ spc \in {"layout", "ack"} => spc = spc'
  BY Zenon DEF Free
<1>3. AgreeOld'
  BY <1>1, SameData, ZenonT(30) DEF Agreed, AgreeOld
<1>4. AgreeAsked'
  BY <1>2, SameData, ZenonT(30) DEF Agreed, AgreeAsked
<1>5. AgreeRead' /\ AgreeAck'
  BY <1>2, SameData, ZenonT(30) DEF Agreed, AgreeRead, AgreeAck
<1>6. AgreeGranted' /\ AgreeCounts'
  BY <1>2, SameData, ZenonT(30) DEF Agreed, AgreeGranted, AgreeCounts
<1>7. AgreeClear'
  BY <1>2, SameData, ZenonT(30) DEF Agreed, AgreeClear
<1> QED BY <1>3, <1>4, <1>5, <1>6, <1>7 DEF Agreed

\* While nothing disturbs the protocol the two sides agree.
LEMMA AgreeInv == ASSUME IInv, Next PROVE Agree'
<1>0. Agree /\ Once /\ Sizes /\ Quiet /\ TypesPage /\ TypesCtx /\ TypesSrv
  BY DEF IInv, Types
<1>1. ASSUME NEW x \in AV, Signal(x) PROVE Agree'
  <2> SUFFICES ASSUME dev' = {}, check_dms', dev = {}, check_dms, Agreed PROVE Agreed'
    BY <1>0, <1>1, ZenonT(30) DEF Signal, check_dms, conn, Agree
  <2>1. pc = "idle" /\ UNCHANGED <<pc, spc, ctx, sv>>
    BY <1>1 DEF Signal, server
  <2>2. spc \notin {"layout", "ack"}
    BY <1>0, <2>1 DEF Once, Turns, Waiting
  <2>3. (Layout(ctx.set) = Layout(sv.set) /\ mapav(ctx.set) <= ctx.size)'
    BY <2>1, ZenonT(30) DEF Agreed, AgreeOld, OldSettings
  <2>o. AgreeOld'
    BY <2>3 DEF AgreeOld, OldSettings
  <2>r. AgreeAsked' /\ AgreeRead' /\ AgreeAck'
    BY <2>1, <2>2, ZenonT(30) DEF AgreeAsked, AgreeRead, AgreeAck
  <2>g. AgreeGranted' /\ AgreeCounts' /\ AgreeClear'
    BY <2>1, <2>2, ZenonT(30) DEF AgreeGranted, AgreeCounts, AgreeClear
  <2> QED BY <2>o, <2>r, <2>g, ZenonT(30) DEF Agreed
<1>2. ASSUME NEW r \in Requests, Resize_Begin(r) PROVE Agree'
  <2>1. UNCHANGED <<dev, page, ctx, sv, want>> /\ (check_dms' => check_dms)
    BY <1>2 DEF Resize_Begin, check_dms, conn, client, server
  <2>2. pc' = pc \/ (pc \in Free /\ pc' \in Free \cup {"migrate"})
    BY <1>2 DEF Resize_Begin, client, Free
  <2>3. spc' = spc \/ {spc, spc'} \cap {"layout", "ack"} = {}
    BY <1>2, ZenonT(30) DEF Resize_Begin, server
  <2> QED BY <1>0, <2>1, <2>2, <2>3, AgreeAside DEF Agree
<1>3. ASSUME NEW x \in AV, Resize_Wait(x) PROVE Agree'
  <2>1. UNCHANGED <<dev, page, ctx, sv, want>> /\ (check_dms' => check_dms)
    BY <1>3, ZenonT(30) DEF Resize_Wait, check_dms, conn, client, server
  <2>2. pc' = pc \/ (pc \in Free /\ pc' \in Free \cup {"migrate"})
    BY <1>3 DEF Resize_Wait, client, Free, WaitPC, SemPC, NextPC, AV
  <2>3. spc' = spc \/ {spc, spc'} \cap {"layout", "ack"} = {}
    BY <1>3, ZenonT(30) DEF Resize_Wait, server, WaitPC, SemPC, NextPC, AV
  <2> QED BY <1>0, <2>1, <2>2, <2>3, AgreeAside, ZenonT(30) DEF Agree
<1>4. ASSUME NEW x \in AV, Resize_SemWait(x) PROVE Agree'
  <2>1. UNCHANGED <<dev, page, ctx, sv, want>> /\ (check_dms' => check_dms)
    BY <1>4 DEF Resize_SemWait, check_dms, conn, client, server
  <2>2. pc' = pc \/ (pc \in Free /\ pc' \in Free \cup {"migrate"})
    BY <1>4 DEF Resize_SemWait, client, Free, WaitPC, SemPC, NextPC, AV
  <2>3. spc' = spc \/ {spc, spc'} \cap {"layout", "ack"} = {}
    BY <1>4 DEF Resize_SemWait, server, WaitPC, SemPC, NextPC, AV
  <2> QED BY <1>0, <2>1, <2>2, <2>3, AgreeAside DEF Agree
<1>5. CASE Resize_Request
  <2> SUFFICES ASSUME dev' = {}, check_dms', dev = {}, check_dms, Agreed PROVE Agreed'
    BY <1>0, <1>5 DEF Resize_Request, check_dms, conn, Agree
  <2>1. /\ UNCHANGED <<ctx, sv, resized, spc>> /\ pc' \in {"migrate", "idle", "flag"}
        /\ pc = "recheck"
    BY <1>5 DEF Resize_Request, page, server
  <2>2. resized' = 0 /\ spc' \notin {"layout", "ack"}
    BY <1>0, <2>1 DEF Once, Turns, Waiting
  <2>3. Layout(ctx.set) = Layout(sv.set) /\ mapav(ctx.set) <= ctx.size
    BY <2>1, ZenonT(30) DEF Agreed, AgreeOld, OldSettings
  <2>4. (Layout(ctx.set) = Layout(sv.set) /\ mapav(ctx.set) <= ctx.size)'
    BY <2>1, <2>3
  <2>5. pc' = "flag" => AsItStands(Asked)'
    <3>1. ASSUME pc' = "flag" PROVE Asked' = Goal /\ AsItStands(Goal)
      BY <3>1, <1>5, Zenon DEF Resize_Request, Asked, Goal
    <3> QED BY <3>1
  <2>o. AgreeOld'
    BY <2>1, <2>2, <2>4, <2>5, ZenonT(30) DEF AgreeOld, OldSettings
  <2>r. AgreeAsked' /\ AgreeRead' /\ AgreeAck'
    BY <2>1, <2>2, <2>4, <2>5, ZenonT(30) DEF AgreeAsked, AgreeRead, AgreeAck
  <2>g. AgreeGranted' /\ AgreeCounts' /\ AgreeClear'
    BY <2>1, <2>2, <2>4, <2>5, ZenonT(30) DEF AgreeGranted, AgreeCounts, AgreeClear
  <2> QED BY <2>o, <2>r, <2>g, ZenonT(30) DEF Agreed
<1>6. CASE Resize_Flag
  <2> SUFFICES ASSUME dev' = {}, check_dms', dev = {}, check_dms, Agreed PROVE Agreed'
    BY <1>0, <1>6, ZenonT(30) DEF Resize_Flag, check_dms, conn, Agree
  <2>1. /\ UNCHANGED <<spc, sv, ctx>> /\ Asked' = Asked
        /\ pc = "flag" /\ pc' = "spin" /\ resized' = 1
    BY <1>6, ZenonT(30) DEF Resize_Flag, server, Asked
  <2>2. AsItStands(Asked) /\ Layout(ctx.set) = Layout(sv.set) /\ mapav(ctx.set) <= ctx.size
    BY <2>1 DEF Agreed, AgreeAsked, AgreeOld, OldSettings
  <2>3. spc' \notin {"layout", "ack"}
    BY <1>0, <2>1 DEF Once, Turns, Waiting
  <2>4. AsItStands(Asked)' /\ (Layout(ctx.set) = Layout(sv.set) /\ mapav(ctx.set) <= ctx.size)'
    BY <2>1, <2>2
  <2>o. AgreeOld'
    BY <2>1, <2>3, <2>4, ZenonT(30) DEF AgreeOld, OldSettings
  <2>r. AgreeAsked' /\ AgreeRead' /\ AgreeAck'
    BY <2>1, <2>3, <2>4, ZenonT(30) DEF AgreeAsked, AgreeRead, AgreeAck
  <2>g. AgreeGranted' /\ AgreeCounts' /\ AgreeClear'
    BY <2>1, <2>3, <2>4 DEF AgreeGranted, AgreeCounts, AgreeClear
  <2> QED BY <2>o, <2>r, <2>g DEF Agreed
<1>7. CASE Resize_Spin
  <2> SUFFICES ASSUME dev' = {}, check_dms', dev = {}, check_dms, Agreed PROVE Agreed'
    BY <1>0, <1>7 DEF Resize_Spin, check_dms, conn, Agree
  <2>1. /\ pc = "spin" /\ pc' \in {"spin", "answer"} /\ UNCHANGED <<page, spc, sv, ctx, want>>
        /\ pc' = "answer" => ~(resized > 0)
    BY <1>7 DEF Resize_Spin, server
  <2>2. resized' = resized /\ (pc' = "answer" => resized # 1)
    BY <2>1 DEF page
  <2>3. OldSettings' => OldSettings
    BY <2>1, <2>2, ZenonT(30) DEF OldSettings
  <2>o. AgreeOld'
    BY <2>1, <2>3, SameData, ZenonT(30) DEF Agreed, AgreeOld
  <2>r. AgreeAsked' /\ AgreeRead' /\ AgreeAck'
    BY <2>1, <2>2, SameData, ZenonT(30) DEF Agreed, AgreeAsked, AgreeRead, AgreeAck
  <2>g. AgreeGranted' /\ AgreeCounts' /\ AgreeClear'
    BY <2>1, <2>2, SameData, ZenonT(30) DEF Agreed, AgreeGranted, AgreeCounts, AgreeClear
  <2> QED BY <2>o, <2>r, <2>g DEF Agreed
<1>8. CASE Resize_Answer
  <2> SUFFICES ASSUME dev' = {}, check_dms', dev = {}, check_dms, Agreed PROVE Agreed'
    BY <1>0, <1>8 DEF Resize_Answer, check_dms, conn, Agree
  <2>1. /\ pc = "answer" /\ UNCHANGED <<spc, sv, segment_size>> /\ Asked' = Asked
    BY <1>8, ZenonT(30) DEF Resize_Answer, server, Asked
  <2>2. spc' \notin {"layout", "ack"} /\ resized \in {0, -1}
    BY <1>0, <2>1 DEF Once, Turns, TypesPage
  <2>3. CASE resized = -1
    <3>1. pc' = "idle" /\ ctx' = ctx
      BY <2>3, <1>8, ZenonT(30) DEF Resize_Answer
    <3>2. Layout(ctx.set) = Layout(sv.set) /\ mapav(ctx.set) <= ctx.size
      BY <2>1, <2>2, <2>3 DEF Agreed, AgreeOld, OldSettings
    <3>3. (Layout(ctx.set) = Layout(sv.set) /\ mapav(ctx.set) <= ctx.size)'
      BY <2>1, <3>1, <3>2, ZenonT(30)
    <3>4. AgreeOld' /\ AgreeAsked' /\ AgreeRead' /\ AgreeAck'
      BY <2>2, <3>1, <3>3, ZenonT(30) DEF AgreeOld, AgreeAsked, AgreeRead, AgreeAck
    <3>5. AgreeGranted' /\ AgreeCounts' /\ AgreeClear'
      BY <3>1 DEF AgreeGranted, AgreeCounts, AgreeClear
    <3> QED BY <3>4, <3>5 DEF Agreed
  <2>4. CASE resized = 0
    <3>1. pc' = "counts" /\ ctx'.size = segment_size
      BY <1>0, <2>4, <1>8 DEF Resize_Answer, TypesCtx
    <3>2. Layout(Asked) = Layout(sv.set) /\ segment_size = mapav(sv.set)
      BY <2>1, <2>4 DEF Agreed, AgreeGranted
    <3>3. (Layout(Asked) = Layout(sv.set) /\ ctx.size = mapav(sv.set))'
      BY <2>1, <3>1, <3>2, ZenonT(30)
    <3>4. AgreeOld' /\ AgreeAsked' /\ AgreeRead' /\ AgreeAck'
      BY <2>2, <3>1, ZenonT(30) DEF AgreeOld, OldSettings, AgreeAsked, AgreeRead, AgreeAck
    <3>5. AgreeGranted' /\ AgreeCounts' /\ AgreeClear'
      BY <3>1, <3>3 DEF AgreeGranted, AgreeCounts, AgreeClear
    <3> QED BY <3>4, <3>5 DEF Agreed
  <2> QED BY <2>2, <2>3, <2>4
<1>9. CASE Setup_Counts
  <2> SUFFICES ASSUME dev' = {}, check_dms', dev = {}, check_dms, Agreed PROVE Agreed'
    BY <1>0, <1>9 DEF Setup_Counts, check_dms, conn, Agree
  <2>1. /\ UNCHANGED <<spc, sv, abufsize>> /\ pc = "counts" /\ pc' = "clear"
        /\ ctx'.set.w = w /\ ctx'.set.v = vpending /\ ctx'.set.a = apending
        /\ ctx'.size = ctx.size
    BY <1>0, <1>9 DEF Setup_Counts, page, server, TypesCtx
  <2>2. spc' \notin {"layout", "ack"}
    BY <1>0, <2>1 DEF Once, Turns, Waiting
  <2>3. Layout(Asked) = Layout(sv.set) /\ ctx.size = mapav(sv.set)
    BY <2>1, ZenonT(30) DEF Agreed, AgreeCounts
  <2>4. /\ w = sv.set.w /\ vpending = sv.set.v /\ apending = sv.set.a
        /\ sv.set.a > 0 => abufsize = sv.set.b
    <3>1. Asked \in Settings /\ sv.set \in Settings
      BY <1>0, AskedType, ZenonT(30) DEF IInv, TypesSrv
    <3> QED BY <2>3, <3>1, Alike DEF Asked
  <2>o. AgreeOld'
    BY <2>1, <2>2, ZenonT(30) DEF AgreeOld, OldSettings
  <2>r. AgreeAsked' /\ AgreeRead' /\ AgreeAck'
    BY <2>1, <2>2, ZenonT(30) DEF AgreeAsked, AgreeRead, AgreeAck
  <2>g. AgreeGranted' /\ AgreeCounts' /\ AgreeClear'
    BY <2>1, <2>3, <2>4, ZenonT(30) DEF AgreeGranted, AgreeCounts, AgreeClear
  <2> QED BY <2>o, <2>r, <2>g DEF Agreed
<1>10. CASE Setup_Clear
  <2> SUFFICES ASSUME dev' = {}, check_dms', dev = {}, check_dms, Agreed PROVE Agreed'
    BY <1>0, <1>10 DEF Setup_Clear, check_dms, conn, Agree
  <2>1. UNCHANGED <<spc, sv, ctx, abufsize>> /\ pc = "clear" /\ pc' = "abuf"
    BY <1>10 DEF Setup_Clear, server
  <2>2. spc \notin {"layout", "ack"}
    BY <1>0, <2>1 DEF Once, Turns, Waiting
  <2>3. /\ ctx.set.w = sv.set.w /\ ctx.set.v = sv.set.v /\ ctx.set.a = sv.set.a
        /\ sv.set.a > 0 => abufsize = sv.set.b
        /\ ctx.size = mapav(sv.set)
    BY <2>1 DEF Agreed, AgreeClear
  <2>o. AgreeOld'
    BY <2>1, <2>2 DEF AgreeOld, OldSettings
  <2>r. AgreeAsked' /\ AgreeRead' /\ AgreeAck'
    BY <2>1, <2>2, ZenonT(30) DEF AgreeAsked, AgreeRead, AgreeAck
  <2>g. AgreeGranted' /\ AgreeCounts' /\ AgreeClear'
    BY <2>1, <2>3 DEF AgreeGranted, AgreeCounts, AgreeClear
  <2> QED BY <2>o, <2>r, <2>g DEF Agreed
<1>11. CASE Setup_Abuf
  <2> SUFFICES ASSUME dev' = {}, check_dms', dev = {}, check_dms, Agreed PROVE Agreed'
    BY <1>0, <1>11 DEF Setup_Abuf, check_dms, conn, Agree
  <2>1. /\ UNCHANGED <<spc, sv, resized>> /\ pc = "abuf" /\ pc' = "idle"
        /\ ctx'.set.w = ctx.set.w /\ ctx'.set.v = ctx.set.v /\ ctx'.set.a = ctx.set.a
        /\ ctx'.set.b = abufsize /\ ctx'.size = ctx.size
    BY <1>0, <1>11, ZenonT(30) DEF Setup_Abuf, page, server, TypesCtx, Settings
  <2>2. spc' \notin {"layout", "ack"}
    BY <1>0, <2>1 DEF Once, Turns, Waiting
  <2>3. /\ ctx.set.w = sv.set.w /\ ctx.set.v = sv.set.v /\ ctx.set.a = sv.set.a
        /\ sv.set.a > 0 => abufsize = sv.set.b
        /\ ctx.size = mapav(sv.set)
    BY <2>1 DEF Agreed, AgreeClear
  <2>5. ctx'.set \in Settings /\ sv.set \in Settings
    BY <1>0, CtxTypes, ZenonT(30) DEF TypesCtx, TypesSrv
  <2>6. Layout(ctx'.set) = Layout(sv.set)
    BY <2>1, <2>3, <2>5, Alike
  <2>7. mapav(ctx'.set) = mapav(sv.set) /\ mapav(sv.set) \in Nat
    BY <2>5, <2>6, AlikeSize, SizeType, ZenonT(30)
  <2>8. (Layout(ctx.set) = Layout(sv.set) /\ mapav(ctx.set) <= ctx.size)'
    BY <2>1, <2>3, <2>6, <2>7
  <2>o. AgreeOld'
    BY <2>8, ZenonT(30) DEF AgreeOld, OldSettings
  <2>r. AgreeAsked' /\ AgreeRead' /\ AgreeAck'
    BY <2>1, <2>2, ZenonT(30) DEF AgreeAsked, AgreeRead, AgreeAck
  <2>g. AgreeGranted' /\ AgreeCounts' /\ AgreeClear'
    BY <2>1, <2>2, ZenonT(30) DEF AgreeGranted, AgreeCounts, AgreeClear
  <2> QED BY <2>o, <2>r, <2>g DEF Agreed
<1>12. CASE Resynch_Read
  <2> SUFFICES ASSUME dev' = {}, check_dms', dev = {}, check_dms, Agreed PROVE Agreed'
    BY <1>0, <1>12 DEF Resynch_Read, check_dms, conn, Agree
  <2>1. UNCHANGED <<page, client, sv>> /\ spc = "idle" /\ spc' = "layout"
    BY <1>12, ZenonT(30) DEF Resynch_Read
  <2>2. Asked' = Asked /\ UNCHANGED <<ctx, resized, pc>>
    BY <2>1 DEF Asked, page, client
  <2>3. resized = 1 /\ pc = "spin"
    <3>1. resized = 1
      BY <1>0, <1>12, ZenonT(30) DEF Resynch_Read, TypesPage
    <3> QED BY <1>0, <3>1 DEF Once, Turns, Waiting, Sizes
  <2>4. AsItStands(Asked) /\ Layout(ctx.set) = Layout(sv.set) /\ mapav(ctx.set) <= ctx.size
    BY <2>1, <2>3 DEF Agreed, AgreeOld, AgreeAsked, OldSettings
  <2>5. Layout(want)' = Layout(Asked)'
    BY <2>2, <2>4, <1>12, ZenonT(30) DEF AsItStands, Resynch_Read
  <2>6. (Layout(ctx.set) = Layout(sv.set) /\ mapav(ctx.set) <= ctx.size)'
    BY <2>1, <2>2, <2>4, ZenonT(30)
  <2>o. AgreeOld'
    BY <2>1, <2>2, <2>3, <2>5, <2>6, ZenonT(30) DEF AgreeOld, OldSettings
  <2>r. AgreeAsked' /\ AgreeRead' /\ AgreeAck'
    BY <2>1, <2>2, <2>3, <2>5, <2>6, ZenonT(30) DEF AgreeAsked, AgreeRead, AgreeAck
  <2>g. AgreeGranted' /\ AgreeCounts' /\ AgreeClear'
    BY <2>1, <2>2, <2>3, <2>5, <2>6 DEF AgreeGranted, AgreeCounts, AgreeClear
  <2> QED BY <2>o, <2>r, <2>g DEF Agreed
<1>13. CASE Resynch_Layout
  <2> SUFFICES ASSUME dev' = {}, check_dms', dev = {}, check_dms, Agreed PROVE Agreed'
    BY <1>0, <1>13, ZenonT(30) DEF Resynch_Layout, Resized, check_dms, conn, Agree
  <2>1. /\ UNCHANGED <<resized, pc, want>> /\ spc = "layout" /\ spc' = "ack"
        /\ sv'.set = want /\ segment_size' = mapav(want)
    BY <1>13 DEF Resynch_Layout, Resized, client
  <2>2. resized' = 1 /\ pc' = "spin"
    BY <1>0, <2>1 DEF Once, Turns, Waiting, Sizes
  <2>3. Layout(want) = Layout(Asked)
    BY <2>1, ZenonT(30) DEF Agreed, AgreeRead
  <2>4. want.w = w
    <3>1. Asked \in Settings /\ want \in Settings
      BY <1>0, AskedType, ZenonT(30) DEF IInv, TypesSrv
    <3> QED BY <2>3, <3>1, Alike DEF Asked
  <2>5. Asked' = Asked
    BY <2>4, <1>13, ZenonT(30) DEF Asked, Resynch_Layout
  <2>6. Layout(want)' = Layout(Asked)' /\ mapav(want)' = mapav(want)
    BY <2>1, <2>3, <2>5, ZenonT(30)
  <2>o. AgreeOld'
    BY <2>1, <2>2, <2>6, ZenonT(30) DEF AgreeOld, OldSettings
  <2>r. AgreeAsked' /\ AgreeRead' /\ AgreeAck'
    BY <2>1, <2>2, <2>6, ZenonT(30) DEF AgreeAsked, AgreeRead, AgreeAck
  <2>g. AgreeGranted' /\ AgreeCounts' /\ AgreeClear'
    BY <2>1, <2>2, <2>6, ZenonT(30) DEF AgreeGranted, AgreeCounts, AgreeClear
  <2> QED BY <2>o, <2>r, <2>g DEF Agreed
<1>14. CASE Resynch_Ack
  <2> SUFFICES ASSUME dev' = {}, check_dms', dev = {}, check_dms, Agreed PROVE Agreed'
    BY <1>0, <1>14, ZenonT(30) DEF Resynch_Ack, check_dms, conn, Agree
  <2>1. /\ UNCHANGED <<pc, sv, ctx, want, segment_size>> /\ Asked' = Asked
        /\ spc = "ack" /\ spc' = "abufsize" /\ resized' = 0
    BY <1>14 DEF Resynch_Ack, client, Asked
  <2>2. Layout(want) = Layout(Asked) /\ sv.set = want /\ segment_size = mapav(want)
    BY <2>1 DEF Agreed, AgreeRead, AgreeAck
  <2>3. pc' = "spin" /\ Layout(Asked)' = Layout(sv.set)' /\ segment_size' = mapav(sv.set)'
    <3>1. pc = "spin"
      BY <1>0, <2>1 DEF Once, Turns, Waiting, Sizes
    <3> QED BY <2>1, <2>2, <3>1
  <2>o. AgreeOld'
    BY <2>1, <2>3 DEF AgreeOld, OldSettings
  <2>r. AgreeAsked' /\ AgreeRead' /\ AgreeAck'
    BY <2>1, <2>3 DEF AgreeAsked, AgreeRead, AgreeAck
  <2>g. AgreeGranted' /\ AgreeCounts' /\ AgreeClear'
    BY <2>1, <2>3 DEF AgreeGranted, AgreeCounts, AgreeClear
  <2> QED BY <2>o, <2>r, <2>g DEF Agreed
<1>15. CASE Resynch_Abufsize
  <2> SUFFICES ASSUME dev' = {}, check_dms', dev = {}, check_dms, Agreed PROVE Agreed'
    BY <1>0, <1>15 DEF Resynch_Abufsize, Stored, check_dms, conn, Agree
  <2>1. /\ UNCHANGED <<w, apending, vpending, pc, ctx, sv, resized, segment_size>>
        /\ abufsize' = sv.set.b /\ spc = "abufsize" /\ spc' \in {"apending", "vpending", "done"}
    BY <1>15, ZenonT(30) DEF Resynch_Abufsize, client
  <2>2. NextIsUp => Asked' = Asked
    BY <2>1, <1>15 DEF Resynch_Abufsize, Stored, Asked
  <2>3. ASSUME Layout(Asked) = Layout(sv.set) PROVE Layout(Asked)' = Layout(sv.set)'
    <3>1. Asked \in Settings /\ sv.set \in Settings
      BY <1>0, AskedType DEF IInv, TypesSrv
    <3>2. Asked' \in Settings
      BY PageTypes, ZenonT(30) DEF TypesPage, Asked, Settings
    <3>3. /\ Asked.w = sv.set.w /\ Asked.v = sv.set.v /\ Asked.a = sv.set.a
          /\ sv.set.a > 0 => Asked.b = sv.set.b
      BY <2>3, <3>1, Alike, ZenonT(30)
    <3>4. /\ Asked'.w = sv.set.w /\ Asked'.v = sv.set.v /\ Asked'.a = sv.set.a
          /\ sv.set.a > 0 => Asked'.b = sv.set.b
      BY <2>1, <3>3, ZenonT(30) DEF Asked
    <3>5. Layout(Asked') = Layout(sv.set)
      BY <3>1, <3>2, <3>4, Alike
    <3> QED BY <2>1, <3>5, ZenonT(30)
  <2>4. OldSettings' => OldSettings
    BY <2>1, ZenonT(30) DEF OldSettings
  <2>o. AgreeOld'
    BY <2>1, <2>4 DEF Agreed, AgreeOld
  <2>r. AgreeAsked'
    BY <2>1, <2>2 DEF Agreed, AgreeAsked, NextIsUp
  <2>a. AgreeRead' /\ AgreeAck'
    BY <2>1, ZenonT(30) DEF AgreeRead, AgreeAck
  <2>g. AgreeGranted' /\ AgreeCounts'
    BY <2>1, <2>3, ZenonT(30) DEF Agreed, AgreeGranted, AgreeCounts
  <2>c. AgreeClear'
    BY <2>1, ZenonT(30) DEF Agreed, AgreeClear
  <2> QED BY <2>o, <2>r, <2>a, <2>g, <2>c, ZenonT(30) DEF Agreed
<1>16. CASE Resynch_Apending
  <2> SUFFICES ASSUME dev' = {}, check_dms', dev = {}, check_dms, Agreed PROVE Agreed'
    BY <1>0, <1>16, ZenonT(30) DEF Resynch_Apending, Stored, check_dms, conn, Agree
  <2>1. /\ UNCHANGED <<w, abufsize, vpending, pc, ctx, sv, resized, segment_size>>
        /\ apending' = sv.set.a /\ spc = "apending" /\ spc' \in {"apending", "vpending", "done"}
    BY <1>16, ZenonT(30) DEF Resynch_Apending, client
  <2>2. NextIsUp => Asked' = Asked
    BY <2>1, <1>16 DEF Resynch_Apending, Stored, Asked
  <2>3. ASSUME Layout(Asked) = Layout(sv.set) PROVE Layout(Asked)' = Layout(sv.set)'
    <3>1. Asked \in Settings /\ sv.set \in Settings
      BY <1>0, AskedType DEF IInv, TypesSrv
    <3>2. Asked' \in Settings
      BY PageTypes DEF TypesPage, Asked, Settings
    <3>3. /\ Asked.w = sv.set.w /\ Asked.v = sv.set.v /\ Asked.a = sv.set.a
          /\ sv.set.a > 0 => Asked.b = sv.set.b
      BY <2>3, <3>1, Alike
    <3>4. /\ Asked'.w = sv.set.w /\ Asked'.v = sv.set.v /\ Asked'.a = sv.set.a
          /\ sv.set.a > 0 => Asked'.b = sv.set.b
      BY <2>1, <3>3, ZenonT(30) DEF Asked
    <3>5. Layout(Asked') = Layout(sv.set)
      BY <3>1, <3>2, <3>4, Alike
    <3> QED BY <2>1, <3>5, ZenonT(30)
  <2>4. OldSettings' => OldSettings
    BY <2>1, ZenonT(30) DEF OldSettings
  <2>o. AgreeOld'
    BY <2>1, <2>4 DEF Agreed, AgreeOld
  <2>r. AgreeAsked'
    BY <2>1, <2>2 DEF Agreed, AgreeAsked, NextIsUp
  <2>a. AgreeRead' /\ AgreeAck'
    BY <2>1, ZenonT(30) DEF AgreeRead, AgreeAck
  <2>g. AgreeGranted' /\ AgreeCounts'
    BY <2>1, <2>3, ZenonT(30) DEF Agreed, AgreeGranted, AgreeCounts
  <2>c. AgreeClear'
    BY <2>1, ZenonT(30) DEF Agreed, AgreeClear
  <2> QED BY <2>o, <2>r, <2>a, <2>g, <2>c DEF Agreed
<1>17. CASE Resynch_Vpending
  <2> SUFFICES ASSUME dev' = {}, check_dms', dev = {}, check_dms, Agreed PROVE Agreed'
    BY <1>0, <1>17 DEF Resynch_Vpending, Stored, check_dms, conn, Agree
  <2>1. /\ UNCHANGED <<w, abufsize, apending, pc, ctx, sv, resized, segment_size>>
        /\ vpending' = sv.set.v /\ spc = "vpending" /\ spc' \in {"apending", "vpending", "done"}
    BY <1>17, ZenonT(30) DEF Resynch_Vpending, client
  <2>2. NextIsUp => Asked' = Asked
    BY <2>1, <1>17 DEF Resynch_Vpending, Stored, Asked
  <2>3. ASSUME Layout(Asked) = Layout(sv.set) PROVE Layout(Asked)' = Layout(sv.set)'
    <3>1. Asked \in Settings /\ sv.set \in Settings
      BY <1>0, AskedType DEF IInv, TypesSrv
    <3>2. Asked' \in Settings
      BY PageTypes DEF TypesPage, Asked, Settings
    <3>3. /\ Asked.w = sv.set.w /\ Asked.v = sv.set.v /\ Asked.a = sv.set.a
          /\ sv.set.a > 0 => Asked.b = sv.set.b
      BY <2>3, <3>1, Alike
    <3>4. /\ Asked'.w = sv.set.w /\ Asked'.v = sv.set.v /\ Asked'.a = sv.set.a
          /\ sv.set.a > 0 => Asked'.b = sv.set.b
      BY <2>1, <3>3, ZenonT(30) DEF Asked
    <3>5. Layout(Asked') = Layout(sv.set)
      BY <3>1, <3>2, <3>4, Alike
    <3> QED BY <2>1, <3>5, ZenonT(30)
  <2>4. OldSettings' => OldSettings
    BY <2>1, ZenonT(30) DEF OldSettings
  <2>o. AgreeOld'
    BY <2>1, <2>4 DEF Agreed, AgreeOld
  <2>r. AgreeAsked'
    BY <2>1, <2>2 DEF Agreed, AgreeAsked, NextIsUp
  <2>a. AgreeRead' /\ AgreeAck'
    BY <2>1, ZenonT(30) DEF AgreeRead, AgreeAck
  <2>g. AgreeGranted' /\ AgreeCounts'
    BY <2>1, <2>3, ZenonT(30) DEF Agreed, AgreeGranted, AgreeCounts
  <2>c. AgreeClear'
    BY <2>1 DEF Agreed, AgreeClear
  <2> QED BY <2>o, <2>r, <2>a, <2>g, <2>c DEF Agreed
<1>18. CASE Resynch_Fail
  <2> SUFFICES ASSUME dev' = {}, check_dms', dev = {}, check_dms, Agreed PROVE Agreed'
    BY <1>0, <1>18, ZenonT(30) DEF Resynch_Fail, Refuse, check_dms, conn, Agree
  <2>1. UNCHANGED <<pc, sv, ctx>> /\ spc = "layout" /\ spc' = "failed" /\ resized' = -1
    BY <1>18 DEF Resynch_Fail, Refuse, client
  <2>2. pc = "spin" /\ resized = 1
    BY <1>0, <2>1 DEF Once, Turns, Waiting, Sizes
  <2>3. Layout(ctx.set) = Layout(sv.set) /\ mapav(ctx.set) <= ctx.size
    BY <2>1, <2>2 DEF Agreed, AgreeOld, OldSettings
  <2>4. (Layout(ctx.set) = Layout(sv.set) /\ mapav(ctx.set) <= ctx.size)'
    BY <2>1, <2>3, ZenonT(30)
  <2>o. AgreeOld'
    BY <2>1, <2>2, <2>4, ZenonT(30) DEF AgreeOld, OldSettings
  <2>r. AgreeAsked' /\ AgreeRead' /\ AgreeAck'
    BY <2>1, <2>2, <2>4 DEF AgreeAsked, AgreeRead, AgreeAck
  <2>g. AgreeGranted' /\ AgreeCounts' /\ AgreeClear'
    BY <2>1, <2>2, <2>4 DEF AgreeGranted, AgreeCounts, AgreeClear
  <2> QED BY <2>o, <2>r, <2>g DEF Agreed
<1>19. CASE Resynch_Post
  <2>1. UNCHANGED <<dev, page, ctx, sv, want>> /\ (check_dms' => check_dms)
    BY <1>19, ZenonT(30) DEF Resynch_Post, check_dms, conn, client, server
  <2>2. pc' = pc \/ (pc \in Free /\ pc' \in Free \cup {"migrate"})
    BY <1>19, ZenonT(30) DEF Resynch_Post, client, Free
  <2>3. spc' = spc \/ {spc, spc'} \cap {"layout", "ack"} = {}
    BY <1>19, ZenonT(30) DEF Resynch_Post, server
  <2> QED BY <1>0, <2>1, <2>2, <2>3, AgreeAside, ZenonT(30) DEF Agree
<1>20. ASSUME NEW x \in AV, Consume(x) PROVE Agree'
  <2> SUFFICES ASSUME dev' = {}, check_dms', dev = {}, check_dms, Agreed PROVE Agreed'
    BY <1>0, <1>20, ZenonT(30) DEF Consume, check_dms, conn, Agree
  <2>1. /\ x \in ready /\ spc = "idle" /\ spc' = PostPC[x] /\ UNCHANGED <<pc, ctx, sv>>
        /\ resized' = resized
    BY <1>20 DEF Consume, client
  <2>2. /\ pc' \notin {"flag", "spin", "answer", "counts", "clear", "abuf"}
        /\ spc' \notin {"layout", "ack"}
    <3>1. PostPC[x] \notin {"layout", "ack"}
      BY DEF PostPC, AV
    <3> QED BY <1>0, <2>1, <3>1, ZenonT(30) DEF Quiet
  <2>3. OldSettings' => OldSettings
    BY <2>1, <2>2, ZenonT(30) DEF OldSettings
  <2>4. OldSettings => (Layout(ctx.set) = Layout(sv.set) /\ mapav(ctx.set) <= ctx.size)'
    BY <2>1, ZenonT(30) DEF Agreed, AgreeOld
  <2>o. AgreeOld'
    BY <2>3, <2>4 DEF AgreeOld, OldSettings
  <2>r. AgreeAsked' /\ AgreeRead' /\ AgreeAck'
    BY <2>2, ZenonT(30) DEF AgreeAsked, AgreeRead, AgreeAck
  <2>g. AgreeGranted' /\ AgreeCounts' /\ AgreeClear'
    BY <2>2, ZenonT(30) DEF AgreeGranted, AgreeCounts, AgreeClear
  <2> QED BY <2>o, <2>r, <2>g DEF Agreed
<1>21. ASSUME NEW x \in AV, Consume_Post(x) PROVE Agree'
  <2>1. UNCHANGED <<dev, page, ctx, sv, want>> /\ (check_dms' => check_dms)
    BY <1>21, ZenonT(30) DEF Consume_Post, check_dms, conn, client, server
  <2>2. pc' = pc \/ (pc \in Free /\ pc' \in Free \cup {"migrate"})
    BY <1>21, ZenonT(30) DEF Consume_Post, client, Free, PostPC, AV
  <2>3. spc' = spc \/ {spc, spc'} \cap {"layout", "ack"} = {}
    BY <1>21 DEF Consume_Post, server, PostPC, AV
  <2> QED BY <1>0, <2>1, <2>2, <2>3, AgreeAside DEF Agree
<1>22. CASE Guard_Flags
  <2>1. UNCHANGED <<dev, page, ctx, sv, want>> /\ (check_dms' => check_dms)
    BY <1>22 DEF Guard_Flags, check_dms, conn, client, server
  <2>2. pc' = pc \/ (pc \in Free /\ pc' \in Free \cup {"migrate"})
    BY <1>22 DEF Guard_Flags, client, Free
  <2>3. spc' = spc \/ {spc, spc'} \cap {"layout", "ack"} = {}
    BY <1>22, ZenonT(30) DEF Guard_Flags, server
  <2> QED BY <1>0, <2>1, <2>2, <2>3, AgreeAside DEF Agree
<1>23. CASE Guard_Post
  <2>1. UNCHANGED <<dev, page, ctx, sv, want>> /\ (check_dms' => check_dms)
    BY <1>23 DEF Guard_Post, check_dms, conn, client, server
  <2>2. pc' = pc \/ (pc \in Free /\ pc' \in Free \cup {"migrate"})
    BY <1>23 DEF Guard_Post, client, Free
  <2>3. spc' = spc \/ {spc, spc'} \cap {"layout", "ack"} = {}
    BY <1>23, ZenonT(30) DEF Guard_Post, server
  <2> QED BY <1>0, <2>1, <2>2, <2>3, AgreeAside DEF Agree
<1>24. CASE Crash
  <2>1. UNCHANGED <<dev, page, ctx, sv, want>> /\ (check_dms' => check_dms)
    BY <1>24 DEF Crash, check_dms, conn, client, server
  <2>2. pc' = pc \/ (pc \in Free /\ pc' \in Free \cup {"migrate"})
    BY <1>24 DEF Crash, client, Free
  <2>3. spc' = spc \/ {spc, spc'} \cap {"layout", "ack"} = {}
    BY <1>24, ZenonT(30) DEF Crash, server
  <2> QED BY <1>0, <2>1, <2>2, <2>3, AgreeAside DEF Agree
<1>25. CASE Destroy_Dms
  <2>1. UNCHANGED <<dev, page, ctx, sv, want>> /\ (check_dms' => check_dms)
    BY <1>25, ZenonT(30) DEF Destroy_Dms, check_dms, conn, client, server
  <2>2. pc' = pc \/ (pc \in Free /\ pc' \in Free \cup {"migrate"})
    BY <1>25, ZenonT(30) DEF Destroy_Dms, client, Free
  <2>3. spc' = spc \/ {spc, spc'} \cap {"layout", "ack"} = {}
    BY <1>25, ZenonT(30) DEF Destroy_Dms, server
  <2> QED BY <1>0, <2>1, <2>2, <2>3, AgreeAside DEF Agree
<1>26. CASE Destroy_Post
  <2>1. UNCHANGED <<dev, page, ctx, sv, want>> /\ (check_dms' => check_dms)
    BY <1>26, ZenonT(30) DEF Destroy_Post, check_dms, conn, client, server
  <2>2. pc' = pc \/ (pc \in Free /\ pc' \in Free \cup {"migrate"})
    BY <1>26 DEF Destroy_Post, client, Free
  <2>3. spc' = spc \/ {spc, spc'} \cap {"layout", "ack"} = {}
    BY <1>26 DEF Destroy_Post, server
  <2> QED BY <1>0, <2>1, <2>2, <2>3, AgreeAside DEF Agree
<1>27. CASE Resynch_AuthFail
  <2> SUFFICES ASSUME dev' = {}, check_dms', dev = {}, check_dms, Agreed PROVE Agreed'
    <3>1. (dev' = {} => dev = {}) /\ (check_dms' <=> check_dms)
      BY <1>27 DEF Resynch_AuthFail, check_dms, conn
    <3> QED BY <1>0, <3>1 DEF Agree
  <2>1. UNCHANGED <<pc, sv, ctx>> /\ spc = "layout" /\ spc' = "failed" /\ resized' = -1
    <3>1. sv' = sv
      <4>1. "unauth" \notin dev'
        OBVIOUS
      <4> QED BY <1>0, <1>27, <4>1, AuthFailKeeps, Zenon
    <3> QED BY <3>1, <1>27 DEF Resynch_AuthFail, client
  <2>2. pc = "spin" /\ resized = 1
    BY <1>0, <2>1 DEF Once, Turns, Waiting, Sizes
  <2>3. Layout(ctx.set) = Layout(sv.set) /\ mapav(ctx.set) <= ctx.size
    BY <2>1, <2>2 DEF Agreed, AgreeOld, OldSettings
  <2>4. (Layout(ctx.set) = Layout(sv.set) /\ mapav(ctx.set) <= ctx.size)'
    BY <2>1, <2>3, ZenonT(30)
  <2>o. AgreeOld'
    BY <2>1, <2>2, <2>4, ZenonT(30) DEF AgreeOld, OldSettings
  <2>r. AgreeAsked' /\ AgreeRead' /\ AgreeAck'
    BY <2>1, <2>2, <2>4 DEF AgreeAsked, AgreeRead, AgreeAck
  <2>g. AgreeGranted' /\ AgreeCounts' /\ AgreeClear'
    BY <2>1, <2>2, <2>4 DEF AgreeGranted, AgreeCounts, AgreeClear
  <2> QED BY <2>o, <2>r, <2>g DEF Agreed
<1> QED BY <1>1, <1>2, <1>3, <1>4, <1>5, <1>6, <1>7, <1>8, <1>9, <1>10, <1>11, <1>12, <1>13,
   <1>14, <1>15, <1>16, <1>17, <1>18, <1>19, <1>20, <1>21, <1>22, <1>23, <1>24, <1>25, <1>26, <1>27 DEF
   Next, Client, InResize, Resynch, Consumer, Guard

LEMMA StutterInv == ASSUME IInv, UNCHANGED vars PROVE IInv'
<1>0. UNCHANGED <<cf, dev, page, ready, hints, file, sem, conn, client, srv, server>>
  BY ZenonT(30) DEF vars
<1>1. Types'
  BY <1>0 DEF IInv, Types, TypesPage, TypesCtx, TypesSrv, page, conn, client, server
<1>2. Sizes' /\ Quiet'
  BY <1>0, ZenonT(30) DEF IInv, Sizes, Quiet, check_dms, page, conn, client, server
<1>3. Once'
  BY <1>0 DEF IInv, Once, Turns, Told, Waiting, OldSettings, check_dms, page, conn, client, server
<1>4. Agree'
  <2>1. UNCHANGED <<page, ctx, sv, want, pc, spc, dev>> /\ (check_dms' <=> check_dms)
    BY <1>0 DEF check_dms, conn, client, server
  <2> QED BY <2>1, AgreeAside, ZenonT(30) DEF IInv, Agree
<1> QED BY <1>1, <1>2, <1>3, <1>4, ZenonT(30) DEF IInv

LEMMA Inductive == Spec => []IInv
<1>1. IInv /\ [Next]_vars => IInv'
  <2> SUFFICES ASSUME IInv, [Next]_vars PROVE IInv'
    BY ZenonT(30)
  <2>1. CASE Next
    <3>1. cf' \in Configs
      <4>1. cf' = cf
        BY <2>1, Zenon DEF Next, Client, InResize, Resynch, Consumer, Guard, Signal, Resize_Begin,
           Resize_Wait, Resize_SemWait, Resize_Request, Resize_Flag, Resize_Spin, Resize_Answer,
           Setup_Counts, Setup_Clear, Setup_Abuf, Resynch_Read, Resynch_Layout, Resynch_AuthFail, Resynch_Ack,
           Resynch_Abufsize, Resynch_Apending, Resynch_Vpending, Resynch_Fail, Refuse,
           Resynch_Post, Consume, Consume_Post, Guard_Flags, Guard_Post, Crash, Destroy_Dms,
           Destroy_Post
      <4> QED BY <4>1 DEF IInv, Types
    <3> QED BY <2>1, <3>1, PageTypes, CtxTypes, SrvTypes, SizesInv, QuietInv, OnceInv, AgreeInv
            DEF IInv, Types
  <2>2. CASE UNCHANGED vars
    BY <2>2, StutterInv
  <2> QED BY <2>1, <2>2
<1> QED BY InitInv, <1>1, PTL DEF Spec

-----------------------------------------------------------------------------

\* Once a resize has returned the client and the server lay the same buffers out
\* at the same places (setup_avbuf, platform_fsrv_resynch), unless the server had
\* to change a request, read one twice, stored the last answer too late, or turned
\* an authentication down after it had taken another layout over.
THEOREM LayoutAgreesAlways == Spec => []LayoutAgreesAsGranted
<1>1. IInv => LayoutAgreesAsGranted
  BY ZenonT(30) DEF IInv, LayoutAgreesAsGranted, LayoutAgrees, Settled, Agree, Agreed, AgreeOld, Sizes, OldSettings
<1> QED BY <1>1, Inductive, PTL

\* The file, cut or grown by platform_fsrv_resynch, holds the buffers of the
\* server at all times and those of a client outside shmif_resize, as long as no
\* authentication failed after the file was cut.
THEOREM MappedEnoughAlways == Spec => []MappedEnough
<1>1. IInv => MappedEnough
  <2> SUFFICES ASSUME IInv PROVE MappedEnough
    OBVIOUS
  <2>1. mapav(sv.set) \in Nat /\ shmpage_size(sv.set) = mapav(sv.set) + 1
    BY SizeType, ZenonT(30) DEF IInv, Types, TypesSrv
  <2>2. file \in Nat /\ sv.size <= file /\ ("unauth" \notin dev => sv.size = shmpage_size(sv.set))
    BY DEF IInv, Types, TypesPage, Sizes
  <2>3. "unauth" \notin dev => mapav(sv.set) <= file
    BY <2>1, <2>2
  <2>4. pc = "idle" /\ check_dms /\ dev = {} => mapav(ctx.set) <= ctx.size
    BY DEF IInv, Agree, Agreed, AgreeOld, OldSettings
  <2>5. pc = "idle" /\ check_dms /\ dev \cap {"reread", "unauth"} = {} => ctx.size <= file
    BY DEF IInv, Once, OldSettings
  <2> QED BY <2>3, <2>4, <2>5 DEF MappedEnough
<1> QED BY <1>1, Inductive, PTL

\* arcan_shmif_resize returns true for no request that platform_fsrv_resynch
\* refused, unless the server answered it again.
THEOREM FailureReportedAlways == Spec => []FailureReportedOnce
<1>1. IInv => FailureReportedOnce
  BY DEF IInv, FailureReportedOnce, FailureReported, Once, Told
<1> QED BY <1>1, Inductive, PTL

\* The counts go into the words that hold the masks of pending buffers only when
\* no buffer is in the hands of the server (the waits at the top of shmif_resize).
THEOREM QuietAlways == Spec => []Quiet
<1>1. IInv => Quiet
  BY DEF IInv
<1> QED BY <1>1, Inductive, PTL
==============================================================================
