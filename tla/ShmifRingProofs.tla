--------------------------- MODULE ShmifRingProofs ---------------------------
(***************************************************************************)
(* For every queue size, every set of events and either consumer: the ring *)
(* implements FifoChannel, and no client sleeps without a reason.          *)
(***************************************************************************)
EXTENDS ShmifRing, TLAPS

USE SMTT(30), SMTT(31), ZenonT(30)   \* a leaf that runs out of time is tried again

\* The connection is usable on both ends.
Open == check_dms /\ srv = "run"

\* What each place in the code knows of the private variables.
Local ==
  /\ spc = "release" => ahead = 1 /\ dq < DstCap
  /\ spc \notin {"release", "batch"} => ahead = 0
  /\ spc = "batch" => ahead <= Dist(front, snap)
  /\ pc \in {"check", "sem", "write", "publish"} => ev \in Event
  /\ pc = "sem" => alive
  /\ srv = "run" => gpc = "watch"
  /\ spc \in {"loop", "release"} => Consumer = "engine"
  /\ spc \notin {"loop", "release"} => wake = FALSE

\* What the two ends know of the ring while the connection is usable: the
\* producer writes to a free slot, the consumer's copies are of filled ones.
Shared ==
  Open =>
    /\ spc = "release" => Used >= 1 /\ inev \in Event
    /\ spc = "batch" => Dist(front, snap) <= Used
    /\ pc \in {"write", "publish"} => Used < QSZ - 1
    /\ pc = "publish" => eventbuf[back] = ev
    /\ \A k \in ahead .. Used - 1 : eventbuf[(front + k) % QSZ] \in Event

IInv == TypeOK /\ Local /\ Shared

-----------------------------------------------------------------------------
(* arithmetic of the indices *)

Idx == 0 .. QSZ - 1

\* One subtraction is all `%' does to an index plus an offset.
LEMMA Wrap == ASSUME NEW x \in 0 .. 2 * QSZ - 1
              PROVE  x % QSZ = IF x < QSZ THEN x ELSE x - QSZ
<1>1. CASE x < QSZ
  BY <1>1, RingAssumption, SMT
<1>2. CASE ~(x < QSZ)
  BY <1>2, RingAssumption, SMT
<1> QED BY <1>1, <1>2

\* The next index is an index.
LEMMA SuccIdx == ASSUME NEW i \in Idx
                 PROVE  /\ Succ(i) \in Idx
                        /\ Succ(i) = IF i = QSZ - 1 THEN 0 ELSE i + 1
<1>1. i + 1 \in 0 .. 2 * QSZ - 1
  BY RingAssumption DEF Idx
<1> QED BY <1>1, Wrap, RingAssumption DEF Succ, Idx

\* A ring of QSZ slots holds at most QSZ - 1 events.
LEMMA DistRange == ASSUME NEW a \in Idx, NEW b \in Idx
                   PROVE  Dist(a, b) \in Idx
  BY RingAssumption DEF Dist, Idx

\* Moving the consumer's index up to the producer's shortens the queue.
LEMMA DistAdvance == ASSUME NEW a \in Idx, NEW b \in Idx, NEW n \in 0 .. Dist(a, b)
                     PROVE  /\ (a + n) % QSZ \in Idx
                            /\ Dist((a + n) % QSZ, b) = Dist(a, b) - n
                            /\ ((a + n) % QSZ = b) <=> (n = Dist(a, b))
<1>1. a + n \in 0 .. 2 * QSZ - 1
  BY DistRange, RingAssumption DEF Idx
<1> QED BY <1>1, Wrap, DistRange, RingAssumption DEF Dist, Idx

\* Moving the producer's index lengthens it, and the test for a full ring is exact.
LEMMA DistPush == ASSUME NEW a \in Idx, NEW b \in Idx
                  PROVE  /\ (Succ(b) = a) <=> (Dist(a, b) = QSZ - 1)
                         /\ Dist(a, b) < QSZ - 1 => Dist(a, Succ(b)) = Dist(a, b) + 1
  BY SuccIdx, RingAssumption DEF Dist, Idx

\* The slot at offset k from a: an index, the one at the end is b, and no
\* earlier one is.
LEMMA SlotIdx == ASSUME NEW a \in Idx, NEW b \in Idx, NEW k \in Idx
                 PROVE  /\ (a + k) % QSZ \in Idx
                        /\ ((a + k) % QSZ = b) <=> (k = Dist(a, b))
<1>1. a + k \in 0 .. 2 * QSZ - 1
  BY RingAssumption DEF Idx
<1> QED BY <1>1, Wrap, RingAssumption DEF Dist, Idx

\* Offsets add up.
LEMMA SlotAdd == ASSUME NEW a \in Idx, NEW n \in Idx, NEW k \in Idx, n + k <= QSZ - 1
                 PROVE  (((a + n) % QSZ) + k) % QSZ = (a + (n + k)) % QSZ
<1>1. a + n \in 0 .. 2 * QSZ - 1 /\ a + (n + k) \in 0 .. 2 * QSZ - 1
  BY RingAssumption DEF Idx
<1>2. (a + n) % QSZ \in Idx
  BY <1>1, Wrap, RingAssumption DEF Idx
<1>3. ((a + n) % QSZ) + k \in 0 .. 2 * QSZ - 1
  BY <1>2, RingAssumption DEF Idx
<1>4. (a + n) % QSZ = IF a + n < QSZ THEN a + n ELSE a + n - QSZ
  BY <1>1, <1>2, Wrap, RingAssumption, SMT DEF Idx
<1>5. (a + (n + k)) % QSZ = IF a + (n + k) < QSZ THEN a + (n + k) ELSE a + (n + k) - QSZ
  BY <1>1, <1>2, Wrap, RingAssumption, SMT DEF Idx
<1>6. (((a + n) % QSZ) + k) % QSZ
        = IF ((a + n) % QSZ) + k < QSZ THEN ((a + n) % QSZ) + k ELSE ((a + n) % QSZ) + k - QSZ
  BY <1>3, <1>2, Wrap, RingAssumption, SMT DEF Idx
<1>7. QSZ \in Nat /\ a \in Nat /\ n \in Nat /\ k \in Nat /\ a < QSZ
  BY RingAssumption DEF Idx
<1>8. CASE a + n < QSZ
  <2>1. (a + n) % QSZ = a + n
    BY <1>4, <1>8
  <2>2. ((a + n) % QSZ) + k = a + (n + k)
    BY <2>1, <1>7
  <2> QED BY <2>2
<1>9. CASE ~(a + n < QSZ)
  <2>1. (a + n) % QSZ = a + n - QSZ
    BY <1>4, <1>9
  <2>2. ((a + n) % QSZ) + k = a + (n + k) - QSZ
    BY <2>1, <1>7
  <2>3. ((a + n) % QSZ) + k < QSZ /\ ~(a + (n + k) < QSZ)
    BY <2>2, <1>7, <1>9
  <2> QED BY <1>5, <1>6, <2>2, <2>3
<1> QED BY <1>8, <1>9

\* A post never takes a token away, and leaves at least one.
LEMMA PostRange == ASSUME NEW s \in 0 .. SEM_VALUE_MAX
                   PROVE  Post(s) \in 1 .. SEM_VALUE_MAX
  BY RingAssumption DEF Post

-----------------------------------------------------------------------------
(* the inductive invariant *)

\* Freshly created page, no call under way.
LEMMA InitIInv == Init => IInv
<1> SUFFICES ASSUME Init PROVE IInv
  OBVIOUS
<1>1. TypeOK
  <2>1. eventbuf \in [0 .. QSZ - 1 -> Event \cup {Blank}]
    BY DEF Init
  <2>2. esem \in 0 .. SEM_VALUE_MAX /\ 0 \in 0 .. QSZ - 1 /\ 0 \in 0 .. DstCap
    BY RingAssumption DEF Init
  <2> QED BY <2>1, <2>2, Zenon DEF Init, TypeOK, Pcs, Spcs
<1>2. Local
  BY DEF Init, Local
<1>3. Shared
  <2>1. Used = 0 /\ ahead = 0
    BY DEF Init, Used, Dist
  <2> QED BY <2>1 DEF Init, Shared
<1> QED BY <1>1, <1>2, <1>3 DEF IInv

\* Types and what each side knows of its own variables, for any step.
LEMMA NextTypeLocal == IInv /\ [Next]_vars => TypeOK' /\ Local'
<1> SUFFICES ASSUME IInv, [Next]_vars PROVE TypeOK' /\ Local'
  OBVIOUS
<1> USE RingAssumption DEF IInv
<1>a. front \in Idx /\ back \in Idx /\ snap \in Idx /\ ahead \in Idx
  BY DEF TypeOK, Idx
<1>1. CASE Client
  <2>1. ASSUME NEW e \in Event, NEW try \in BOOLEAN, Enqueue_Begin(e, try)
        PROVE  TypeOK' /\ Local'
    BY <2>1 DEF Enqueue_Begin, TypeOK, Local, Pcs, page, server
  <2>2. CASE Enqueue_Migrate
    <3>1. TypeOK'
      BY <2>2 DEF Enqueue_Migrate, TypeOK, Pcs, page, server
    <3>2. Local'
      BY <2>2 DEF Enqueue_Migrate, Local, page, server
    <3> QED BY <3>1, <3>2
  <2>3. CASE Enqueue_Check
    <3>1. TypeOK'
      BY <2>3 DEF Enqueue_Check, TypeOK, Pcs, page, server, check_dms
    <3>2. Local'
      BY <2>3 DEF Enqueue_Check, Local, page, server, check_dms
    <3> QED BY <3>1, <3>2
  <2>4. CASE Enqueue_SemWait
    <3>1. TypeOK'
      BY <2>4 DEF Enqueue_SemWait, TypeOK, Pcs, page, server
    <3>2. Local'
      BY <2>4 DEF Enqueue_SemWait, Local, page, server
    <3> QED BY <3>1, <3>2
  <2>5. CASE Enqueue_Write
    <3>1. TypeOK'
      BY <2>5 DEF Enqueue_Write, TypeOK, Pcs, server
    <3>2. Local'
      BY <2>5 DEF Enqueue_Write, Local, server
    <3> QED BY <3>1, <3>2
  <2>6. CASE Enqueue_Publish
    BY <2>6, <1>a, SuccIdx DEF Enqueue_Publish, TypeOK, Local, Pcs, server, Idx
  <2> QED BY <1>1, <2>1, <2>2, <2>3, <2>4, <2>5, <2>6 DEF Client
<1>2. CASE Engine
  <2>1. CASE Transfer_Begin
    <3>1. TypeOK'
      BY <2>1, Zenon DEF Transfer_Begin, TypeOK, Spcs, page, client
    <3>2. Local'
      BY <2>1 DEF Transfer_Begin, Local, page, client
    <3> QED BY <3>1, <3>2
  <2>2. CASE Transfer_Copy
    <3>1. eventbuf' \in [0 .. QSZ - 1 -> Event \cup {Blank}]
      BY <2>2 DEF Transfer_Copy, TypeOK
    <3>2. inev' \in Event \cup {Blank}
      BY <2>2 DEF Transfer_Copy, TypeOK
    <3>3. TypeOK'
      <4>1. ahead' \in 0 .. QSZ - 1
        BY <2>2 DEF Transfer_Copy
      <4> QED BY <2>2, <3>1, <3>2, <4>1, Zenon DEF Transfer_Copy, TypeOK, Spcs, client
    <3>4. Local'
      BY <2>2 DEF Transfer_Copy, Local, client
    <3> QED BY <3>3, <3>4
  <2>3. CASE Transfer_Release
    <3>1. wake' \in BOOLEAN
      BY <2>3, Zenon DEF Transfer_Release, WakeAfter, TypeOK
    <3>2. Succ(front) \in Idx
      BY <1>a, SuccIdx
    <3> QED BY <2>3, <3>1, <3>2 DEF Transfer_Release, TypeOK, Local, Spcs, client, Idx
  <2>4. CASE Transfer_End
    <3>1. esem' \in 0 .. SEM_VALUE_MAX
      BY <2>4, PostRange DEF Transfer_End, TypeOK
    <3>2. TypeOK'
      BY <2>4, <3>1, Zenon DEF Transfer_End, TypeOK, Spcs, page, client
    <3>3. Local'
      BY <2>4 DEF Transfer_End, Local, page, client
    <3> QED BY <3>2, <3>3
  <2>5. CASE Feed
    <3>1. TypeOK'
      BY <2>5 DEF Feed, TypeOK, Spcs, page, client
    <3>2. Local'
      BY <2>5 DEF Feed, Local, page, client
    <3> QED BY <3>1, <3>2
  <2> QED BY <1>2, <2>1, <2>2, <2>3, <2>4, <2>5 DEF Engine
<1>3. CASE Shmifsrv
  <2>1. CASE Dequeue_Begin
    <3>1. Dist(front, back) \in Idx
      BY <1>a, DistRange
    <3> QED BY <2>1, <3>1 DEF Dequeue_Begin, TypeOK, Local, Spcs, page, client, Idx, Dist
  <2>2. CASE Dequeue_Copy
    <3>1. ahead \in 0 .. Dist(front, snap) /\ Dist(front, snap) \in Idx
      BY <2>2, <1>a, DistRange DEF Dequeue_Copy, Local, Idx
    <3>2. ahead + 1 \in Idx /\ ahead + 1 <= Dist(front, snap)
      BY <2>2, <1>a, <3>1, DistAdvance DEF Dequeue_Copy, Idx
    <3>3. (front + ahead) % QSZ \in Idx
      BY <1>a, <3>1, DistAdvance
    <3> QED BY <2>2, <3>2, <3>3 DEF Dequeue_Copy, TypeOK, Local, Spcs, page, client, Idx, Dist
  <2>3. CASE Dequeue_Release
    <3>1. (front + ahead) % QSZ \in Idx
      BY <1>a, SlotIdx
    <3> QED BY <2>3, <3>1 DEF Dequeue_Release, TypeOK, Local, Spcs, client, Idx
  <2>4. CASE Dequeue_Post
    <3>1. TypeOK'
      <4>1. esem' \in 0 .. SEM_VALUE_MAX
        BY <2>4, PostRange DEF Dequeue_Post, TypeOK
      <4> QED BY <2>4, <4>1, Zenon DEF Dequeue_Post, TypeOK, Spcs, page, client
    <3>2. Local'
      BY <2>4 DEF Dequeue_Post, Local, page, client
    <3> QED BY <3>1, <3>2
  <2> QED BY <1>3, <2>1, <2>2, <2>3, <2>4 DEF Shmifsrv
<1>4. CASE Guard
  <2>1. CASE Guard_Flags
    <3>1. TypeOK'
      BY <2>1, Zenon DEF Guard_Flags, TypeOK, page, client, server
    <3>2. Local'
      BY <2>1 DEF Guard_Flags, Local, page, client, server, Dist
    <3> QED BY <3>1, <3>2
  <2>2. CASE Guard_Post
    <3>1. TypeOK'
      <4>1. esem' \in 0 .. SEM_VALUE_MAX
        BY <2>2, PostRange DEF Guard_Post, TypeOK
      <4> QED BY <2>2, <4>1, Zenon DEF Guard_Post, TypeOK, page, client, server
    <3>2. Local'
      BY <2>2 DEF Guard_Post, Local, page, client, server, Dist
    <3> QED BY <3>1, <3>2
  <2> QED BY <1>4, <2>1, <2>2 DEF Guard
<1>5. CASE Environment
  <2>1. CASE Crash
    <3>1. TypeOK'
      BY <2>1 DEF Crash, TypeOK, page, client, server
    <3>2. Local'
      BY <2>1 DEF Crash, Local, page, client, server, Dist
    <3> QED BY <3>1, <3>2
  <2>2. CASE Destroy
    <3>1. TypeOK'
      BY <2>2, Zenon DEF Destroy, TypeOK, page, client, server
    <3>2. Local'
      BY <2>2 DEF Destroy, Local, page, client, server, Dist
    <3> QED BY <3>1, <3>2
  <2>3. CASE Destroy_KeepDms
    <3>1. TypeOK'
      <4>1. esem' \in 0 .. SEM_VALUE_MAX
        BY <2>3, PostRange DEF Destroy_KeepDms, TypeOK
      <4> QED BY <2>3, <4>1, Zenon DEF Destroy_KeepDms, TypeOK, client, server
    <3>2. Local'
      BY <2>3 DEF Destroy_KeepDms, Local, client, server, Dist
    <3> QED BY <3>1, <3>2
  <2>4. CASE Exit
    <3>1. TypeOK'
      BY <2>4, Zenon DEF Exit, TypeOK, page, server
    <3>2. Local'
      BY <2>4 DEF Exit, Local, page, server, Dist
    <3> QED BY <3>1, <3>2
  <2> QED BY <1>5, <2>1, <2>2, <2>3, <2>4 DEF Environment
<1>6. CASE UNCHANGED vars
  BY <1>6 DEF vars, page, client, server, TypeOK, Local, Dist
<1> QED BY <1>1, <1>2, <1>3, <1>4, <1>5, <1>6 DEF Next

\* What the two ends know of the ring.  A step that ends the connection has
\* nothing to show; the others move one index or fill one slot.
LEMMA NextShared == IInv /\ [Next]_vars => Shared'
<1> SUFFICES ASSUME IInv, [Next]_vars, Open' PROVE Shared'
  BY DEF Shared
<1> USE RingAssumption DEF IInv
<1>a. front \in Idx /\ back \in Idx /\ snap \in Idx /\ ahead \in Idx
  BY DEF TypeOK, Idx
<1>b. Used \in Idx
  BY <1>a, DistRange DEF Used
<1>c. Full <=> Used = QSZ - 1
  BY <1>a, DistPush DEF Full, Used
<1>d. Empty <=> Used = 0
  BY <1>a DEF Empty, Used, Dist, Idx
<1> DEFINE Filled(k) == eventbuf[(front + k) % QSZ] \in Event
<1>1. CASE Client
  <2>1. ASSUME NEW e \in Event, NEW try \in BOOLEAN, Enqueue_Begin(e, try)
        PROVE  Shared'
    BY <2>1 DEF Enqueue_Begin, Shared, Open, check_dms, Used, Dist, page, server
  <2>2. CASE Enqueue_Migrate
    BY <2>2 DEF Enqueue_Migrate, Shared, Open, check_dms, Used, Dist, page, server
  <2>3. CASE Enqueue_Check
    <3>1. Open /\ Used' = Used /\ pc' \in {"sem", "write"}
      BY <2>3 DEF Enqueue_Check, Open, check_dms, Used, Dist, page, server
    <3>2. pc' = "write" => Used < QSZ - 1
      BY <2>3, <3>1, <1>b, <1>c DEF Enqueue_Check, Open, Idx
    <3> QED BY <2>3, <3>1, <3>2 DEF Enqueue_Check, Shared, Used, Dist, page, server
  <2>4. CASE Enqueue_SemWait
    BY <2>4 DEF Enqueue_SemWait, Shared, Open, check_dms, Used, Dist, page, server
  <2>5. CASE Enqueue_Write
    <3>1. Open /\ Used' = Used /\ Used < QSZ - 1
      BY <2>5 DEF Enqueue_Write, Open, check_dms, Used, Dist, server, Shared
    <3>2. eventbuf'[back] = ev
      BY <2>5, <1>a DEF Enqueue_Write, TypeOK, Idx
    <3>3. ASSUME NEW k \in ahead .. Used - 1
          PROVE  eventbuf'[(front + k) % QSZ] \in Event
      <4>1. Filled(k) /\ k \in Idx
        BY <3>1, <1>a, <1>b DEF Shared, Idx
      <4>2. (front + k) % QSZ \in Idx /\ (front + k) % QSZ # back
        BY <4>1, <1>a, <1>b, SlotIdx DEF Used, Idx
      <4> QED BY <2>5, <4>1, <4>2 DEF Enqueue_Write, TypeOK, Idx
    <3> QED BY <2>5, <3>1, <3>2, <3>3 DEF Enqueue_Write, Shared, Used, Dist, server
  <2>6. CASE Enqueue_Publish
    <3>1. Open /\ Used < QSZ - 1 /\ eventbuf[back] = ev /\ ev \in Event
      BY <2>6 DEF Enqueue_Publish, Open, check_dms, Used, Dist, server, Shared, Local
    <3>2. Used' = Used + 1
      BY <2>6, <3>1, <1>a, DistPush DEF Enqueue_Publish, Used, Dist
    <3>3. ASSUME NEW k \in ahead .. Used
          PROVE  Filled(k)
      <4>1. CASE k = Used
        BY <4>1, <3>1, <1>a, <1>b, SlotIdx DEF Used
      <4>2. CASE k # Used
        <5>1. k \in ahead .. Used - 1
          BY <4>2, <1>a, <1>b DEF Idx
        <5> QED BY <3>1, <5>1 DEF Shared
      <4> QED BY <4>1, <4>2
    <3>4. Dist(front, snap)' = Dist(front, snap)
      BY <2>6 DEF Enqueue_Publish, Dist, server
    <3>5. \A k \in ahead' .. Used' - 1 : (eventbuf[(front + k) % QSZ] \in Event)'
      BY <2>6, <3>2, <3>3, <1>b DEF Enqueue_Publish, server, Idx
    <3>6. (spc = "release" => Used >= 1 /\ inev \in Event)'
      BY <2>6, <3>1, <3>2, <1>b DEF Enqueue_Publish, Shared, server, Idx
    <3>7. (spc = "batch" => Dist(front, snap) <= Used)'
      <4>1. Dist(front, snap) \in Idx
        BY <1>a, DistRange
      <4> QED BY <2>6, <3>1, <3>2, <3>4, <4>1, <1>b DEF Enqueue_Publish, Shared, server, Idx
    <3> QED BY <2>6, <3>5, <3>6, <3>7 DEF Enqueue_Publish, Shared
  <2> QED BY <1>1, <2>1, <2>2, <2>3, <2>4, <2>5, <2>6 DEF Client
<1>2. CASE Engine
  <2>1. CASE Transfer_Begin
    BY <2>1, ZenonT(30) DEF Transfer_Begin, Shared, Open, check_dms, Used, Dist, page, client
  <2>2. CASE Transfer_Copy
    <3>1. Open /\ Used' = Used /\ Used >= 1 /\ ahead = 0
      BY <2>2, <1>b, <1>d DEF Transfer_Copy, Open, check_dms, Used, Dist, client, Local, Idx
    <3>2. Filled(0) /\ (front + 0) % QSZ = front
      <4>1. (front + 0) % QSZ = front
        BY <1>a, Wrap DEF Idx
      <4>2. 0 \in ahead .. Used - 1
        BY <3>1, <1>b DEF Idx
      <4>3. Filled(0)
        BY <3>1, <4>2 DEF Shared
      <4> QED BY <4>1, <4>3
    <3>3. ASSUME NEW k \in 1 .. Used - 1
          PROVE  eventbuf'[(front + k) % QSZ] \in Event
      <4>1. Filled(k) /\ k \in Idx
        BY <3>1, <1>b DEF Shared, Idx
      <4>2. (front + k) % QSZ \in Idx /\ (front + k) % QSZ # front
        BY <4>1, <1>a, SlotIdx DEF Dist, Idx
      <4> QED BY <2>2, <4>1, <4>2 DEF Transfer_Copy, TypeOK, Idx
    <3>4. (pc \in {"write", "publish"} => Used < QSZ - 1)'
      BY <2>2, <3>1 DEF Transfer_Copy, client, Shared
    <3>5. (pc = "publish" => eventbuf[back] = ev)'
      <4>1. back # front
        BY <2>2 DEF Transfer_Copy, Empty
      <4> QED BY <2>2, <3>1, <4>1, <1>a DEF Transfer_Copy, client, Shared, TypeOK, Idx
    <3>6. (spc = "release" => Used >= 1 /\ inev \in Event)'
      BY <2>2, <3>1, <3>2 DEF Transfer_Copy
    <3>7. (\A k \in ahead .. Used - 1 : eventbuf[(front + k) % QSZ] \in Event)'
      BY <2>2, <3>1, <3>3 DEF Transfer_Copy
    <3>8. (spc = "batch" => Dist(front, snap) <= Used)'
      BY <2>2 DEF Transfer_Copy
    <3> QED BY <3>4, <3>5, <3>6, <3>7, <3>8 DEF Shared
  <2>3. CASE Transfer_Release
    <3>1. Open /\ Used >= 1 /\ ahead = 1 /\ ahead' = 0
      BY <2>3 DEF Transfer_Release, Open, check_dms, client, Local, Shared
    <3>2. front' = (front + 1) % QSZ /\ Used' = Used - 1
      BY <2>3, <3>1, <1>a, <1>b, DistAdvance DEF Transfer_Release, Used, Dist, Succ, Idx
    <3>3. ASSUME NEW k \in ahead' .. Used' - 1
          PROVE  (eventbuf[(front + k) % QSZ] \in Event)'
      <4>1. 1 \in Idx /\ k \in Idx /\ 1 + k <= QSZ - 1 /\ 1 + k \in ahead .. Used - 1
        BY <3>1, <3>2, <1>b DEF Idx
      <4>2. Filled(1 + k)
        BY <3>1, <4>1 DEF Shared
      <4>3. (front' + k) % QSZ = (front + (1 + k)) % QSZ
        BY <3>2, <4>1, <1>a, SlotAdd
      <4> QED BY <2>3, <4>2, <4>3 DEF Transfer_Release
    <3>4. (pc \in {"write", "publish"} => Used < QSZ - 1)'
      BY <2>3, <3>1, <3>2, <1>b DEF Transfer_Release, client, Shared, Idx
    <3>5. (pc = "publish" => eventbuf[back] = ev)'
      BY <2>3, <3>1 DEF Transfer_Release, client, Shared
    <3> QED BY <2>3, <3>3, <3>4, <3>5 DEF Transfer_Release, Shared
  <2>4. CASE Transfer_End
    BY <2>4 DEF Transfer_End, Shared, Open, check_dms, Used, Dist, page, client
  <2>5. CASE Feed
    BY <2>5 DEF Feed, Shared, Open, check_dms, Used, Dist, page, client
  <2> QED BY <1>2, <2>1, <2>2, <2>3, <2>4, <2>5 DEF Engine
<1>3. CASE Shmifsrv
  <2>1. CASE Dequeue_Begin
    <3>1. Open /\ Used' = Used /\ ahead = 0 /\ ahead' = 0
      BY <2>1 DEF Dequeue_Begin, Open, check_dms, Used, Dist, page, client, Local
    <3>2. (Dist(front, snap) <= Used)'
      BY <2>1, <1>b, <3>1 DEF Dequeue_Begin, Used, Dist, page, Idx
    <3> QED BY <2>1, <3>1, <3>2 DEF Dequeue_Begin, Shared, page, client
  <2>2. CASE Dequeue_Copy
    <3>1. Open /\ Used' = Used /\ ahead' = ahead + 1
      BY <2>2 DEF Dequeue_Copy, Open, check_dms, Used, Dist, page, client
    <3>2. Dist(front, snap)' = Dist(front, snap)
      BY <2>2 DEF Dequeue_Copy, Dist, page
    <3>3. \A k \in ahead' .. Used' - 1 : k \in ahead .. Used - 1
      BY <3>1, <1>a, <1>b DEF Idx
    <3> QED BY <2>2, <3>1, <3>2, <3>3 DEF Dequeue_Copy, Shared, page, client
  <2>3. CASE Dequeue_Release
    <3>1. Open /\ ahead' = 0 /\ ahead \in 0 .. Used
      <4>1. Open /\ ahead <= Dist(front, snap) /\ Dist(front, snap) <= Used
        BY <2>3 DEF Dequeue_Release, Open, check_dms, client, Local, Shared
      <4>2. Dist(front, snap) \in Idx
        BY <1>a, DistRange
      <4> QED BY <2>3, <4>1, <4>2, <1>a, <1>b DEF Dequeue_Release, Idx
    <3>2. front' = (front + ahead) % QSZ /\ Used' = Used - ahead
      <4>1. front' = (front + ahead) % QSZ /\ Used' = Dist(front', back)
        BY <2>3 DEF Dequeue_Release, Used, Dist
      <4> QED BY <4>1, <3>1, <1>a, DistAdvance DEF Used
    <3>3. ASSUME NEW k \in ahead' .. Used' - 1
          PROVE  (eventbuf[(front + k) % QSZ] \in Event)'
      <4>1. k \in Idx /\ ahead + k <= QSZ - 1 /\ ahead + k \in ahead .. Used - 1
        BY <3>1, <3>2, <1>a, <1>b DEF Idx
      <4>2. Filled(ahead + k)
        BY <3>1, <4>1 DEF Shared
      <4>3. (front' + k) % QSZ = (front + (ahead + k)) % QSZ
        BY <3>2, <4>1, <1>a, SlotAdd
      <4> QED BY <2>3, <4>2, <4>3 DEF Dequeue_Release
    <3>4. (pc \in {"write", "publish"} => Used < QSZ - 1)'
      BY <2>3, <3>1, <3>2, <1>a, <1>b DEF Dequeue_Release, client, Shared, Idx
    <3>5. (pc = "publish" => eventbuf[back] = ev)'
      BY <2>3, <3>1 DEF Dequeue_Release, client, Shared
    <3> QED BY <2>3, <3>3, <3>4, <3>5 DEF Dequeue_Release, Shared
  <2>4. CASE Dequeue_Post
    BY <2>4 DEF Dequeue_Post, Shared, Open, check_dms, Used, Dist, page, client
  <2> QED BY <1>3, <2>1, <2>2, <2>3, <2>4 DEF Shmifsrv
<1>4. CASE Guard
  <2>1. ~Guard_Flags
    BY DEF Guard_Flags, Open, check_dms
  <2>2. CASE Guard_Post
    BY <2>2 DEF Guard_Post, Shared, Open, check_dms, Used, Dist, page, client, server
  <2> QED BY <1>4, <2>1, <2>2 DEF Guard
<1>5. CASE Environment
  BY <1>5 DEF Environment, Crash, Destroy, Destroy_KeepDms, Exit, Open, check_dms
<1>6. CASE UNCHANGED vars
  BY <1>6 DEF vars, page, client, server, Shared, Open, check_dms, Used, Dist
<1> QED BY <1>1, <1>2, <1>3, <1>4, <1>5, <1>6 DEF Next

\* Every reachable state of the ring satisfies the inductive invariant.
THEOREM Inductive == Spec => []IInv
<1>1. IInv /\ [Next]_vars => IInv'
  BY NextTypeLocal, NextShared DEF IInv
<1> QED BY InitIInv, <1>1, PTL DEF Spec

\* Type correctness: in particular front and back stay valid indices and the
\* batch of shmifsrv_dequeue_events never runs past the ring.
THEOREM RingTypes == Spec => []TypeOK
<1>1. IInv => TypeOK
  BY DEF IInv
<1> QED BY Inductive, <1>1, PTL

-----------------------------------------------------------------------------
(* no lost wakeup *)

\* When the consumer acknowledges every event the client sends by a post.
Acknowledging == Kinds \subseteq {"EXTERNAL", "PLANE_LAST"} \/ Consumer = "shmifsrv"

\* A client asleep in enqueue_internal without a token is asleep for a reason
\* that still holds, or a post is on its way: for every queue size, provided
\* every event sent is one the consumer acknowledges and the server does not
\* destroy the segment while it lives on (Destroy posts nothing).
THEOREM NoLostWakeup ==
  ASSUME Acknowledging, "destroy" \notin Faults
  PROVE  Spec => []AsleepForAReason
<1>1. Init => AsleepForAReason
  BY DEF Init, AsleepForAReason
<1>2. IInv /\ AsleepForAReason /\ [Next]_vars => AsleepForAReason'
  <2> SUFFICES ASSUME IInv, AsleepForAReason, [Next]_vars, (pc = "sem" /\ esem = 0)'
               PROVE  AsleepForAReason'
    BY DEF AsleepForAReason
  <2> USE RingAssumption
  <2>a. esem \in 0 .. SEM_VALUE_MAX /\ Post(esem) \in 1 .. SEM_VALUE_MAX
    BY PostRange, ZenonT(30) DEF IInv, TypeOK
  <2>1. CASE Client
    <3>1. CASE Enqueue_Check
      BY <3>1 DEF Enqueue_Check, AsleepForAReason, check_dms, Full, page
    <3> QED BY <2>1, <3>1 DEF Client, Enqueue_Begin, Enqueue_Migrate, Enqueue_SemWait,
                              Enqueue_Write, Enqueue_Publish
  <2>2. CASE Engine
    <3>1. CASE Transfer_Begin
      BY <3>1 DEF Transfer_Begin, AsleepForAReason, check_dms, Full, page, client,
                  IInv, Local
    <3>2. CASE Transfer_Copy
      BY <3>2 DEF Transfer_Copy, AsleepForAReason, check_dms, Full, client
    <3>3. CASE Transfer_Release
      <4>1. Kinds \subseteq {"EXTERNAL", "PLANE_LAST"}
        BY <3>3 DEF Transfer_Release, IInv, Local, Acknowledging
      <4>2. inev \in Event => wake' = TRUE
        BY <3>3, <4>1 DEF Transfer_Release, WakeAfter, Event
      <4>3. inev = Blank => wake' = wake
        BY <3>3 DEF Transfer_Release, WakeAfter, Blank
      <4>4. inev \in Event \/ inev = Blank
        BY ZenonT(30) DEF IInv, TypeOK
      <4>5. check_dms => inev \in Event
        BY <3>3 DEF Transfer_Release, IInv, Shared, Open
      <4> QED BY <3>3, <4>2, <4>3, <4>4, <4>5 DEF Transfer_Release, AsleepForAReason, client
    <3>4. CASE Transfer_End
      BY <3>4, <2>a DEF Transfer_End, AsleepForAReason, check_dms, Full, page, client
    <3>5. CASE Feed
      BY <3>5 DEF Feed, AsleepForAReason, check_dms, Full, page, client
    <3> QED BY <2>2, <3>1, <3>2, <3>3, <3>4, <3>5 DEF Engine
  <2>3. CASE Shmifsrv
    <3>1. CASE Dequeue_Begin
      BY <3>1 DEF Dequeue_Begin, AsleepForAReason, check_dms, Full, page, client
    <3>2. CASE Dequeue_Copy
      BY <3>2 DEF Dequeue_Copy, AsleepForAReason, check_dms, Full, page, client
    <3>3. CASE Dequeue_Release
      BY <3>3 DEF Dequeue_Release, AsleepForAReason
    <3>4. CASE Dequeue_Post
      BY <3>4, <2>a DEF Dequeue_Post
    <3> QED BY <2>3, <3>1, <3>2, <3>3, <3>4 DEF Shmifsrv
  <2>4. CASE Guard
    <3>1. CASE Guard_Flags
      BY <3>1 DEF Guard_Flags, AsleepForAReason
    <3>2. CASE Guard_Post
      BY <3>2, <2>a DEF Guard_Post
    <3> QED BY <2>4, <3>1, <3>2 DEF Guard
  <2>5. CASE Environment
    <3>1. CASE Crash
      BY <3>1 DEF Crash, AsleepForAReason, IInv, Local
    <3>2. CASE Destroy_KeepDms
      BY <3>2, <2>a DEF Destroy_KeepDms
    <3> QED BY <2>5, <3>1, <3>2 DEF Environment, Destroy, Exit
  <2>6. CASE UNCHANGED vars
    BY <2>6 DEF vars, page, client, server, AsleepForAReason, check_dms, Full
  <2> QED BY <2>1, <2>2, <2>3, <2>4, <2>5, <2>6 DEF Next
<1> QED BY Inductive, <1>1, <1>2, PTL DEF Spec

-----------------------------------------------------------------------------
(* the ring implements the channel *)

\* A sequence without its first element.
LEMMA IsTail == ASSUME NEW S, NEW n \in Nat, n >= 1,
                       NEW s \in [1 .. n -> S], NEW t \in [1 .. n - 1 -> S],
                       \A k \in 1 .. n - 1 : t[k] = s[k + 1]
                PROVE  s # << >> /\ s[1] = Head(s) /\ t = Tail(s)
<1>1. s \in Seq(S) /\ Len(s) = n /\ t \in Seq(S) /\ Len(t) = n - 1
  OBVIOUS
<1>2. s # << >> /\ Tail(s) \in Seq(S) /\ Len(Tail(s)) = n - 1
  BY <1>1
<1>3. \A k \in 1 .. n - 1 : Tail(s)[k] = s[k + 1]
  BY <1>1
<1> QED BY <1>1, <1>2, <1>3

\* A sequence with one element more.
LEMMA IsAppend == ASSUME NEW S, NEW n \in Nat, NEW e \in S,
                         NEW s \in [1 .. n -> S], NEW t \in [1 .. n + 1 -> S],
                         \A k \in 1 .. n : t[k] = s[k], t[n + 1] = e
                  PROVE  t = Append(s, e)
<1>1. s \in Seq(S) /\ Len(s) = n /\ t \in Seq(S) /\ Len(t) = n + 1
  OBVIOUS
<1>2. Append(s, e) \in Seq(S) /\ Len(Append(s, e)) = n + 1
  BY <1>1
<1>3. \A k \in 1 .. n + 1 : Append(s, e)[k] = t[k]
  BY <1>1
<1> QED BY <1>1, <1>2, <1>3

\* How many events are in flight; they are a sequence of events.
Flying == Used - ahead

WellFormed == /\ Flying \in Nat /\ Flying <= QSZ - 1
              /\ InFlight \in [1 .. Flying -> Event]
              /\ Len(InFlight) = Flying

\* On a usable connection the events in flight are a sequence of events.
LEMMA InFlightType == IInv /\ Open => WellFormed
<1> SUFFICES ASSUME IInv, Open PROVE WellFormed
  OBVIOUS
<1>a. front \in Idx /\ back \in Idx /\ snap \in Idx /\ ahead \in Idx
  BY DEF IInv, TypeOK, Idx
<1>b. Used \in Idx /\ Dist(front, snap) \in Idx
  BY <1>a, DistRange DEF Used
<1>1. ahead <= Used
  BY <1>a, <1>b DEF IInv, Local, Shared, Idx
<1>2. Flying \in Nat /\ Flying <= QSZ - 1
  BY <1>1, <1>a, <1>b, RingAssumption DEF Flying, Idx
<1>3. ASSUME NEW k \in 1 .. Flying
      PROVE  eventbuf[(front + ahead + k - 1) % QSZ] \in Event
  <2>1. ahead + k - 1 \in ahead .. Used - 1
    BY <1>1, <1>a, <1>b DEF Flying, Idx
  <2>2. front + ahead + k - 1 = front + (ahead + k - 1)
    BY <1>a, <1>2 DEF Idx
  <2> QED BY <2>1, <2>2 DEF IInv, Shared
<1>4. InFlight \in [1 .. Flying -> Event]
  BY <1>3 DEF InFlight, Flying
<1>5. Len(InFlight) = Flying
  BY <1>2, <1>4
<1> QED BY <1>2, <1>4, <1>5 DEF WellFormed

\* Every step of the ring is a step of the channel or leaves it unchanged:
\* `back' moving is Send, a copy is Receive, a step that makes the connection
\* unusable, or is taken when it is, is Lose.
LEMMA StepSimulation ==
  IInv /\ IInv' /\ [Next]_vars => [Channel!Next]_(Channel!chanVars)
<1> SUFFICES ASSUME IInv, IInv', [Next]_vars
             PROVE  Channel!Next \/ UNCHANGED Channel!chanVars
  OBVIOUS
<1> DEFINE Same == InFlight' = InFlight /\ inev' = inev
<1>a. front \in Idx /\ back \in Idx /\ ahead \in Idx /\ Used \in Idx
  <2>1. front \in Idx /\ back \in Idx /\ ahead \in Idx
    BY DEF IInv, TypeOK, Idx
  <2> QED BY <2>1, DistRange DEF Used
<1>1. CASE ~Open'
  BY <1>1 DEF Channel!Next, Channel!Lose, Open
<1>2. CASE Open'
  <2> USE <1>2
  <2>1. Open
    BY ZenonT(60) DEF Next, Client, Engine, Shmifsrv, Guard, Environment, Enqueue_Begin,
      Enqueue_Migrate, Enqueue_Check, Enqueue_SemWait, Enqueue_Write, Enqueue_Publish,
      Transfer_Begin, Transfer_Copy, Transfer_Release, Transfer_End, Feed,
      Dequeue_Begin, Dequeue_Copy, Dequeue_Release, Dequeue_Post, Guard_Flags,
      Guard_Post, Crash, Destroy, Destroy_KeepDms, Exit, vars, client, Open, check_dms
  <2>2. WellFormed /\ WellFormed'
    <3>1. IInv' /\ Open' => WellFormed'
      BY InFlightType, PTL
    <3> QED BY <2>1, <3>1, InFlightType
  <2>3. Same => UNCHANGED Channel!chanVars
    BY <2>1 DEF Channel!chanVars, Open
  <2>4. ASSUME NEW e \in Event, inev' = inev, Flying < QSZ - 1,
               InFlight' = Append(InFlight, e)
        PROVE  Channel!Send
    BY <2>1, <2>2, <2>4 DEF Channel!Send, Open, WellFormed
  <2>5. ASSUME Flying >= 1, Flying' = Flying - 1, inev' = InFlight[1],
               \A k \in 1 .. Flying - 1 : InFlight'[k] = InFlight[k + 1]
        PROVE  Channel!Receive
    <3>1. /\ Flying \in Nat /\ InFlight \in [1 .. Flying -> Event]
          /\ InFlight' \in [1 .. Flying - 1 -> Event]
      BY <2>2, <2>5 DEF WellFormed, Event
    <3>2. InFlight # << >> /\ InFlight[1] = Head(InFlight) /\ InFlight' = Tail(InFlight)
      BY <2>5, <3>1, IsTail
    <3> QED BY <2>1, <2>5, <3>2 DEF Channel!Receive, Open
  <2>6. ASSUME UNCHANGED page, ahead' = ahead, inev' = inev
        PROVE  UNCHANGED Channel!chanVars
    BY <2>3, <2>6 DEF InFlight, Used, Dist, page
  <2>7. CASE Client
    <3>1. CASE Enqueue_Write
      <4>1. Used' = Used /\ front' = front /\ ahead' = ahead
        BY <3>1, ZenonT(30) DEF Enqueue_Write, Used, Dist, server
      <4>2. ASSUME NEW k \in 1 .. Flying
            PROVE  eventbuf'[(front + ahead + k - 1) % QSZ]
                     = eventbuf[(front + ahead + k - 1) % QSZ]
        <5>1. ahead + k - 1 \in 0 .. Used - 1 /\ front + ahead + k - 1 = front + (ahead + k - 1)
          BY <1>a, <2>2 DEF WellFormed, Flying, Idx
        <5>2. (front + (ahead + k - 1)) % QSZ # back
          <6>1. ahead + k - 1 \in Idx /\ ahead + k - 1 # Dist(front, back)
            BY <1>a, <5>1, RingAssumption DEF Used, Idx
          <6> QED BY <6>1, <1>a, SlotIdx
        <5> QED BY <3>1, <5>1, <5>2, <1>a DEF Enqueue_Write, IInv, TypeOK
      <4>3. InFlight' = InFlight
        BY <4>1, <4>2 DEF InFlight, Flying
      <4> QED BY <3>1, <4>3, <2>3 DEF Enqueue_Write, server
    <3>2. CASE Enqueue_Publish
      <4>1. Used < QSZ - 1 /\ eventbuf[back] = ev /\ ev \in Event
        BY <3>2, <2>1, ZenonT(30) DEF Enqueue_Publish, IInv, Shared, Local
      <4>2. Used' = Used + 1 /\ front' = front /\ ahead' = ahead /\ eventbuf' = eventbuf
        BY <3>2, <4>1, <1>a, DistPush DEF Enqueue_Publish, Used, Dist, server
      <4>3. Flying' = Flying + 1 /\ Flying < QSZ - 1 /\ Flying \in Nat
        <5>1. Flying \in Nat
          BY <2>2 DEF WellFormed
        <5> QED BY <4>1, <4>2, <5>1, <1>a, RingAssumption DEF Flying, Idx
      <4>4. /\ InFlight \in [1 .. Flying -> Event]
            /\ InFlight' \in [1 .. Flying + 1 -> Event]
        BY <2>2, <4>3 DEF WellFormed, Event
      <4>5. \A k \in 1 .. Flying : InFlight'[k] = InFlight[k]
        BY <4>2, <4>3, <1>a DEF InFlight, Flying, Idx
      <4>6. InFlight'[Flying + 1] = ev
        <5>1. front + ahead + (Flying + 1) - 1 = front + Used
          BY <1>a DEF Flying, Idx
        <5>2. (front + Used) % QSZ = back
          BY <1>a, SlotIdx DEF Used
        <5>3. InFlight'[Flying + 1] = eventbuf[(front + ahead + (Flying + 1) - 1) % QSZ]
          BY <4>2, <4>3, <1>a DEF InFlight, Flying, Idx
        <5> QED BY <5>1, <5>2, <5>3, <4>1
      <4>7. InFlight' = Append(InFlight, ev)
        BY <4>1, <4>3, <4>4, <4>5, <4>6, IsAppend
      <4> QED BY <3>2, <4>1, <4>3, <4>7, <2>4, ZenonT(30) DEF Enqueue_Publish, server, Channel!Next
    <3> QED BY <2>7, <3>1, <3>2, <2>6 DEF Client, Enqueue_Begin, Enqueue_Migrate,
                                    Enqueue_Check, Enqueue_SemWait, server
  <2>8. CASE Engine
    <3>1. CASE Transfer_Copy
      <4>1. Used' = Used /\ front' = front /\ ahead = 0 /\ ahead' = 1 /\ Used >= 1
        <5>1. Used' = Used /\ front' = front /\ ahead' = 1 /\ front # back
          BY <3>1 DEF Transfer_Copy, Empty, Used, Dist
        <5>2. Used >= 1
          BY <5>1, <1>a, RingAssumption DEF Used, Dist, Idx
        <5>3. ahead = 0
          BY <3>1 DEF Transfer_Copy, IInv, Local
        <5> QED BY <5>1, <5>2, <5>3
      <4>2. Flying >= 1 /\ Flying' = Flying - 1
        BY <4>1, <1>a DEF Flying, Idx
      <4>3. inev' = InFlight[1]
        <5>1. front + ahead + 1 - 1 = front /\ front % QSZ = front
          BY <4>1, <1>a, Wrap, RingAssumption DEF Idx
        <5> QED BY <3>1, <4>1, <5>1, <1>a DEF Transfer_Copy, InFlight, Idx
      <4>4. ASSUME NEW k \in 1 .. Flying - 1
            PROVE  InFlight'[k] = InFlight[k + 1]
        <5>1. /\ k \in Idx /\ k # 0 /\ k \in 1 .. Used' - ahead' /\ k + 1 \in 1 .. Used - ahead
              /\ front + 0 + (k + 1) - 1 = front + k /\ front + 1 + k - 1 = front + k
          <6>1. Flying = Used
            BY <4>1, <1>a DEF Flying, Idx
          <6> QED BY <6>1, <4>1, <1>a, RingAssumption DEF Idx
        <5>2. (front + k) % QSZ # front /\ (front + k) % QSZ \in Idx
          BY <5>1, <1>a, SlotIdx DEF Dist, Idx
        <5>3. eventbuf'[(front + k) % QSZ] = eventbuf[(front + k) % QSZ]
          BY <3>1, <5>2 DEF Transfer_Copy, IInv, TypeOK, Idx
        <5> QED BY <4>1, <5>1, <5>3 DEF InFlight
      <4> QED BY <4>2, <4>3, <4>4, <2>5 DEF Channel!Next
    <3>2. CASE Transfer_Release
      <4>1. ahead = 1 /\ ahead' = 0 /\ Used >= 1 /\ eventbuf' = eventbuf
        BY <3>2, <2>1 DEF Transfer_Release, IInv, Local, Shared
      <4>2. front' = (front + 1) % QSZ /\ Used' = Used - 1
        <5>1. front' = (front + 1) % QSZ /\ Used' = Dist(front', back)
          BY <3>2 DEF Transfer_Release, Succ, Used, Dist
        <5> QED BY <4>1, <5>1, <1>a, DistAdvance DEF Used, Idx
      <4>3. ASSUME NEW k \in 1 .. Used - 1
            PROVE  (front' + 0 + k - 1) % QSZ = (front + 1 + k - 1) % QSZ
        <5>1. /\ 1 \in Idx /\ k - 1 \in Idx /\ 1 + (k - 1) <= QSZ - 1
              /\ front + 1 + k - 1 = front + (1 + (k - 1))
          BY <1>a, RingAssumption DEF Idx
        <5>2. front' \in Idx
          BY DEF IInv, TypeOK, Idx
        <5>3. front' + 0 + k - 1 = front' + (k - 1)
          BY <5>2 DEF Idx
        <5> QED BY <4>2, <5>1, <5>3, <1>a, SlotAdd
      <4>4. InFlight' = InFlight
        BY <4>1, <4>2, <4>3, <1>a DEF InFlight, Idx
      <4> QED BY <3>2, <4>4, <2>3, ZenonT(30) DEF Transfer_Release
    <3> QED BY <2>8, <3>1, <3>2, <2>6 DEF Engine, Transfer_Begin, Transfer_End, Feed
  <2>9. CASE Shmifsrv
    <3>1. CASE Dequeue_Begin
      BY <3>1, <2>6 DEF Dequeue_Begin, IInv, Local
    <3>2. CASE Dequeue_Copy
      <4>1. Used' = Used /\ front' = front /\ ahead' = ahead + 1 /\ eventbuf' = eventbuf
        BY <3>2 DEF Dequeue_Copy, Used, Dist, page
      <4>2. Flying >= 1 /\ Flying' = Flying - 1
        BY <4>1, <2>2, <1>a DEF Flying, WellFormed, Idx
      <4>3. inev' = InFlight[1]
        <5>1. front + ahead + 1 - 1 = front + ahead
          BY <1>a DEF Idx
        <5> QED BY <3>2, <4>2, <5>1, <1>a DEF Dequeue_Copy, InFlight, Flying, Idx
      <4>4. ASSUME NEW k \in 1 .. Flying - 1
            PROVE  InFlight'[k] = InFlight[k + 1]
        <5>1. /\ k \in 1 .. Used' - ahead' /\ k + 1 \in 1 .. Used - ahead
              /\ front + (ahead + 1) + k - 1 = front + ahead + (k + 1) - 1
          BY <4>1, <1>a DEF Flying, Idx
        <5> QED BY <4>1, <5>1 DEF InFlight
      <4> QED BY <4>2, <4>3, <4>4, <2>5 DEF Channel!Next
    <3>3. CASE Dequeue_Release
      <4>1. ahead' = 0 /\ ahead \in 0 .. Used /\ eventbuf' = eventbuf
        BY <3>3, <2>2, <1>a DEF Dequeue_Release, WellFormed, Flying, Idx
      <4>2. front' = (front + ahead) % QSZ /\ Used' = Used - ahead
        <5>1. front' = (front + ahead) % QSZ /\ Used' = Dist(front', back)
          BY <3>3 DEF Dequeue_Release, Used, Dist
        <5> QED BY <4>1, <5>1, <1>a, DistAdvance DEF Used
      <4>3. ASSUME NEW k \in 1 .. Used - ahead
            PROVE  (front' + 0 + k - 1) % QSZ = (front + ahead + k - 1) % QSZ
        <5>1. /\ k - 1 \in Idx /\ ahead + (k - 1) <= QSZ - 1
              /\ front + ahead + k - 1 = front + (ahead + (k - 1))
          BY <1>a, RingAssumption DEF Idx
        <5>2. front' \in Idx
          BY DEF IInv, TypeOK, Idx
        <5>3. front' + 0 + k - 1 = front' + (k - 1)
          BY <5>2 DEF Idx
        <5> QED BY <4>2, <5>1, <5>3, <1>a, SlotAdd
      <4>4. InFlight' = InFlight
        BY <4>1, <4>2, <4>3, <1>a DEF InFlight, Idx
      <4> QED BY <3>3, <4>4, <2>3 DEF Dequeue_Release
    <3>4. CASE Dequeue_Post
      BY <3>4, <2>6 DEF Dequeue_Post
    <3> QED BY <2>9, <3>1, <3>2, <3>3, <3>4 DEF Shmifsrv
  <2>10. CASE Guard
    BY <2>10, <2>6 DEF Guard, Guard_Flags, Guard_Post, server
  <2>11. ~Environment
    BY DEF Environment, Crash, Destroy, Destroy_KeepDms, Exit, Open, check_dms
  <2>12. CASE UNCHANGED vars
    BY <2>12, <2>6 DEF vars, server
  <2> QED BY <2>7, <2>8, <2>9, <2>10, <2>11, <2>12, Zenon DEF Next
<1> QED BY <1>1, <1>2

\* For every queue size, payload and kind of event, for both consumers and
\* with every fault: on a connection usable on both ends the ring is a
\* lossless bounded FIFO.
THEOREM RingIsChannel == Spec => ImplementsChannel
<1>1. Init => Channel!Init
  <2> SUFFICES ASSUME Init PROVE Channel!Init
    OBVIOUS
  <2>1. Used = 0 /\ ahead = 0
    BY DEF Init, Used, Dist
  <2>2. InFlight = << >>
    BY <2>1 DEF InFlight
  <2>3. (check_dms /\ srv = "run") = TRUE
    BY DEF Init, check_dms
  <2> QED BY <2>2, <2>3 DEF Init, Channel!Init
<1>2. Spec => []IInv
  BY Inductive
<1>3. IInv /\ IInv' /\ [Next]_vars => [Channel!Next]_(Channel!chanVars)
  BY StepSimulation
<1> QED BY <1>1, <1>2, <1>3, PTL DEF Spec, ImplementsChannel, Channel!Spec
=============================================================================
