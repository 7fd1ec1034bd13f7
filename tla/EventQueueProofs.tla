-------------------------- MODULE EventQueueProofs ---------------------------
(***************************************************************************)
(* For every size of the queue, every number of events and however deep    *)
(* the handlers call back into the engine: the ring holds exactly the      *)
(* events that wait, one enqueue at a time feeds it to the drain, and the  *)
(* frameserver outlives the loop that reads its ring.                      *)
(***************************************************************************)
EXTENDS EventQueue, TLAPS

USE SMTT(30), SMTT(31), ZenonT(30)   \* a leaf that runs out of time is tried again

Status == {"new", "sent", "queued", "held", "handled", "done", "refused",
           "swallowed", "purged", "lost"}
Frame  == [op : {"feed", "full", "xfer", "hnd"}, ev : Ids \cup {0}, slot : 0 .. N,
           by : {"none", "stop", "killed", "feed", "full", "xfer", "denqueue", "overflow"}]

Types ==
  /\ cf \in Configs
  /\ eventbuf \in [Slots -> Ids \cup {0}] /\ front \in Slots /\ back \in Slots
  /\ drain \in BOOLEAN /\ in_drain \in BOOLEAN /\ dead \in BOOLEAN /\ locked \in BOOLEAN
  /\ stack \in Seq(Frame)
  /\ next \in 1 .. MaxEv + 1 /\ st \in [Ids -> Status]
  /\ inqueue \in Seq(Ids)
  /\ fused \in BOOLEAN /\ fuse_blown \in BOOLEAN /\ freed \in BOOLEAN
  /\ overrun \in BOOLEAN /\ killswitch \in BOOLEAN

\* In the calls s the queue is fed to the drain by one enqueue at most, and d,
\* the flag EVSTATE_IN_DRAIN, says so.
Drains(s, d) ==
  /\ d <=> \E i \in 1 .. Len(s) : s[i].op = "full"
  /\ \A i, j \in 1 .. Len(s) : s[i].op = "full" /\ s[j].op = "full" => i = j

\* A transfer is the outermost call.  Whatever runs inside of it runs inside
\* of the handler it has called with the fuse set (fu), and the frameserver
\* has not been freed (fr), unless it has pulled the killswitch.
Nest(s, fu, fr) ==
  /\ \A i \in 1 .. Len(s) : s[i].op = "xfer" => i = 1 /\ (fr <=> s[i].by = "killed")
  /\ \A i \in 1 .. Len(s) : s[i].by = "xfer" =>
       i = 2 /\ s[1].op = "xfer" /\ s[1].by # "killed" /\ s[2].op = "hnd"
  /\ Len(s) >= 2 /\ s[1].op = "xfer" /\ s[1].by # "killed" <=> fu
  /\ fu => s[2].by = "xfer"

\* The events the calls s have in hand: which they are, and one call for each.
Owns(s, t) ==
  /\ \A i \in 1 .. Len(s) : s[i].op = "hnd"  => s[i].ev \in Ids /\ t[s[i].ev] = "handled"
  /\ \A i \in 1 .. Len(s) : s[i].op = "full" => s[i].ev \in Ids /\ t[s[i].ev] = "held"
  /\ \A i, j \in 1 .. Len(s) :
       s[i].op = "hnd" /\ s[j].op = "hnd" /\ s[i].ev = s[j].ev => i = j

\* The events that are still to be produced or transferred.
Fresh ==
  /\ \A e \in next .. MaxEv : st[e] = "new"
  /\ ~freed => st[TERMINATED] = "new"
  /\ \A i \in 1 .. Len(inqueue) : st[inqueue[i]] = "sent"
  /\ \A i, j \in 1 .. Len(inqueue) : inqueue[i] = inqueue[j] => i = j

\* The number of slots from f to b, and the k-th of those from f on.
Dist(f, b) == IF f > b THEN N - f + b ELSE b - f
At(f, k)   == (f + k - 1) % N

\* The slots from f to b of the ring q hold the events that t says are queued.
Holds(q, f, b, t) ==
  /\ \A k \in 1 .. Dist(f, b) : q[At(f, k)] \in Ids /\ t[q[At(f, k)]] = "queued"
  /\ \A e \in Ids : t[e] = "queued" => \E k \in 1 .. Dist(f, b) : q[At(f, k)] = e
  /\ \A j, k \in 1 .. Dist(f, b) : q[At(f, j)] = q[At(f, k)] => j = k

IInv == /\ Types
        /\ Drains(stack, in_drain)
        /\ Nest(stack, fused, freed)
        /\ Owns(stack, st)
        /\ Fresh
        /\ Holds(eventbuf, front, back, st)

-----------------------------------------------------------------------------
(* the ring *)

\* One subtraction is all `%' does to an index plus an offset.

LEMMA Wrap == ASSUME NEW x \in 0 .. 2 * N - 1
              PROVE  x % N = IF x < N THEN x ELSE x - N
<1>1. CASE x < N
  BY <1>1, QueueAssumption, SMT
<1>2. CASE ~(x < N)
  BY <1>2, QueueAssumption, SMT
<1> QED BY <1>1, <1>2

\* The next index is an index.
LEMMA SuccSlot == ASSUME NEW i \in Slots
                  PROVE  /\ Succ(i) \in Slots
                         /\ Succ(i) = IF i = N - 1 THEN 0 ELSE i + 1
<1>1. i + 1 \in 0 .. 2 * N - 1
  BY QueueAssumption DEF Slots
<1> QED BY <1>1, Wrap, QueueAssumption DEF Succ, Slots

\* The k-th slot from f on, without the modulus.
LEMMA AtIs == ASSUME NEW f \in Slots, NEW k \in 1 .. N
              PROVE  At(f, k) = IF f + k - 1 < N THEN f + k - 1 ELSE f + k - 1 - N
<1>1. f + k - 1 \in 0 .. 2 * N - 1
  BY QueueAssumption DEF Slots
<1> QED BY <1>1, Wrap, QueueAssumption DEF At, Slots

\* The slots in use are slots, there are fewer than N of them, the one at the
\* producer's index is not among them.
LEMMA AtSlot == ASSUME NEW f \in Slots, NEW b \in Slots
                PROVE  /\ Dist(f, b) \in Slots
                       /\ (Succ(b) = f) => Dist(f, b) = N - 1
                       /\ \A k \in 1 .. Dist(f, b) : At(f, k) \in Slots /\ At(f, k) # b
<1>1. Dist(f, b) \in Slots
  BY QueueAssumption DEF Dist, Slots
<1>2. (Succ(b) = f) => Dist(f, b) = N - 1
  BY SuccSlot, QueueAssumption DEF Dist, Slots
<1>3. ASSUME NEW k \in 1 .. Dist(f, b)
      PROVE  At(f, k) \in Slots /\ At(f, k) # b
  <2>1. f + k - 1 \in 0 .. 2 * N - 1
    BY <1>1, QueueAssumption DEF Slots
  <2> QED BY <1>1, <2>1, Wrap, QueueAssumption DEF At, Dist, Slots
<1> QED BY <1>1, <1>2, <1>3

\* Queueing at b adds the slot b at the end.
LEMMA PushSlot == ASSUME NEW f \in Slots, NEW b \in Slots, Succ(b) # f
                  PROVE  /\ Dist(f, Succ(b)) = Dist(f, b) + 1
                         /\ At(f, Dist(f, b) + 1) = b
<1>1. Dist(f, Succ(b)) = Dist(f, b) + 1
  BY SuccSlot, QueueAssumption DEF Dist, Slots
<1>0. Dist(f, b) \in Slots
  BY AtSlot
<1>2. f + (Dist(f, b) + 1) - 1 \in 0 .. 2 * N - 1
  BY <1>0, QueueAssumption DEF Slots
<1>3. At(f, Dist(f, b) + 1) = b
  BY <1>2, Wrap, QueueAssumption DEF At, Dist, Slots
<1> QED BY <1>1, <1>3

\* Taking the oldest event leaves the later slots as they are.
LEMMA PopSlot == ASSUME NEW f \in Slots, NEW b \in Slots, f # b
                 PROVE  /\ Dist(f, b) >= 1 /\ Dist(Succ(f), b) = Dist(f, b) - 1
                        /\ At(f, 1) = f
                        /\ \A k \in 1 .. Dist(f, b) - 1 : At(Succ(f), k) = At(f, k + 1)
<1>1. Dist(f, b) >= 1 /\ Dist(Succ(f), b) = Dist(f, b) - 1
  BY SuccSlot, QueueAssumption DEF Dist, Slots
<1>2. At(f, 1) = f
  BY Wrap, QueueAssumption DEF At, Slots
<1>3. ASSUME NEW k \in 1 .. Dist(f, b) - 1
      PROVE  At(Succ(f), k) = At(f, k + 1)
  <2>1. Dist(f, b) \in Slots
    BY AtSlot
  <2>2. k \in 1 .. N /\ k + 1 \in 1 .. N
    BY <2>1, QueueAssumption DEF Slots
  <2>3. At(Succ(f), k) = IF Succ(f) + k - 1 < N THEN Succ(f) + k - 1 ELSE Succ(f) + k - 1 - N
    BY <2>2, AtIs, SuccSlot
  <2>4. At(f, k + 1) = IF f + (k + 1) - 1 < N THEN f + (k + 1) - 1 ELSE f + (k + 1) - 1 - N
    BY <2>2, AtIs
  <2> QED BY <2>1, <2>3, <2>4, SuccSlot, QueueAssumption DEF Slots
<1> QED BY <1>1, <1>2, <1>3

\* Queueing an event that was not queued keeps the ring exact.
LEMMA HoldsPush ==
  ASSUME NEW q \in [Slots -> Ids \cup {0}], NEW f \in Slots, NEW b \in Slots,
         NEW t \in [Ids -> Status], NEW e \in Ids,
         Holds(q, f, b, t), Succ(b) # f, t[e] # "queued"
  PROVE  Holds([q EXCEPT ![b] = e], f, Succ(b), [t EXCEPT ![e] = "queued"])
<1> DEFINE q2 == [q EXCEPT ![b] = e]
           t2 == [t EXCEPT ![e] = "queued"]
           n  == Dist(f, b)
<1>1. n \in Nat /\ Dist(f, Succ(b)) = n + 1 /\ At(f, n + 1) = b
  BY AtSlot, PushSlot DEF Slots
<1>2. q2[At(f, n + 1)] = e /\ t2[e] = "queued"
  BY <1>1 DEF Status
<1>3. \A k \in 1 .. n : q2[At(f, k)] = q[At(f, k)] /\ q[At(f, k)] \in Ids /\ q[At(f, k)] # e
  BY AtSlot DEF Holds
<1>4. \A x \in Ids : x # e => t2[x] = t[x]
  OBVIOUS
<1>5. \A k \in 1 .. n : t[q[At(f, k)]] = "queued"
  BY DEF Holds
<1>6. \A x \in Ids : t[x] = "queued" => \E k \in 1 .. n : q[At(f, k)] = x
  BY DEF Holds
<1>7. \A j, k \in 1 .. n : q[At(f, j)] = q[At(f, k)] => j = k
  BY DEF Holds
<1> HIDE DEF q2, t2, n
<1>8. \A k \in 1 .. n + 1 : k = n + 1 \/ k \in 1 .. n
  BY <1>1
<1>9. 1 .. n \subseteq 1 .. n + 1 /\ n + 1 \in 1 .. n + 1
  BY <1>1
<1>a. \A k \in 1 .. n + 1 : q2[At(f, k)] \in Ids /\ t2[q2[At(f, k)]] = "queued"
  BY <1>2, <1>3, <1>4, <1>5, <1>8
<1>b. \A x \in Ids : t2[x] = "queued" => \E k \in 1 .. n + 1 : q2[At(f, k)] = x
  <2> SUFFICES ASSUME NEW x \in Ids, t2[x] = "queued"
               PROVE  \E k \in 1 .. n + 1 : q2[At(f, k)] = x
    OBVIOUS
  <2>1. CASE x = e
    BY <2>1, <1>2, <1>9
  <2>2. CASE x # e
    <3>1. PICK k \in 1 .. n : q[At(f, k)] = x
      BY <2>2, <1>4, <1>6
    <3> QED BY <3>1, <1>3, <1>9
  <2> QED BY <2>1, <2>2
<1>c. \A j, k \in 1 .. n + 1 : q2[At(f, j)] = q2[At(f, k)] => j = k
  BY <1>2, <1>3, <1>7, <1>8
<1> QED BY <1>1, <1>a, <1>b, <1>c DEF Holds, q2, t2

\* Taking the oldest event, which is then no longer queued, does so too.
LEMMA HoldsPop ==
  ASSUME NEW q \in [Slots -> Ids \cup {0}], NEW f \in Slots, NEW b \in Slots,
         NEW t \in [Ids -> Status], NEW v \in Status \ {"queued"},
         Holds(q, f, b, t), f # b
  PROVE  /\ q[f] \in Ids /\ t[q[f]] = "queued"
         /\ Holds(q, Succ(f), b, [t EXCEPT ![q[f]] = v])
<1> DEFINE t2 == [t EXCEPT ![q[f]] = v]
           n  == Dist(f, b)
<1>1. /\ n \in Nat /\ n >= 1 /\ Dist(Succ(f), b) = n - 1 /\ At(f, 1) = f
      /\ \A k \in 1 .. n - 1 : At(Succ(f), k) = At(f, k + 1)
  BY AtSlot, PopSlot DEF Slots
<1>2. \A k \in 1 .. n : q[At(f, k)] \in Ids /\ t[q[At(f, k)]] = "queued"
  BY DEF Holds
<1>3. q[f] \in Ids /\ t[q[f]] = "queued"
  <2>1. 1 \in 1 .. n
    BY <1>1
  <2> QED BY <1>1, <1>2, <2>1
<1>4. t2[q[f]] # "queued" /\ \A x \in Ids : x # q[f] => t2[x] = t[x]
  BY <1>3
<1>5. \A x \in Ids : t[x] = "queued" => \E k \in 1 .. n : q[At(f, k)] = x
  BY DEF Holds
<1>6. \A j, k \in 1 .. n : q[At(f, j)] = q[At(f, k)] => j = k
  BY DEF Holds
<1> HIDE DEF t2, n
<1>7. \A k \in 1 .. n - 1 : /\ k + 1 \in 1 .. n /\ k + 1 # 1
                            /\ q[At(Succ(f), k)] = q[At(f, k + 1)]
  BY <1>1
<1>8. \A k \in 1 .. n - 1 : q[At(f, k + 1)] # q[f]
  <2>1. 1 \in 1 .. n
    BY <1>1
  <2> QED BY <1>1, <1>6, <1>7, <2>1
<1>a. \A k \in 1 .. n - 1 : q[At(Succ(f), k)] \in Ids /\ t2[q[At(Succ(f), k)]] = "queued"
  BY <1>2, <1>4, <1>7, <1>8
<1>b. \A x \in Ids : t2[x] = "queued" => \E k \in 1 .. n - 1 : q[At(Succ(f), k)] = x
  <2> SUFFICES ASSUME NEW x \in Ids, t2[x] = "queued"
               PROVE  \E k \in 1 .. n - 1 : q[At(Succ(f), k)] = x
    OBVIOUS
  <2>1. PICK k \in 1 .. n : q[At(f, k)] = x
    BY <1>4, <1>5
  <2>2. k # 1
    BY <2>1, <1>1, <1>4
  <2>3. k - 1 \in 1 .. n - 1 /\ (k - 1) + 1 = k
    BY <2>2, <1>1
  <2> QED BY <2>1, <2>3, <1>7
<1>c. \A j, k \in 1 .. n - 1 : q[At(Succ(f), j)] = q[At(Succ(f), k)] => j = k
  BY <1>1, <1>6, <1>7
<1> QED BY <1>1, <1>3, <1>a, <1>b, <1>c DEF Holds, t2

\* Only which events are queued matters.
LEMMA HoldsSame ==
  ASSUME NEW q, NEW f, NEW b, NEW t, NEW u, Holds(q, f, b, t),
         \A e \in Ids : u[e] = "queued" <=> t[e] = "queued"
  PROVE  Holds(q, f, b, u)
  BY DEF Holds

-----------------------------------------------------------------------------
(* the calls in progress *)

\* t is s with the call x on top.
Grows(s, x, t) ==
  /\ s \in Seq(Frame) /\ x \in Frame /\ t \in Seq(Frame)
  /\ Len(t) = Len(s) + 1 /\ t[Len(t)] = x
  /\ \A i \in 1 .. Len(s) : t[i] = s[i]

\* Append puts a call on top.
LEMMA Grow == ASSUME NEW s \in Seq(Frame), NEW x \in Frame
              PROVE  Grows(s, x, Append(s, x))
  BY DEF Grows

\* Front takes it off again.
LEMMA Shrink == ASSUME NEW s \in Seq(Frame), s # <<>>
                PROVE  /\ Grows(Front(s), Last(s), s)
                       /\ Len(s) \in Nat \ {0}
<1>1. Len(s) \in Nat \ {0}
  OBVIOUS
<1>2. Last(s) \in Frame
  BY <1>1 DEF Last
<1>3. /\ Front(s) \in Seq(Frame) /\ Len(Front(s)) = Len(s) - 1
      /\ \A i \in 1 .. Len(s) - 1 : Front(s)[i] = s[i]
  <2>1. PICK n \in Nat : n = Len(s) - 1
    BY <1>1
  <2>2. /\ Front(s) \in Seq(Frame)
        /\ Len(Front(s)) = IF 1 <= n THEN n - 1 + 1 ELSE 0
        /\ \A i \in 1 .. n - 1 + 1 : Front(s)[i] = s[1 + i - 1]
    BY <1>1, <2>1 DEF Front
  <2>3. n - 1 + 1 = n /\ (IF 1 <= n THEN n - 1 + 1 ELSE 0) = n
    OBVIOUS
  <2>4. \A i \in 1 .. n : 1 + i - 1 = i
    OBVIOUS
  <2> QED BY <2>1, <2>2, <2>3, <2>4
<1> QED BY <1>1, <1>2, <1>3 DEF Grows, Last

\* The calls below the new one, and the new one, are all there are.
LEMMA GrowsAll == ASSUME NEW s, NEW x, NEW t, Grows(s, x, t)
                  PROVE  /\ Len(s) \in Nat /\ Len(t) = Len(s) + 1
                         /\ 1 .. Len(s) \subseteq 1 .. Len(t) /\ Len(t) \in 1 .. Len(t)
                         /\ \A i \in 1 .. Len(t) : i = Len(t) \/ i \in 1 .. Len(s)
                         /\ Len(t) \notin 1 .. Len(s)
  BY DEF Grows

\* A call of another kind than "full" leaves the drain as it is; one of that
\* kind is made only when there is none, and ends the drain when it returns.
LEMMA DrainsGrow == ASSUME NEW s, NEW x, NEW t, NEW d \in BOOLEAN, Grows(s, x, t)
                    PROVE  /\ x.op # "full" => (Drains(s, d) <=> Drains(t, d))
                           /\ x.op = "full" => (Drains(s, FALSE) <=> Drains(t, TRUE))
<1>1. CASE x.op # "full"
  <2>1. \A i \in 1 .. Len(t) : t[i].op = "full" => i \in 1 .. Len(s) /\ s[i].op = "full"
    BY <1>1, GrowsAll DEF Grows
  <2>2. \A i \in 1 .. Len(s) : i \in 1 .. Len(t) /\ t[i].op = s[i].op
    BY GrowsAll DEF Grows
  <2> QED BY <1>1, <2>1, <2>2 DEF Drains
<1>2. CASE x.op = "full"
  <2>1. Len(t) \in 1 .. Len(t) /\ t[Len(t)].op = "full"
    BY <1>2, GrowsAll DEF Grows
  <2>2. \A i \in 1 .. Len(t) : i = Len(t) \/ (i \in 1 .. Len(s) /\ t[i].op = s[i].op)
    BY GrowsAll DEF Grows
  <2>3. \A i \in 1 .. Len(s) : i \in 1 .. Len(t) /\ t[i].op = s[i].op /\ i # Len(t)
    BY GrowsAll DEF Grows
  <2> QED BY <1>2, <2>1, <2>2, <2>3, ZenonT(30) DEF Drains
<1> QED BY <1>1, <1>2, Zenon

LEMMA DrainsShrink == ASSUME NEW s, NEW x, NEW t, NEW d \in BOOLEAN, Grows(s, x, t), x.op # "full", Drains(t, d)
                      PROVE  Drains(s, d)
<1>1. \A i \in 1 .. Len(t) : t[i].op = "full" => i \in 1 .. Len(s) /\ s[i].op = "full"
  BY GrowsAll DEF Grows
<1>2. \A i \in 1 .. Len(s) : i \in 1 .. Len(t) /\ t[i].op = s[i].op
  BY GrowsAll DEF Grows
<1> QED BY <1>1, <1>2 DEF Drains

\* The first of these, for a call that returns.
LEMMA DrainsOther == ASSUME NEW s, NEW x, NEW t, NEW d \in BOOLEAN, Grows(s, x, t),
                            x.op # "full", Drains(t, d)
                     PROVE  Drains(s, d)
<1>1. \A i \in 1 .. Len(t) : t[i].op = "full" => i \in 1 .. Len(s) /\ s[i].op = "full"
  BY GrowsAll DEF Grows
<1>2. \A i \in 1 .. Len(s) : i \in 1 .. Len(t) /\ t[i].op = s[i].op
  BY GrowsAll DEF Grows
<1> QED BY <1>1, <1>2, ZenonT(30) DEF Drains

\* Calls made from a handler, or with no other call in progress, nest.
LEMMA NestGrow ==
  ASSUME NEW s, NEW x, NEW t, NEW fu \in BOOLEAN, NEW fr \in BOOLEAN, Grows(s, x, t),
         Nest(s, fu, fr), x.op # "xfer", x.by # "xfer",
         Len(s) = 0 \/ s[Len(s)].op # "xfer" \/ s[Len(s)].by = "killed"
  PROVE  Nest(t, fu, fr)
<1>1. \A i \in 1 .. Len(t) : i = Len(t) \/ (i \in 1 .. Len(s) /\ t[i] = s[i])
  BY GrowsAll DEF Grows
<1>2. t[Len(t)] = x /\ Len(t) = Len(s) + 1 /\ Len(s) \in Nat
  BY GrowsAll DEF Grows
<1>3. \A i \in 1 .. Len(t) : t[i].op = "xfer" => i = 1 /\ (fr <=> t[i].by = "killed")
  BY <1>1, <1>2 DEF Nest
<1>4. \A i \in 1 .. Len(t) : t[i].by = "xfer" =>
        i = 2 /\ t[1].op = "xfer" /\ t[1].by # "killed" /\ t[2].op = "hnd"
  <2> SUFFICES ASSUME NEW i \in 1 .. Len(t), t[i].by = "xfer"
               PROVE  i = 2 /\ t[1].op = "xfer" /\ t[1].by # "killed" /\ t[2].op = "hnd"
    OBVIOUS
  <2>1. i \in 1 .. Len(s) /\ s[i].by = "xfer"
    BY <1>1, <1>2
  <2>2. i = 2 /\ s[1].op = "xfer" /\ s[1].by # "killed" /\ s[2].op = "hnd"
    BY <2>1 DEF Nest
  <2> QED BY <2>1, <2>2 DEF Grows
<1>6. ASSUME fu
      PROVE  Len(t) >= 2 /\ t[1].op = "xfer" /\ t[1].by # "killed" /\ t[2].by = "xfer"
  <2>1. Len(s) >= 2 /\ s[1].op = "xfer" /\ s[1].by # "killed" /\ s[2].by = "xfer"
    BY <1>6 DEF Nest
  <2>2. t[1] = s[1] /\ t[2] = s[2]
    BY <1>2, <2>1 DEF Grows
  <2> QED BY <1>2, <2>1, <2>2
<1>5. ASSUME Len(t) >= 2, t[1].op = "xfer", t[1].by # "killed"
      PROVE  fu
  <2>1. Len(s) >= 1 /\ s[1].op = "xfer" /\ s[1].by # "killed"
    BY <1>2, <1>5 DEF Grows
  <2>2. Len(s) >= 2
    BY <1>2, <2>1
  <2> QED BY <2>1, <2>2 DEF Nest
<1> QED BY <1>3, <1>4, <1>5, <1>6 DEF Nest

\* So they do when the innermost returns; the handler called by a transfer
\* clears the fuse.
LEMMA NestShrink ==
  ASSUME NEW s, NEW x, NEW t, NEW fu \in BOOLEAN, NEW fr \in BOOLEAN, Grows(s, x, t),
         Nest(t, fu, fr)
  PROVE  /\ Nest(s, fu /\ x.by # "xfer", fr)
         /\ x.op = "xfer" => Len(t) = 1 /\ (fr <=> x.by = "killed")
         /\ x.by = "xfer" => Len(t) = 2 /\ t[1].op = "xfer" /\ t[1].by # "killed"
<1>1. \A i \in 1 .. Len(s) : i \in 1 .. Len(t) /\ t[i] = s[i] /\ i < Len(t)
  BY GrowsAll DEF Grows
<1>2. t[Len(t)] = x /\ Len(t) = Len(s) + 1 /\ Len(s) \in Nat /\ Len(t) \in 1 .. Len(t)
  BY GrowsAll DEF Grows
<1>3. x.op = "xfer" => Len(t) = 1 /\ (fr <=> x.by = "killed")
  BY <1>2 DEF Nest
<1>4. x.by = "xfer" => Len(t) = 2 /\ t[1].op = "xfer" /\ t[1].by # "killed"
  BY <1>2 DEF Nest
<1>5. \A i \in 1 .. Len(s) : s[i].op = "xfer" => i = 1 /\ (fr <=> s[i].by = "killed")
  BY <1>1 DEF Nest
<1>6. \A i \in 1 .. Len(s) : s[i].by = "xfer" =>
        i = 2 /\ s[1].op = "xfer" /\ s[1].by # "killed" /\ s[2].op = "hnd"
  <2> SUFFICES ASSUME NEW i \in 1 .. Len(s), s[i].by = "xfer"
               PROVE  i = 2 /\ s[1].op = "xfer" /\ s[1].by # "killed" /\ s[2].op = "hnd"
    OBVIOUS
  <2>1. i = 2 /\ t[1].op = "xfer" /\ t[1].by # "killed" /\ t[2].op = "hnd"
    BY <1>1 DEF Nest
  <2>2. 1 \in 1 .. Len(s) /\ 2 \in 1 .. Len(s)
    BY <1>2, <2>1
  <2> QED BY <1>1, <2>1, <2>2
<1>7. ASSUME Len(s) >= 2, s[1].op = "xfer", s[1].by # "killed"
      PROVE  fu /\ x.by # "xfer"
  <2>1. 1 \in 1 .. Len(s) /\ 2 \in 1 .. Len(s) /\ Len(t) > 2
    BY <1>2, <1>7
  <2>2. t[1] = s[1] /\ t[2] = s[2]
    BY <1>1, <2>1
  <2> QED BY <1>2, <1>4, <1>7, <2>1, <2>2 DEF Nest
<1>8. ASSUME fu, x.by # "xfer"
      PROVE  Len(s) >= 2 /\ s[1].op = "xfer" /\ s[1].by # "killed" /\ s[2].by = "xfer"
  <2>1. Len(t) >= 2 /\ t[1].op = "xfer" /\ t[1].by # "killed" /\ t[2].by = "xfer"
    BY <1>8 DEF Nest
  <2>2. Len(t) # 2
    BY <1>2, <1>8, <2>1
  <2>3. 1 \in 1 .. Len(s) /\ 2 \in 1 .. Len(s)
    BY <1>2, <2>1, <2>2
  <2> QED BY <1>1, <2>1, <2>3
<1> QED BY <1>3, <1>4, <1>5, <1>6, <1>7, <1>8 DEF Nest

\* No call of s has e in hand.
Free_of(s, e) == \A i \in 1 .. Len(s) : s[i].op \in {"hnd", "full"} => s[i].ev # e

\* A call may take an event in hand that no other one has.
LEMMA OwnsGrow ==
  ASSUME NEW s, NEW x, NEW t, Grows(s, x, t),
         NEW u \in [Ids -> Status], NEW e \in Ids, NEW v \in Status,
         Owns(s, u), Free_of(s, e),
         x.op = "hnd" => x.ev = e /\ v = "handled",
         x.op = "full" => x.ev = e /\ v = "held"
  PROVE  Owns(t, [u EXCEPT ![e] = v])
<1> DEFINE u2 == [u EXCEPT ![e] = v]
<1>1. u2[e] = v /\ \A y \in Ids : y # e => u2[y] = u[y]
  OBVIOUS
<1>2. \A i \in 1 .. Len(t) : i = Len(t) \/ (i \in 1 .. Len(s) /\ t[i] = s[i])
  BY GrowsAll DEF Grows
<1>3. t[Len(t)] = x
  BY DEF Grows
<1> HIDE DEF u2
<1>4. \A i \in 1 .. Len(t) : t[i].op = "hnd" => t[i].ev \in Ids /\ u2[t[i].ev] = "handled"
  BY <1>1, <1>2, <1>3 DEF Owns, Free_of
<1>5. \A i \in 1 .. Len(t) : t[i].op = "full" => t[i].ev \in Ids /\ u2[t[i].ev] = "held"
  BY <1>1, <1>2, <1>3 DEF Owns, Free_of
<1>6. \A i, j \in 1 .. Len(t) :
        t[i].op = "hnd" /\ t[j].op = "hnd" /\ t[i].ev = t[j].ev => i = j
  BY <1>2, <1>3 DEF Owns, Free_of
<1> QED BY <1>4, <1>5, <1>6 DEF Owns, u2

\* What becomes of an event that no call has in hand is nothing to the calls.
LEMMA OwnsSame ==
  ASSUME NEW s, NEW u \in [Ids -> Status], NEW e \in Ids, NEW v \in Status,
         Owns(s, u), Free_of(s, e)
  PROVE  Owns(s, [u EXCEPT ![e] = v])
  BY DEF Owns, Free_of

\* The call that returns was the only one with its event in hand.
LEMMA OwnsShrink ==
  ASSUME NEW s, NEW x, NEW t, Grows(s, x, t), NEW u, NEW d,
         Owns(t, u), Drains(t, d)
  PROVE  /\ Owns(s, u)
         /\ x.op = "hnd"  => x.ev \in Ids /\ u[x.ev] = "handled" /\ Free_of(s, x.ev)
         /\ x.op = "full" => x.ev \in Ids /\ u[x.ev] = "held" /\ Free_of(s, x.ev)
<1>1. \A i \in 1 .. Len(s) : i \in 1 .. Len(t) /\ t[i] = s[i] /\ i # Len(t)
  BY GrowsAll DEF Grows
<1>2. t[Len(t)] = x /\ Len(t) \in 1 .. Len(t)
  BY GrowsAll DEF Grows
<1>3. Owns(s, u)
  BY <1>1 DEF Owns
<1>4. x.op = "hnd" => x.ev \in Ids /\ u[x.ev] = "handled" /\ Free_of(s, x.ev)
  BY <1>1, <1>2 DEF Owns, Free_of
<1>5. x.op = "full" => x.ev \in Ids /\ u[x.ev] = "held" /\ Free_of(s, x.ev)
  BY <1>1, <1>2 DEF Owns, Free_of, Drains
<1> QED BY <1>3, <1>4, <1>5

\* An event that is not with a handler or held back is with no call.
LEMMA NotInHand ==
  ASSUME NEW s, NEW u, NEW e, Owns(s, u), u[e] \notin {"handled", "held"}
  PROVE  Free_of(s, e)
  BY DEF Owns, Free_of

-----------------------------------------------------------------------------
(* enqueue *)

\* Queue the event, swallow it, refuse it, hand it to the drain or hold it
\* while the queue is drained: each keeps the ring and the calls in order, if
\* the event was neither queued nor in the hand of a call.
LEMMA EnqueueKeeps ==
  ASSUME Types, Holds(eventbuf, front, back, st),
         NEW e \in Ids, st[e] # "queued",
         NEW calls \in Seq(Frame), NEW fu \in BOOLEAN, NEW fr \in BOOLEAN,
         Drains(calls, in_drain), Nest(calls, fu, fr), Owns(calls, st), Free_of(calls, e),
         queue_full => \/ Len(calls) = 0 \/ calls[Len(calls)].op # "xfer"
                       \/ calls[Len(calls)].by = "killed",
         Enqueue(e, calls)
  PROVE  /\ eventbuf' \in [Slots -> Ids \cup {0}] /\ front' \in Slots /\ back' \in Slots
         /\ in_drain' \in BOOLEAN /\ stack' \in Seq(Frame)
         /\ \E v \in Status \ {"new", "sent"} : st' = [st EXCEPT ![e] = v]
         /\ Drains(stack', in_drain') /\ Nest(stack', fu, fr) /\ Owns(stack', st')
         /\ Holds(eventbuf', front', back', st')
<1> USE DEF Types
<1> DEFINE Kept ==
      /\ eventbuf' \in [Slots -> Ids \cup {0}] /\ front' \in Slots /\ back' \in Slots
      /\ in_drain' \in BOOLEAN /\ stack' \in Seq(Frame)
      /\ \E v \in Status \ {"new", "sent"} : st' = [st EXCEPT ![e] = v]
      /\ Drains(stack', in_drain') /\ Nest(stack', fu, fr) /\ Owns(stack', st')
      /\ Holds(eventbuf', front', back', st')
<1>1. ASSUME ~queue_full, ~dead
      PROVE  Kept
  <2>1. /\ eventbuf' = [eventbuf EXCEPT ![back] = e] /\ back' = Succ(back)
        /\ st' = [st EXCEPT ![e] = "queued"] /\ stack' = calls
        /\ front' = front /\ in_drain' = in_drain /\ Succ(back) # front
    BY <1>1 DEF Enqueue, queue_full
  <2>2. Holds(eventbuf', front', back', st')
    BY <2>1, HoldsPush, Zenon
  <2>3. Owns(stack', st')
    BY <2>1, OwnsSame, Zenon DEF Status
  <2>4. \E v \in Status \ {"new", "sent"} : st' = [st EXCEPT ![e] = v]
    BY <2>1, Zenon DEF Status
  <2> QED BY <2>1, <2>2, <2>3, <2>4, SuccSlot, Zenon
<1>2. ASSUME NEW v \in {"refused", "swallowed"}, st' = [st EXCEPT ![e] = v],
             stack' = calls, ring' = ring, in_drain' = in_drain
      PROVE  Kept
  <2>1. \A x \in Ids : st'[x] = "queued" <=> st[x] = "queued"
    BY <1>2
  <2>2. Holds(eventbuf', front', back', st')
    BY <1>2, <2>1, HoldsSame, Zenon DEF ring
  <2>3. v \in Status \ {"new", "sent"}
    BY <1>2 DEF Status
  <2>4. Owns(stack', st')
    BY <1>2, <2>3, OwnsSame, Zenon
  <2> QED BY <1>2, <2>2, <2>3, <2>4, Zenon DEF ring
<1>3. ASSUME NEW x \in Frame, x.op \in {"hnd", "full"}, x.ev = e, x.by # "xfer",
             st' = [st EXCEPT ![e] = IF x.op = "full" THEN "held" ELSE "handled"],
             x.op = "full" => in_drain = FALSE /\ in_drain' = TRUE,
             x.op = "hnd" => in_drain' = in_drain,
             queue_full, stack' = Append(calls, x), ring' = ring
      PROVE  Kept
  <2> DEFINE v == IF x.op = "full" THEN "held" ELSE "handled"
  <2>1. Grows(calls, x, stack')
    BY <1>3, Grow
  <2>2. \A y \in Ids : st'[y] = "queued" <=> st[y] = "queued"
    BY <1>3
  <2>3. Holds(eventbuf', front', back', st')
    BY <1>3, <2>2, HoldsSame, ZenonT(30) DEF ring
  <2>4. v \in Status \ {"new", "sent"} /\ st' = [st EXCEPT ![e] = v]
    BY <1>3 DEF Status
  <2>5. (x.op = "hnd" => x.ev = e /\ v = "handled") /\ (x.op = "full" => x.ev = e /\ v = "held")
    BY <1>3
  <2> HIDE DEF v
  <2>6. Owns(stack', st')
    <3> HIDE DEF Types
    <3>1. st \in [Ids -> Status] /\ v \in Status
      BY <2>4 DEF Types
    <3>2. Owns(stack', [st EXCEPT ![e] = v])
      BY <2>1, <2>5, <3>1, OwnsGrow, Zenon
    <3> QED BY <2>4, <3>2
  <2>7. Drains(stack', in_drain')
    <3>1. CASE x.op = "full"
      BY <1>3, <2>1, <3>1, DrainsGrow, Zenon
    <3>2. CASE x.op # "full"
      BY <1>3, <2>1, <3>2, DrainsGrow, ZenonT(30)
    <3> QED BY <3>1, <3>2
  <2>8. Nest(stack', fu, fr)
    BY <1>3, <2>1, NestGrow
  <2>9. in_drain' \in BOOLEAN
    BY <1>3, Zenon
  <2> QED BY <1>3, <2>1, <2>3, <2>4, <2>6, <2>7, <2>8, <2>9, Zenon DEF ring, Grows
<1>4. Hnd(e, N, "overflow") \in Frame /\ Full(e) \in Frame
  BY QueueAssumption DEF Hnd, Full, Frame
<1> HIDE DEF Kept
<1>5. ASSUME ~dead, queue_full, drain, in_drain
      PROVE  Kept
  <2>1. /\ st' = [st EXCEPT ![e] = "handled"] /\ stack' = Append(calls, Hnd(e, N, "overflow"))
        /\ ring' = ring /\ in_drain' = in_drain
    BY <1>5, Zenon DEF Enqueue, ring
  <2>2. PICK x \in Frame : x = Hnd(e, N, "overflow")
    BY <1>4
  <2>3. x.op = "hnd" /\ x.ev = e /\ x.by # "xfer"
    BY <2>2, ZenonT(30) DEF Hnd
  <2>4. st' = [st EXCEPT ![e] = IF x.op = "full" THEN "held" ELSE "handled"]
    BY <2>1, <2>3
  <2> QED BY <1>3, <1>5, <2>1, <2>2, <2>3, <2>4, Zenon
<1>6. ASSUME ~dead, queue_full, drain, ~in_drain
      PROVE  Kept
  <2>1. /\ st' = [st EXCEPT ![e] = "held"] /\ stack' = Append(calls, Full(e))
        /\ ring' = ring /\ in_drain = FALSE /\ in_drain' = TRUE
    BY <1>6, ZenonT(30) DEF Enqueue, ring
  <2>2. PICK x \in Frame : x = Full(e)
    BY <1>4, ZenonT(30)
  <2>3. x.op = "full" /\ x.ev = e /\ x.by # "xfer"
    BY <2>2, ZenonT(30) DEF Full
  <2>4. st' = [st EXCEPT ![e] = IF x.op = "full" THEN "held" ELSE "handled"]
    BY <2>1, <2>3
  <2> QED BY <1>3, <1>6, <2>1, <2>2, <2>3, <2>4, ZenonT(30)
<1>7. ASSUME ~dead, queue_full, ~drain
      PROVE  Kept
  <2>1. /\ st' = [st EXCEPT ![e] = "refused"]
        /\ stack' = calls /\ ring' = ring /\ in_drain' = in_drain
    BY <1>7, ZenonT(30) DEF Enqueue, ring
  <2> QED BY <1>2, <2>1, ZenonT(30)
<1>9. ASSUME dead
      PROVE  Kept
  <2>1. /\ st' = [st EXCEPT ![e] = "swallowed"]
        /\ stack' = calls /\ ring' = ring /\ in_drain' = in_drain
    BY <1>9 DEF Enqueue, ring
  <2> QED BY <1>2, <2>1
<1>8. Kept
  <2>1. CASE dead
    BY <1>9, <2>1
  <2>2. CASE ~dead /\ ~queue_full
    BY <1>1, <2>2
  <2>3. CASE ~dead /\ queue_full /\ ~drain
    BY <1>7, <2>3
  <2>4. CASE ~dead /\ queue_full /\ drain /\ in_drain
    BY <1>5, <2>4
  <2>5. CASE ~dead /\ queue_full /\ drain /\ ~in_drain
    BY <1>6, <2>5
  <2> QED BY <2>1, <2>2, <2>3, <2>4, <2>5
<1> QED BY <1>8, Zenon DEF Kept

-----------------------------------------------------------------------------
(* the actions *)

\* The innermost call is on top of the ones below it.
LEMMA TopBelow == ASSUME Types, stack # <<>>
                  PROVE  /\ Grows(Below, Top, stack)
                         /\ Len(stack) \in Nat \ {0} /\ stack[Len(stack)] = Top
  BY Shrink DEF Types, Below, Top, Last

\* A call made with no other one in progress.
LEMMA Single == ASSUME NEW x \in Frame
                PROVE  Grows(<<>>, x, <<x>>)
  BY DEF Grows

\* A handler's call is one.
LEMMA HndFrame == ASSUME NEW e \in Ids, NEW k \in 0 .. N,
                         NEW by \in {"feed", "full", "xfer", "denqueue", "overflow"}
                  PROVE  /\ Hnd(e, k, by) \in Frame
                         /\ Hnd(e, k, by).op = "hnd" /\ Hnd(e, k, by).ev = e
                         /\ Hnd(e, k, by).by = by
  BY DEF Hnd, Frame

\* An event number that may still be given out is one, and not TERMINATED.
LEMMA NextIsEvent == ASSUME Types, next <= Limit
                     PROVE  /\ next \in Ids /\ next \in next .. MaxEv /\ next # TERMINATED
                            /\ next + 1 \in 1 .. MaxEv + 1
  BY QueueAssumption DEF Types, Limit, Ids, TERMINATED

\* An event that has been produced and transferred leaves the others fresh.
LEMMA FreshSame ==
  ASSUME Types, Fresh, NEW e \in Ids, NEW v, st[e] \notin {"new", "sent"},
         st' = [st EXCEPT ![e] = v], next' = next, inqueue' = inqueue, freed' = freed
  PROVE  Fresh'
<1>1. \A x \in Ids : x # e => st'[x] = st[x]
  BY DEF Types
<1>2. next .. MaxEv \subseteq Ids /\ TERMINATED \in Ids
  BY QueueAssumption DEF Types, Ids, TERMINATED
<1>3. \A i \in 1 .. Len(inqueue) : inqueue[i] \in Ids
  BY DEF Types
<1> QED BY <1>1, <1>2, <1>3 DEF Fresh

\* The initial state.
LEMMA InitInv == Init => IInv
<1> SUFFICES ASSUME Init PROVE IInv
  OBVIOUS
<1> USE DEF Init
<1>1. Types
  <2>1. eventbuf \in [Slots -> Ids \cup {0}] /\ front \in Slots /\ back \in Slots
    BY QueueAssumption DEF Slots
  <2>2. st \in [Ids -> Status] /\ next \in 1 .. MaxEv + 1
    BY QueueAssumption DEF Status
  <2>3. stack \in Seq(Frame) /\ inqueue \in Seq(Ids)
    OBVIOUS
  <2> QED BY <2>1, <2>2, <2>3, Zenon DEF Types
<1>2. Drains(stack, in_drain) /\ Nest(stack, fused, freed) /\ Owns(stack, st)
  BY DEF Drains, Nest, Owns
<1>3. Fresh
  <2>1. TERMINATED \in Ids /\ next .. MaxEv \subseteq Ids
    BY QueueAssumption DEF Ids, TERMINATED
  <2> QED BY <2>1 DEF Fresh
<1>4. Holds(eventbuf, front, back, st)
  <2>1. Dist(front, back) = 0
    BY QueueAssumption DEF Dist
  <2> QED BY <2>1 DEF Holds
<1> QED BY <1>1, <1>2, <1>3, <1>4 DEF IInv

LEMMA ProduceInv == IInv /\ Produce => IInv'
<1> SUFFICES ASSUME IInv, Produce PROVE IInv'
  OBVIOUS
<1>1. /\ next <= Limit /\ next' = next + 1 /\ Enqueue(next, stack)
      /\ stack = <<>> \/ (stack # <<>> /\ Top.op = "hnd")
      /\ cf' = cf /\ drain' = drain /\ dead' = dead /\ locked' = locked
      /\ inqueue' = inqueue /\ fused' = fused /\ fuse_blown' = fuse_blown /\ freed' = freed
      /\ overrun' = overrun /\ killswitch' = killswitch
  BY DEF Produce, TopIs, fsrv, bad
<1>2. Types /\ Fresh /\ Holds(eventbuf, front, back, st)
  BY DEF IInv
<1>3. /\ next \in Ids /\ next \in next .. MaxEv /\ next # TERMINATED
      /\ next + 1 \in 1 .. MaxEv + 1
  BY <1>1, <1>2, NextIsEvent
<1>4. st[next] = "new"
  BY <1>2, <1>3 DEF Fresh
<1>5. Free_of(stack, next)
  BY <1>4, NotInHand DEF IInv
<1>6. Len(stack) = 0 \/ stack[Len(stack)].op # "xfer"
  BY <1>1, <1>2, TopBelow
<1>7. /\ eventbuf' \in [Slots -> Ids \cup {0}] /\ front' \in Slots /\ back' \in Slots
      /\ in_drain' \in BOOLEAN /\ stack' \in Seq(Frame)
      /\ \E v \in Status \ {"new", "sent"} : st' = [st EXCEPT ![next] = v]
      /\ Drains(stack', in_drain') /\ Nest(stack', fused, freed) /\ Owns(stack', st')
      /\ Holds(eventbuf', front', back', st')
  <2>1. stack \in Seq(Frame) /\ fused \in BOOLEAN /\ freed \in BOOLEAN /\ st[next] # "queued"
    BY <1>2, <1>4 DEF Types
  <2>2. Drains(stack, in_drain) /\ Nest(stack, fused, freed) /\ Owns(stack, st)
    BY DEF IInv
  <2> QED BY <1>1, <1>2, <1>3, <1>5, <1>6, <2>1, <2>2, EnqueueKeeps
<1>8. Types'
  BY <1>1, <1>2, <1>3, <1>7 DEF Types
<1>9. Fresh'
  <2>1. \A x \in Ids : x # next => st'[x] = st[x]
    BY <1>2, <1>7 DEF Types
  <2>2. \A x \in next + 1 .. MaxEv : x \in Ids /\ x # next /\ x \in next .. MaxEv
    BY <1>2, QueueAssumption DEF Types, Ids
  <2>3. \A i \in 1 .. Len(inqueue) : inqueue[i] \in Ids /\ inqueue[i] # next
    BY <1>2, <1>4 DEF Types, Fresh
  <2>4. TERMINATED \in Ids
    BY QueueAssumption DEF Ids, TERMINATED
  <2> QED BY <1>1, <1>2, <1>3, <2>1, <2>2, <2>3, <2>4 DEF Fresh
<1> QED BY <1>1, <1>7, <1>8, <1>9 DEF IInv

LEMMA DenqueueInv == IInv /\ Denqueue => IInv'
<1> SUFFICES ASSUME IInv, Denqueue PROVE IInv'
  OBVIOUS
<1>1. /\ stack = <<>> /\ next <= Limit /\ next' = next + 1
      /\ st' = [st EXCEPT ![next] = "handled"] /\ stack' = <<Hnd(next, N, "denqueue")>>
      /\ cf' = cf /\ drain' = drain /\ dead' = dead /\ in_drain' = in_drain /\ locked' = locked
      /\ eventbuf' = eventbuf /\ front' = front /\ back' = back
      /\ inqueue' = inqueue /\ fused' = fused /\ fuse_blown' = fuse_blown /\ freed' = freed
      /\ overrun' = overrun /\ killswitch' = killswitch
  BY DEF Denqueue, fsrv, bad, ctl, ring
<1>2. Types /\ Fresh /\ Holds(eventbuf, front, back, st)
  BY DEF IInv
<1>3. /\ next \in Ids /\ next \in next .. MaxEv /\ next # TERMINATED
      /\ next + 1 \in 1 .. MaxEv + 1
  BY <1>1, <1>2, NextIsEvent
<1>4. st[next] = "new"
  BY <1>2, <1>3 DEF Fresh
<1>5. PICK x \in Frame : /\ x = Hnd(next, N, "denqueue") /\ x.op = "hnd" /\ x.ev = next
                         /\ x.by = "denqueue"
  BY <1>3, HndFrame, QueueAssumption
<1>6. Grows(stack, x, stack')
  BY <1>1, <1>5, Single
<1>7. Drains(stack', in_drain')
  BY <1>1, <1>2, <1>5, <1>6, DrainsGrow, ZenonT(30) DEF IInv, Types
<1>8. Nest(stack', fused', freed')
  <2>1. Len(stack) = 0
    BY <1>1
  <2> QED BY <1>1, <1>2, <1>5, <1>6, <2>1, NestGrow DEF IInv, Types
<1>9. Owns(stack', st')
  <2>1. Free_of(stack, next)
    BY <1>4, NotInHand DEF IInv
  <2>2. st \in [Ids -> Status] /\ "handled" \in Status /\ Owns(stack, st)
    BY <1>2 DEF Types, Status, IInv
  <2> QED BY <1>1, <1>3, <1>5, <1>6, <2>1, <2>2, OwnsGrow, Zenon
<1>a. \A y \in Ids : y # next => st'[y] = st[y]
  BY <1>1, <1>2 DEF Types
<1>b. st'[next] = "handled"
  BY <1>1, <1>2, <1>3 DEF Types
<1>c. Holds(eventbuf', front', back', st')
  BY <1>1, <1>2, <1>4, <1>a, <1>b, HoldsSame, ZenonT(30)
<1>d. Types'
  <2>1. st' \in [Ids -> Status]
    BY <1>1, <1>2, Zenon DEF Types, Status
  <2> QED BY <1>1, <1>2, <1>3, <1>6, <2>1 DEF Types, Grows
<1>e. Fresh'
  <2>2. \A y \in next + 1 .. MaxEv : y \in Ids /\ y # next /\ y \in next .. MaxEv
    BY <1>2, QueueAssumption DEF Types, Ids
  <2>3. \A i \in 1 .. Len(inqueue) : inqueue[i] \in Ids /\ inqueue[i] # next
    BY <1>2, <1>4 DEF Types, Fresh
  <2>4. TERMINATED \in Ids
    BY QueueAssumption DEF Ids, TERMINATED
  <2> QED BY <1>1, <1>2, <1>3, <1>a, <2>2, <2>3, <2>4 DEF Fresh
<1> QED BY <1>7, <1>8, <1>9, <1>c, <1>d, <1>e DEF IInv

LEMMA Client_SendInv == IInv /\ Client_Send => IInv'
<1> SUFFICES ASSUME IInv, Client_Send PROVE IInv'
  OBVIOUS
<1>1. /\ ~freed /\ next <= Limit /\ next' = next + 1 /\ inqueue' = Append(inqueue, next)
      /\ st' = [st EXCEPT ![next] = "sent"] /\ stack' = stack
      /\ cf' = cf /\ drain' = drain /\ dead' = dead /\ in_drain' = in_drain /\ locked' = locked
      /\ eventbuf' = eventbuf /\ front' = front /\ back' = back
      /\ fused' = fused /\ fuse_blown' = fuse_blown /\ freed' = freed
      /\ overrun' = overrun /\ killswitch' = killswitch
  BY DEF Client_Send, ctl, ring, bad
<1>2. Types /\ Fresh /\ Holds(eventbuf, front, back, st)
  BY DEF IInv
<1>3. /\ next \in Ids /\ next \in next .. MaxEv /\ next # TERMINATED
      /\ next + 1 \in 1 .. MaxEv + 1
  BY <1>1, <1>2, NextIsEvent
<1>4. st[next] = "new"
  BY <1>2, <1>3 DEF Fresh
<1>5. /\ \A y \in Ids : y # next => st'[y] = st[y]
      /\ st'[next] = "sent" /\ st' \in [Ids -> Status]
  BY <1>1, <1>2, <1>3 DEF Types, Status
<1>6. Owns(stack', st')
  <2>1. Free_of(stack, next)
    BY <1>4, NotInHand DEF IInv
  <2>2. st \in [Ids -> Status] /\ "sent" \in Status /\ Owns(stack, st)
    BY <1>2 DEF Types, Status, IInv
  <2> QED BY <1>1, <1>3, <2>1, <2>2, OwnsSame, Zenon
<1>7. Holds(eventbuf', front', back', st')
  BY <1>1, <1>2, <1>4, <1>5, HoldsSame, Zenon
<1>8. /\ inqueue' \in Seq(Ids) /\ Len(inqueue) \in Nat /\ Len(inqueue') = Len(inqueue) + 1
      /\ inqueue'[Len(inqueue')] = next
      /\ \A i \in 1 .. Len(inqueue) : inqueue'[i] = inqueue[i] /\ inqueue[i] \in Ids
  BY <1>1, <1>2, <1>3 DEF Types
<1>9. Types'
  BY <1>1, <1>2, <1>3, <1>5, <1>8 DEF Types
<1>a. Fresh'
  <2>1. \A y \in next + 1 .. MaxEv : y \in Ids /\ y # next /\ y \in next .. MaxEv
    BY <1>2, QueueAssumption DEF Types, Ids
  <2>2. \A i \in 1 .. Len(inqueue) : st[inqueue[i]] = "sent" /\ inqueue[i] # next
    BY <1>2, <1>4 DEF Fresh
  <2>3. \A i \in 1 .. Len(inqueue') : i = Len(inqueue') \/ i \in 1 .. Len(inqueue)
    BY <1>8
  <2>4. \A i \in 1 .. Len(inqueue') : st'[inqueue'[i]] = "sent"
    BY <1>5, <1>8, <2>2, <2>3
  <2>5. \A i, j \in 1 .. Len(inqueue') : inqueue'[i] = inqueue'[j] => i = j
    BY <1>2, <1>8, <2>2, <2>3 DEF Fresh
  <2>6. TERMINATED \in Ids
    BY QueueAssumption DEF Ids, TERMINATED
  <2> QED BY <1>1, <1>2, <1>3, <1>5, <2>1, <2>4, <2>5, <2>6 DEF Fresh
<1> QED BY <1>1, <1>6, <1>7, <1>9, <1>a DEF IInv

LEMMA Feed_BeginInv == IInv /\ Feed_Begin => IInv'
<1> SUFFICES ASSUME IInv, Feed_Begin PROVE IInv'
  OBVIOUS
<1>1. /\ stack = <<>> /\ stack' = <<Feed>> /\ next' = next /\ st' = st
      /\ cf' = cf /\ drain' = drain /\ dead' = dead /\ in_drain' = in_drain /\ locked' = locked
      /\ eventbuf' = eventbuf /\ front' = front /\ back' = back
      /\ inqueue' = inqueue /\ fused' = fused /\ fuse_blown' = fuse_blown /\ freed' = freed
      /\ overrun' = overrun /\ killswitch' = killswitch
  BY DEF Feed_Begin, fsrv, bad, ctl, ring
<1>2. Feed \in Frame /\ Feed.op = "feed" /\ Feed.by = "none"
  BY QueueAssumption DEF Feed, Frame
<1>3. Grows(stack, Feed, stack') /\ Len(stack) = 0
  BY <1>1, <1>2, Single, ZenonT(30)
<1>4. Types /\ Types'
  BY <1>1, <1>3 DEF IInv, Types, Grows
<1>5. Drains(stack', in_drain')
  BY <1>1, <1>2, <1>3, <1>4, DrainsGrow, ZenonT(30) DEF IInv, Types
<1>6. Nest(stack', fused', freed')
  BY <1>1, <1>2, <1>3, <1>4, NestGrow DEF IInv, Types
<1>7. Owns(stack', st')
  <2>1. \A i \in 1 .. Len(stack') : stack'[i].op = "feed"
    BY <1>2, <1>3 DEF Grows
  <2> QED BY <2>1 DEF Owns
<1>8. Fresh' /\ Holds(eventbuf', front', back', st')
  BY <1>1 DEF IInv, Fresh
<1> QED BY <1>4, <1>5, <1>6, <1>7, <1>8 DEF IInv

LEMMA Transfer_BeginInv == IInv /\ Transfer_Begin => IInv'
<1> SUFFICES ASSUME IInv, Transfer_Begin PROVE IInv'
  OBVIOUS
<1>1. /\ stack = <<>> /\ stack' = <<Xfer>> /\ next' = next /\ st' = st /\ ~freed
      /\ cf' = cf /\ drain' = drain /\ dead' = dead /\ in_drain' = in_drain /\ locked' = locked
      /\ eventbuf' = eventbuf /\ front' = front /\ back' = back
      /\ inqueue' = inqueue /\ fused' = fused /\ fuse_blown' = fuse_blown /\ freed' = freed
      /\ overrun' = overrun /\ killswitch' = killswitch
  BY DEF Transfer_Begin, fsrv, bad, ctl, ring
<1>2. Xfer \in Frame /\ Xfer.op = "xfer" /\ Xfer.by = "none"
  BY QueueAssumption DEF Xfer, Frame
<1>3. Grows(stack, Xfer, stack') /\ Len(stack) = 0
  BY <1>1, <1>2, Single, ZenonT(30)
<1>4. Types /\ Types'
  BY <1>1, <1>3 DEF IInv, Types, Grows
<1>5. Drains(stack', in_drain')
  BY <1>1, <1>2, <1>3, <1>4, DrainsGrow, ZenonT(30) DEF IInv, Types
<1>6. Len(stack') = 1 /\ stack'[1].op = "xfer" /\ stack'[1].by = "none"
  BY <1>2, <1>3 DEF Grows
<1>7. Nest(stack', fused', freed') /\ Owns(stack', st')
  <2>1. ~fused
    BY <1>3 DEF IInv, Nest
  <2> QED BY <1>1, <1>6, <2>1 DEF Nest, Owns
<1>8. Fresh' /\ Holds(eventbuf', front', back', st')
  BY <1>1 DEF IInv, Fresh
<1> QED BY <1>4, <1>5, <1>7, <1>8 DEF IInv

LEMMA QuietInv == IInv /\ (Setdrain \/ Lock \/ Client_Overrun \/ Resynch) => IInv'
<1> SUFFICES ASSUME IInv, Setdrain \/ Lock \/ Client_Overrun \/ Resynch PROVE IInv'
  OBVIOUS
<1>1. /\ stack' = stack /\ next' = next /\ st' = st /\ cf' = cf
      /\ dead' = dead /\ in_drain' = in_drain
      /\ eventbuf' = eventbuf /\ front' = front /\ back' = back
      /\ inqueue' = inqueue /\ fused' = fused /\ fuse_blown' = fuse_blown /\ freed' = freed
  BY DEF Setdrain, Lock, Client_Overrun, Resynch, fsrv, ctl, ring
<1>2. /\ drain' \in BOOLEAN /\ locked' \in BOOLEAN
      /\ overrun' \in BOOLEAN /\ killswitch' \in BOOLEAN
  BY Zenon DEF IInv, Types, Setdrain, Lock, Client_Overrun, Resynch, fsrv, bad, ctl
<1>3. Types'
  BY <1>1, <1>2 DEF IInv, Types
<1> QED BY <1>1, <1>3 DEF IInv, Fresh

LEMMA PurgeInv == IInv /\ Purge => IInv'
<1> SUFFICES ASSUME IInv, Purge PROVE IInv'
  OBVIOUS
<1>1. /\ stack = <<>> /\ stack' = stack /\ next' = next
      /\ st' = [e \in Ids |-> IF st[e] = "queued" THEN "purged" ELSE st[e]]
      /\ cf' = cf /\ drain' = drain /\ dead' = dead /\ in_drain' = in_drain /\ locked' = locked
      /\ eventbuf' = eventbuf /\ front' = 0 /\ back' = 0
      /\ inqueue' = inqueue /\ fused' = fused /\ fuse_blown' = fuse_blown /\ freed' = freed
      /\ overrun' = overrun /\ killswitch' = killswitch
  BY DEF Purge, fsrv, bad, ctl
<1>2. /\ \A e \in Ids : st'[e] # "queued" /\ (st[e] \in {"new", "sent"} => st'[e] = st[e])
      /\ st' \in [Ids -> Status]
  BY <1>1 DEF IInv, Types, Status
<1>3. Types'
  BY <1>1, <1>2, QueueAssumption DEF IInv, Types, Slots
<1>4. Drains(stack', in_drain') /\ Nest(stack', fused', freed') /\ Owns(stack', st')
  BY <1>1 DEF IInv, Owns
<1>5. Fresh'
  <2>1. next .. MaxEv \subseteq Ids /\ TERMINATED \in Ids
    BY QueueAssumption DEF IInv, Types, Ids, TERMINATED
  <2>2. \A i \in 1 .. Len(inqueue) : inqueue[i] \in Ids
    BY DEF IInv, Types
  <2> QED BY <1>1, <1>2, <2>1, <2>2, ZenonT(30) DEF IInv, Fresh
<1>6. Holds(eventbuf', front', back', st')
  <2>1. Dist(front', back') = 0
    BY <1>1, QueueAssumption DEF Dist
  <2> QED BY <1>2, <2>1 DEF Holds
<1> QED BY <1>3, <1>4, <1>5, <1>6 DEF IInv

LEMMA Feed_StepInv == IInv /\ Feed_Step => IInv'
<1> SUFFICES ASSUME IInv, Feed_Step PROVE IInv'
  OBVIOUS
<1> DEFINE e == eventbuf[front]
<1>1. /\ stack # <<>> /\ Top.op \in {"feed", "full"} /\ front # back /\ front' = Succ(front)
      /\ cf' = cf /\ eventbuf' = eventbuf /\ back' = back /\ drain' = drain
      /\ in_drain' = in_drain /\ locked' = locked /\ next' = next
      /\ inqueue' = inqueue /\ fused' = fused /\ fuse_blown' = fuse_blown /\ freed' = freed
      /\ overrun' = overrun /\ killswitch' = killswitch
  BY DEF Feed_Step, TopIs, fsrv, bad
<1>2. Types /\ Fresh /\ Holds(eventbuf, front, back, st) /\ Owns(stack, st)
  BY DEF IInv
<1>3. \/ st' = [st EXCEPT ![e] = "done"] /\ stack' = stack /\ dead' = TRUE
      \/ /\ st' = [st EXCEPT ![e] = "handled"] /\ stack' = Append(stack, Hnd(e, front, Top.op))
         /\ dead' = dead
  BY DEF Feed_Step
<1>4. /\ e \in Ids /\ st[e] = "queued"
      /\ \A v \in Status \ {"queued"} : Holds(eventbuf, Succ(front), back, [st EXCEPT ![e] = v])
  <2>1. eventbuf \in [Slots -> Ids \cup {0}] /\ front \in Slots /\ back \in Slots
        /\ st \in [Ids -> Status]
    BY <1>2 DEF Types
  <2>2. "done" \in Status \ {"queued"}
    BY DEF Status
  <2> QED BY <1>1, <1>2, <2>1, <2>2, HoldsPop
<1> HIDE DEF e
<1>5. Free_of(stack, e)
  BY <1>2, <1>4, NotInHand
<1>6. "done" \in Status /\ "handled" \in Status /\ front' \in Slots /\ st \in [Ids -> Status]
  BY <1>1, <1>2, SuccSlot DEF Status, Types
<1>7. Fresh'
  BY <1>1, <1>2, <1>3, <1>4, FreshSame
<1>8. Holds(eventbuf', front', back', st')
  BY <1>1, <1>3, <1>4, <1>6
<1>9. CASE st' = [st EXCEPT ![e] = "done"] /\ stack' = stack /\ dead' = TRUE
  <2>1. Owns(stack', st')
    BY <1>2, <1>4, <1>5, <1>6, <1>9, OwnsSame, ZenonT(30)
  <2>2. Types'
    BY <1>1, <1>2, <1>4, <1>6, <1>9 DEF Types
  <2> QED BY <1>1, <1>7, <1>8, <1>9, <2>1, <2>2 DEF IInv
<1>a. CASE /\ st' = [st EXCEPT ![e] = "handled"] /\ stack' = Append(stack, Hnd(e, front, Top.op))
           /\ dead' = dead
  <2>1. PICK x \in Frame : /\ x = Hnd(e, front, Top.op) /\ x.op = "hnd" /\ x.ev = e
                           /\ x.by = Top.op
    <3>1. front \in 0 .. N
      BY <1>2, QueueAssumption DEF Types, Slots
    <3> QED BY <1>1, <1>4, <3>1, HndFrame
  <2>2. Grows(stack, x, stack')
    BY <1>2, <1>a, <2>1, Grow DEF Types
  <2>3. Drains(stack', in_drain')
    <3>1. x.op # "full" /\ in_drain \in BOOLEAN /\ Drains(stack, in_drain)
      BY <1>2, <2>1, ZenonT(30) DEF IInv, Types
    <3> QED BY <1>1, <2>2, <3>1, DrainsGrow, ZenonT(30)
  <2>4. Nest(stack', fused', freed')
    <3>1. stack[Len(stack)].op # "xfer" /\ x.op # "xfer" /\ x.by # "xfer"
      BY <1>1, <1>2, <2>1, TopBelow
    <3>2. fused \in BOOLEAN /\ freed \in BOOLEAN /\ Nest(stack, fused, freed)
      BY <1>2, ZenonT(30) DEF IInv, Types
    <3>3. Len(stack) = 0 \/ stack[Len(stack)].op # "xfer"
      BY <3>1
    <3>4. Nest(stack', fused, freed)
      BY <2>2, <3>1, <3>2, <3>3, NestGrow
    <3> QED BY <1>1, <3>4, Zenon
  <2>5. Owns(stack', st')
    BY <1>2, <1>4, <1>5, <1>6, <1>a, <2>1, <2>2, OwnsGrow, Zenon
  <2>6. Types'
    <3>1. st' \in [Ids -> Status] /\ stack' \in Seq(Frame)
      BY <1>6, <1>a, <2>2, Zenon DEF Grows
    <3> QED BY <1>1, <1>2, <1>6, <1>a, <3>1 DEF Types
  <2> QED BY <1>7, <1>8, <2>3, <2>4, <2>5, <2>6, ZenonT(30) DEF IInv
<1> QED BY <1>3, <1>9, <1>a, Zenon

LEMMA Feed_EndInv == IInv /\ Feed_End => IInv'
<1> SUFFICES ASSUME IInv, Feed_End PROVE IInv'
  OBVIOUS
<1>1. /\ stack # <<>> /\ Top.op = "feed" /\ stack' = Below /\ next' = next /\ st' = st
      /\ cf' = cf /\ drain' = drain /\ dead' = dead /\ in_drain' = in_drain /\ locked' = locked
      /\ eventbuf' = eventbuf /\ front' = front /\ back' = back
      /\ inqueue' = inqueue /\ fused' = fused /\ fuse_blown' = fuse_blown /\ freed' = freed
      /\ overrun' = overrun /\ killswitch' = killswitch
  BY ZenonT(30) DEF Feed_End, TopIs, fsrv, bad, ctl, ring
<1>2. Types /\ Grows(stack', Top, stack)
  BY <1>1, TopBelow, ZenonT(30) DEF IInv
<1>3. Types'
  BY <1>1, <1>2 DEF Types, Grows
<1>4. Drains(stack', in_drain')
  <2>1. Drains(stack, in_drain) /\ in_drain \in BOOLEAN
    BY <1>2, Zenon DEF IInv, Types
  <2>2. Top.op # "full" /\ in_drain' = in_drain
    BY <1>1
  <2>3. PICK d \in BOOLEAN : d = in_drain
    BY <2>1
  <2>x. PICK x : x = Top
    OBVIOUS
  <2>4. Grows(stack', x, stack) /\ x.op # "full" /\ Drains(stack, d)
    BY <1>2, <2>1, <2>2, <2>3, <2>x
  <2>5. Drains(stack', d)
    BY <2>4, DrainsShrink, ZenonT(30)
  <2> QED BY <2>2, <2>3, <2>5
<1>5. Nest(stack', fused', freed')
  <2>1. Nest(stack', fused /\ Top.by # "xfer", freed) /\ Top.by # "xfer"
    <3>1. Top.by = "xfer" => Top.op = "hnd"
      BY <1>2, GrowsAll, Zenon DEF IInv, Nest, Grows
    <3>2. Top.by # "xfer"
      BY <1>1, <3>1
    <3>3. Nest(stack, fused, freed) /\ fused \in BOOLEAN /\ freed \in BOOLEAN
      BY <1>2, Zenon DEF IInv, Types
    <3>4. Nest(stack', fused /\ Top.by # "xfer", freed)
      BY <1>2, <3>3, NestShrink
    <3> QED BY <3>2, <3>4, Zenon
  <2> QED BY <1>1, <2>1 DEF Nest
<1>6. Owns(stack', st')
  BY <1>1, <1>2, OwnsShrink, Zenon DEF IInv
<1>7. Fresh' /\ Holds(eventbuf', front', back', st')
  BY <1>1 DEF IInv, Fresh
<1> QED BY <1>3, <1>4, <1>5, <1>6, <1>7 DEF IInv

LEMMA Full_EndInv == IInv /\ Full_End => IInv'
<1> SUFFICES ASSUME IInv, Full_End PROVE IInv'
  OBVIOUS
<1> DEFINE e == Top.ev
<1>1. /\ stack # <<>> /\ Top.op = "full" /\ front = back /\ stack' = Below /\ next' = next
      /\ in_drain' = FALSE /\ st' = [st EXCEPT ![e] = "queued"]
      /\ eventbuf' = [eventbuf EXCEPT ![back] = e] /\ back' = Succ(back) /\ front' = front
      /\ cf' = cf /\ drain' = drain /\ dead' = dead /\ locked' = locked
      /\ inqueue' = inqueue /\ fused' = fused /\ fuse_blown' = fuse_blown /\ freed' = freed
      /\ overrun' = overrun /\ killswitch' = killswitch
  BY ZenonT(30) DEF Full_End, TopIs, fsrv, bad
<1>2. Types /\ Grows(stack', Top, stack)
  BY <1>1, TopBelow, ZenonT(30) DEF IInv
<1>3. e \in Ids /\ st[e] = "held" /\ Free_of(stack', e) /\ Owns(stack', st)
  BY <1>1, <1>2, OwnsShrink, ZenonT(30) DEF IInv
<1> HIDE DEF e
<1>4. Drains(stack', in_drain')
  <2>1. \E i \in 1 .. Len(stack) : stack[i].op = "full"
    BY <1>1, <1>2, GrowsAll, ZenonT(30) DEF Grows
  <2>2. in_drain = TRUE
    BY <1>2, <2>1 DEF IInv, Drains, Types
  <2>3. Drains(stack, TRUE)
    BY <2>2, ZenonT(30) DEF IInv
  <2> QED BY <1>1, <1>2, <2>3, DrainsGrow, Zenon
<1>5. Nest(stack', fused', freed')
  <2>1. Nest(stack', fused /\ Top.by # "xfer", freed) /\ Top.by # "xfer"
    <3>1. Top.by = "xfer" => Top.op = "hnd"
      BY <1>2, GrowsAll, Zenon DEF IInv, Nest, Grows
    <3>2. Top.by # "xfer"
      BY <1>1, <3>1
    <3>3. Nest(stack, fused, freed) /\ fused \in BOOLEAN /\ freed \in BOOLEAN
      BY <1>2, Zenon DEF IInv, Types
    <3>4. Nest(stack', fused /\ Top.by # "xfer", freed)
      BY <1>2, <3>3, NestShrink
    <3> QED BY <3>2, <3>4, Zenon
  <2> QED BY <1>1, <2>1 DEF Nest
<1>6. "queued" \in Status /\ st \in [Ids -> Status]
  BY <1>2 DEF Status, Types
<1>7. Owns(stack', st')
  BY <1>1, <1>3, <1>6, OwnsSame, Zenon
<1>8. Succ(back) # front /\ Succ(back) \in Slots
  <2>1. back \in Slots
    BY <1>2, Zenon DEF Types
  <2>2. Succ(back) \in Slots /\ Succ(back) = IF back = N - 1 THEN 0 ELSE back + 1
    BY <2>1, SuccSlot, Zenon
  <2>3. back \in 0 .. N - 1 /\ N \in Nat /\ N > 1
    BY <2>1, QueueAssumption, Zenon DEF Slots
  <2> QED BY <1>1, <2>2, <2>3
<1>9. Holds(eventbuf', front', back', st')
  BY <1>1, <1>2, <1>3, <1>8, HoldsPush, Zenon DEF IInv, Types
<1>a. Types'
  <2>1. st' \in [Ids -> Status] /\ eventbuf' \in [Slots -> Ids \cup {0}]
    BY <1>1, <1>2, <1>3, <1>6 DEF Types
  <2> QED BY <1>1, <1>2, <1>8, <2>1, ZenonT(30) DEF Types, Grows
<1>b. Fresh'
  BY <1>1, <1>2, <1>3, FreshSame, ZenonT(30) DEF IInv
<1> QED BY <1>4, <1>5, <1>7, <1>9, <1>a, <1>b DEF IInv

\* What a handler that returns leaves behind, whatever became of its event.
LEMMA HandlerReturns ==
  ASSUME IInv, stack # <<>>, Top.op = "hnd"
  PROVE  /\ Grows(Below, Top, stack)
         /\ Top.ev \in Ids /\ st[Top.ev] = "handled"
         /\ Drains(Below, in_drain)
         /\ Nest(Below, fused /\ Top.by # "xfer", freed)
         /\ Owns(Below, st) /\ Free_of(Below, Top.ev)
         /\ Top.by = "xfer" => Len(stack) = 2 /\ stack[1].op = "xfer" /\ stack[1].by # "killed"
<1>1. Types /\ Grows(Below, Top, stack)
  BY TopBelow, ZenonT(30) DEF IInv
<1>2. /\ Top.ev \in Ids /\ st[Top.ev] = "handled"
      /\ Owns(Below, st) /\ Free_of(Below, Top.ev)
  <2>1. Owns(stack, st) /\ Drains(stack, in_drain)
    BY Zenon DEF IInv
  <2> QED BY <1>1, <2>1, OwnsShrink, ZenonT(30)
<1>3. Drains(Below, in_drain)
  <2>1. Top.op # "full"
    OBVIOUS
  <2>2. in_drain \in BOOLEAN
    BY <1>1 DEF Types
  <2>3. Drains(stack, in_drain)
    BY DEF IInv
  <2> QED BY <1>1, <2>1, <2>2, <2>3, DrainsOther
<1>4. /\ Nest(Below, fused /\ Top.by # "xfer", freed)
      /\ Top.by = "xfer" => Len(stack) = 2 /\ stack[1].op = "xfer" /\ stack[1].by # "killed"
  <2>1. fused \in BOOLEAN /\ freed \in BOOLEAN /\ Nest(stack, fused, freed)
    BY <1>1 DEF IInv, Types
  <2> QED BY <1>1, <2>1, NestShrink
<1> QED BY <1>1, <1>2, <1>3, <1>4, ZenonT(30)

LEMMA Handler_AcceptInv == IInv /\ Handler_Accept => IInv'
<1> SUFFICES ASSUME IInv, Handler_Accept PROVE IInv'
  OBVIOUS
<1> DEFINE e == Top.ev
           fu == fused /\ Top.by # "xfer"
           stopped == Append(Front(Below), [Last(Below) EXCEPT !.by = "stop"])
<1>1. /\ stack # <<>> /\ Top.op = "hnd" /\ st' = [st EXCEPT ![e] = "done"]
      /\ stack' = IF Top.by = "xfer" /\ fuse_blown THEN stopped ELSE Below
      /\ fused' = fu
      /\ cf' = cf /\ drain' = drain /\ dead' = dead /\ in_drain' = in_drain /\ locked' = locked
      /\ eventbuf' = eventbuf /\ front' = front /\ back' = back /\ next' = next
      /\ inqueue' = inqueue /\ fuse_blown' = fuse_blown /\ freed' = freed
      /\ overrun' = overrun /\ killswitch' = killswitch
  BY DEF Handler_Accept, TopIs, ctl, ring, bad
<1>2. Types /\ Fresh /\ Holds(eventbuf, front, back, st)
  BY DEF IInv
<1>3. /\ Grows(Below, Top, stack)
      /\ e \in Ids /\ st[e] = "handled"
      /\ Drains(Below, in_drain)
      /\ Nest(Below, fu, freed)
      /\ Owns(Below, st) /\ Free_of(Below, e)
      /\ Top.by = "xfer" => Len(stack) = 2 /\ stack[1].op = "xfer" /\ stack[1].by # "killed"
  BY <1>1, HandlerReturns
<1>4. fu \in BOOLEAN
  BY <1>2 DEF Types
<1> HIDE DEF e, fu, stopped
<1>5. "done" \in Status /\ st \in [Ids -> Status]
  BY <1>2 DEF Status, Types
<1>6. st' \in [Ids -> Status] /\ \A y \in Ids : st'[y] = "queued" <=> st[y] = "queued"
  BY <1>1, <1>3, <1>5
<1>7. Holds(eventbuf', front', back', st')
  BY <1>1, <1>2, <1>6, HoldsSame, Zenon
<1>8. Fresh'
  BY <1>1, <1>2, <1>3, FreshSame, Zenon
<1>9. Owns(Below, st')
  BY <1>1, <1>3, <1>5, OwnsSame, Zenon
<1>a. CASE ~(Top.by = "xfer" /\ fuse_blown)
  <2>1. stack' = Below
    BY <1>1, <1>a, ZenonT(30)
  <2>2. Types'
    BY <1>1, <1>2, <1>3, <1>4, <1>6, <2>1 DEF Types, Grows
  <2> QED BY <1>1, <1>3, <1>7, <1>8, <1>9, <2>1, <2>2 DEF IInv
<1>b. CASE Top.by = "xfer" /\ fuse_blown
  <2> DEFINE x == Last(Below)
             y == [x EXCEPT !.by = "stop"]
  <2>1. /\ Below \in Seq(Frame) /\ Below # <<>> /\ Len(Below) = 1
        /\ Below[1] = stack[1] /\ stack[1].op = "xfer" /\ stack[1].by # "killed"
    <3>1. /\ Len(stack) = 2 /\ stack[1].op = "xfer" /\ stack[1].by # "killed" /\ Len(stack) = Len(Below) + 1
          /\ Below \in Seq(Frame) /\ \A i \in 1 .. Len(Below) : stack[i] = Below[i]
      BY <1>3, <1>b, ZenonT(30) DEF Grows
    <3>4. PICK n \in Nat : n = Len(Below)
      BY <1>3, GrowsAll, ZenonT(30)
    <3>5. n + 1 = 2
      BY <3>1, <3>4
    <3>2. Len(Below) = 1
      BY <3>4, <3>5
    <3>3. Below # <<>>
      BY <3>2
    <3> QED BY <3>1, <3>2, <3>3
  <2>2. x = Below[1] /\ x \in Frame /\ x.op = "xfer"
    BY <2>1 DEF Last
  <2>3. y \in Frame /\ y.op = "xfer" /\ y.by = "stop"
    BY <2>2 DEF Frame
  <2>4. Grows(Front(Below), x, Below)
    BY <2>1, Shrink
  <2>5. Front(Below) \in Seq(Frame) /\ Len(Front(Below)) = 0
    BY <2>1, <2>4 DEF Grows
  <2>6. stack' = Append(Front(Below), y)
    BY <1>1, <1>b DEF stopped
  <2> HIDE DEF x, y
  <2>7. Grows(Front(Below), y, stack')
    BY <2>3, <2>5, <2>6, Grow, Zenon
  <2>8. stack' \in Seq(Frame) /\ Len(stack') = 1 /\ stack'[1].op = "xfer" /\ stack'[1].by = "stop"
    BY <2>3, <2>5, <2>7 DEF Grows
  <2>9. Drains(stack', in_drain')
    <3>1. in_drain = FALSE
      BY <1>2, <1>3, <2>1 DEF Drains, Types
    <3> QED BY <1>1, <2>8, <3>1 DEF Drains
  <2>a. ~freed
    BY <1>3, <2>1 DEF Nest
  <2>b. Nest(stack', fused', freed') /\ Owns(stack', st')
    <3>1. ~fused'
      BY <1>1, <1>b DEF fu
    <3>2. freed' = FALSE /\ fused' = FALSE /\ freed' \in BOOLEAN
      BY <1>1, <2>a, <3>1, <1>2 DEF Types
    <3>3. \A i \in 1 .. Len(stack') : i = 1
      BY <2>8
    <3>4. ~(Len(stack') >= 2)
      BY <2>8
    <3>5. Nest(stack', fused', freed')
      BY <2>8, <3>2, <3>3, <3>4, Zenon DEF Nest
    <3>6. Owns(stack', st')
      BY <2>8, <3>3, Zenon DEF Owns
    <3> QED BY <3>5, <3>6
  <2>c. Types'
    BY <1>1, <1>2, <1>4, <1>6, <2>8 DEF Types
  <2> QED BY <1>7, <1>8, <2>9, <2>b, <2>c DEF IInv
<1> QED BY <1>a, <1>b

LEMMA Handler_RejectInv == IInv /\ Handler_Reject => IInv'
<1> SUFFICES ASSUME IInv, Handler_Reject PROVE IInv'
  OBVIOUS
<1> DEFINE e == Top.ev
           fu == fused /\ Top.by # "xfer"
<1>1. /\ stack # <<>> /\ Top.op = "hnd" /\ fused' = fu
      /\ cf' = cf /\ drain' = drain /\ dead' = dead /\ locked' = locked /\ next' = next
      /\ inqueue' = inqueue /\ fuse_blown' = fuse_blown /\ freed' = freed
      /\ overrun' = overrun /\ killswitch' = killswitch
  BY ZenonT(30) DEF Handler_Reject, TopIs, bad
<1>2. Types /\ Fresh /\ Holds(eventbuf, front, back, st)
  BY DEF IInv
<1>3. /\ Grows(Below, Top, stack)
      /\ e \in Ids /\ st[e] = "handled"
      /\ Drains(Below, in_drain)
      /\ Nest(Below, fu, freed)
      /\ Owns(Below, st) /\ Free_of(Below, e)
  BY <1>1, HandlerReturns, ZenonT(30)
<1>4. fu \in BOOLEAN /\ freed \in BOOLEAN /\ Below \in Seq(Frame)
  BY <1>2, <1>3 DEF Types, Grows
<1>5. CASE Top.by = "denqueue"
  <2>1. Enqueue(e, Below)
    BY <1>5 DEF Handler_Reject
  <2>2. Len(Below) = 0 \/ Below[Len(Below)].op # "xfer" \/ Below[Len(Below)].by = "killed"
    <3> SUFFICES ASSUME Len(Below) # 0, Below[Len(Below)].op = "xfer",
                        Below[Len(Below)].by # "killed" PROVE FALSE
      BY ZenonT(30)
    <3>1. /\ Len(Below) \in 1 .. Len(Below) /\ Len(stack) = Len(Below) + 1
          /\ stack[Len(stack)] = Top /\ stack[Len(Below)] = Below[Len(Below)]
      BY <1>3, <1>4 DEF Grows
    <3>2. Len(Below) = 1
      BY <1>3, <3>1, Zenon DEF Nest
    <3>3. /\ Len(stack) = 2 /\ stack[1].op = "xfer" /\ stack[1].by # "killed"
          /\ stack[2].by = "denqueue"
      BY <1>5, <3>1, <3>2
    <3> QED BY <3>3 DEF IInv, Nest
  <2> HIDE DEF e, fu
  <2>3. /\ eventbuf' \in [Slots -> Ids \cup {0}] /\ front' \in Slots /\ back' \in Slots
        /\ in_drain' \in BOOLEAN /\ stack' \in Seq(Frame)
        /\ \E v \in Status \ {"new", "sent"} : st' = [st EXCEPT ![e] = v]
        /\ Drains(stack', in_drain') /\ Nest(stack', fu, freed) /\ Owns(stack', st')
        /\ Holds(eventbuf', front', back', st')
    <3>1. st[e] # "queued"
      BY <1>3
    <3> QED BY <1>2, <1>3, <1>4, <2>1, <2>2, <3>1, EnqueueKeeps
  <2>4. Types'
    BY <1>1, <1>2, <1>4, <2>3, ZenonT(30) DEF Types
  <2>5. Fresh'
    BY <1>1, <1>2, <1>3, <2>3, FreshSame, Zenon
  <2> QED BY <1>1, <2>3, <2>4, <2>5 DEF IInv
<1>6. CASE Top.by # "denqueue"
  <2> DEFINE v == IF Top.by = "overflow" THEN "refused" ELSE "lost"
  <2>1. /\ st' = [st EXCEPT ![e] = v] /\ stack' = Below /\ in_drain' = in_drain
        /\ eventbuf' = eventbuf /\ front' = front /\ back' = back
    BY <1>6 DEF Handler_Reject, ring
  <2>2. v \in Status /\ v # "queued"
    BY DEF Status
  <2> HIDE DEF e, fu, v
  <2>3. /\ st \in [Ids -> Status] /\ st' \in [Ids -> Status]
        /\ \A y \in Ids : st'[y] = "queued" <=> st[y] = "queued"
    BY <1>2, <1>3, <2>1, <2>2 DEF Types
  <2>4. Holds(eventbuf', front', back', st')
    BY <1>2, <2>1, <2>3, HoldsSame, Zenon
  <2>5. Fresh'
    BY <1>1, <1>2, <1>3, <2>1, FreshSame, Zenon
  <2>6. Owns(stack', st')
    BY <1>3, <2>1, <2>2, <2>3, OwnsSame, Zenon
  <2>7. Types'
    BY <1>1, <1>2, <1>4, <2>1, <2>3 DEF Types
  <2> QED BY <1>1, <1>3, <2>1, <2>4, <2>5, <2>6, <2>7 DEF IInv
<1> QED BY <1>5, <1>6

\* A transfer at its turn is the only call in progress.
LEMMA TransferAlone ==
  ASSUME IInv, stack # <<>>, Top.op = "xfer"
  PROVE  /\ Grows(Below, Top, stack) /\ Len(stack) = 1 /\ Len(Below) = 0
         /\ freed <=> Top.by = "killed"
         /\ in_drain = FALSE /\ stack[1] = Top
<1>1. Types /\ Grows(Below, Top, stack)
  BY TopBelow DEF IInv
<1>2. Len(stack) = 1 /\ (freed <=> Top.by = "killed")
  <2>1. fused \in BOOLEAN /\ freed \in BOOLEAN /\ Nest(stack, fused, freed)
    BY <1>1 DEF IInv, Types
  <2> QED BY <1>1, <2>1, NestShrink
<1>3. Len(Below) = 0 /\ stack[1] = Top
  BY <1>1, <1>2 DEF Grows
<1>4. in_drain = FALSE
  BY <1>1, <1>2, <1>3 DEF IInv, Drains, Types
<1> QED BY <1>1, <1>2, <1>3, <1>4, ZenonT(30)

\* While less than half of the queue is used it is not full.
LEMMA HalfNotFull == ASSUME Types, queue_used < N \div 2
                     PROVE  ~queue_full
<1>1. queue_used = Dist(front, back)
  BY DEF queue_used, Dist
<1>2. N \div 2 <= N - 1
  BY QueueAssumption
<1>3. Dist(front, back) # N - 1
  <2>1. Dist(front, back) \in Slots
    BY AtSlot DEF Types
  <2>2. Dist(front, back) \in Nat
    BY <2>1 DEF Slots
  <2>3. N \div 2 \in Nat
    BY QueueAssumption
  <2> QED BY <1>1, <1>2, <2>2, <2>3, QueueAssumption
<1> QED BY <1>3, AtSlot DEF Types, queue_full

LEMMA Transfer_StepInv == IInv /\ Transfer_Step => IInv'
<1> SUFFICES ASSUME IInv, Transfer_Step PROVE IInv'
  OBVIOUS
<1> DEFINE e == Head(inqueue)
<1>1. /\ stack # <<>> /\ Top.op = "xfer" /\ inqueue # <<>> /\ queue_used < cap
      /\ Top.by = "none" /\ inqueue' = Tail(inqueue)
      /\ cf' = cf /\ drain' = drain /\ dead' = dead /\ locked' = locked /\ next' = next
      /\ fuse_blown' = fuse_blown /\ freed' = freed
      /\ overrun' = overrun /\ killswitch' = killswitch
  BY DEF Transfer_Step, TopIs, bad
<1>2. Types /\ Fresh /\ Holds(eventbuf, front, back, st)
  BY DEF IInv
<1>3. /\ Grows(Below, Top, stack) /\ Len(stack) = 1 /\ ~freed /\ in_drain = FALSE
      /\ stack[1] = Top
  BY <1>1, TransferAlone
<1>4. /\ e = inqueue[1] /\ e \in Ids /\ Len(inqueue) \in Nat \ {0}
      /\ inqueue' \in Seq(Ids) /\ Len(inqueue') = Len(inqueue) - 1
      /\ \A i \in 1 .. Len(inqueue') : inqueue'[i] = inqueue[i + 1]
  <2>1. inqueue \in Seq(Ids)
    BY <1>2 DEF Types
  <2>2. /\ Head(inqueue) \in Ids /\ Tail(inqueue) \in Seq(Ids)
        /\ Len(Tail(inqueue)) = Len(inqueue) - 1
        /\ \A i \in 1 .. Len(Tail(inqueue)) : Tail(inqueue)[i] = inqueue[i + 1]
    BY <1>1, <2>1
  <2>3. Head(inqueue) = inqueue[1] /\ Len(inqueue) \in Nat \ {0}
    BY <1>1, <2>1
  <2> QED BY <1>1, <2>2, <2>3
<1>5. st[e] = "sent"
  <2>1. 1 \in 1 .. Len(inqueue)
    BY <1>4
  <2> QED BY <1>2, <1>4, <2>1 DEF Fresh
<1>6. Free_of(stack, e)
  BY <1>5, NotInHand, ZenonT(30) DEF IInv
<1> HIDE DEF e
<1>7. ASSUME NEW v \in Status, st' = [st EXCEPT ![e] = v]
      PROVE  Fresh'
  <2>1. \A y \in Ids : y # e => st'[y] = st[y]
    BY <1>2, <1>7, ZenonT(30) DEF Types
  <2>2. /\ \A y \in next .. MaxEv : y \in Ids /\ y # e
        /\ TERMINATED \in Ids /\ TERMINATED # e
    BY <1>2, <1>3, <1>5, QueueAssumption DEF Types, Ids, TERMINATED, Fresh
  <2>3. \A i \in 1 .. Len(inqueue') : /\ i + 1 \in 1 .. Len(inqueue) /\ 1 \in 1 .. Len(inqueue)
                                      /\ i + 1 # 1
    BY <1>4
  <2>4. \A i \in 1 .. Len(inqueue') : inqueue'[i] \in Ids /\ inqueue'[i] # e
    <3> SUFFICES ASSUME NEW i \in 1 .. Len(inqueue')
                 PROVE  inqueue'[i] \in Ids /\ inqueue'[i] # e
      OBVIOUS
    <3>1. inqueue'[i] = inqueue[i + 1] /\ i + 1 \in 1 .. Len(inqueue)
      BY <1>4, <2>3
    <3>2. inqueue[i + 1] # inqueue[1]
      BY <1>2, <2>3 DEF Fresh
    <3> QED BY <1>2, <1>4, <3>1, <3>2 DEF Types
  <2>5. \A i \in 1 .. Len(inqueue') : st'[inqueue'[i]] = "sent"
    BY <1>2, <1>4, <2>1, <2>3, <2>4 DEF Fresh
  <2>6. \A i, j \in 1 .. Len(inqueue') : inqueue'[i] = inqueue'[j] => i = j
    <3> SUFFICES ASSUME NEW i \in 1 .. Len(inqueue'), NEW j \in 1 .. Len(inqueue'),
                        inqueue'[i] = inqueue'[j]
                 PROVE  i = j
      OBVIOUS
    <3>1. inqueue[i + 1] = inqueue[j + 1]
      BY <1>4
    <3>2. i + 1 = j + 1
      BY <1>2, <2>3, <3>1, ZenonT(30) DEF Fresh
    <3> QED BY <3>2
  <2> QED BY <1>1, <1>2, <2>1, <2>2, <2>5, <2>6 DEF Fresh
<1>8. CASE Draining
  <2>1. /\ fused' = TRUE /\ st' = [st EXCEPT ![e] = "handled"]
        /\ stack' = Append(stack, Hnd(e, N, "xfer"))
        /\ eventbuf' = eventbuf /\ front' = front /\ back' = back /\ in_drain' = in_drain
    BY <1>8, ZenonT(30) DEF Transfer_Step, ring, e
  <2>2. PICK x \in Frame : x = Hnd(e, N, "xfer") /\ x.op = "hnd" /\ x.ev = e /\ x.by = "xfer"
    BY <1>4, HndFrame, QueueAssumption
  <2>3. Grows(stack, x, stack')
    BY <1>2, <2>1, <2>2, Grow DEF Types
  <2>4. /\ stack' \in Seq(Frame) /\ Len(stack') = 2
        /\ stack'[1].op = "xfer" /\ stack'[2].op = "hnd" /\ stack'[2].by = "xfer"
        /\ stack'[1].by = "none"
    <3>1. stack'[1] = Top /\ Len(stack') = 2 /\ stack'[2] = x /\ stack' \in Seq(Frame)
      BY <1>3, <2>3 DEF Grows
    <3> QED BY <1>1, <2>2, <3>1
  <2>5. Drains(stack', in_drain')
    BY <1>3, <2>1, <2>4 DEF Drains
  <2>6. Nest(stack', fused', freed')
    BY <1>1, <1>3, <2>1, <2>4 DEF Nest
  <2>7. "handled" \in Status /\ st \in [Ids -> Status]
    BY <1>2 DEF Types, Status
  <2>8. Owns(stack', st')
    <3>1. Owns(stack, st)
      BY DEF IInv
    <3> QED BY <1>4, <1>6, <2>1, <2>2, <2>3, <2>7, <3>1, OwnsGrow, Zenon
  <2>9. st' \in [Ids -> Status] /\ \A y \in Ids : st'[y] = "queued" <=> st[y] = "queued"
    BY <1>4, <1>5, <2>1, <2>7
  <2>a. Holds(eventbuf', front', back', st')
    BY <1>2, <2>1, <2>9, HoldsSame, ZenonT(30)
  <2>b. Types'
    BY <1>1, <1>2, <1>4, <2>1, <2>4, <2>9 DEF Types
  <2>c. Fresh'
    BY <1>7, <2>1, <2>7, Zenon
  <2> QED BY <2>5, <2>6, <2>8, <2>a, <2>b, <2>c DEF IInv
<1>9. CASE ~Draining
  <2>1. Enqueue(e, stack) /\ fused' = fused
    BY <1>9 DEF Transfer_Step, e
  <2>2. ~queue_full
    BY <1>1, <1>2, <1>9, HalfNotFull DEF cap
  <2>3. /\ eventbuf' \in [Slots -> Ids \cup {0}] /\ front' \in Slots /\ back' \in Slots
        /\ in_drain' \in BOOLEAN /\ stack' \in Seq(Frame)
        /\ \E v \in Status \ {"new", "sent"} : st' = [st EXCEPT ![e] = v]
        /\ Drains(stack', in_drain') /\ Nest(stack', fused, freed) /\ Owns(stack', st')
        /\ Holds(eventbuf', front', back', st')
    <3>1. /\ stack \in Seq(Frame) /\ fused \in BOOLEAN /\ freed \in BOOLEAN
          /\ st[e] # "queued"
      BY <1>2, <1>5 DEF Types
    <3>2. Drains(stack, in_drain) /\ Nest(stack, fused, freed) /\ Owns(stack, st)
      BY DEF IInv
    <3> QED BY <1>2, <1>4, <1>6, <2>1, <2>2, <3>1, <3>2, EnqueueKeeps, ZenonT(30)
  <2>4. Types'
    BY <1>1, <1>2, <1>4, <2>1, <2>3 DEF Types
  <2>5. Fresh'
    BY <1>7, <2>3, ZenonT(30)
  <2> QED BY <1>1, <2>1, <2>3, <2>4, <2>5 DEF IInv
<1> QED BY <1>8, <1>9

\* arcan_frameserver_free with the calls in progress, in order for a frameserver
\* that is freed unless the fuse is set.
LEMMA FreeKeeps ==
  ASSUME IInv, NEW calls \in Seq(Frame), Free(calls), ~freed,
         Drains(calls, in_drain), Nest(calls, fused, ~fused), Owns(calls, st),
         cf' = cf, drain' = drain, dead' = dead, locked' = locked, next' = next, fused' = fused,
         overrun' = overrun, killswitch' \in BOOLEAN
  PROVE  IInv'
<1>1. Types /\ Fresh /\ Holds(eventbuf, front, back, st)
  BY DEF IInv
<1>2. CASE fused
  <2>1. /\ fuse_blown' = TRUE /\ stack' = calls /\ in_drain' = in_drain /\ st' = st
        /\ eventbuf' = eventbuf /\ front' = front /\ back' = back
        /\ freed' = freed /\ inqueue' = inqueue
    BY <1>2, ZenonT(30) DEF Free, ring
  <2>2. Types'
    BY <1>1, <2>1 DEF Types
  <2>3. Nest(stack', fused', freed')
    BY <1>2, <2>1 DEF Nest
  <2> QED BY <1>1, <2>1, <2>2, <2>3, ZenonT(30) DEF IInv, Fresh
<1>3. CASE ~fused
  <2>1. /\ freed' = TRUE /\ inqueue' = <<>> /\ fuse_blown' = fuse_blown
        /\ Enqueue(TERMINATED, calls)
    BY <1>3, ZenonT(30) DEF Free
  <2>2. TERMINATED \in Ids /\ st[TERMINATED] = "new"
    BY <1>1, QueueAssumption DEF Ids, TERMINATED, Fresh
  <2>3. Free_of(calls, TERMINATED)
    BY <2>2, NotInHand, Zenon
  <2>4. Nest(calls, fused, TRUE)
    BY <1>3 DEF Nest
  <2>5. Len(calls) = 0 \/ calls[Len(calls)].op # "xfer" \/ calls[Len(calls)].by = "killed"
    <3>1. Len(calls) = 0 \/ Len(calls) \in 1 .. Len(calls)
      OBVIOUS
    <3> QED BY <2>4, <3>1, ZenonT(30) DEF Nest
  <2>6. /\ eventbuf' \in [Slots -> Ids \cup {0}] /\ front' \in Slots /\ back' \in Slots
        /\ in_drain' \in BOOLEAN /\ stack' \in Seq(Frame)
        /\ \E v \in Status \ {"new", "sent"} : st' = [st EXCEPT ![TERMINATED] = v]
        /\ Drains(stack', in_drain') /\ Nest(stack', fused, TRUE) /\ Owns(stack', st')
        /\ Holds(eventbuf', front', back', st')
    <3>1. fused \in BOOLEAN /\ TRUE \in BOOLEAN /\ st[TERMINATED] # "queued"
      BY <1>1, <2>2 DEF Types
    <3> QED BY <1>1, <2>1, <2>2, <2>3, <2>4, <2>5, <3>1, EnqueueKeeps, ZenonT(30)
  <2>7. Types'
    <3>1. st' \in [Ids -> Status]
      BY <1>1, <2>6, ZenonT(30) DEF Types
    <3>2. inqueue' \in Seq(Ids)
      BY <2>1
    <3> QED BY <1>1, <2>1, <2>6, <3>1, <3>2, Zenon DEF Types
  <2>8. Fresh'
    <3>1. \A y \in Ids : y # TERMINATED => st'[y] = st[y]
      BY <1>1, <2>6, ZenonT(30) DEF Types
    <3>2. next \in 1 .. MaxEv + 1
      BY <1>1, ZenonT(30) DEF Types
    <3>3. \A y \in next .. MaxEv : y \in Ids /\ y # TERMINATED
      BY <3>2, QueueAssumption DEF Ids, TERMINATED
    <3>4. \A y \in next .. MaxEv : st'[y] = "new"
      BY <1>1, <3>1, <3>3, ZenonT(30) DEF Fresh
    <3>5. 1 .. Len(inqueue') = {}
      BY <2>1
    <3> QED BY <2>1, <3>4, <3>5, ZenonT(30) DEF Fresh
  <2> QED BY <2>1, <2>6, <2>7, <2>8, ZenonT(30) DEF IInv
<1> QED BY <1>2, <1>3, ZenonT(30)

LEMMA Transfer_EndInv == IInv /\ Transfer_End => IInv'
<1> SUFFICES ASSUME IInv, Transfer_End PROVE IInv'
  OBVIOUS
<1>1. /\ stack # <<>> /\ Top.op = "xfer"
      /\ cf' = cf /\ drain' = drain /\ dead' = dead /\ locked' = locked /\ next' = next
      /\ fused' = fused /\ overrun' = overrun /\ killswitch' = killswitch
  BY DEF Transfer_End, TopIs, bad
<1>2. Types
  BY DEF IInv
<1>3. /\ Grows(Below, Top, stack) /\ Len(stack) = 1 /\ Len(Below) = 0
      /\ (freed <=> Top.by = "killed") /\ in_drain = FALSE
  BY <1>1, TransferAlone
<1>4. Below \in Seq(Frame) /\ 1 .. Len(Below) = {}
  <2>1. 1 .. 0 = {}
    OBVIOUS
  <2> QED BY <1>3, <2>1, Zenon DEF Grows
<1>8. ~fused
  BY <1>3 DEF IInv, Nest
<1>5. /\ Drains(Below, in_drain) /\ Nest(Below, fused, freed) /\ Nest(Below, fused, ~fused)
      /\ Owns(Below, st)
  BY <1>3, <1>4, <1>8 DEF Drains, Nest, Owns
<1>6. CASE fuse_blown /\ Top.by # "killed"
  <2>1. Free(Below)
    BY <1>6, ZenonT(30) DEF Transfer_End
  <2>2. killswitch' \in BOOLEAN /\ ~freed
    BY <1>1, <1>2, <1>3, <1>6 DEF Types
  <2> QED BY <1>1, <1>4, <1>5, <2>1, <2>2, FreeKeeps, Zenon
<1>7. CASE ~(fuse_blown /\ Top.by # "killed")
  <2>1. /\ stack' = Below /\ in_drain' = in_drain /\ st' = st
        /\ eventbuf' = eventbuf /\ front' = front /\ back' = back
        /\ freed' = freed /\ inqueue' = inqueue /\ fuse_blown' = fuse_blown
    BY <1>7, ZenonT(30) DEF Transfer_End, ring
  <2>2. Types'
    BY <1>1, <1>2, <1>4, <2>1, ZenonT(30) DEF Types
  <2> QED BY <1>1, <1>5, <2>1, <2>2, ZenonT(30) DEF IInv, Fresh
<1> QED BY <1>6, <1>7

\* The killswitch: the transfer is the only call, and is marked as it goes.
LEMMA Transfer_KillInv == IInv /\ Transfer_Kill => IInv'
<1> SUFFICES ASSUME IInv, Transfer_Kill PROVE IInv'
  OBVIOUS
<1>1. /\ stack # <<>> /\ Top.op = "xfer" /\ Top.by = "none"
      /\ cf' = cf /\ drain' = drain /\ dead' = dead /\ locked' = locked /\ next' = next
      /\ fused' = fused /\ overrun' = overrun /\ killswitch' = FALSE
  BY DEF Transfer_Kill, TopIs
<1>2. Types
  BY DEF IInv
<1>3. /\ Grows(Below, Top, stack) /\ Len(Below) = 0 /\ ~freed /\ in_drain = FALSE
      /\ Len(stack) = 1
  <2>1. freed <=> Top.by = "killed"
    BY <1>1, TransferAlone
  <2> QED BY <1>1, <2>1, TransferAlone
<1>7. ~fused
  BY <1>3 DEF IInv, Nest
<1>4. ASSUME NEW b \in {"stop", "killed"}, NEW fr \in BOOLEAN, fr <=> b = "killed"
      PROVE  LET calls == Append(Below, [Top EXCEPT !.by = b])
             IN  calls \in Seq(Frame) /\ Drains(calls, in_drain) /\ Nest(calls, fused, fr)
                 /\ Owns(calls, st)
  <2> DEFINE y == [Top EXCEPT !.by = b]
             calls == Append(Below, y)
  <2>1. Below \in Seq(Frame) /\ Top \in Frame
    BY <1>3 DEF Grows
  <2>2. y \in Frame /\ y.op = "xfer" /\ y.by = b
    BY <1>1, <2>1 DEF Frame
  <2> HIDE DEF y
  <2>3. /\ calls \in Seq(Frame) /\ Len(calls) = 1 /\ calls[1] = y
    BY <1>3, <2>1, <2>2
  <2> HIDE DEF calls
  <2>4. Drains(calls, in_drain) /\ Owns(calls, st)
    BY <1>3, <2>2, <2>3 DEF Drains, Owns
  <2>5. Nest(calls, fused, fr)
    BY <1>4, <1>7, <2>2, <2>3 DEF Nest
  <2> QED BY <2>3, <2>4, <2>5 DEF calls, y
<1>5. CASE killswitch
  <2> DEFINE calls == Append(Below, [Top EXCEPT !.by = "killed"])
  <2>1. Free(calls)
    BY <1>5, ZenonT(30) DEF Transfer_Kill
  <2>2. calls \in Seq(Frame) /\ Drains(calls, in_drain) /\ Owns(calls, st)
    BY <1>4
  <2>3. Nest(calls, fused, TRUE)
    BY <1>4
  <2>5. Nest(calls, fused, ~fused)
    BY <1>7, <2>3 DEF Nest
  <2>6. killswitch' \in BOOLEAN
    BY <1>1
  <2> HIDE DEF calls
  <2> QED BY <1>1, <1>3, <2>1, <2>2, <2>5, <2>6, FreeKeeps, Zenon
<1>6. CASE ~killswitch
  <2> DEFINE calls == Append(Below, [Top EXCEPT !.by = "stop"])
  <2>1. /\ stack' = calls /\ in_drain' = in_drain /\ st' = st
        /\ eventbuf' = eventbuf /\ front' = front /\ back' = back
        /\ freed' = freed /\ inqueue' = inqueue /\ fuse_blown' = fuse_blown
    BY <1>6, ZenonT(30) DEF Transfer_Kill, ring
  <2>2. calls \in Seq(Frame) /\ Drains(calls, in_drain) /\ Owns(calls, st)
    BY <1>4
  <2>3. Nest(calls, fused, FALSE)
    BY <1>4
  <2>4. freed = FALSE
    BY <1>2, <1>3 DEF Types
  <2> HIDE DEF calls
  <2>5. Types'
    BY <1>1, <1>2, <2>1, <2>2 DEF Types
  <2> QED BY <1>1, <2>1, <2>2, <2>3, <2>4, <2>5, ZenonT(30) DEF IInv, Fresh
<1> QED BY <1>5, <1>6

LEMMA Script_FreeInv == IInv /\ Script_Free => IInv'
<1> SUFFICES ASSUME IInv, Script_Free PROVE IInv'
  OBVIOUS
<1>1. /\ stack # <<>> /\ Top.op = "hnd" /\ ~freed /\ Free(stack)
      /\ cf' = cf /\ drain' = drain /\ dead' = dead /\ locked' = locked /\ next' = next
      /\ fused' = fused /\ overrun' = overrun /\ killswitch' = killswitch
  BY ZenonT(30) DEF Script_Free, TopIs, bad
<1>2. Types
  BY DEF IInv
<1>3. Drains(stack, in_drain) /\ Nest(stack, fused, freed) /\ Owns(stack, st)
  BY DEF IInv
<1>4. ASSUME ~fused, NEW i \in 1 .. Len(stack), stack[i].op = "xfer"
      PROVE  FALSE
  <2>1. i = 1 /\ stack[1].op = "xfer" /\ stack[1].by # "killed"
    BY <1>1, <1>3, <1>4 DEF Nest
  <2>2. Len(stack) \in Nat \ {0} /\ stack[Len(stack)].op = "hnd"
    BY <1>1, <1>2, TopBelow
  <2>3. Len(stack) >= 2
    BY <2>1, <2>2
  <2> QED BY <1>3, <1>4, <2>1, <2>3, ZenonT(30) DEF Nest
<1>5. stack \in Seq(Frame) /\ killswitch' \in BOOLEAN /\ fused \in BOOLEAN
  BY <1>1, <1>2 DEF Types
<1>6. Nest(stack, fused, ~fused)
  BY <1>1, <1>3, <1>4, <1>5 DEF Nest
<1> QED BY <1>1, <1>3, <1>5, <1>6, FreeKeeps

-----------------------------------------------------------------------------
(* theorems *)

\* Whatever the engine, its scripts and the client do, IInv is kept.
LEMMA NextInv == IInv /\ [Next]_vars => IInv'
<1> SUFFICES ASSUME IInv, [Next]_vars PROVE IInv'
  OBVIOUS
<1>1. CASE Next
  BY <1>1, ProduceInv, DenqueueInv, Client_SendInv, Feed_BeginInv, Transfer_BeginInv,
     Feed_StepInv, Feed_EndInv, Full_EndInv, Handler_AcceptInv, Handler_RejectInv,
     Transfer_StepInv, Transfer_KillInv, Transfer_EndInv, Script_FreeInv, QuietInv, PurgeInv, ZenonT(30)
  DEF Next, Running
<1>2. CASE UNCHANGED vars
  BY <1>2 DEF vars, ring, ctl, fsrv, bad, IInv, Types, Fresh
<1> QED BY <1>1, <1>2

\* The strengthened invariant holds throughout.
LEMMA IInvAlways == Spec => []IInv
  BY InitInv, NextInv, PTL DEF Spec

\* arcan_event_enqueue, _feed and _queuetransfer, however they nest through the
\* handlers: the ring holds exactly the events that wait, each of them once.
THEOREM RingIsQueuedAlways == Spec => []RingIsQueued
<1>1. IInv => RingIsQueued
  <2> SUFFICES ASSUME IInv PROVE RingIsQueued
    OBVIOUS
  <2> DEFINE n == queue_used
             at(k) == eventbuf[At(front, k)]
  <2>1. n = Dist(front, back) /\ \A k \in 1 .. n : Used[k] = At(front, k)
    BY Zenon DEF queue_used, Dist, Used, At
  <2>2. Holds(eventbuf, front, back, st)
    BY ZenonT(30) DEF IInv
  <2>3. ASSUME NEW k \in 1 .. n PROVE eventbuf[Used[k]] = at(k)
    BY <2>1, Zenon
  <2>a. /\ \A k \in 1 .. n : at(k) \in Ids /\ st[at(k)] = "queued"
        /\ \A e \in Ids : st[e] = "queued" => \E k \in 1 .. n : at(k) = e
        /\ \A j, k \in 1 .. n : at(j) = at(k) => j = k
    BY <2>1, <2>2, Zenon DEF Holds
  <2> HIDE DEF n, at
  <2>4. \A k \in 1 .. n : eventbuf[Used[k]] \in Ids /\ st[eventbuf[Used[k]]] = "queued"
    BY <2>3, <2>a, Zenon
  <2>5. \A e \in Ids : st[e] = "queued" => \E k \in 1 .. n : eventbuf[Used[k]] = e
    BY <2>3, <2>a, Zenon
  <2>6. ASSUME NEW j \in 1 .. n, NEW k \in 1 .. n, eventbuf[Used[j]] = eventbuf[Used[k]]
        PROVE  j = k
    <3>1. eventbuf[Used[j]] = at(j) /\ eventbuf[Used[k]] = at(k)
      BY <2>3, Zenon
    <3>2. at(j) = at(k)
      BY <2>6, <3>1, Zenon
    <3> QED BY <2>a, <3>2, Zenon
  <2> QED BY <2>4, <2>5, <2>6, Zenon DEF RingIsQueued, n
<1> QED BY <1>1, IInvAlways, PTL

\* The fuse of the frameserver is enough against the scripts: it is never freed
\* under arcan_event_queuetransfer but by the killswitch that one pulls itself.
THEOREM NotFreedInUseAlways == Spec => []NotFreedInUse
<1>1. IInv => NotFreedInUse
  <2> SUFFICES ASSUME IInv PROVE NotFreedInUse
    OBVIOUS
  <2>1. DOMAIN stack = 1 .. Len(stack)
    BY DEF IInv, Types
  <2> QED BY <2>1, Zenon DEF IInv, Nest, NotFreedInUse
<1> QED BY <1>1, IInvAlways, PTL

\* overflow_drain: EVSTATE_IN_DRAIN is set exactly while an enqueue feeds the
\* full queue to the drain, and no second one does so inside of it.
THEOREM OneDrainAlways == Spec => []Drains(stack, in_drain)
<1>1. IInv => Drains(stack, in_drain)
  BY DEF IInv
<1> QED BY <1>1, IInvAlways, PTL

==============================================================================
