-------------------------- MODULE A12StreamsProofs ---------------------------
(***************************************************************************)
(* Proofs about A12Streams, for every workload: any number of transfers of *)
(* any size, any number of frames, any window.                             *)
(*                                                                         *)
(* Transfers (TInv).  Stream ids of transfers that have been begun differ, *)
(* so a block the sink accepts belongs to the transfer it has open on that *)
(* channel.  The packets of one transfer are on their way in the order     *)
(* they were sent in, and a transfer the sink has open, or is yet to be    *)
(* told of, has every block that is not written still on its way: the next *)
(* one to arrive is the next one to write.  What the channel expects is    *)
(* the size less what is written, so that the count gets to 0 with the     *)
(* last block and not before.                                              *)
(*                                                                         *)
(* Frames (WInv).  The window is filled from the front with rising ids.    *)
(* As long as it is not outrun, frames on their way are newer than the one *)
(* the sink is at, and acknowledgements on their way are not: taking off   *)
(* everything up to the acknowledged frame leaves the former in place.     *)
(***************************************************************************)
EXTENDS A12Streams, WellFoundedInduction, TLAPS

USE ZenonT(5), SMTT(30), SMTT(31), ZenonT(30)   \* tried in this order

\* What goes over the line.
Packet == [t : {"binarystream", "blob", "videoframe", "video", "cancelstream", "ping", "event"},
           ch : Channels \cup {0}, sid : Nat, val : Nat, num : Nat]
Message == [p : Packet, seq : Nat]

\* The values the variables have that the arguments are about.
Nodes == [active : BOOLEAN, streamid : Nat, left : Nat, done : Nat, rampup : Nat]
Frames == [active : BOOLEAN, streamid : Nat, size : Nat, blob : Nat]

SourceTypes ==
  /\ cf \in Configs
  /\ next \in Nat /\ next <= Len(cf.blobs)
  /\ node \in [Blobs -> Nodes]
  /\ pending \in Seq(1 .. next)
  /\ out_stream \in Nat \ {0} /\ seqA \in Nat

SinkTypes ==
  /\ seqB \in Nat /\ lastB \in Nat
  /\ bframe \in [Channels -> Frames]
  /\ state \in [Blobs -> {"none", "init", "completed", "cancelled"}]
  /\ written \in [Blobs -> Seq(Nat \X Nat)]

LineTypes == ab \in Seq(Message) /\ ba \in Seq(Message)

Types == SourceTypes /\ SinkTypes /\ LineTypes

\* The size a header says.
Size(b) == IF Unknown(b) THEN 0 ELSE Blob(b).size

\* The source: what was sent of a transfer, and what is left of it.
Sound(b) ==
  /\ node[b].done <= Blob(b).size
  /\ b <= next => node[b].left = IF Unknown(b) THEN 0 ELSE Blob(b).size - node[b].done
  /\ ~node[b].active => node[b].done = 0
  /\ node[b].active => b <= next /\ node[b].streamid \in 1 .. out_stream

Apart == \A b, c \in Blobs : node[b].active /\ node[c].active /\ node[b].streamid = node[c].streamid => b = c

\* Packets of transfers on their way, in the order they were sent in: the
\* header, then the blocks.
Carries(m) == m.p.t = "binarystream" \/ m.p.t = "blob"
Place(m) == IF m.p.t = "blob" THEN m.p.num ELSE 0

Labelled(m) ==
  /\ m.p.val \in Blobs /\ node[m.p.val].active
  /\ m.p.ch = Blob(m.p.val).ch /\ m.p.sid = node[m.p.val].streamid
  /\ m.p.t = "binarystream" => m.p.num = Size(m.p.val) /\ state[m.p.val] = "none" /\ written[m.p.val] = <<>>
  /\ m.p.t = "blob" => m.p.num \in 1 .. node[m.p.val].done

InOrder == \A i, j \in 1 .. Len(ab) :
  i < j /\ Carries(ab[i]) /\ Carries(ab[j]) /\ ab[i].p.val = ab[j].p.val => Place(ab[i]) < Place(ab[j])

\* A transfer the sink has been told of, or is yet to be told of, has all of
\* its blocks that are not written still on their way.
Expected(b) == state[b] = "init" \/ \E k \in 1 .. Len(ab) : ab[k].p.t = "binarystream" /\ ab[k].p.val = b

Ahead(b) ==
  Expected(b) =>
    /\ \A n \in 1 .. node[b].done : n > Len(written[b]) =>
         \E k \in 1 .. Len(ab) : ab[k].p.t = "blob" /\ ab[k].p.val = b /\ ab[k].p.num = n
    /\ \A k \in 1 .. Len(ab) : ab[k].p.t = "blob" /\ ab[k].p.val = b => ab[k].p.num > Len(written[b])

\* The sink: what is written, and what is known of the transfer on a channel.
Held(b) ==
  /\ ~node[b].active => state[b] = "none" /\ written[b] = <<>>
  /\ Len(written[b]) <= node[b].done
  /\ \A i \in 1 .. Len(written[b]) : written[b][i] = <<b, i>>
  /\ state[b] = "completed" => Len(written[b]) = Blob(b).size
  /\ state[b] = "init" <=> (bframe[Blob(b).ch].active /\ bframe[Blob(b).ch].blob = b)
  /\ state[b] = "init" =>
       /\ bframe[Blob(b).ch].streamid = node[b].streamid
       /\ bframe[Blob(b).ch].size = IF Unknown(b) THEN 0 ELSE Blob(b).size - Len(written[b])
       /\ ~Unknown(b) => Len(written[b]) < Blob(b).size

Busy == \A c \in Channels : bframe[c].active => bframe[c].blob \in Blobs /\ Blob(bframe[c].blob).ch = c

TInv ==
  /\ Types /\ Apart /\ InOrder /\ Busy
  /\ \A b \in Blobs : Sound(b) /\ Ahead(b) /\ Held(b)
  /\ \A k \in 1 .. Len(ab) : Carries(ab[k]) => Labelled(ab[k])


-----------------------------------------------------------------------------
(* arithmetic and sequences *)

LEMMA Zero ==
  /\ 0 \in Nat /\ 1 \in Nat /\ Len(<<>>) = 0
  /\ \A n \in Nat : 0 <= n /\ ~(n < 0) /\ n - 0 = n /\ n + 1 \in Nat /\ n <= n /\ n >= n /\ (n # 0 => 0 < n)
<1>1. \A n \in Nat : 0 <= n /\ ~(n < 0) /\ n - 0 = n /\ n + 1 \in Nat /\ n <= n /\ n >= n /\ (n # 0 => 0 < n)
  OBVIOUS
<1>2. 0 \in Nat /\ 1 \in Nat /\ Len(<<>>) = 0
  OBVIOUS
<1> QED
  BY <1>1, <1>2

LEMMA UpTo ==
  /\ 1 \in 1 .. 1 /\ ~(1 < 1)
  /\ (\A j \in 1 .. 0 : FALSE) /\ (\A j \in 1 .. 1 : j = 1) /\ (\A j \in 1 .. 2 : j = 1 \/ j = 2)
OBVIOUS

LEMMA OneMore == ASSUME NEW a \in Nat, NEW m \in 1 .. a + 1, m \notin 1 .. a PROVE m = a + 1
OBVIOUS

LEMMA NextIn == ASSUME NEW k \in Nat, NEW n \in Nat, k < n PROVE k + 1 \in 1 .. n /\ k + 1 \in 1 .. k + 1
OBVIOUS

LEMMA FromTwo == ASSUME NEW n \in Nat \ {0}, NEW k \in 2 .. n PROVE k \in 1 .. n /\ 1 < k
OBVIOUS

LEMMA FromOne == ASSUME NEW n \in Nat, NEW k \in 1 .. n, k # 1 PROVE 1 < k
OBVIOUS

LEMMA NotBoth == ASSUME NEW x \in Nat, NEW y \in Nat PROVE ~(x < y /\ y <= x)
OBVIOUS

LEMMA Shifted == ASSUME NEW j \in Nat, NEW k \in Nat, NEW d \in Nat, j < k PROVE j + d < k + d
OBVIOUS

LEMMA StepIn == ASSUME NEW n \in Nat \ {0}, NEW k \in 1 .. n - 1 PROVE k + 1 \in 2 .. n /\ k + 1 \in 1 .. n
OBVIOUS

LEMMA NextUp ==
  ASSUME NEW l \in Nat, NEW d \in Nat, NEW x \in 1 .. d, x > l PROVE l + 1 \in 1 .. d /\ l + 1 > l /\ l + 1 <= x
OBVIOUS

LEMMA NotAbove == ASSUME NEW d \in Nat, NEW x \in 1 .. d PROVE x <= d
OBVIOUS

LEMMA Rest == (0 # 1) /\ \A L, S \in Nat : S - L = 1 => L + 1 = S
OBVIOUS

LEMMA Adds ==
  /\ \A k, n \in Nat : k + n \in Nat
  /\ \A n \in Nat \ {0} : n + 1 \in Nat \ {0} /\ n + 1 >= n
OBVIOUS

LEMMA After == ASSUME NEW k \in Nat, k # 0, NEW n \in Nat, k + 1 \in 1 .. n PROVE 1 \in 1 .. n /\ 1 < k + 1
OBVIOUS

LEMMA Below == ASSUME NEW i \in Nat, NEW j \in Nat PROVE j = i \/ j < i \/ i < j
OBVIOUS

LEMMA PlaceIs == ASSUME NEW m, m.p.num \in Nat PROVE Place(m) \in Nat
BY DEF Place

LEMMA OnePacket == ASSUME NEW p \in Packet PROVE <<p>> \in Seq(Packet) /\ <<>> \in Seq(Packet)
OBVIOUS

LEMMA ElementOf == ASSUME NEW s \in Seq(Message), NEW k \in 1 .. Len(s) PROVE s[k] \in Message
OBVIOUS

LEMMA TailOf == ASSUME NEW s \in Seq(Message), s # <<>> PROVE Tail(s) \in Seq(Message)
OBVIOUS

LEMMA Nothing ==
  /\ <<>> \in Seq(Message) /\ \A j \in 1 .. Len(<<>>) : FALSE
  /\ \A s \in Seq(Message) : s = s \o <<>>
<1>1. <<>> \in Seq(Message) /\ \A j \in 1 .. Len(<<>>) : FALSE
  OBVIOUS
<1>2. \A s \in Seq(Message) : s = s \o <<>>
  OBVIOUS
<1> QED
  BY <1>1, <1>2

-----------------------------------------------------------------------------
(* what the workload says *)

LEMMA Workload ==
  ASSUME cf \in Configs
  PROVE  /\ Len(cf.blobs) \in Nat /\ cf.frames \in Nat /\ cf.parts \in Nat \ {0}
         /\ \A b \in Blobs : Blob(b).size \in Nat \ {0} /\ Blob(b).ident \in Nat /\ Blob(b).ch \in Channels
BY StreamsAssumption, SMTT(30), SMTT(31) DEF StreamsAssumption, Blobs, Blob, Channels

LEMMA TypesSay ==
  ASSUME Types
  PROVE  /\ cf \in Configs /\ next \in Nat /\ out_stream \in Nat \ {0} /\ seqA \in Nat /\ seqB \in Nat
         /\ node \in [Blobs -> Nodes] /\ pending \in Seq(1 .. next)
         /\ \A c \in Blobs : /\ node[c] \in Nodes /\ node[c].streamid \in Nat /\ node[c].left \in Nat
                             /\ node[c].done \in Nat /\ node[c].active \in BOOLEAN
                             /\ written[c] \in Seq(Nat \X Nat) /\ Len(written[c]) \in Nat /\ c \in Nat
         /\ \A c \in Channels : /\ bframe[c] \in Frames /\ bframe[c].streamid \in Nat /\ bframe[c].size \in Nat
                                /\ bframe[c].active \in BOOLEAN /\ bframe[c].blob \in Nat
         /\ ab \in Seq(Message) /\ Len(ab) \in Nat
         /\ \A k \in 1 .. Len(ab) : ab[k] \in Message /\ ab[k].p.num \in Nat
<1>1. SourceTypes /\ SinkTypes /\ LineTypes
  BY DEF Types
<1>2. /\ cf \in Configs /\ next \in Nat /\ out_stream \in Nat \ {0} /\ seqA \in Nat /\ seqB \in Nat
      /\ node \in [Blobs -> Nodes] /\ pending \in Seq(1 .. next)
      /\ written \in [Blobs -> Seq(Nat \X Nat)] /\ bframe \in [Channels -> Frames]
  BY <1>1 DEF SourceTypes, SinkTypes
<1>3. ASSUME NEW c \in Blobs
      PROVE  /\ node[c] \in Nodes /\ node[c].streamid \in Nat /\ node[c].left \in Nat
             /\ node[c].done \in Nat /\ node[c].active \in BOOLEAN
             /\ written[c] \in Seq(Nat \X Nat) /\ Len(written[c]) \in Nat /\ c \in Nat
  <2>1. node[c] \in Nodes /\ written[c] \in Seq(Nat \X Nat)
    BY <1>2
  <2>2. c \in Nat
    BY <1>2, Workload, SMTT(30), SMTT(31) DEF Blobs
  <2> QED
    BY <2>1, <2>2, SMTT(30), SMTT(31) DEF Nodes
<1>4. ASSUME NEW c \in Channels
      PROVE  /\ bframe[c] \in Frames /\ bframe[c].streamid \in Nat /\ bframe[c].size \in Nat
             /\ bframe[c].active \in BOOLEAN /\ bframe[c].blob \in Nat
  <2>1. bframe[c] \in Frames
    BY <1>2
  <2> QED
    BY <2>1 DEF Frames
<1>5. ab \in Seq(Message) /\ Len(ab) \in Nat
  BY <1>1 DEF LineTypes
<1>6. ASSUME NEW k \in 1 .. Len(ab) PROVE ab[k] \in Message /\ ab[k].p.num \in Nat
  <2>1. ab[k] \in Message
    BY <1>5
  <2> QED
    BY <2>1 DEF Message, Packet
<1> QED
  BY <1>2, <1>3, <1>4, <1>5, <1>6

LEMMA InitTransfers == Init => TInv
<1> SUFFICES ASSUME Init PROVE TInv
  OBVIOUS
<1>0. cf \in Configs
  BY DEF Init
<1>1. /\ Len(cf.blobs) \in Nat
      /\ \A b \in Blobs : Blob(b).size \in Nat \ {0} /\ Blob(b).ch \in Channels
  BY <1>0, Workload
<1>2. Types
  BY <1>0, <1>1 DEF Init, Types, SourceTypes, SinkTypes, LineTypes, Nodes, Frames, NoStream, Blobs
<1>3. Apart /\ InOrder /\ Busy
  BY DEF Init, Apart, InOrder, Busy
<1>4. ASSUME NEW b \in Blobs PROVE Sound(b)
  BY <1>1 DEF Init, Sound, NoStream, Blobs
<1>5. ASSUME NEW b \in Blobs PROVE Ahead(b)
  BY SMTT(30), SMTT(31) DEF Init, Ahead, Expected
<1>6. ASSUME NEW b \in Blobs PROVE Held(b)
  BY <1>1 DEF Init, Held
<1>7. \A k \in 1 .. Len(ab) : Carries(ab[k]) => Labelled(ab[k])
  BY DEF Init
<1> QED
  BY <1>2, <1>3, <1>4, <1>5, <1>6, <1>7 DEF TInv

-----------------------------------------------------------------------------
(* the source sends *)

LEMMA Grown ==
  ASSUME NEW S, NEW s \in Seq(S), NEW q \in Seq(S)
  PROVE  /\ s \o q \in Seq(S) /\ Len(s \o q) = Len(s) + Len(q) /\ Len(s) \in Nat /\ Len(q) \in Nat
         /\ \A i \in 1 .. Len(s) : i \in 1 .. Len(s \o q) /\ (s \o q)[i] = s[i]
         /\ \A i \in 1 .. Len(q) : Len(s) + i \in 1 .. Len(s \o q) /\ (s \o q)[Len(s) + i] = q[i]
         /\ \A i \in 1 .. Len(s \o q) : i \in 1 .. Len(s) \/ \E j \in 1 .. Len(q) : i = Len(s) + j
<1>1. /\ s \o q \in Seq(S) /\ Len(s \o q) = Len(s) + Len(q) /\ Len(s) \in Nat /\ Len(q) \in Nat
      /\ \A i \in 1 .. Len(s \o q) : (s \o q)[i] = IF i <= Len(s) THEN s[i] ELSE q[i - Len(s)]
  OBVIOUS
<1>2. ASSUME NEW i \in 1 .. Len(s \o q), i \notin 1 .. Len(s) PROVE \E j \in 1 .. Len(q) : i = Len(s) + j
  <2>1. PICK j : j = i - Len(s)
    OBVIOUS
  <2>2. j \in 1 .. Len(q) /\ i = Len(s) + j
    BY <1>1, <1>2, <2>1
  <2> QED
    BY <2>2
<1>3. \A i \in 1 .. Len(s) : i \in 1 .. Len(s \o q) /\ (s \o q)[i] = s[i]
  BY <1>1
<1>4. ASSUME NEW i \in 1 .. Len(q)
      PROVE  Len(s) + i \in 1 .. Len(s \o q) /\ (s \o q)[Len(s) + i] = q[i]
  <2>1. Len(s) + i \in 1 .. Len(s \o q) /\ ~(Len(s) + i <= Len(s)) /\ Len(s) + i - Len(s) = i
    BY <1>1
  <2> QED
    BY <1>1, <2>1
<1> QED
  BY <1>1, <1>2, <1>3, <1>4

\* u is s with q behind it.
Joins(u, s, q) ==
  /\ u \in Seq(Message) /\ Len(u) = Len(s) + Len(q) /\ Len(s) \in Nat /\ Len(q) \in Nat
  /\ \A i \in 1 .. Len(s) : i \in 1 .. Len(u) /\ u[i] = s[i]
  /\ \A i \in 1 .. Len(q) : Len(s) + i \in 1 .. Len(u) /\ u[Len(s) + i] = q[i]
  /\ \A i \in 1 .. Len(u) : i \in 1 .. Len(s) \/ \E j \in 1 .. Len(q) : i = Len(s) + j

LEMMA GrownTo == ASSUME NEW s \in Seq(Message), NEW q \in Seq(Message), NEW u, u = s \o q PROVE Joins(u, s, q)
<1>1. /\ s \o q \in Seq(Message) /\ Len(s \o q) = Len(s) + Len(q) /\ Len(s) \in Nat /\ Len(q) \in Nat
      /\ \A i \in 1 .. Len(s) : i \in 1 .. Len(s \o q) /\ (s \o q)[i] = s[i]
      /\ \A i \in 1 .. Len(q) : Len(s) + i \in 1 .. Len(s \o q) /\ (s \o q)[Len(s) + i] = q[i]
      /\ \A i \in 1 .. Len(s \o q) : i \in 1 .. Len(s) \/ \E j \in 1 .. Len(q) : i = Len(s) + j
  BY Grown, SMTT(30), SMTT(31)
<1> QED
  BY <1>1 DEF Joins

\* Packets q of transfer b are sent, a header only if it is the first, and
\* the next block; n is the node of the transfer after that.
Sends(b, q, n) ==
  /\ q \in Seq(Message)
  /\ n \in Nodes
  /\ b <= next /\ n.active /\ n.streamid \in 1 .. out_stream'
  /\ n.left = (IF Unknown(b) THEN 0 ELSE Blob(b).size - n.done) /\ n.done <= Blob(b).size
  /\ IF node[b].active THEN n.streamid = node[b].streamid ELSE n.streamid > out_stream
  /\ n.done = node[b].done \/ \E j \in 1 .. Len(q) : q[j].p.t = "blob" /\ n.done = node[b].done + 1
  /\ \A j \in 1 .. Len(q) :
       /\ q[j].p.val = b /\ q[j].p.ch = Blob(b).ch /\ q[j].p.sid = n.streamid /\ Carries(q[j])
       /\ q[j].p.t = "binarystream" => ~node[b].active /\ q[j].p.num = Size(b)
       /\ q[j].p.t = "blob" => q[j].p.num = n.done /\ n.done = node[b].done + 1
  /\ \A i, j \in 1 .. Len(q) : i < j => Place(q[i]) < Place(q[j])
  /\ out_stream' \in Nat /\ out_stream' >= out_stream /\ seqA' \in Nat /\ pending' \in Seq(1 .. next)
  /\ ab' = ab \o q /\ node' = [node EXCEPT ![b] = n]
  /\ UNCHANGED <<cf, next, bframe, state, written, seqB, lastB, ba>>

LEMMA Sending ==
  ASSUME TInv, NEW b \in Blobs, NEW q, NEW n, Sends(b, q, n)
  PROVE  TInv'
<1>0. /\ Types /\ Apart /\ InOrder /\ Busy
      /\ \A c \in Blobs : Sound(c) /\ Ahead(c) /\ Held(c)
      /\ \A k \in 1 .. Len(ab) : Carries(ab[k]) => Labelled(ab[k])
  BY DEF TInv
<1>t. /\ out_stream \in Nat \ {0} /\ seqA \in Nat /\ ab \in Seq(Message) /\ node \in [Blobs -> Nodes]
      /\ \A c \in Blobs : /\ node[c] \in Nodes /\ node[c].streamid \in Nat /\ node[c].done \in Nat
                          /\ Len(written[c]) \in Nat
      /\ \A k \in 1 .. Len(ab) : ab[k] \in Message /\ ab[k].p.num \in Nat
  BY <1>0, TypesSay
<1>a. /\ q \in Seq(Message) /\ ab' = ab \o q /\ node' = [node EXCEPT ![b] = n]
      /\ n \in Nodes
      /\ out_stream' \in Nat /\ out_stream' >= out_stream /\ seqA' \in Nat /\ pending' \in Seq(1 .. next)
      /\ UNCHANGED <<cf, next, bframe, state, written, seqB, lastB, ba>>
  BY DEF Sends
<1>b. /\ b <= next /\ n.active /\ n.streamid \in 1 .. out_stream'
      /\ n.left = (IF Unknown(b) THEN 0 ELSE Blob(b).size - n.done) /\ n.done <= Blob(b).size
      /\ node[b].active => n.streamid = node[b].streamid
      /\ ~node[b].active => n.streamid > out_stream
  BY DEF Sends
<1>c. n.done = node[b].done \/ \E j \in 1 .. Len(q) : q[j].p.t = "blob" /\ n.done = node[b].done + 1
  BY DEF Sends
<1>d. ASSUME NEW j \in 1 .. Len(q)
      PROVE  /\ q[j].p.val = b /\ q[j].p.ch = Blob(b).ch /\ q[j].p.sid = n.streamid /\ Carries(q[j])
             /\ q[j].p.t = "binarystream" => ~node[b].active /\ q[j].p.num = Size(b)
             /\ q[j].p.t = "blob" => q[j].p.num = n.done /\ n.done = node[b].done + 1
  BY DEF Sends
<1>e. \A i, j \in 1 .. Len(q) : i < j => Place(q[i]) < Place(q[j])
  BY DEF Sends
<1>1. /\ ab' \in Seq(Message) /\ Len(ab') = Len(ab) + Len(q) /\ Len(ab) \in Nat /\ Len(q) \in Nat
      /\ \A i \in 1 .. Len(ab) : i \in 1 .. Len(ab') /\ ab'[i] = ab[i]
      /\ \A i \in 1 .. Len(q) : Len(ab) + i \in 1 .. Len(ab') /\ ab'[Len(ab) + i] = q[i]
      /\ \A i \in 1 .. Len(ab') : i \in 1 .. Len(ab) \/ \E j \in 1 .. Len(q) : i = Len(ab) + j
  <2>1. ab \in Seq(Message)
    BY <1>t
  <2> HIDE DEF Message
  <2> QED
    BY <2>1, <1>a, Grown, SMTT(30), SMTT(31)
<1>2. /\ node' \in [Blobs -> Nodes]
      /\ node'[b] = n /\ \A c \in Blobs : c # b => node'[c] = node[c]
  BY <1>t, <1>a
<1>3. /\ Blobs' = Blobs /\ Channels' = Channels /\ Message' = Message
      /\ \A c : Blob(c)' = Blob(c) /\ Unknown(c)' = Unknown(c) /\ Size(c)' = Size(c)
  BY <1>a DEF Blobs, Blob, Channels, Unknown, Size, Message, Packet
<1>4. Types'
  <2>1. SourceTypes /\ SinkTypes /\ LineTypes
    BY <1>0 DEF Types
  <2>2. SourceTypes'
    <3>1. /\ cf' \in Configs /\ next' \in Nat /\ next' <= Len(cf'.blobs)
          /\ out_stream' \in Nat \ {0} /\ seqA' \in Nat /\ pending' \in Seq(1 .. next')
      BY <2>1, <1>a, SMTT(30), SMTT(31) DEF SourceTypes
    <3> QED
      BY <3>1, <1>2, <1>3 DEF SourceTypes
  <2>3. SinkTypes' /\ LineTypes'
    BY <2>1, <1>a, <1>1, <1>3 DEF SinkTypes, LineTypes
  <2> QED
    BY <2>2, <2>3 DEF Types
<1>5. ASSUME NEW c \in Blobs PROVE Sound(c)'
  <2>1. CASE c = b
    BY <2>1, <1>a, <1>b, <1>2, <1>3 DEF Sound
  <2>2. CASE c # b
    <3>1. node'[c] = node[c] /\ Sound(c) /\ node[c].streamid \in Nat /\ out_stream \in Nat
      BY <2>2, <1>0, <1>t, <1>2
    <3> QED
      BY <3>1, <1>a, <1>3 DEF Sound
  <2> QED
    BY <2>1, <2>2
<1>6. Apart'
  <2> SUFFICES ASSUME NEW c \in Blobs, NEW d \in Blobs, node'[c].active, node'[d].active,
                      node'[c].streamid = node'[d].streamid
               PROVE  c = d
    BY <1>3 DEF Apart
  <2>1. ASSUME NEW e \in Blobs, e # b, node[e].active, n.streamid = node[e].streamid PROVE FALSE
    <3>1. Sound(e) /\ node[e].streamid \in Nat /\ out_stream \in Nat
      BY <1>0, <1>t
    <3>2. node[b].active
      BY <2>1, <3>1, <1>b DEF Sound
    <3> QED
      BY <2>1, <3>2, <1>0, <1>b DEF Apart
  <2>2. ASSUME c # b, d # b PROVE c = d
    BY <2>2, <1>0, <1>2 DEF Apart
  <2> QED
    BY <2>1, <2>2, <1>2
<1>7. ASSUME NEW k \in 1 .. Len(ab), Carries(ab[k]), ab[k].p.val = b
      PROVE  node[b].active /\ Place(ab[k]) <= node[b].done
  <2>1. Labelled(ab[k]) /\ Sound(b) /\ node[b].done \in Nat
    BY <1>0, <1>t, <1>7
  <2> QED
    BY <2>1, <1>7 DEF Labelled, Place
<1>8. InOrder'
  <2> SUFFICES ASSUME NEW i \in 1 .. Len(ab'), NEW j \in 1 .. Len(ab'), i < j,
                      Carries(ab'[i]), Carries(ab'[j]), ab'[i].p.val = ab'[j].p.val
               PROVE  Place(ab'[i]) < Place(ab'[j])
    BY DEF InOrder, Carries, Place
  <2>1. CASE j \in 1 .. Len(ab)
    <3>1. i \in 1 .. Len(ab)
      BY <2>1, <1>1, SMTT(30), SMTT(31)
    <3>2. ab'[i] = ab[i] /\ ab'[j] = ab[j]
      BY <2>1, <3>1, <1>1
    <3> QED
      BY <2>1, <3>1, <3>2, <1>0 DEF InOrder
  <2>2. CASE j \notin 1 .. Len(ab)
    <3>1. PICK y \in 1 .. Len(q) : j = Len(ab) + y
      BY <2>2, <1>1
    <3>2. ab'[j] = q[y]
      BY <3>1, <1>1
    <3>3. CASE i \in 1 .. Len(ab)
      <4>1. ab'[i] = ab[i]
        BY <3>3, <1>1
      <4>2. ab[i].p.val = b /\ Carries(ab[i])
        BY <4>1, <3>2, <1>d
      <4>3. node[b].active /\ Place(ab[i]) <= node[b].done
        BY <4>2, <3>3, <1>7
      <4>4. q[y].p.t = "blob" /\ q[y].p.num = node[b].done + 1
        BY <4>3, <1>d DEF Carries
      <4>5. Place(q[y]) = node[b].done + 1
        BY <4>4 DEF Place
      <4>6. node[b].done \in Nat /\ Place(ab[i]) \in Int
        <5>1. ab[i].p.num \in Nat
          BY <3>3, <1>t
        <5>2. node[b].done \in Nat
          BY <1>0, <1>t
        <5> QED
          BY <5>1, <5>2 DEF Place
      <4> QED
        BY <4>1, <3>2, <4>3, <4>5, <4>6
    <3>4. CASE i \notin 1 .. Len(ab)
      <4>1. PICK x \in 1 .. Len(q) : i = Len(ab) + x
        BY <3>4, <1>1
      <4>2. ab'[i] = q[x] /\ x < y
        BY <4>1, <3>1, <1>1, SMTT(30), SMTT(31)
      <4> QED
        BY <4>2, <3>2, <1>e
    <3> QED
      BY <3>3, <3>4
  <2> QED
    BY <2>1, <2>2
<1>9. Busy'
  BY <1>0, <1>a, <1>3 DEF Busy
<1>10. ASSUME NEW c \in Blobs PROVE Held(c)'
  <2>1. Held(c) /\ Sound(c) /\ Len(written[c]) \in Nat /\ node[c].done \in Nat
    BY <1>0, <1>t
  <2>2. /\ written'[c] = written[c] /\ state'[c] = state[c] /\ Blob(c)' = Blob(c) /\ Unknown(c)' = Unknown(c)
        /\ bframe' = bframe
    BY <1>a, <1>3
  <2>3. CASE c # b
    BY <2>1, <2>2, <2>3, <1>2 DEF Held
  <2>4. CASE c = b
    <3>1. node'[c].active /\ node'[c].done >= node[c].done
      BY <2>4, <1>a, <1>b, <1>c, <1>2, <2>1, SMTT(30), SMTT(31)
    <3>2. state[c] = "init" => node'[c].streamid = node[c].streamid
      <4>1. state[c] = "init" => node[c].active
        BY <2>1 DEF Held
      <4> QED
        BY <4>1, <2>4, <1>b, <1>2
    <3>3. node'[c].done \in Nat
      BY <2>4, <1>a, <1>2 DEF Nodes
    <3> QED
      BY <2>1, <2>2, <3>1, <3>2, <3>3 DEF Held
  <2> QED
    BY <2>3, <2>4
<1>11. ASSUME NEW k \in 1 .. Len(ab'), Carries(ab'[k]) PROVE Labelled(ab[k])'
  <2>1. CASE k \in 1 .. Len(ab)
    <3>1. ab'[k] = ab[k] /\ Labelled(ab[k])
      BY <2>1, <1>11, <1>0, <1>1
    <3>2. PICK v, m : m = ab[k] /\ v = m.p.val
      OBVIOUS
    <3>3. /\ v \in Blobs /\ node[v].active /\ m.p.ch = Blob(v).ch /\ m.p.sid = node[v].streamid
          /\ m.p.t = "binarystream" => m.p.num = Size(v) /\ state[v] = "none" /\ written[v] = <<>>
          /\ m.p.t = "blob" => m.p.num \in 1 .. node[v].done
      BY <3>1, <3>2 DEF Labelled
    <3>4. node'[v].active /\ node'[v].streamid = node[v].streamid /\ node'[v].done >= node[v].done
      <4>1. CASE v = b
        BY <4>1, <3>3, <1>b, <1>c, <1>2, <1>t
      <4>2. CASE v # b
        BY <4>2, <3>3, <1>2, <1>t
      <4> QED
        BY <4>1, <4>2
    <3>5. node[v].done \in Nat /\ node'[v].done \in Nat
      BY <3>3, <1>t, <1>2 DEF Nodes
    <3>6. Blobs' = Blobs /\ Blob(v)' = Blob(v) /\ Size(v)' = Size(v) /\ state' = state /\ written' = written
      BY <1>a, <1>3
    <3>7. m.p.t = "blob" => m.p.num \in 1 .. node'[v].done
      BY <3>3, <3>4, <3>5
    <3>8. ab'[k] = m /\ m.p.val = v
      BY <3>1, <3>2
    <3> QED
      BY <3>3, <3>4, <3>6, <3>7, <3>8 DEF Labelled
  <2>2. CASE k \notin 1 .. Len(ab)
    <3>1. PICK y \in 1 .. Len(q) : k = Len(ab) + y
      BY <2>2, <1>1
    <3>2. ab'[k] = q[y]
      BY <3>1, <1>1
    <3>3. Blobs' = Blobs /\ Blob(b)' = Blob(b) /\ Size(b)' = Size(b) /\ state' = state /\ written' = written
      BY <1>a, <1>3
    <3>4. ~node[b].active => state[b] = "none" /\ written[b] = <<>>
      BY <1>0 DEF Held
    <3>5. q[y].p.t = "blob" => q[y].p.num \in 1 .. n.done
      <4>1. node[b].done \in Nat
        BY <1>0, <1>t
      <4>2. q[y].p.t = "blob" => q[y].p.num = node[b].done + 1 /\ n.done = node[b].done + 1
        BY <1>d
      <4> QED
        BY <4>1, <4>2
    <3>6. /\ q[y].p.val = b /\ q[y].p.ch = Blob(b).ch /\ q[y].p.sid = n.streamid
          /\ q[y].p.t = "binarystream" => ~node[b].active /\ q[y].p.num = Size(b)
      BY <1>d
    <3>7. node'[b] = n /\ n.active
      BY <1>2, <1>b
    <3> QED
      BY <3>2, <3>3, <3>4, <3>5, <3>6, <3>7 DEF Labelled
  <2> QED
    BY <2>1, <2>2
<1>12. ASSUME NEW c \in Blobs PROVE Ahead(c)'
  <2> SUFFICES ASSUME Expected(c)'
               PROVE  /\ \A m \in 1 .. node'[c].done : m > Len(written[c]) =>
                           \E k \in 1 .. Len(ab') : ab'[k].p.t = "blob" /\ ab'[k].p.val = c /\ ab'[k].p.num = m
                      /\ \A k \in 1 .. Len(ab') :
                           ab'[k].p.t = "blob" /\ ab'[k].p.val = c => ab'[k].p.num > Len(written[c])
    <3>1. written' = written
      BY <1>a
    <3> QED
      BY <3>1 DEF Ahead
  <2>0. Sound(c) /\ Held(c) /\ Ahead(c) /\ node[c].done \in Nat /\ Len(written[c]) \in Nat /\ node'[c].done \in Nat
    BY <1>0, <1>t, <1>2, <1>a DEF Nodes
  <2>1. Expected(c) \/ (c = b /\ ~node[b].active)
    <3>1. CASE state[c] = "init"
      BY <3>1 DEF Expected
    <3>2. CASE state[c] # "init"
      <4>1. PICK k \in 1 .. Len(ab') : ab'[k].p.t = "binarystream" /\ ab'[k].p.val = c
        BY <3>2, <1>a DEF Expected
      <4>2. CASE k \in 1 .. Len(ab)
        BY <4>1, <4>2, <1>1 DEF Expected
      <4>3. CASE k \notin 1 .. Len(ab)
        <5>1. PICK j \in 1 .. Len(q) : k = Len(ab) + j
          BY <4>3, <1>1
        <5>2. q[j].p.t = "binarystream" /\ q[j].p.val = c
          BY <4>1, <5>1, <1>1
        <5> QED
          BY <5>2, <1>d
      <4> QED
        BY <4>2, <4>3
    <3> QED
      BY <3>1, <3>2
  <2>2. Expected(c) =>
          /\ \A m \in 1 .. node[c].done : m > Len(written[c]) =>
               \E k \in 1 .. Len(ab) : ab[k].p.t = "blob" /\ ab[k].p.val = c /\ ab[k].p.num = m
          /\ \A k \in 1 .. Len(ab) : ab[k].p.t = "blob" /\ ab[k].p.val = c => ab[k].p.num > Len(written[c])
    BY <2>0 DEF Ahead
  <2>3. ASSUME NEW m \in 1 .. node'[c].done, m > Len(written[c])
        PROVE  \E k \in 1 .. Len(ab') : ab'[k].p.t = "blob" /\ ab'[k].p.val = c /\ ab'[k].p.num = m
    <3>1. CASE m \in 1 .. node[c].done
      <4>1. Expected(c)
        BY <2>0, <2>1, <3>1 DEF Sound
      <4>2. PICK k \in 1 .. Len(ab) : ab[k].p.t = "blob" /\ ab[k].p.val = c /\ ab[k].p.num = m
        BY <4>1, <2>2, <2>3, <3>1
      <4> QED
        BY <4>2, <1>1
    <3>2. CASE m \notin 1 .. node[c].done
      <4>1. c = b /\ n.done # node[b].done
        BY <3>2, <1>2, <2>0
      <4>2. PICK j \in 1 .. Len(q) : q[j].p.t = "blob" /\ n.done = node[b].done + 1
        BY <4>1, <1>c
      <4>3. m = n.done
        <5>1. m \in 1 .. node[b].done + 1 /\ m \notin 1 .. node[b].done /\ node[b].done \in Nat
          BY <3>2, <4>1, <4>2, <1>2, <2>0
        <5> QED
          BY <5>1, <4>2, OneMore
      <4>4. q[j].p.num = m /\ q[j].p.val = c
        BY <4>1, <4>2, <4>3, <1>d
      <4> QED
        BY <4>2, <4>4, <1>1
    <3> QED
      BY <3>1, <3>2
  <2>4. ASSUME NEW k \in 1 .. Len(ab'), ab'[k].p.t = "blob", ab'[k].p.val = c
        PROVE  ab'[k].p.num > Len(written[c])
    <3>1. CASE k \in 1 .. Len(ab)
      <4>1. ab'[k] = ab[k] /\ Carries(ab[k])
        BY <3>1, <2>4, <1>1 DEF Carries
      <4>2. ~(c = b /\ ~node[b].active)
        BY <4>1, <3>1, <2>4, <1>7
      <4> QED
        BY <4>1, <4>2, <3>1, <2>1, <2>2, <2>4
    <3>2. CASE k \notin 1 .. Len(ab)
      <4>1. PICK y \in 1 .. Len(q) : k = Len(ab) + y
        BY <3>2, <1>1
      <4>2. ab'[k] = q[y]
        BY <4>1, <1>1
      <4>3. c = b /\ q[y].p.num = node[b].done + 1
        BY <4>2, <2>4, <1>d
      <4>4. Len(written[c]) <= node[c].done
        BY <2>0 DEF Held
      <4> QED
        BY <4>2, <4>3, <4>4, <2>0
    <3> QED
      BY <3>1, <3>2
  <2> QED
    BY <2>3, <2>4
<1> QED
  <2>1. Blobs' = Blobs /\ \A m : Carries(m)' = Carries(m)
    BY <1>3 DEF Carries
  <2>2. \A k \in 1 .. Len(ab)' : Carries(ab[k])' => Labelled(ab[k])'
    BY <1>11 DEF Carries
  <2> QED
    BY <2>1, <2>2, <1>4, <1>5, <1>6, <1>8, <1>9, <1>10, <1>12 DEF TInv

LEMMA Removed ==
  ASSUME NEW S, NEW s \in Seq(S), NEW i \in 1 .. Len(s)
  PROVE  SubSeq(s, 1, i - 1) \o SubSeq(s, i + 1, Len(s)) \in Seq(S)
<1>1. Len(s) \in Nat /\ \A k \in 1 .. Len(s) : s[k] \in S
  OBVIOUS
<1>2. SubSeq(s, 1, i - 1) \in Seq(S)
  BY <1>1
<1>3. SubSeq(s, i + 1, Len(s)) \in Seq(S)
  BY <1>1
<1> QED
  BY <1>2, <1>3

\* The transfer that is served has been enqueued, and may be unlinked.
LEMMA ServedIs ==
  ASSUME TInv, NEW b \in Blobs, Served(b)
  PROVE  /\ b <= next /\ pending \in Seq(1 .. next) /\ unlink_node(1) \in Seq(1 .. next)
         /\ node[b] \in Nodes
         /\ node[b].left = (IF Unknown(b) THEN 0 ELSE Blob(b).size - node[b].done)
         /\ node[b].done <= Blob(b).size /\ Blob(b).size \in Nat \ {0}
         /\ ~node[b].active => node[b].done = 0
         /\ node[b].active => node[b].streamid \in 1 .. out_stream
         /\ out_stream \in Nat \ {0} /\ seqA \in Nat /\ next \in Nat /\ b \in Nat
         /\ Blob(b).ch \in Channels /\ node[b].left \in Nat /\ node[b].done \in Nat /\ node[b].streamid \in Nat
<1>1. Types /\ Sound(b)
  BY DEF TInv
<1>2. pending \in Seq(1 .. next) /\ pending # <<>> /\ b = Head(pending) /\ next \in Nat
  BY <1>1, TypesSay DEF Served
<1>3. b \in 1 .. next /\ 1 \in 1 .. Len(pending)
  BY <1>2
<1>4. unlink_node(1) \in Seq(1 .. next)
  BY <1>2, <1>3, Removed DEF unlink_node
<1>5. cf \in Configs /\ node[b] \in Nodes
  BY <1>1, TypesSay
<1>6. Blob(b).size \in Nat \ {0} /\ Blob(b).ch \in Channels
  BY <1>5, Workload
<1>7. out_stream \in Nat \ {0} /\ seqA \in Nat
  BY <1>1, TypesSay
<1>8. /\ node[b].left = (IF Unknown(b) THEN 0 ELSE Blob(b).size - node[b].done)
      /\ node[b].done <= Blob(b).size
      /\ ~node[b].active => node[b].done = 0
      /\ node[b].active => node[b].streamid \in 1 .. out_stream
  BY <1>1, <1>3, <1>2 DEF Sound
<1>9. node[b].left \in Nat /\ node[b].done \in Nat /\ node[b].streamid \in Nat
  BY <1>5 DEF Nodes
<1> QED
  BY <1>2, <1>3, <1>4, <1>5, <1>6, <1>7, <1>8, <1>9, SMTT(30), SMTT(31)

\* Packets, numbered.
LEMMA NumberedIs ==
  ASSUME NEW s \in Seq(Packet), seqA \in Nat
  PROVE  /\ Numbered(s) \in Seq(Message) /\ Len(Numbered(s)) = Len(s)
         /\ \A i \in 1 .. Len(s) : Numbered(s)[i].p = s[i]
<1>1. /\ Len(s) \in Nat /\ DOMAIN s = 1 .. Len(s)
      /\ \A i \in 1 .. Len(s) : s[i] \in Packet /\ seqA + i - 1 \in Nat
  OBVIOUS
<1>2. ASSUME NEW i \in 1 .. Len(s) PROVE [p |-> s[i], seq |-> seqA + i - 1] \in Message
  BY <1>1 DEF Message
<1>3. Numbered(s) = [i \in 1 .. Len(s) |-> [p |-> s[i], seq |-> seqA + i - 1]]
  BY <1>1 DEF Numbered
<1>4. Numbered(s) \in Seq(Message) /\ Len(Numbered(s)) = Len(s)
  BY <1>1, <1>2, <1>3, SMTT(30), SMTT(31)
<1> QED
  BY <1>3, <1>4, SMTT(30), SMTT(31)

LEMMA Appended ==
  ASSUME NEW S, NEW s \in Seq(S), NEW x \in S
  PROVE  /\ Append(s, x) \in Seq(S) /\ Len(Append(s, x)) = Len(s) + 1 /\ Append(s, x)[Len(s) + 1] = x
         /\ \A i \in 1 .. Len(s) : Append(s, x)[i] = s[i]
<1>1. Append(s, x) \in Seq(S) /\ Len(Append(s, x)) = Len(s) + 1
  OBVIOUS
<1>2. Append(s, x)[Len(s) + 1] = x
  OBVIOUS
<1>3. ASSUME NEW i \in 1 .. Len(s) PROVE Append(s, x)[i] = s[i]
  OBVIOUS
<1> QED
  BY <1>1, <1>2, <1>3

\* The packets of transfer b.
LEMMA PacketsOf ==
  ASSUME TInv, NEW b \in Blobs, Served(b)
  PROVE  /\ Pkt("binarystream", Blob(b).ch, out_stream + 1, b, node[b].left) \in Packet
         /\ Pkt("blob", Blob(b).ch, StreamOf(b), b, node[b].done + 1) \in Packet
         /\ StreamOf(b) \in Nat /\ Header(b) \in Seq(Packet)
         /\ node[b].active => Len(Header(b)) = 0
         /\ ~node[b].active =>
              /\ Len(Header(b)) = 1
              /\ Header(b)[1] = Pkt("binarystream", Blob(b).ch, out_stream + 1, b, node[b].left)
<1>1. StreamOf(b) \in Nat
  BY ServedIs DEF StreamOf
<1>2. PICK h : h = Pkt("binarystream", Blob(b).ch, out_stream + 1, b, node[b].left)
  OBVIOUS
<1>3. h \in Packet
  BY <1>2, ServedIs, SMTT(30), SMTT(31) DEF Pkt, Packet
<1>4. Pkt("blob", Blob(b).ch, StreamOf(b), b, node[b].done + 1) \in Packet
  BY <1>1, ServedIs, SMTT(30), SMTT(31) DEF Pkt, Packet
<1>5. /\ node[b].active => Header(b) = <<>>
      /\ ~node[b].active => Header(b) = <<h>>
  BY <1>2 DEF Header
<1>6. /\ <<h>> \in Seq(Packet) /\ Len(<<h>>) = 1 /\ <<h>>[1] = h
      /\ <<>> \in Seq(Packet) /\ Len(<<>>) = 0
  BY <1>3
<1> QED
  BY <1>1, <1>2, <1>3, <1>4, <1>5, <1>6

\* append_blob: each of its outcomes sends the packets of the transfer served.
LEMMA BegunIs ==
  ASSUME TInv, NEW b \in Blobs, Served(b), begin_bstream(b)
  PROVE  /\ Begun(b) \in Nodes
         /\ Begun(b).active /\ Begun(b).streamid = StreamOf(b) /\ Begun(b).left = node[b].left
         /\ Begun(b).done = node[b].done /\ Begun(b).rampup = node[b].rampup
         /\ out_stream' \in Nat /\ out_stream' >= out_stream /\ StreamOf(b) \in 1 .. out_stream'
         /\ IF node[b].active THEN StreamOf(b) = node[b].streamid ELSE StreamOf(b) > out_stream
<1>1. /\ node[b] \in Nodes
      /\ node[b].active => node[b].streamid \in 1 .. out_stream
      /\ out_stream \in Nat \ {0}
  BY ServedIs
<1>2. /\ out_stream' \in Nat /\ out_stream' >= out_stream /\ StreamOf(b) \in 1 .. out_stream'
      /\ IF node[b].active THEN StreamOf(b) = node[b].streamid ELSE StreamOf(b) > out_stream
  BY <1>1 DEF begin_bstream, StreamOf
<1>3. StreamOf(b) \in Nat
  BY <1>1, <1>2
<1>4. PICK r, st : r = node[b] /\ st = StreamOf(b)
  OBVIOUS
<1>5. PICK n : n = [r EXCEPT !.active = TRUE, !.streamid = st]
  OBVIOUS
<1>6. r \in Nodes /\ st \in Nat
  BY <1>1, <1>3, <1>4
<1>7. /\ n \in Nodes
      /\ n.active /\ n.streamid = st /\ n.left = r.left /\ n.done = r.done /\ n.rampup = r.rampup
  BY <1>5, <1>6 DEF Nodes
<1>8. Begun(b) = n
  BY <1>4, <1>5 DEF Begun
<1> QED
  BY <1>2, <1>4, <1>7, <1>8

LEMMA DataSends ==
  ASSUME TInv, NEW b \in Blobs, queue_node_Data(b)
  PROVE  \E q, n : Sends(b, q, n)
<1>0. Served(b) /\ ~Exhausted(b) /\ begin_bstream(b)
  BY DEF queue_node_Data
<1>1. /\ b <= next /\ pending \in Seq(1 .. next) /\ unlink_node(1) \in Seq(1 .. next)
      /\ node[b].left = (IF Unknown(b) THEN 0 ELSE Blob(b).size - node[b].done)
      /\ node[b].done <= Blob(b).size /\ Blob(b).size \in Nat \ {0}
      /\ ~node[b].active => node[b].done = 0
      /\ out_stream \in Nat \ {0} /\ seqA \in Nat
      /\ node[b].left \in Nat /\ node[b].done \in Nat
  BY <1>0, ServedIs
<1>2. /\ Begun(b) \in Nodes
      /\ Begun(b).active /\ Begun(b).streamid = StreamOf(b) /\ Begun(b).left = node[b].left
      /\ Begun(b).done = node[b].done /\ Begun(b).rampup = node[b].rampup
      /\ out_stream' \in Nat /\ out_stream' >= out_stream /\ StreamOf(b) \in 1 .. out_stream'
      /\ IF node[b].active THEN StreamOf(b) = node[b].streamid ELSE StreamOf(b) > out_stream
  BY <1>0, BegunIs
<1>3. PICK n : n = [Begun(b) EXCEPT !.done = @ + 1, !.left = IF Unknown(b) THEN 0 ELSE @ - 1]
  OBVIOUS
<1>4. node[b].done < Blob(b).size
  BY <1>0, <1>1 DEF Exhausted
<1>5. /\ n \in Nodes
      /\ n.active /\ n.streamid = StreamOf(b) /\ n.done = node[b].done + 1
      /\ n.left = IF Unknown(b) THEN 0 ELSE Blob(b).size - n.done
  <2>1. PICK r, u : r = Begun(b) /\ u = IF Unknown(b) THEN 0 ELSE Blob(b).size - node[b].done - 1
    OBVIOUS
  <2>2. /\ r \in Nodes
        /\ r.active /\ r.streamid = StreamOf(b) /\ r.done = node[b].done /\ r.left = node[b].left
    BY <1>2, <2>1
  <2>3. u \in Nat /\ u = (IF Unknown(b) THEN 0 ELSE r.left - 1)
    BY <1>1, <1>4, <2>1, <2>2
  <2>4. PICK v : v = r.done + 1
    OBVIOUS
  <2>5. v \in Nat
    BY <1>1, <2>2, <2>4
  <2>6. n = [r EXCEPT !.done = v, !.left = u]
    BY <1>3, <2>1, <2>3, <2>4
  <2>7. /\ n \in Nodes
        /\ n.active /\ n.streamid = r.streamid /\ n.done = v /\ n.left = u
    BY <2>2, <2>3, <2>5, <2>6 DEF Nodes
  <2>8. Blob(b).size - node[b].done - 1 = Blob(b).size - v
    BY <1>1, <2>2, <2>4
  <2> QED
    BY <2>1, <2>2, <2>4, <2>7, <2>8
<1>6. PICK h, x : /\ h = Pkt("binarystream", Blob(b).ch, out_stream + 1, b, node[b].left)
                  /\ x = Pkt("blob", Blob(b).ch, StreamOf(b), b, node[b].done + 1)
  OBVIOUS
<1>7. h \in Packet /\ x \in Packet
  BY <1>0, <1>6, PacketsOf
<1>8. PICK s, q : s = Append(Header(b), x) /\ q = Numbered(s)
  OBVIOUS
<1>9. /\ s \in Seq(Packet)
      /\ node[b].active => Len(s) = 1 /\ s[1] = x
      /\ ~node[b].active => Len(s) = 2 /\ s[1] = h /\ s[2] = x
  <2>1. /\ Header(b) \in Seq(Packet)
        /\ node[b].active => Len(Header(b)) = 0
        /\ ~node[b].active => Len(Header(b)) = 1 /\ Header(b)[1] = h
    BY <1>0, <1>6, PacketsOf
  <2>2. /\ s \in Seq(Packet) /\ Len(s) = Len(Header(b)) + 1 /\ s[Len(Header(b)) + 1] = x
        /\ \A i \in 1 .. Len(Header(b)) : s[i] = Header(b)[i]
    <3>1. ASSUME NEW g \in Seq(Packet)
          PROVE  /\ Append(g, x) \in Seq(Packet) /\ Len(Append(g, x)) = Len(g) + 1 /\ Append(g, x)[Len(g) + 1] = x
                 /\ \A i \in 1 .. Len(g) : Append(g, x)[i] = g[i]
      BY <1>7, Appended, SMTT(30), SMTT(31)
    <3> QED
      BY <2>1, <3>1, <1>8
  <2> QED
    BY <2>1, <2>2, SMTT(30), SMTT(31)
<1>10. /\ ab' = ab \o q /\ node' = [node EXCEPT ![b] = n]
       /\ seqA' = seqA + Len(s) /\ pending' \in Seq(1 .. next)
       /\ UNCHANGED <<cf, next, bframe, state, written, seqB, lastB, ba>>
  BY <1>1, <1>3, <1>6, <1>8 DEF queue_node_Data, ToSink, sink
<1>11. seqA' \in Nat
  <2>1. Len(s) \in Nat
    BY <1>9
  <2> QED
    BY <1>1, <1>10, <2>1
<1>12. /\ q \in Seq(Message)
       /\ node[b].active => Len(q) = 1 /\ q[1].p = x
       /\ ~node[b].active => Len(q) = 2 /\ q[1].p = h /\ q[2].p = x
  <2>1. q \in Seq(Message) /\ Len(q) = Len(s) /\ \A i \in 1 .. Len(s) : q[i].p = s[i]
    BY <1>1, <1>8, <1>9, NumberedIs
  <2> QED
    BY <2>1, <1>9, SMTT(30), SMTT(31)
<1>13. /\ x.t = "blob" /\ x.ch = Blob(b).ch /\ x.sid = StreamOf(b) /\ x.val = b /\ x.num = node[b].done + 1
       /\ h.t = "binarystream" /\ h.ch = Blob(b).ch /\ h.sid = out_stream + 1 /\ h.val = b /\ h.num = node[b].left
  BY <1>6 DEF Pkt
<1>14. ~node[b].active => h.sid = StreamOf(b) /\ h.num = Size(b)
  BY <1>13, <1>1 DEF StreamOf, Size
<1>15. ASSUME NEW j \in 1 .. Len(q)
       PROVE  q[j].p = x \/ (j = 1 /\ Len(q) = 2 /\ q[j].p = h /\ ~node[b].active)
  <2>1. CASE node[b].active
    BY <2>1, <1>12, UpTo
  <2>2. CASE ~node[b].active
    BY <2>2, <1>12, UpTo
  <2> QED
    BY <2>1, <2>2
<1>16. ASSUME NEW j \in 1 .. Len(q)
       PROVE  /\ q[j].p.val = b /\ q[j].p.ch = Blob(b).ch /\ q[j].p.sid = n.streamid /\ Carries(q[j])
              /\ q[j].p.t = "binarystream" => ~node[b].active /\ q[j].p.num = Size(b)
              /\ q[j].p.t = "blob" => q[j].p.num = n.done /\ n.done = node[b].done + 1
  <2>1. CASE q[j].p = x
    BY <2>1, <1>5, <1>13 DEF Carries
  <2>2. CASE q[j].p = h /\ ~node[b].active
    BY <2>2, <1>5, <1>13, <1>14 DEF Carries
  <2> QED
    BY <2>1, <2>2, <1>15
<1>17. ASSUME NEW i \in 1 .. Len(q), NEW j \in 1 .. Len(q), i < j PROVE Place(q[i]) < Place(q[j])
  <2>1. i = 1 /\ j = 2 /\ q[1].p = h /\ q[2].p = x
    <3>1. Len(q) = 2 /\ ~node[b].active
      <4>1. Len(q) # 1
        <5>1. ASSUME NEW m, m = 1, NEW u \in 1 .. m, NEW v \in 1 .. m, u < v PROVE FALSE
          BY <5>1
        <5> QED
          BY <5>1, <1>17
      <4> QED
        BY <1>12, <4>1
    <3> QED
      BY <3>1, <1>12, <1>17
  <2> QED
    BY <2>1, <1>13, <1>1 DEF Place
<1>18. \E j \in 1 .. Len(q) : q[j].p.t = "blob" /\ n.done = node[b].done + 1
  BY <1>5, <1>12, <1>13
<1>19. n.done <= Blob(b).size
  BY <1>1, <1>4, <1>5
<1>20. /\ n.streamid \in 1 .. out_stream' /\ out_stream' \in Nat /\ out_stream' >= out_stream
       /\ IF node[b].active THEN n.streamid = node[b].streamid ELSE n.streamid > out_stream
  BY <1>2, <1>5
<1>21. Sends(b, q, n)
  BY <1>1, <1>5, <1>10, <1>11, <1>12, <1>16, <1>17, <1>18, <1>19, <1>20 DEF Sends
<1> QED
  BY <1>21

\* The header alone, as of a pipe without data or of a source that breaks.
LEMMA HeaderSends ==
  ASSUME TInv, NEW b \in Blobs, Served(b), begin_bstream(b),
         ab' = ab \o Numbered(Header(b)), seqA' \in Nat, node' = [node EXCEPT ![b] = Begun(b)],
         pending' \in Seq(1 .. next), UNCHANGED <<cf, next, bframe, state, written, seqB, lastB, ba>>
  PROVE  \E q, n : Sends(b, q, n)
<1>1. /\ b <= next
      /\ node[b].left = (IF Unknown(b) THEN 0 ELSE Blob(b).size - node[b].done)
      /\ node[b].done <= Blob(b).size /\ Blob(b).size \in Nat \ {0}
      /\ ~node[b].active => node[b].done = 0
      /\ out_stream \in Nat \ {0} /\ seqA \in Nat
      /\ node[b].left \in Nat /\ node[b].done \in Nat
  BY ServedIs
<1>2. PICK n : n = Begun(b)
  OBVIOUS
<1>3. /\ n \in Nodes
      /\ n.active /\ n.streamid = StreamOf(b) /\ n.left = node[b].left
      /\ n.done = node[b].done
      /\ out_stream' \in Nat /\ out_stream' >= out_stream /\ StreamOf(b) \in 1 .. out_stream'
      /\ IF node[b].active THEN StreamOf(b) = node[b].streamid ELSE StreamOf(b) > out_stream
  BY <1>2, BegunIs
<1>4. PICK h : h = Pkt("binarystream", Blob(b).ch, out_stream + 1, b, node[b].left)
  OBVIOUS
<1>5. h \in Packet
  BY <1>4, PacketsOf
<1>6. PICK q : q = Numbered(Header(b))
  OBVIOUS
<1>7. /\ Header(b) \in Seq(Packet)
      /\ node[b].active => Len(Header(b)) = 0
      /\ ~node[b].active => Len(Header(b)) = 1 /\ Header(b)[1] = h
  BY <1>4, PacketsOf
<1>8. /\ q \in Seq(Message)
      /\ node[b].active => Len(q) = 0
      /\ ~node[b].active => Len(q) = 1 /\ q[1].p = h
  <2>1. q \in Seq(Message) /\ Len(q) = Len(Header(b)) /\ \A i \in 1 .. Len(Header(b)) : q[i].p = Header(b)[i]
    BY <1>1, <1>6, <1>7, NumberedIs
  <2> QED
    BY <2>1, <1>7, UpTo
<1>9. /\ h.t = "binarystream" /\ h.ch = Blob(b).ch /\ h.sid = out_stream + 1 /\ h.val = b /\ h.num = node[b].left
      /\ ~node[b].active => out_stream + 1 = StreamOf(b) /\ node[b].left = Size(b)
  <2>1. h.t = "binarystream" /\ h.ch = Blob(b).ch /\ h.sid = out_stream + 1 /\ h.val = b /\ h.num = node[b].left
    BY <1>4 DEF Pkt
  <2>2. ~node[b].active => out_stream + 1 = StreamOf(b)
    BY DEF StreamOf
  <2>3. ~node[b].active => node[b].left = Size(b)
    <3> SUFFICES ASSUME ~node[b].active PROVE node[b].left = Size(b)
      OBVIOUS
    <3>1. Blob(b).size - node[b].done = Blob(b).size
      BY <1>1, Zero
    <3> QED
      BY <1>1, <3>1 DEF Size
  <2> QED
    BY <2>1, <2>2, <2>3
<1>10. ASSUME NEW j \in 1 .. Len(q)
       PROVE  /\ q[j].p.val = b /\ q[j].p.ch = Blob(b).ch /\ q[j].p.sid = n.streamid /\ Carries(q[j])
              /\ q[j].p.t = "binarystream" => ~node[b].active /\ q[j].p.num = Size(b)
              /\ q[j].p.t = "blob" => q[j].p.num = n.done /\ n.done = node[b].done + 1
  <2>1. ~node[b].active /\ q[j].p = h
    BY <1>8, <1>10
  <2> QED
    BY <2>1, <1>3, <1>9 DEF Carries
<1>11. ASSUME NEW i \in 1 .. Len(q), NEW j \in 1 .. Len(q), i < j PROVE Place(q[i]) < Place(q[j])
  <2>1. CASE node[b].active
    BY <2>1, <1>8, UpTo
  <2>2. CASE ~node[b].active
    BY <2>2, <1>8, <1>11, UpTo
  <2> QED
    BY <2>1, <2>2
<1>12. /\ n.streamid \in 1 .. out_stream' /\ out_stream' \in Nat /\ out_stream' >= out_stream
       /\ IF node[b].active THEN n.streamid = node[b].streamid ELSE n.streamid > out_stream
       /\ n.done <= Blob(b).size /\ n.left = IF Unknown(b) THEN 0 ELSE Blob(b).size - n.done
  BY <1>1, <1>3
<1>13. Sends(b, q, n)
  BY <1>1, <1>2, <1>3, <1>6, <1>8, <1>10, <1>11, <1>12 DEF Sends
<1> QED
  BY <1>13

LEMMA EmptySends ==
  ASSUME TInv, NEW b \in Blobs, queue_node_Empty(b) \/ queue_node_Broken(b)
  PROVE  \E q, n : Sends(b, q, n)
<1>1. /\ Served(b) /\ begin_bstream(b) /\ ab' = ab \o Numbered(Header(b)) /\ node' = [node EXCEPT ![b] = Begun(b)]
      /\ UNCHANGED <<cf, next, bframe, state, written, seqB, lastB, ba>>
      /\ seqA' = seqA + Len(Header(b)) \/ seqA' = seqA + Len(Header(b)) + 1
      /\ pending' = pending \/ pending' = unlink_node(1)
  BY DEF queue_node_Empty, queue_node_Broken, ToSink, sink
<1>2. seqA \in Nat /\ pending \in Seq(1 .. next) /\ unlink_node(1) \in Seq(1 .. next)
  BY <1>1, ServedIs
<1>3. Len(Header(b)) \in Nat
  BY DEF Header
<1>4. seqA' \in Nat /\ pending' \in Seq(1 .. next)
  BY <1>1, <1>2, <1>3
<1> QED
  BY <1>1, <1>4, HeaderSends

LEMMA Sent ==
  ASSUME TInv, append_blob
  PROVE  TInv'
<1>1. PICK b \in Blobs : queue_node_Data(b) \/ queue_node_Empty(b) \/ queue_node_Broken(b)
  BY DEF append_blob
<1>2. \E q, n : Sends(b, q, n)
  BY <1>1, DataSends, EmptySends
<1>3. PICK q, n : Sends(b, q, n)
  BY <1>2
<1> QED
  BY <1>3, Sending

LEMMA Widened ==
  ASSUME NEW S, NEW T, S \subseteq T, NEW s \in Seq(S)
  PROVE  s \in Seq(T)
OBVIOUS

\* A transfer is enqueued: it has not been begun.
LEMMA Enqueued ==
  ASSUME TInv, Enqueue
  PROVE  TInv'
<1>0. /\ Types /\ Apart /\ InOrder /\ Busy
      /\ \A c \in Blobs : Sound(c) /\ Ahead(c) /\ Held(c)
      /\ \A k \in 1 .. Len(ab) : Carries(ab[k]) => Labelled(ab[k])
  BY DEF TInv
<1>t. /\ cf \in Configs /\ next \in Nat /\ seqA \in Nat /\ node \in [Blobs -> Nodes] /\ pending \in Seq(1 .. next)
      /\ \A c \in Blobs : node[c] \in Nodes /\ node[c].done \in Nat /\ c \in Nat
  BY <1>0, TypesSay
<1>w. Len(cf.blobs) \in Nat /\ \A b \in Blobs : Blob(b).size \in Nat \ {0}
  BY <1>t, Workload
<1>1. PICK b, l, u : /\ b = next + 1 /\ l = (IF Unknown(b) THEN 0 ELSE Blob(b).size)
                     /\ u = (IF Blob(b).kind = "font" THEN seqA + 1 ELSE 0)
  OBVIOUS
<1>2. /\ next < Len(cf.blobs) /\ next' = next + 1 /\ pending' = Append(pending, b)
      /\ node' = [node EXCEPT ![b].left = l, ![b].rampup = u]
      /\ UNCHANGED <<cf, out_stream, seqA, bframe, state, written, seqB, lastB, ab, ba>>
  BY <1>1 DEF Enqueue, sink
<1>3. b \in Blobs /\ b \in 1 .. next'
  <2>1. b \in 1 .. Len(cf.blobs) /\ b \in 1 .. b
    BY <1>1, <1>2, <1>t, <1>w, NextIn
  <2> QED
    BY <2>1, <1>1, <1>2 DEF Blobs
<1>4. l \in Nat /\ u \in Nat
  BY <1>1, <1>3, <1>t, <1>w, SMTT(30), SMTT(31)
<1>5. PICK n : n = [node[b] EXCEPT !.left = l, !.rampup = u]
  OBVIOUS
<1>6. /\ n \in Nodes /\ n.active = node[b].active /\ n.streamid = node[b].streamid /\ n.done = node[b].done
      /\ n.left = l
  <2>1. PICK r : r = node[b]
    OBVIOUS
  <2>2. r \in Nodes
    BY <1>t, <1>3, <2>1
  <2> QED
    BY <1>4, <1>5, <2>1, <2>2 DEF Nodes
<1>7. node' = [node EXCEPT ![b] = n]
  BY <1>2, <1>3, <1>5, <1>t
<1>8. /\ node' \in [Blobs -> Nodes] /\ node'[b] = n /\ \A c \in Blobs : c # b => node'[c] = node[c]
  BY <1>3, <1>6, <1>7, <1>t
<1>9. \A c \in Blobs : node'[c].active = node[c].active /\ node'[c].streamid = node[c].streamid /\ node'[c].done = node[c].done
  BY <1>3, <1>6, <1>8
<1>10. /\ Blobs' = Blobs /\ Channels' = Channels /\ Message' = Message
       /\ \A c : Blob(c)' = Blob(c) /\ Unknown(c)' = Unknown(c) /\ Size(c)' = Size(c)
  BY <1>2 DEF Blobs, Blob, Channels, Unknown, Size, Message, Packet
<1>11. Types'
  <2>1. SourceTypes /\ SinkTypes /\ LineTypes
    BY <1>0 DEF Types
  <2>2. SourceTypes'
    <3>1. pending' \in Seq(1 .. next')
      <4>1. pending \in Seq(1 .. next')
        <5>1. 1 .. next \subseteq 1 .. next'
          BY <1>t, <1>2
        <5> QED
          BY <5>1, <1>t, Widened
      <4> QED
        BY <4>1, <1>2, <1>3
    <3>2. cf' \in Configs /\ next' \in Nat /\ next' <= Len(cf'.blobs) /\ out_stream' \in Nat \ {0} /\ seqA' \in Nat
      BY <2>1, <1>2, <1>w, SMTT(30), SMTT(31) DEF SourceTypes
    <3> QED
      BY <3>1, <3>2, <1>8, <1>10 DEF SourceTypes
  <2>3. SinkTypes' /\ LineTypes'
    BY <2>1, <1>2, <1>10 DEF SinkTypes, LineTypes
  <2> QED
    BY <2>2, <2>3 DEF Types
<1>12. ASSUME NEW c \in Blobs PROVE Sound(c)'
  <2>1. Sound(c) /\ c \in Nat /\ out_stream' = out_stream
    BY <1>0, <1>t, <1>2
  <2>2. CASE c = b
    <3>1. ~node[c].active /\ node[c].done = 0
      BY <2>1, <2>2, <1>1, <1>t DEF Sound
    <3>2. node'[c].left = l /\ node'[c].done = 0 /\ ~node'[c].active
      BY <2>2, <3>1, <1>6, <1>8
    <3> QED
      BY <2>2, <3>2, <1>1, <1>10, <1>w DEF Sound
  <2>3. CASE c # b
    <3>1. node'[c] = node[c] /\ (c <= next' => c <= next) /\ (c <= next => c <= next')
      BY <2>1, <2>3, <1>1, <1>2, <1>8, <1>t, SMTT(30), SMTT(31)
    <3> QED
      BY <2>1, <3>1, <1>10 DEF Sound
  <2> QED
    BY <2>2, <2>3
<1>13. Apart' /\ InOrder' /\ Busy'
  <2>1. Apart'
    BY <1>0, <1>9, <1>10, SMTT(30), SMTT(31) DEF Apart
  <2>2. InOrder' /\ Busy'
    BY <1>0, <1>2, <1>10, SMTT(30), SMTT(31) DEF InOrder, Busy, Carries, Place
  <2> QED
    BY <2>1, <2>2
<1>14. ASSUME NEW c \in Blobs PROVE Ahead(c)' /\ Held(c)'
  <2>1. Ahead(c) /\ Held(c)
    BY <1>0
  <2>2. Ahead(c)'
    BY <2>1, <1>2, <1>9, ZenonT(30) DEF Ahead, Expected
  <2>3. Held(c)'
    BY <2>1, <1>2, <1>9, <1>10 DEF Held
  <2> QED
    BY <2>2, <2>3
<1>15. ASSUME NEW k \in 1 .. Len(ab), Carries(ab[k]) PROVE Labelled(ab[k])'
  <2>1. Labelled(ab[k])
    BY <1>0, <1>15
  <2> QED
    BY <2>1, <1>2, <1>9, <1>10 DEF Labelled
<1>16. \A k \in 1 .. Len(ab)' : Carries(ab[k])' => Labelled(ab[k])'
  BY <1>15, <1>2 DEF Carries
<1> QED
  BY <1>10, <1>11, <1>12, <1>13, <1>14, <1>16 DEF TInv

\* Nothing of the transfers changes, and nothing of theirs is sent.
LEMMA Untouched ==
  ASSUME TInv, Types', NEW q \in Seq(Message), ab' = ab \o q,
         \A j \in 1 .. Len(q) : ~Carries(q[j]),
         out_stream' >= out_stream, UNCHANGED <<cf, next, node, bframe, state, written>>
  PROVE  TInv'
<1>0. /\ Types /\ Apart /\ InOrder /\ Busy
      /\ \A c \in Blobs : Sound(c) /\ Ahead(c) /\ Held(c)
      /\ \A k \in 1 .. Len(ab) : Carries(ab[k]) => Labelled(ab[k])
  BY DEF TInv
<1>t. out_stream \in Nat /\ ab \in Seq(Message) /\ \A c \in Blobs : node[c].streamid \in Nat
  BY <1>0, TypesSay
<1>1. /\ ab' \in Seq(Message) /\ Len(ab') = Len(ab) + Len(q) /\ Len(ab) \in Nat /\ Len(q) \in Nat
      /\ \A i \in 1 .. Len(ab) : i \in 1 .. Len(ab') /\ ab'[i] = ab[i]
      /\ \A i \in 1 .. Len(q) : Len(ab) + i \in 1 .. Len(ab') /\ ab'[Len(ab) + i] = q[i]
      /\ \A i \in 1 .. Len(ab') : i \in 1 .. Len(ab) \/ \E j \in 1 .. Len(q) : i = Len(ab) + j
  <2>1. ab \in Seq(Message) /\ q \in Seq(Message) /\ ab' = ab \o q
    BY <1>t
  <2>2. Joins(ab', ab, q)
    BY <2>1, GrownTo
  <2> QED
    BY <2>2 DEF Joins
<1>2. /\ Blobs' = Blobs /\ Channels' = Channels
      /\ \A c : Blob(c)' = Blob(c) /\ Unknown(c)' = Unknown(c) /\ Size(c)' = Size(c)
  BY DEF Blobs, Blob, Channels, Unknown, Size
<1>3. ASSUME NEW k \in 1 .. Len(ab'), Carries(ab[k])' PROVE k \in 1 .. Len(ab) /\ ab'[k] = ab[k] /\ Carries(ab[k])
  <2>1. CASE k \in 1 .. Len(ab)
    BY <2>1, <1>1, <1>3 DEF Carries
  <2>2. CASE k \notin 1 .. Len(ab)
    <3>1. PICK j \in 1 .. Len(q) : ab'[k] = q[j]
      BY <2>2, <1>1
    <3> QED
      BY <3>1, <1>3 DEF Carries
  <2> QED
    BY <2>1, <2>2
<1>4. ASSUME NEW c \in Blobs PROVE Sound(c)'
  <2>1. Sound(c) /\ node[c].streamid \in Nat /\ out_stream \in Nat /\ out_stream' \in Nat
    BY <1>0, <1>t DEF Types, SourceTypes
  <2>2. node[c].streamid \in 1 .. out_stream => node[c].streamid \in 1 .. out_stream'
    BY <2>1
  <2> QED
    BY <2>1, <2>2, <1>2 DEF Sound
<1>5. Apart' /\ Busy'
  BY <1>0, <1>2 DEF Apart, Busy
<1>6. InOrder'
  <2> SUFFICES ASSUME NEW i \in 1 .. Len(ab'), NEW j \in 1 .. Len(ab'), i < j,
                      Carries(ab[i])', Carries(ab[j])', ab'[i].p.val = ab'[j].p.val
               PROVE  Place(ab[i])' < Place(ab[j])'
    BY DEF InOrder
  <2>1. /\ i \in 1 .. Len(ab) /\ ab'[i] = ab[i] /\ Carries(ab[i])
        /\ j \in 1 .. Len(ab) /\ ab'[j] = ab[j] /\ Carries(ab[j])
    BY <1>3
  <2>2. Place(ab[i]) < Place(ab[j])
    BY <2>1, <1>0 DEF InOrder
  <2> QED
    BY <2>1, <2>2 DEF Place
<1>7. ASSUME NEW c \in Blobs PROVE Ahead(c)'
  <2> SUFFICES ASSUME Expected(c)'
               PROVE  /\ \A m \in 1 .. node[c].done : m > Len(written[c]) =>
                           \E k \in 1 .. Len(ab') : ab'[k].p.t = "blob" /\ ab'[k].p.val = c /\ ab'[k].p.num = m
                      /\ \A k \in 1 .. Len(ab') :
                           ab'[k].p.t = "blob" /\ ab'[k].p.val = c => ab'[k].p.num > Len(written[c])
    BY DEF Ahead
  <2>1. Expected(c)
    <3>1. CASE state[c] = "init"
      BY <3>1 DEF Expected
    <3>2. CASE state[c] # "init"
      <4>1. PICK k \in 1 .. Len(ab') : ab'[k].p.t = "binarystream" /\ ab'[k].p.val = c
        BY <3>2 DEF Expected
      <4>2. Carries(ab[k])'
        BY <4>1 DEF Carries
      <4> QED
        BY <4>1, <4>2, <1>3 DEF Expected
    <3> QED
      BY <3>1, <3>2
  <2>2. /\ \A m \in 1 .. node[c].done : m > Len(written[c]) =>
             \E k \in 1 .. Len(ab) : ab[k].p.t = "blob" /\ ab[k].p.val = c /\ ab[k].p.num = m
        /\ \A k \in 1 .. Len(ab) : ab[k].p.t = "blob" /\ ab[k].p.val = c => ab[k].p.num > Len(written[c])
    BY <2>1, <1>0 DEF Ahead
  <2>3. ASSUME NEW k \in 1 .. Len(ab'), ab'[k].p.t = "blob", ab'[k].p.val = c
        PROVE  ab'[k].p.num > Len(written[c])
    <3>1. Carries(ab[k])'
      BY <2>3 DEF Carries
    <3> QED
      BY <2>2, <2>3, <3>1, <1>3
  <2>4. ASSUME NEW m \in 1 .. node[c].done, m > Len(written[c])
        PROVE  \E k \in 1 .. Len(ab') : ab'[k].p.t = "blob" /\ ab'[k].p.val = c /\ ab'[k].p.num = m
    <3>1. PICK k \in 1 .. Len(ab) : ab[k].p.t = "blob" /\ ab[k].p.val = c /\ ab[k].p.num = m
      BY <2>2, <2>4
    <3> QED
      BY <3>1, <1>1
  <2> QED
    BY <2>3, <2>4
<1>8. ASSUME NEW c \in Blobs PROVE Held(c)'
  <2>1. Held(c)
    BY <1>0
  <2> QED
    BY <2>1, <1>2 DEF Held
<1>9. ASSUME NEW k \in 1 .. Len(ab'), Carries(ab[k])' PROVE Labelled(ab[k])'
  <2>1. Labelled(ab[k]) /\ ab'[k] = ab[k]
    BY <1>0, <1>3, <1>9
  <2> QED
    BY <2>1, <1>2 DEF Labelled
<1> QED
  BY <1>2, <1>4, <1>5, <1>6, <1>7, <1>8, <1>9 DEF TInv

-----------------------------------------------------------------------------
(* the sink takes a packet *)

LEMMA Shrunk ==
  ASSUME NEW S, NEW s \in Seq(S), s # <<>>
  PROVE  /\ Tail(s) \in Seq(S) /\ Len(Tail(s)) = Len(s) - 1 /\ Len(s) \in Nat \ {0}
         /\ Head(s) = s[1] /\ 1 \in 1 .. Len(s) /\ s[1] \in S
         /\ \A k \in 1 .. Len(Tail(s)) : k + 1 \in 1 .. Len(s) /\ Tail(s)[k] = s[k + 1]
         /\ \A k \in 1 .. Len(s) : k = 1 \/ \E j \in 1 .. Len(Tail(s)) : k = j + 1
<1>1. /\ Tail(s) \in Seq(S) /\ Len(Tail(s)) = Len(s) - 1 /\ Len(s) \in Nat \ {0}
      /\ Head(s) = s[1] /\ 1 \in 1 .. Len(s) /\ s[1] \in S
  OBVIOUS
<1>2. \A k \in 1 .. Len(Tail(s)) : k + 1 \in 1 .. Len(s) /\ Tail(s)[k] = s[k + 1]
  OBVIOUS
<1>3. ASSUME NEW k \in 1 .. Len(s), k # 1 PROVE \E j \in 1 .. Len(Tail(s)) : k = j + 1
  <2>1. PICK j : j = k - 1
    OBVIOUS
  <2>2. j \in 1 .. Len(Tail(s)) /\ k = j + 1
    BY <1>1, <1>3, <2>1
  <2> QED
    BY <2>2
<1> QED
  BY <1>1, <1>2, <1>3

Header1(c) == ab[1].p.t = "binarystream" /\ ab[1].p.val = c
Block1(c) == ab[1].p.t = "blob" /\ ab[1].p.val = c

\* What the sink still needs of transfer c is behind the packet it takes.
Behind(c) ==
  /\ \A n \in 1 .. node[c].done : n > Len(written'[c]) =>
       \E k \in 1 .. Len(Tail(ab)) : Tail(ab)[k].p.t = "blob" /\ Tail(ab)[k].p.val = c /\ Tail(ab)[k].p.num = n
  /\ \A k \in 1 .. Len(Tail(ab)) :
       Tail(ab)[k].p.t = "blob" /\ Tail(ab)[k].p.val = c => Tail(ab)[k].p.num > Len(written'[c])

\* A packet is taken that concerns the transfers W, at most one.
LEMMA Taking ==
  ASSUME TInv, ab # <<>>, ab' = Tail(ab), NEW W \in SUBSET Blobs,
         UNCHANGED <<cf, next, node, out_stream>>,
         \A c \in Blobs \ W : state'[c] = state[c] /\ written'[c] = written[c],
         \A c \in W : state[c] = "init" \/ Header1(c),
         \A c \in Blobs : Block1(c) /\ state[c] = "init" => c \in W,
         \A c \in W : state'[c] = "init" => Behind(c)
  PROVE  /\ Apart' /\ InOrder'
         /\ \A c \in Blobs : Sound(c)' /\ Ahead(c)'
         /\ \A k \in 1 .. Len(ab') : Carries(ab[k])' => Labelled(ab[k])'
<1>0. /\ Types /\ Apart /\ InOrder
      /\ \A c \in Blobs : Sound(c) /\ Ahead(c) /\ Held(c)
      /\ \A k \in 1 .. Len(ab) : Carries(ab[k]) => Labelled(ab[k])
  BY DEF TInv
<1>1. /\ Len(ab') = Len(ab) - 1 /\ Len(ab) \in Nat \ {0} /\ 1 \in 1 .. Len(ab)
      /\ \A k \in 1 .. Len(ab') : k + 1 \in 1 .. Len(ab) /\ ab'[k] = ab[k + 1]
      /\ \A k \in 1 .. Len(ab) : k = 1 \/ \E j \in 1 .. Len(ab') : k = j + 1
  <2>1. ab \in Seq(Message)
    BY <1>0, TypesSay
  <2>2. /\ Tail(ab) \in Seq(Message) /\ Len(Tail(ab)) = Len(ab) - 1 /\ Len(ab) \in Nat \ {0}
        /\ Head(ab) = ab[1] /\ 1 \in 1 .. Len(ab) /\ ab[1] \in Message
        /\ \A k \in 1 .. Len(Tail(ab)) : k + 1 \in 1 .. Len(ab) /\ Tail(ab)[k] = ab[k + 1]
        /\ \A k \in 1 .. Len(ab) : k = 1 \/ \E j \in 1 .. Len(Tail(ab)) : k = j + 1
    BY <2>1, Shrunk, SMTT(30), SMTT(31)
  <2> QED
    BY <2>2
<1>2. /\ Blobs' = Blobs /\ \A c : Blob(c)' = Blob(c) /\ Unknown(c)' = Unknown(c) /\ Size(c)' = Size(c)
  BY DEF Blobs, Blob, Unknown, Size
<1>3. ASSUME NEW k \in 1 .. Len(ab'), Carries(ab[k])'
      PROVE  k + 1 \in 1 .. Len(ab) /\ ab'[k] = ab[k + 1] /\ Carries(ab[k + 1]) /\ Labelled(ab[k + 1])
  BY <1>0, <1>1, <1>3 DEF Carries
<1>4. Apart' /\ \A c \in Blobs : Sound(c)'
  BY <1>0, <1>2 DEF Apart, Sound
<1>5. InOrder'
  <2> SUFFICES ASSUME NEW i \in 1 .. Len(ab'), NEW j \in 1 .. Len(ab'), i < j,
                      Carries(ab[i])', Carries(ab[j])', ab'[i].p.val = ab'[j].p.val
               PROVE  Place(ab[i])' < Place(ab[j])'
    BY DEF InOrder
  <2>1. /\ i + 1 \in 1 .. Len(ab) /\ ab'[i] = ab[i + 1] /\ Carries(ab[i + 1])
        /\ j + 1 \in 1 .. Len(ab) /\ ab'[j] = ab[j + 1] /\ Carries(ab[j + 1])
    BY <1>3
  <2>2. Place(ab[i + 1]) < Place(ab[j + 1])
    BY <2>1, <1>0 DEF InOrder
  <2> QED
    BY <2>1, <2>2 DEF Place
\* a header that is still on its way is of none of the transfers W
<1>6. ASSUME NEW k \in 2 .. Len(ab), ab[k].p.t = "binarystream", ab[k].p.val \in Blobs
      PROVE  ab[k].p.val \notin W /\ ~(Carries(ab[1]) /\ ab[1].p.val = ab[k].p.val)
  <2>1. Labelled(ab[k]) /\ Carries(ab[k]) /\ Place(ab[k]) = 0 /\ k \in 1 .. Len(ab) /\ 1 < k
    <3>1. k \in 1 .. Len(ab) /\ 1 < k
      BY <1>1, FromTwo
    <3> QED
      BY <3>1, <1>0, <1>6 DEF Carries, Place
  <2>2. state[ab[k].p.val] = "none"
    BY <2>1, <1>6 DEF Labelled
  <2>3. ~(Carries(ab[1]) /\ ab[1].p.val = ab[k].p.val)
    <3> SUFFICES ASSUME Carries(ab[1]), ab[1].p.val = ab[k].p.val PROVE FALSE
      OBVIOUS
    <3>1. Place(ab[1]) < Place(ab[k])
      BY <2>1, <1>0, <1>1 DEF InOrder
    <3>2. Place(ab[1]) \in Nat
      <4>1. ab[1].p.num \in Nat
        BY <1>0, <1>1, TypesSay
      <4> QED
        BY <4>1, PlaceIs
    <3> QED
      BY <3>1, <3>2, <2>1, Zero
  <2> QED
    BY <2>2, <2>3 DEF Header1, Carries
<1>7. ASSUME NEW k \in 1 .. Len(ab'), Carries(ab[k])' PROVE Labelled(ab[k])'
  <2>1. PICK m, v : m = ab[k + 1] /\ v = m.p.val
    OBVIOUS
  <2>2. ab'[k] = m /\ Labelled(m) /\ k + 1 \in 2 .. Len(ab)
    <3>1. k + 1 \in 2 .. Len(ab)
      BY <1>1, StepIn
    <3> QED
      BY <3>1, <1>3, <1>7, <2>1
  <2>3. v \in Blobs
    BY <2>1, <2>2 DEF Labelled
  <2>4. m.p.t = "binarystream" => state'[v] = state[v] /\ written'[v] = written[v]
    BY <2>1, <2>2, <2>3, <1>6
  <2> QED
    BY <2>1, <2>2, <2>4, <1>2 DEF Labelled
<1>8. ASSUME NEW c \in Blobs PROVE Ahead(c)'
  <2> SUFFICES ASSUME Expected(c)' PROVE Behind(c)
    BY DEF Ahead, Behind
  <2>1. CASE c \in W
    <3>1. state'[c] = "init"
      <4> SUFFICES ASSUME state'[c] # "init" PROVE FALSE
        OBVIOUS
      <4>1. PICK k \in 1 .. Len(ab') : ab'[k].p.t = "binarystream" /\ ab'[k].p.val = c
        BY DEF Expected
      <4>2. k + 1 \in 2 .. Len(ab) /\ ab'[k] = ab[k + 1]
        BY <1>1, SMTT(30), SMTT(31)
      <4> QED
        BY <2>1, <4>1, <4>2, <1>6
    <3> QED
      BY <2>1, <3>1
  <2>2. CASE c \notin W
    <3>0. state'[c] = state[c] /\ written'[c] = written[c]
      BY <2>2
    <3>1. Expected(c) /\ ~Block1(c)
      <4>1. CASE state[c] = "init"
        BY <2>2, <4>1 DEF Expected
      <4>2. CASE state[c] # "init"
        <5>1. PICK k \in 1 .. Len(ab') : ab'[k].p.t = "binarystream" /\ ab'[k].p.val = c
          BY <3>0, <4>2 DEF Expected
        <5>2. k + 1 \in 2 .. Len(ab) /\ ab'[k] = ab[k + 1] /\ k + 1 \in 1 .. Len(ab)
          BY <1>1, StepIn
        <5>3. ~(Carries(ab[1]) /\ ab[1].p.val = c)
          BY <5>1, <5>2, <1>6, ZenonT(30)
        <5> QED
          BY <5>1, <5>2, <5>3 DEF Expected, Block1, Carries
      <4> QED
        BY <4>1, <4>2
    <3>2. /\ \A n \in 1 .. node[c].done : n > Len(written[c]) =>
               \E k \in 1 .. Len(ab) : ab[k].p.t = "blob" /\ ab[k].p.val = c /\ ab[k].p.num = n
          /\ \A k \in 1 .. Len(ab) : ab[k].p.t = "blob" /\ ab[k].p.val = c => ab[k].p.num > Len(written[c])
      BY <3>1, <1>0 DEF Ahead
    <3>3. ASSUME NEW n \in 1 .. node[c].done, n > Len(written[c])
          PROVE  \E k \in 1 .. Len(ab') : ab'[k].p.t = "blob" /\ ab'[k].p.val = c /\ ab'[k].p.num = n
      <4>1. PICK k \in 1 .. Len(ab) : ab[k].p.t = "blob" /\ ab[k].p.val = c /\ ab[k].p.num = n
        BY <3>2, <3>3
      <4>2. k # 1
        BY <3>1, <4>1 DEF Block1
      <4>3. PICK j \in 1 .. Len(ab') : k = j + 1
        BY <4>2, <1>1
      <4> QED
        BY <4>1, <4>3, <1>1
    <3>4. ASSUME NEW k \in 1 .. Len(ab'), ab'[k].p.t = "blob", ab'[k].p.val = c
          PROVE  ab'[k].p.num > Len(written[c])
      <4>1. k + 1 \in 1 .. Len(ab) /\ ab'[k] = ab[k + 1]
        BY <1>1
      <4>2. ab[k + 1].p.t = "blob" /\ ab[k + 1].p.val = c
        BY <3>4, <4>1
      <4>3. ab[k + 1].p.num > Len(written[c])
        BY <3>2, <4>1, <4>2
      <4> QED
        BY <4>1, <4>3
    <3> QED
      BY <3>0, <3>3, <3>4 DEF Behind
  <2> QED
    BY <2>1, <2>2
<1> QED
  BY <1>4, <1>5, <1>7, <1>8

LEMMA HeadOf ==
  ASSUME TInv, ab # <<>>
  PROVE  /\ Head(ab) = ab[1] /\ ab[1] \in Message /\ 1 \in 1 .. Len(ab) /\ Tail(ab) \in Seq(Message)
         /\ ab[1].p \in Packet /\ ab[1].seq \in Nat
         /\ Carries(ab[1]) => Labelled(ab[1])
<1>1. ab \in Seq(Message) /\ \A k \in 1 .. Len(ab) : Carries(ab[k]) => Labelled(ab[k])
  BY TypesSay DEF TInv
<1>2. Head(ab) = ab[1] /\ ab[1] \in Message /\ 1 \in 1 .. Len(ab) /\ Tail(ab) \in Seq(Message)
  BY <1>1
<1>3. ab[1].p \in Packet /\ ab[1].seq \in Nat
  BY <1>2 DEF Message
<1> QED
  BY <1>1, <1>2, <1>3

\* The answers ps are put on their way to the source.
LEMMA AnsweredIs ==
  ASSUME NEW ps \in Seq(Packet), ToSource(ps), seqB \in Nat, ba \in Seq(Message)
  PROVE  /\ ba' \in Seq(Message) /\ seqB' \in Nat
         /\ \A k \in 1 .. Len(ba') : \/ k \in 1 .. Len(ba) /\ ba'[k] = ba[k]
                                     \/ \E i \in 1 .. Len(ps) : ba'[k].p = ps[i]
<1>1. /\ Len(ps) \in Nat /\ DOMAIN ps = 1 .. Len(ps)
      /\ \A i \in 1 .. Len(ps) : ps[i] \in Packet /\ seqB + i - 1 \in Nat
  OBVIOUS
<1>2. ASSUME NEW i \in 1 .. Len(ps) PROVE [p |-> ps[i], seq |-> seqB + i - 1] \in Message
  BY <1>1 DEF Message
<1>3. PICK q : q = [i \in DOMAIN ps |-> [p |-> ps[i], seq |-> seqB + i - 1]]
  OBVIOUS
<1>4. q \in Seq(Message) /\ Len(q) = Len(ps) /\ \A i \in 1 .. Len(ps) : q[i].p = ps[i]
  BY <1>1, <1>2, <1>3
<1>5. ba' = ba \o q /\ seqB' = seqB + Len(ps)
  BY <1>3 DEF ToSource
<1>6. /\ ba' \in Seq(Message) /\ Len(ba') = Len(ba) + Len(q) /\ Len(ba) \in Nat /\ Len(q) \in Nat
      /\ \A i \in 1 .. Len(ba) : i \in 1 .. Len(ba') /\ ba'[i] = ba[i]
      /\ \A i \in 1 .. Len(q) : Len(ba) + i \in 1 .. Len(ba') /\ ba'[Len(ba) + i] = q[i]
      /\ \A i \in 1 .. Len(ba') : i \in 1 .. Len(ba) \/ \E j \in 1 .. Len(q) : i = Len(ba) + j
  <2>1. q \in Seq(Message) /\ ba' = ba \o q
    BY <1>4, <1>5
  <2> QED
    BY <2>1, Grown, SMTT(30), SMTT(31)
<1>7. seqB' \in Nat
  BY <1>1, <1>5
<1>8. ASSUME NEW k \in 1 .. Len(ba'), k \notin 1 .. Len(ba) PROVE \E i \in 1 .. Len(ps) : ba'[k].p = ps[i]
  <2>1. PICK j \in 1 .. Len(q) : k = Len(ba) + j
    BY <1>6, <1>8
  <2>2. ba'[k] = q[j]
    BY <2>1, <1>6
  <2>3. j \in 1 .. Len(ps) /\ q[j].p = ps[j]
    BY <2>1, <1>4
  <2> QED
    BY <2>2, <2>3
<1> QED
  BY <1>6, <1>7, <1>8

States == {"none", "init", "completed", "cancelled"}

LEMMA TakenTypes ==
  ASSUME TInv, ab # <<>>, NEW ps \in Seq(Packet), Taken(Head(ab), ps),
         bframe' \in [Channels -> Frames], state' \in [Blobs -> States], written' \in [Blobs -> Seq(Nat \X Nat)]
  PROVE  Types' /\ ab' = Tail(ab) /\ UNCHANGED <<cf, next, node, out_stream>>
<1>1. /\ ab' = Tail(ab) /\ lastB' = Head(ab).seq /\ ToSource(ps)
      /\ UNCHANGED <<cf, next, node, pending, out_stream, seqA>>
  BY DEF Taken, source
<1>2. SourceTypes /\ seqB \in Nat /\ ba \in Seq(Message)
  BY DEF TInv, Types, SinkTypes, LineTypes
<1>3. ba' \in Seq(Message) /\ seqB' \in Nat
  BY <1>1, <1>2, AnsweredIs
<1>4. Blobs' = Blobs /\ Channels' = Channels /\ Message' = Message
  BY <1>1 DEF Blobs, Channels, Blob, Message, Packet
<1>5. ab' \in Seq(Message) /\ lastB' \in Nat
  BY <1>1, HeadOf
<1>6. SourceTypes'
  BY <1>1, <1>2, <1>4 DEF SourceTypes
<1>7. SinkTypes' /\ LineTypes'
  BY <1>3, <1>4, <1>5 DEF SinkTypes, LineTypes, States
<1> QED
  BY <1>1, <1>6, <1>7 DEF Types

\* The transfer on a channel is cancelled.
LEMMA Cancelling ==
  ASSUME TInv, NEW ch \in Channels, bframe[ch].active, UNCHANGED <<cf, node, written>>,
         bframe' = Cancelled(ch), Tell(bframe[ch].blob, "cancelled")
  PROVE  /\ bframe[ch].blob \in Blobs /\ Blob(bframe[ch].blob).ch = ch /\ state[bframe[ch].blob] = "init"
         /\ state'[bframe[ch].blob] = "cancelled"
         /\ \A c \in Blobs : c # bframe[ch].blob => state'[c] = state[c]
         /\ bframe' \in [Channels -> Frames] /\ state' \in [Blobs -> States]
         /\ Busy' /\ \A c \in Blobs : Held(c)'
         /\ CancelOf(ch) \in Seq(Packet) /\ bframe[ch].streamid = node[bframe[ch].blob].streamid
<1>0. Types /\ Busy /\ \A c \in Blobs : Held(c)
  BY DEF TInv
<1>t. /\ bframe \in [Channels -> Frames] /\ bframe[ch] \in Frames /\ state \in [Blobs -> States]
      /\ bframe[ch].streamid \in Nat
  BY <1>0, TypesSay DEF Types, SinkTypes, States
<1>1. PICK w : w = bframe[ch].blob
  OBVIOUS
<1>2. w \in Blobs /\ Blob(w).ch = ch
  BY <1>0, <1>1 DEF Busy
<1>3. state[w] = "init" /\ bframe[ch].streamid = node[w].streamid
  BY <1>0, <1>1, <1>2 DEF Held
<1>4. /\ state' \in [Blobs -> States] /\ state'[w] = "cancelled" /\ \A c \in Blobs : c # w => state'[c] = state[c]
  BY <1>1, <1>2, <1>t DEF Tell, States
<1>5. /\ bframe' \in [Channels -> Frames] /\ ~bframe'[ch].active /\ \A d \in Channels : d # ch => bframe'[d] = bframe[d]
  <2>1. PICK f : f = [bframe[ch] EXCEPT !.active = FALSE, !.streamid = NoStream]
    OBVIOUS
  <2>2. f \in Frames /\ ~f.active
    BY <2>1, <1>t DEF Frames, NoStream
  <2>3. bframe' = [bframe EXCEPT ![ch] = f]
    BY <2>1, <1>t DEF Cancelled
  <2> QED
    BY <2>2, <2>3, <1>t
<1>6. Blobs' = Blobs /\ Channels' = Channels /\ \A c : Blob(c)' = Blob(c) /\ Unknown(c)' = Unknown(c)
  BY DEF Blobs, Channels, Blob, Unknown
<1>7. Busy'
  BY <1>0, <1>5, <1>6 DEF Busy
<1>8. ASSUME NEW c \in Blobs PROVE Held(c)'
  <2>0. Held(c) /\ Blob(c).ch \in Channels
    BY <1>0 DEF Channels
  <2>1. CASE Blob(c).ch = ch
    <3>1. state'[c] # "init" /\ ~bframe'[Blob(c).ch].active
      BY <2>0, <2>1, <1>1, <1>4, <1>5 DEF Held
    <3>2. state'[c] = "none" <=> state[c] = "none"
      BY <1>3, <1>4
    <3>3. state'[c] = "completed" => state[c] = "completed"
      BY <1>4
    <3> QED
      BY <2>0, <3>1, <3>2, <3>3, <1>6 DEF Held
  <2>2. CASE Blob(c).ch # ch
    <3>1. state'[c] = state[c] /\ bframe'[Blob(c).ch] = bframe[Blob(c).ch]
      BY <2>0, <2>2, <1>2, <1>4, <1>5
    <3> QED
      BY <2>0, <3>1, <1>6, ZenonT(30) DEF Held
  <2> QED
    BY <2>1, <2>2
<1>9. CancelOf(ch) \in Seq(Packet)
  <2>1. Pkt("cancelstream", ch, bframe[ch].streamid, 0, 0) \in Packet
    BY <1>t DEF Pkt, Packet
  <2> HIDE DEF Packet
  <2> QED
    BY <2>1, OnePacket DEF CancelOf
<1> QED
  BY <1>1, <1>2, <1>3, <1>4, <1>5, <1>7, <1>8, <1>9

\* The parts of the invariant put together.
LEMMA Whole ==
  ASSUME Types', Busy', UNCHANGED cf, Apart', InOrder',
         \A c \in Blobs : Sound(c)' /\ Ahead(c)', \A c \in Blobs : Held(c)',
         \A k \in 1 .. Len(ab') : Carries(ab[k])' => Labelled(ab[k])'
  PROVE  TInv'
<1>1. Blobs' = Blobs
  BY DEF Blobs
<1> QED
  BY <1>1 DEF TInv

LEMMA HeaderIs ==
  ASSUME TInv, ab # <<>>, ab[1].p.t = "binarystream", NEW m, m = Head(ab)
  PROVE  /\ m = ab[1] /\ m.p.val \in Blobs /\ m.p.ch = Blob(m.p.val).ch /\ m.p.ch \in Channels
         /\ node[m.p.val].active /\ m.p.sid = node[m.p.val].streamid /\ m.p.sid \in Nat
         /\ m.p.num = Size(m.p.val) /\ m.p.num \in Nat /\ m.p.val \in Nat
         /\ state[m.p.val] = "none" /\ written[m.p.val] = <<>> /\ Header1(m.p.val)
         /\ \A c \in Blobs : ~Block1(c)
<1>1. m = ab[1] /\ Labelled(m) /\ m.p \in Packet
  BY HeadOf DEF Carries
<1>2. /\ m.p.val \in Blobs /\ m.p.ch = Blob(m.p.val).ch /\ node[m.p.val].active
      /\ m.p.sid = node[m.p.val].streamid /\ m.p.num = Size(m.p.val)
      /\ state[m.p.val] = "none" /\ written[m.p.val] = <<>>
  BY <1>1 DEF Labelled
<1>3. m.p.ch \in Channels
  BY <1>2 DEF Channels
<1>4. m.p.sid \in Nat /\ m.p.num \in Nat /\ m.p.val \in Nat
  BY <1>1 DEF Packet
<1> QED
  BY <1>1, <1>2, <1>3, <1>4 DEF Header1, Block1

LEMMA Existing ==
  ASSUME TInv, ab # <<>>, ab[1].p.t = "binarystream", command_binarystream_Exist(Head(ab))
  PROVE  TInv'
<1>1. PICK m, ch, w : m = Head(ab) /\ ch = m.p.ch /\ w = bframe[ch].blob
  OBVIOUS
<1>2. ch \in Channels /\ \A c \in Blobs : ~Block1(c)
  BY <1>1, HeaderIs
<1>3. /\ bframe[ch].active /\ bframe' = Cancelled(ch) /\ Tell(w, "cancelled")
      /\ Taken(Head(ab), CancelOf(ch)) /\ UNCHANGED written
  BY <1>1 DEF command_binarystream_Exist
<1>4. UNCHANGED <<cf, next, node, out_stream>> /\ ab' = Tail(ab)
  BY <1>3 DEF Taken, source
<1>5. /\ w \in Blobs /\ state[w] = "init" /\ state'[w] = "cancelled"
      /\ \A c \in Blobs : c # w => state'[c] = state[c]
      /\ bframe' \in [Channels -> Frames] /\ state' \in [Blobs -> States]
      /\ Busy' /\ \A c \in Blobs : Held(c)'
      /\ CancelOf(ch) \in Seq(Packet)
  BY <1>1, <1>2, <1>3, <1>4, Cancelling
<1>6. written' \in [Blobs -> Seq(Nat \X Nat)]
  BY <1>3 DEF TInv, Types, SinkTypes
<1>7. Types'
  BY <1>3, <1>5, <1>6, TakenTypes
<1>8. PICK W : W = {w}
  BY ZenonT(30)
<1>9. /\ W \in SUBSET Blobs
      /\ \A c \in Blobs \ W : state'[c] = state[c] /\ written'[c] = written[c]
      /\ \A c \in W : state[c] = "init" \/ Header1(c)
      /\ \A c \in Blobs : Block1(c) /\ state[c] = "init" => c \in W
      /\ \A c \in W : state'[c] = "init" => Behind(c)
  BY <1>2, <1>3, <1>5, <1>8
<1>10. /\ Apart' /\ InOrder'
       /\ \A c \in Blobs : Sound(c)' /\ Ahead(c)'
       /\ \A k \in 1 .. Len(ab') : Carries(ab[k])' => Labelled(ab[k])'
  BY <1>4, <1>9, Taking
<1> QED
  BY <1>4, <1>5, <1>7, <1>10, Whole

\* A transfer is announced on a channel that is free: accepted or refused.
LEMMA Announcing ==
  ASSUME TInv, ab # <<>>, ab[1].p.t = "binarystream",
         command_binarystream_Accept(Head(ab)) \/ command_binarystream_Refuse(Head(ab))
  PROVE  TInv'
<1>0. Types /\ Busy /\ \A c \in Blobs : Held(c) /\ Ahead(c)
  BY DEF TInv
<1>1. PICK m, ch, v : m = Head(ab) /\ ch = m.p.ch /\ v = m.p.val
  OBVIOUS
<1>2. /\ m = ab[1] /\ v \in Blobs /\ ch = Blob(v).ch /\ ch \in Channels /\ m.p.sid \in Nat /\ m.p.num \in Nat
      /\ node[v].active /\ m.p.sid = node[v].streamid /\ m.p.num = Size(v) /\ v \in Nat
      /\ state[v] = "none" /\ written[v] = <<>> /\ Header1(v)
      /\ \A c \in Blobs : ~Block1(c)
  BY <1>1, HeaderIs
<1>3. PICK told, f, ps : /\ bframe' = [bframe EXCEPT ![ch] = f] /\ state' = [state EXCEPT ![v] = told]
                         /\ Taken(Head(ab), ps) /\ UNCHANGED written /\ ~bframe[ch].active
                         /\ \/ told = "init" /\ f = Announced(m) /\ ps = <<>>
                            \/ /\ told = "cancelled" /\ f = [Announced(m) EXCEPT !.active = FALSE, !.streamid = NoStream]
                               /\ ps = <<Pkt("cancelstream", ch, m.p.sid, 0, 0)>>
  BY <1>1 DEF command_binarystream_Accept, command_binarystream_Refuse, Tell
<1>4. Announced(m) \in Frames /\ Announced(m).active /\ Announced(m).streamid = m.p.sid
      /\ Announced(m).size = m.p.num /\ Announced(m).blob = v
  BY <1>1, <1>2 DEF Announced, Frames
<1>5. /\ f \in Frames
      /\ told = "init" => f.active /\ f.streamid = m.p.sid /\ f.size = m.p.num /\ f.blob = v
      /\ told # "init" => ~f.active
      /\ told = "init" \/ told = "cancelled"
  <2>1. CASE told = "init"
    BY <2>1, <1>3, <1>4
  <2>2. CASE told = "cancelled"
    <3>1. PICK g : g = Announced(m)
      OBVIOUS
    <3>2. f = [g EXCEPT !.active = FALSE, !.streamid = NoStream] /\ g \in Frames
      BY <2>2, <3>1, <1>3, <1>4
    <3>3. f \in Frames /\ ~f.active
      BY <3>2 DEF Frames, NoStream
    <3> QED
      BY <2>2, <3>3
  <2> QED
    BY <2>1, <2>2, <1>3
<1>6. ps \in Seq(Packet)
  <2>1. Pkt("cancelstream", ch, m.p.sid, 0, 0) \in Packet
    BY <1>2 DEF Pkt, Packet
  <2>2. <<>> \in Seq(Packet) /\ <<Pkt("cancelstream", ch, m.p.sid, 0, 0)>> \in Seq(Packet)
    BY <2>1, OnePacket
  <2> QED
    BY <2>2, <1>3
<1>t. bframe \in [Channels -> Frames] /\ state \in [Blobs -> States] /\ written \in [Blobs -> Seq(Nat \X Nat)]
  BY <1>0 DEF Types, SinkTypes, States
<1>7. /\ state' \in [Blobs -> States] /\ state'[v] = told /\ \A c \in Blobs : c # v => state'[c] = state[c]
      /\ bframe' \in [Channels -> Frames] /\ bframe'[ch] = f /\ \A d \in Channels : d # ch => bframe'[d] = bframe[d]
      /\ written' \in [Blobs -> Seq(Nat \X Nat)]
  BY <1>2, <1>3, <1>5, <1>t DEF States
<1>8. Types' /\ ab' = Tail(ab) /\ UNCHANGED <<cf, next, node, out_stream>>
  BY <1>3, <1>6, <1>7, TakenTypes
<1>9. Blobs' = Blobs /\ Channels' = Channels /\ \A c : Blob(c)' = Blob(c) /\ Unknown(c)' = Unknown(c)
  BY <1>8 DEF Blobs, Channels, Blob, Unknown
<1>10. Busy'
  <2> SUFFICES ASSUME NEW d \in Channels, bframe'[d].active
               PROVE  bframe'[d].blob \in Blobs /\ Blob(bframe'[d].blob).ch = d
    BY <1>9 DEF Busy
  <2>1. CASE d = ch
    BY <2>1, <1>2, <1>5, <1>7
  <2>2. CASE d # ch
    BY <2>2, <1>0, <1>7 DEF Busy
  <2> QED
    BY <2>1, <2>2
<1>11. ASSUME NEW c \in Blobs PROVE Held(c)'
  <2>0. Held(c) /\ Blob(c).ch \in Channels
    BY <1>0 DEF Channels
  <2>1. CASE c = v
    <3>1. /\ state'[c] = told /\ bframe'[Blob(c).ch] = f /\ written'[c] = <<>> /\ node'[c] = node[c]
          /\ Blob(c)' = Blob(c) /\ Unknown(c)' = Unknown(c)
      BY <2>1, <1>2, <1>3, <1>7, <1>8, <1>9
    <3>2. Len(written'[c]) = 0 /\ Len(written'[c]) <= node[c].done /\ node[c].active
      <4>1. node[c].done \in Nat /\ node[c].active
        BY <2>1, <1>0, <1>2, TypesSay
      <4> QED
        BY <3>1, <4>1, Zero
    <3>3. told = "init" <=> f.active /\ f.blob = c
      BY <2>1, <1>5
    <3>4. told = "init" =>
            /\ f.streamid = node[c].streamid
            /\ f.size = (IF Unknown(c) THEN 0 ELSE Blob(c).size - 0)
            /\ ~Unknown(c) => 0 < Blob(c).size
      <4>1. Blob(c).size \in Nat \ {0}
        BY <1>0, Workload DEF Types, SourceTypes
      <4> QED
        BY <2>1, <4>1, <1>2, <1>5, Zero, ZenonT(30) DEF Size
    <3> QED
      <4>1. \A i \in 1 .. Len(written'[c]) : FALSE
        BY <3>2, UpTo
      <4>2. told # "completed"
        BY <1>5
      <4> QED
        BY <3>1, <3>2, <3>3, <3>4, <4>1, <4>2 DEF Held
  <2>2. CASE c # v /\ Blob(c).ch = ch
    <3>1. state[c] # "init" /\ state'[c] = state[c] /\ bframe'[Blob(c).ch] = f
      BY <2>0, <2>2, <1>3, <1>7 DEF Held
    <3>2. ~(f.active /\ f.blob = c)
      BY <2>2, <1>5
    <3> QED
      BY <2>0, <3>1, <3>2, <1>3, <1>8, <1>9 DEF Held
  <2>3. CASE Blob(c).ch # ch
    <3>1. state'[c] = state[c] /\ bframe'[Blob(c).ch] = bframe[Blob(c).ch]
      BY <2>0, <2>3, <1>2, <1>7
    <3> QED
      BY <2>0, <3>1, <1>3, <1>8, <1>9 DEF Held
  <2> QED
    BY <2>1, <2>2, <2>3
<1>12. Behind(v)
  <2>1. ab \in Seq(Message) /\ ab # <<>> /\ Len(written'[v]) = 0 /\ written'[v] = written[v]
    BY <1>0, <1>2, <1>3, TypesSay, ZenonT(30)
  <2>2. Expected(v)
    BY <1>2, HeadOf DEF Expected, Header1
  <2>3. /\ \A n \in 1 .. node[v].done : n > Len(written[v]) =>
             \E k \in 1 .. Len(ab) : ab[k].p.t = "blob" /\ ab[k].p.val = v /\ ab[k].p.num = n
        /\ \A k \in 1 .. Len(ab) : ab[k].p.t = "blob" /\ ab[k].p.val = v => ab[k].p.num > Len(written[v])
    BY <2>2, <1>0, <1>2, ZenonT(30) DEF Ahead
  <2>4. /\ Tail(ab) \in Seq(Message) /\ Len(Tail(ab)) = Len(ab) - 1 /\ Len(ab) \in Nat \ {0}
        /\ Head(ab) = ab[1] /\ 1 \in 1 .. Len(ab) /\ ab[1] \in Message
        /\ \A k \in 1 .. Len(Tail(ab)) : k + 1 \in 1 .. Len(ab) /\ Tail(ab)[k] = ab[k + 1]
        /\ \A k \in 1 .. Len(ab) : k = 1 \/ \E j \in 1 .. Len(Tail(ab)) : k = j + 1
    BY <2>1, Shrunk, SMTT(30), SMTT(31)
  <2>5. ASSUME NEW n \in 1 .. node[v].done, n > Len(written[v])
        PROVE  \E k \in 1 .. Len(Tail(ab)) : Tail(ab)[k].p.t = "blob" /\ Tail(ab)[k].p.val = v /\ Tail(ab)[k].p.num = n
    <3>1. PICK k \in 1 .. Len(ab) : ab[k].p.t = "blob" /\ ab[k].p.val = v /\ ab[k].p.num = n
      BY <2>3, <2>5
    <3>2. k # 1
      BY <3>1, <1>2 DEF Header1
    <3>3. PICK j \in 1 .. Len(Tail(ab)) : k = j + 1
      BY <3>2, <2>4
    <3> QED
      BY <3>1, <3>3, <2>4
  <2>6. ASSUME NEW k \in 1 .. Len(Tail(ab)), Tail(ab)[k].p.t = "blob", Tail(ab)[k].p.val = v
        PROVE  Tail(ab)[k].p.num > Len(written[v])
    <3>1. PICK j \in 1 .. Len(ab) : Tail(ab)[k] = ab[j]
      BY <2>4
    <3> QED
      BY <2>3, <2>6, <3>1, ZenonT(30)
  <2>7. written' = written
    BY <1>3
  <2> QED
    BY <2>5, <2>6, <2>7 DEF Behind
<1>13. PICK W : W = {v}
  OBVIOUS
<1>14. /\ W \in SUBSET Blobs
       /\ \A c \in Blobs \ W : state'[c] = state[c] /\ written'[c] = written[c]
       /\ \A c \in W : state[c] = "init" \/ Header1(c)
       /\ \A c \in Blobs : Block1(c) /\ state[c] = "init" => c \in W
       /\ \A c \in W : state'[c] = "init" => Behind(c)
  BY <1>2, <1>3, <1>7, <1>12, <1>13
<1>15. /\ Apart' /\ InOrder'
       /\ \A c \in Blobs : Sound(c)' /\ Ahead(c)'
       /\ \A k \in 1 .. Len(ab') : Carries(ab[k])' => Labelled(ab[k])'
  BY <1>8, <1>14, Taking
<1> QED
  BY <1>8, <1>10, <1>11, <1>15, Whole

LEMMA BlockIs ==
  ASSUME TInv, ab # <<>>, ab[1].p.t = "blob", NEW m, m = Head(ab)
  PROVE  /\ m = ab[1] /\ m.p.val \in Blobs /\ m.p.ch = Blob(m.p.val).ch /\ m.p.ch \in Channels
         /\ node[m.p.val].active /\ m.p.sid = node[m.p.val].streamid
         /\ m.p.num \in 1 .. node[m.p.val].done
         /\ \A c \in Blobs : Block1(c) => c = m.p.val
         /\ Foreign(m) \/ (bframe[m.p.ch].active /\ bframe[m.p.ch].blob = m.p.val /\ state[m.p.val] = "init")
         /\ Foreign(m) => state[m.p.val] # "init"
<1>1. m = ab[1] /\ Labelled(m)
  BY HeadOf DEF Carries
<1>2. PICK v, ch : v = m.p.val /\ ch = m.p.ch
  OBVIOUS
<1>3. /\ v \in Blobs /\ ch = Blob(v).ch /\ node[v].active /\ m.p.sid = node[v].streamid
      /\ m.p.num \in 1 .. node[v].done
  BY <1>1, <1>2 DEF Labelled
<1>4. ch \in Channels
  BY <1>3 DEF Channels
<1>5. Held(v) /\ Apart /\ Busy
  BY <1>3 DEF TInv
<1>6. state[v] = "init" => bframe[ch].active /\ bframe[ch].streamid = m.p.sid
  BY <1>3, <1>5 DEF Held
<1>7. ASSUME bframe[ch].active, bframe[ch].streamid = m.p.sid
      PROVE  bframe[ch].blob = v /\ state[v] = "init"
  <2>1. PICK w : w = bframe[ch].blob
    OBVIOUS
  <2>2. w \in Blobs /\ Blob(w).ch = ch
    BY <2>1, <1>4, <1>5, <1>7 DEF Busy
  <2>3. Held(w)
    BY <2>2 DEF TInv
  <2>4. state[w] = "init" /\ node[w].streamid = m.p.sid
    BY <2>1, <2>2, <2>3, <1>7, ZenonT(30) DEF Held
  <2>5. node[w].active
    BY <2>3, <2>4 DEF Held
  <2>6. w = v
    BY <2>2, <2>4, <2>5, <1>3, <1>5 DEF Apart
  <2> QED
    BY <2>1, <2>4, <2>6
<1>8. \A c \in Blobs : Block1(c) => c = v
  BY <1>1, <1>2 DEF Block1
<1>9. Foreign(m) <=> ~(bframe[ch].active /\ bframe[ch].streamid = m.p.sid)
  BY <1>2 DEF Foreign
<1> QED
  BY <1>1, <1>2, <1>3, <1>4, <1>6, <1>7, <1>8, <1>9

\* A packet that changes nothing of the transfers is taken.
LEMMA Passing ==
  ASSUME TInv, ab # <<>>, NEW ps \in Seq(Packet), Taken(Head(ab), ps), UNCHANGED <<bframe, state, written>>,
         \A c \in Blobs : Block1(c) => state[c] # "init"
  PROVE  TInv'
<1>0. Types /\ Busy /\ \A c \in Blobs : Held(c)
  BY DEF TInv
<1>1. /\ bframe' \in [Channels -> Frames] /\ state' \in [Blobs -> States]
      /\ written' \in [Blobs -> Seq(Nat \X Nat)]
  BY <1>0 DEF Types, SinkTypes, States
<1>2. Types' /\ ab' = Tail(ab) /\ UNCHANGED <<cf, next, node, out_stream>>
  BY <1>1, TakenTypes
<1>3. PICK W : W = {}
  OBVIOUS
<1>4. /\ W \in SUBSET Blobs
      /\ \A c \in Blobs \ W : state'[c] = state[c] /\ written'[c] = written[c]
      /\ \A c \in W : state[c] = "init" \/ Header1(c)
      /\ \A c \in Blobs : Block1(c) /\ state[c] = "init" => c \in W
      /\ \A c \in W : state'[c] = "init" => Behind(c)
  BY <1>3
<1>5. /\ Apart' /\ InOrder'
      /\ \A c \in Blobs : Sound(c)' /\ Ahead(c)'
      /\ \A k \in 1 .. Len(ab') : Carries(ab[k])' => Labelled(ab[k])'
  BY <1>2, <1>4, Taking
<1>6. Busy' /\ \A c \in Blobs : Held(c)'
  <2>1. Blobs' = Blobs /\ Channels' = Channels /\ \A c : Blob(c)' = Blob(c) /\ Unknown(c)' = Unknown(c)
    BY <1>2 DEF Blobs, Channels, Blob, Unknown
  <2>2. Busy'
    BY <1>0, <2>1 DEF Busy
  <2>3. ASSUME NEW c \in Blobs PROVE Held(c)'
    <3>1. Held(c)
      BY <1>0
    <3> QED
      BY <3>1, <2>1, <1>2 DEF Held
  <2> QED
    BY <2>2, <2>3
<1> QED
  BY <1>2, <1>5, <1>6, Whole

LEMMA Discarding ==
  ASSUME TInv, ab # <<>>, ab[1].p.t = "blob", process_blob_Discard(Head(ab))
  PROVE  TInv'
<1>1. PICK m : m = Head(ab)
  OBVIOUS
<1>2. Foreign(m) /\ Taken(Head(ab), <<>>) /\ UNCHANGED <<bframe, state, written>>
  BY <1>1 DEF process_blob_Discard
<1>3. \A c \in Blobs : Block1(c) => state[c] # "init"
  BY <1>1, <1>2, BlockIs
<1>4. <<>> \in Seq(Packet)
  OBVIOUS
<1> QED
  BY <1>2, <1>3, <1>4, Passing

LEMMA NotWritten ==
  ASSUME TInv, ab # <<>>, ab[1].p.t = "blob", process_blob_Full(Head(ab))
  PROVE  TInv'
<1>1. PICK m, ch, w : m = Head(ab) /\ ch = m.p.ch /\ w = bframe[ch].blob
  OBVIOUS
<1>2. /\ ~Foreign(m) /\ bframe' = Cancelled(ch) /\ Tell(w, "cancelled")
      /\ Taken(Head(ab), CancelOf(ch)) /\ UNCHANGED written
  BY <1>1 DEF process_blob_Full
<1>3. ch \in Channels /\ bframe[ch].active /\ \A c \in Blobs : Block1(c) => c = w
  BY <1>1, <1>2, BlockIs
<1>4. UNCHANGED <<cf, next, node, out_stream>> /\ ab' = Tail(ab)
  BY <1>2 DEF Taken, source
<1>5. /\ w \in Blobs /\ state[w] = "init" /\ state'[w] = "cancelled"
      /\ \A c \in Blobs : c # w => state'[c] = state[c]
      /\ bframe' \in [Channels -> Frames] /\ state' \in [Blobs -> States]
      /\ Busy' /\ \A c \in Blobs : Held(c)'
      /\ CancelOf(ch) \in Seq(Packet)
  BY <1>1, <1>2, <1>3, <1>4, Cancelling, ZenonT(30)
<1>6. written' \in [Blobs -> Seq(Nat \X Nat)]
  BY <1>2 DEF TInv, Types, SinkTypes
<1>7. Types'
  BY <1>2, <1>5, <1>6, TakenTypes
<1>8. PICK W : W = {w}
  OBVIOUS
<1>9. /\ W \in SUBSET Blobs
      /\ \A c \in Blobs \ W : state'[c] = state[c] /\ written'[c] = written[c]
      /\ \A c \in W : state[c] = "init" \/ Header1(c)
      /\ \A c \in Blobs : Block1(c) /\ state[c] = "init" => c \in W
      /\ \A c \in W : state'[c] = "init" => Behind(c)
  BY <1>2, <1>3, <1>5, <1>8
<1>10. /\ Apart' /\ InOrder'
       /\ \A c \in Blobs : Sound(c)' /\ Ahead(c)'
       /\ \A k \in 1 .. Len(ab') : Carries(ab[k])' => Labelled(ab[k])'
  BY <1>4, <1>9, Taking
<1> QED
  BY <1>4, <1>5, <1>7, <1>10, Whole

\* The block that arrives for a transfer is the next one of it.
LEMMA NextBlock ==
  ASSUME TInv, ab # <<>>, ab[1].p.t = "blob", NEW v \in Blobs, v = ab[1].p.val, state[v] = "init"
  PROVE  ab[1].p.num = Len(written[v]) + 1
<1>0. Types /\ Ahead(v) /\ InOrder /\ Expected(v)
  BY DEF TInv, Expected
<1>t. ab \in Seq(Message) /\ Len(ab) \in Nat /\ Len(written[v]) \in Nat /\ node[v].done \in Nat
      /\ \A k \in 1 .. Len(ab) : ab[k].p.num \in Nat
  BY <1>0, TypesSay
<1>1. 1 \in 1 .. Len(ab) /\ ab[1].p.num \in 1 .. node[v].done
  BY HeadOf, BlockIs
<1>2. ab[1].p.num > Len(written[v])
  BY <1>0, <1>1 DEF Ahead
<1>3. PICK n : n = Len(written[v]) + 1
  OBVIOUS
<1>4. n \in 1 .. node[v].done /\ n > Len(written[v]) /\ n <= ab[1].p.num
  BY <1>1, <1>2, <1>3, <1>t, NextUp
<1>5. PICK k \in 1 .. Len(ab) : ab[k].p.t = "blob" /\ ab[k].p.val = v /\ ab[k].p.num = n
  BY <1>0, <1>4 DEF Ahead
<1>6. CASE k = 1
  BY <1>3, <1>5, <1>6
<1>7. CASE k # 1
  <2>1. 1 < k
    BY <1>7, <1>t, FromOne
  <2>2. Place(ab[1]) < Place(ab[k])
    BY <2>1, <1>0, <1>1, <1>5 DEF InOrder, Carries
  <2> QED
    <3>1. Place(ab[1]) = ab[1].p.num /\ Place(ab[k]) = n
      BY <1>5 DEF Place
    <3>2. n \in Nat /\ ab[1].p.num \in Nat
      BY <1>1, <1>3, <1>t, Zero
    <3> QED
      BY <2>2, <3>1, <3>2, <1>4, NotBoth
<1> QED
  BY <1>6, <1>7

\* What is left on the way once the next block of transfer v is taken.
LEMMA BlockTaken ==
  ASSUME TInv, ab # <<>>, ab[1].p.t = "blob", NEW v \in Blobs, v = ab[1].p.val, state[v] = "init",
         Len(written'[v]) = Len(written[v]) + 1
  PROVE  Behind(v)
<1>0. Types /\ Ahead(v) /\ InOrder /\ Expected(v)
  BY DEF TInv, Expected
<1>t. ab \in Seq(Message) /\ Len(ab) \in Nat /\ Len(written[v]) \in Nat /\ node[v].done \in Nat
      /\ \A k \in 1 .. Len(ab) : ab[k].p.num \in Nat
  BY <1>0, TypesSay
<1>1. PICK h, t : h = ab[1].p.num /\ t = Tail(ab)
  OBVIOUS
<1>2. h = Len(written[v]) + 1 /\ Len(written'[v]) = h
  BY <1>1, NextBlock, ZenonT(30)
<1>3. /\ Tail(ab) \in Seq(Message) /\ Len(Tail(ab)) = Len(ab) - 1 /\ Len(ab) \in Nat \ {0}
      /\ Head(ab) = ab[1] /\ 1 \in 1 .. Len(ab) /\ ab[1] \in Message
      /\ \A k \in 1 .. Len(Tail(ab)) : k + 1 \in 1 .. Len(ab) /\ Tail(ab)[k] = ab[k + 1]
      /\ \A k \in 1 .. Len(ab) : k = 1 \/ \E j \in 1 .. Len(Tail(ab)) : k = j + 1
  BY <1>t, Shrunk, SMTT(30), SMTT(31)
<1>4. ASSUME NEW n \in 1 .. node[v].done, n > h
      PROVE  \E k \in 1 .. Len(t) : t[k].p.t = "blob" /\ t[k].p.val = v /\ t[k].p.num = n
  <2>1. n > Len(written[v])
    BY <1>2, <1>4, <1>t
  <2>2. PICK k \in 1 .. Len(ab) : ab[k].p.t = "blob" /\ ab[k].p.val = v /\ ab[k].p.num = n
    BY <2>1, <1>0 DEF Ahead
  <2>a. n # h
    BY <1>2, <1>4, <1>t
  <2>3. k # 1
    BY <2>2, <2>a, <1>1
  <2>4. PICK j \in 1 .. Len(Tail(ab)) : k = j + 1
    BY <2>3, <1>3
  <2>5. Tail(ab)[j] = ab[k]
    BY <2>4, <1>3
  <2> QED
    BY <2>2, <2>4, <2>5, <1>1
<1>5. ASSUME NEW k \in 1 .. Len(t), t[k].p.t = "blob", t[k].p.val = v
      PROVE  t[k].p.num > h
  <2>1. k + 1 \in 1 .. Len(ab) /\ t[k] = ab[k + 1] /\ 1 < k + 1
    BY <1>1, <1>3, SMTT(30), SMTT(31)
  <2>2. PICK j \in 1 .. Len(ab) : j = k + 1
    BY <2>1
  <2>3. Place(ab[1]) < Place(ab[j])
    BY <2>1, <2>2, <1>0, <1>3, <1>5 DEF InOrder, Carries
  <2>4. Place(ab[1]) = h /\ Place(ab[j]) = t[k].p.num /\ h \in Nat /\ t[k].p.num \in Nat
    BY <2>1, <2>2, <1>1, <1>3, <1>5, <1>t DEF Place
  <2> QED
    BY <2>3, <2>4
<1> QED
  BY <1>1, <1>2, <1>4, <1>5 DEF Behind

\* A block is written, v's next one; its size tells whether it is the last.
LEMMA Writing ==
  ASSUME TInv, ab # <<>>, ab[1].p.t = "blob", process_blob_Write(Head(ab))
  PROVE  TInv'
<1>0. Types /\ Busy /\ \A c \in Blobs : Held(c)
  BY DEF TInv
<1>1. PICK m, ch, v, f, x :
           /\ m = Head(ab) /\ ch = m.p.ch /\ v = m.p.val /\ f = bframe[ch]
           /\ x = <<m.p.val, m.p.num>>
  OBVIOUS
<1>2. ~Foreign(m)
  BY <1>1 DEF process_blob_Write
<1>3. /\ m = ab[1] /\ v \in Blobs /\ ch = Blob(v).ch /\ ch \in Channels /\ node[v].active
      /\ m.p.num \in 1 .. node[v].done /\ f.active /\ f.blob = v /\ state[v] = "init"
      /\ \A c \in Blobs : Block1(c) => c = v
  BY <1>1, <1>2, BlockIs
<1>4. PICK ps : /\ written' = [written EXCEPT ![v] = Append(@, x)]
                /\ bframe' = [bframe EXCEPT ![ch].size = IF @ = 0 THEN 0 ELSE @ - 1, ![ch].active = ~(f.size = 1)]
                /\ IF f.size = 1 THEN Tell(v, "completed") ELSE UNCHANGED state
                /\ Taken(Head(ab), ps)
                /\ ps = IF f.size = 1 THEN <<Pkt("ping", ch, Blob(v).ident, 0, 0)>> ELSE <<>>
  BY <1>1, <1>3 DEF process_blob_Write
<1>t. /\ cf \in Configs /\ f \in Frames /\ written[v] \in Seq(Nat \X Nat) /\ Len(written[v]) \in Nat
      /\ node[v].done \in Nat /\ v \in Nat /\ f.size \in Nat
      /\ bframe \in [Channels -> Frames] /\ state \in [Blobs -> States]
      /\ written \in [Blobs -> Seq(Nat \X Nat)]
  <2>1. /\ cf \in Configs /\ f \in Frames /\ written[v] \in Seq(Nat \X Nat) /\ Len(written[v]) \in Nat
        /\ node[v].done \in Nat /\ v \in Nat /\ f.size \in Nat
    BY <1>0, <1>1, <1>3, TypesSay
  <2>2. /\ bframe \in [Channels -> Frames] /\ state \in [Blobs -> States]
        /\ written \in [Blobs -> Seq(Nat \X Nat)]
    BY <1>0 DEF Types, SinkTypes, States
  <2> QED
    BY <2>1, <2>2
<1>n. m.p.num = Len(written[v]) + 1 /\ m.p.num \in Nat
  <2>1. m.p.num = Len(written[v]) + 1
    BY <1>1, <1>3, NextBlock
  <2> QED
    BY <2>1, <1>t, Zero
<1>5. ps \in Seq(Packet)
  <2>1. Blob(v).ident \in Nat
    BY <1>3, <1>t, Workload
  <2>2. Pkt("ping", ch, Blob(v).ident, 0, 0) \in Packet
    BY <2>1, <1>3 DEF Pkt, Packet
  <2>3. <<>> \in Seq(Packet) /\ <<Pkt("ping", ch, Blob(v).ident, 0, 0)>> \in Seq(Packet)
    BY <2>2
  <2> QED
    BY <2>3, <1>4
<1>6. PICK g : g = [f EXCEPT !.size = IF f.size = 0 THEN 0 ELSE f.size - 1, !.active = ~(f.size = 1)]
  OBVIOUS
<1>7. /\ g \in Frames /\ g.blob = v /\ g.streamid = f.streamid
      /\ g.active = (f.size # 1) /\ g.size = IF f.size = 0 THEN 0 ELSE f.size - 1
  <2>1. PICK s : s = IF f.size = 0 THEN 0 ELSE f.size - 1
    OBVIOUS
  <2>2. s \in Nat
    BY <2>1, <1>t
  <2>3. g = [f EXCEPT !.size = s, !.active = ~(f.size = 1)]
    BY <2>1, <1>6
  <2>4. (~(f.size = 1)) \in BOOLEAN
    OBVIOUS
  <2>5. g \in Frames
    BY <2>2, <2>3, <2>4, <1>t DEF Frames
  <2>6. g.blob = f.blob /\ g.streamid = f.streamid /\ g.active = (f.size # 1) /\ g.size = s
    BY <2>3, <1>t DEF Frames
  <2> QED
    BY <2>1, <2>5, <2>6, <1>3
<1>8. bframe' = [bframe EXCEPT ![ch] = g]
  <2>1. bframe' = [bframe EXCEPT ![ch] = [bframe[ch] EXCEPT !.size = IF bframe[ch].size = 0 THEN 0 ELSE bframe[ch].size - 1,
                                                            !.active = ~(f.size = 1)]]
    BY <1>3, <1>4, <1>t
  <2> QED
    BY <2>1, <1>1, <1>6
<1>9. bframe' \in [Channels -> Frames] /\ bframe'[ch] = g /\ \A d \in Channels : d # ch => bframe'[d] = bframe[d]
  BY <1>3, <1>7, <1>8, <1>t
<1>10. /\ state' \in [Blobs -> States] /\ state'[v] = (IF f.size = 1 THEN "completed" ELSE "init")
       /\ \A c \in Blobs : c # v => state'[c] = state[c]
  <2>1. CASE f.size = 1
    <3>1. state' = [state EXCEPT ![v] = "completed"]
      BY <2>1, <1>4 DEF Tell
    <3> QED
      BY <2>1, <3>1, <1>3, <1>t DEF States
  <2>2. CASE f.size # 1
    <3>1. state' = state
      BY <2>2, <1>4
    <3> QED
      BY <2>2, <3>1, <1>3, <1>t
  <2> QED
    BY <2>1, <2>2
<1>11. PICK r : r = Append(written[v], x)
  OBVIOUS
<1>12. /\ x \in Nat \X Nat /\ r \in Seq(Nat \X Nat) /\ Len(r) = Len(written[v]) + 1 /\ r[Len(written[v]) + 1] = x
       /\ \A i \in 1 .. Len(written[v]) : r[i] = written[v][i]
  <2>1. x \in Nat \X Nat
    BY <1>1, <1>n, <1>t
  <2>2. /\ Append(written[v], x) \in Seq(Nat \X Nat) /\ Len(Append(written[v], x)) = Len(written[v]) + 1
        /\ Append(written[v], x)[Len(written[v]) + 1] = x
        /\ \A i \in 1 .. Len(written[v]) : Append(written[v], x)[i] = written[v][i]
    BY <2>1, <1>t, Appended, SMTT(30), SMTT(31)
  <2> QED
    BY <2>1, <2>2, <1>11
<1>13. /\ written' \in [Blobs -> Seq(Nat \X Nat)] /\ written'[v] = r
       /\ \A c \in Blobs : c # v => written'[c] = written[c]
  BY <1>3, <1>4, <1>11, <1>12, <1>t
<1>14. Types' /\ ab' = Tail(ab) /\ UNCHANGED <<cf, next, node, out_stream>>
  BY <1>4, <1>5, <1>9, <1>10, <1>13, TakenTypes
<1>15. Blobs' = Blobs /\ Channels' = Channels /\ \A c : Blob(c)' = Blob(c) /\ Unknown(c)' = Unknown(c)
  BY <1>14 DEF Blobs, Channels, Blob, Unknown
<1>16. Busy'
  <2> SUFFICES ASSUME NEW d \in Channels, bframe'[d].active
               PROVE  bframe'[d].blob \in Blobs /\ Blob(bframe'[d].blob).ch = d
    BY <1>15 DEF Busy
  <2>1. CASE d = ch
    BY <2>1, <1>3, <1>7, <1>9
  <2>2. CASE d # ch
    BY <2>2, <1>0, <1>9 DEF Busy
  <2> QED
    BY <2>1, <2>2
<1>17. ASSUME NEW c \in Blobs PROVE Held(c)'
  <2>0. Held(c) /\ Blob(c).ch \in Channels
    BY <1>0 DEF Channels
  <2>1. CASE c = v
    <3>1. PICK L, S : L = Len(written[v]) /\ S = Blob(v).size
      OBVIOUS
    <3>2. /\ L \in Nat /\ S \in Nat /\ Len(r) = L + 1 /\ m.p.num = L + 1 /\ L + 1 <= node[v].done
          /\ f.size = (IF Unknown(v) THEN 0 ELSE S - L) /\ (~Unknown(v) => L < S)
          /\ f.streamid = node[v].streamid
      <4>1. L \in Nat /\ S \in Nat /\ Len(r) = L + 1 /\ m.p.num = L + 1 /\ L + 1 <= node[v].done
        <5>1. L \in Nat /\ S \in Nat /\ Len(r) = L + 1 /\ m.p.num = L + 1
          BY <3>1, <1>3, <1>12, <1>n, <1>t, Workload
        <5> QED
          BY <5>1, <1>3, <1>t, NotAbove
      <4>2. /\ f.size = (IF Unknown(v) THEN 0 ELSE S - L) /\ (~Unknown(v) => L < S)
            /\ f.streamid = node[v].streamid
        BY <2>0, <2>1, <3>1, <1>1, <1>3 DEF Held
      <4> QED
        BY <4>1, <4>2
    <3>3. ASSUME NEW i \in 1 .. Len(r) PROVE r[i] = <<v, i>>
      <4>1. CASE i \in 1 .. L
        <5>1. written[v][i] = <<v, i>>
          BY <2>0, <2>1, <4>1, <3>1 DEF Held
        <5> QED
          BY <5>1, <4>1, <3>1, <1>12
      <4>2. CASE i = L + 1
        <5>1. r[i] = x
          BY <4>2, <3>1, <1>12
        <5>2. x = <<v, i>>
          BY <4>2, <3>2, <1>1
        <5> QED
          BY <5>1, <5>2
      <4> QED
        BY <4>1, <4>2, <3>2
    <3>4. f.size = 1 => L + 1 = S
      BY <3>2, Rest
    <3>5. f.size # 1 => /\ g.size = (IF Unknown(v) THEN 0 ELSE S - (L + 1))
                        /\ ~Unknown(v) => L + 1 < S
      BY <3>2, <1>7
    <3>6. g.streamid = node[v].streamid /\ g.active = (f.size # 1) /\ g.blob = v
      BY <3>2, <1>7
    <3>7. /\ written'[c] = r /\ bframe'[Blob(c).ch] = g /\ node'[c] = node[c] /\ node[c].active
          /\ state'[c] = (IF f.size = 1 THEN "completed" ELSE "init")
          /\ Blob(c)' = Blob(c) /\ Unknown(c)' = Unknown(c) /\ S = Blob(c).size
      BY <2>1, <3>1, <1>3, <1>9, <1>10, <1>13, <1>14, <1>15
    <3>9. /\ (~node[c].active => state'[c] = "none" /\ r = <<>>)
          /\ Len(r) <= node[c].done
          /\ (state'[c] = "completed" => Len(r) = S)
          /\ (state'[c] = "init" <=> (g.active /\ g.blob = c))
          /\ (state'[c] = "init" =>
               /\ g.streamid = node[c].streamid
               /\ g.size = (IF Unknown(c) THEN 0 ELSE S - Len(r))
               /\ ~Unknown(c) => Len(r) < S)
      <4>1. CASE f.size = 1
        <5>1. state'[c] = "completed" /\ ~g.active /\ Len(r) = S
          BY <4>1, <3>2, <3>4, <3>6, <3>7
        <5> QED
          BY <5>1, <2>1, <3>2, <3>7
      <4>2. CASE f.size # 1
        <5>1. /\ state'[c] = "init" /\ g.active /\ g.size = (IF Unknown(c) THEN 0 ELSE S - Len(r))
              /\ ~Unknown(c) => Len(r) < S
          BY <4>2, <2>1, <3>2, <3>5, <3>6, <3>7
        <5> QED
          BY <5>1, <2>1, <3>2, <3>6, <3>7
      <4> QED
        BY <4>1, <4>2
    <3> QED
      BY <2>1, <3>3, <3>7, <3>9 DEF Held
  <2>2. CASE c # v /\ Blob(c).ch = ch
    <3>1. /\ state[c] # "init" /\ state'[c] = state[c] /\ bframe'[Blob(c).ch] = g /\ ~(g.active /\ g.blob = c)
          /\ written'[c] = written[c]
      <4>1. state[c] # "init"
        BY <2>0, <2>2, <1>1, <1>3 DEF Held
      <4> QED
        BY <4>1, <2>2, <1>7, <1>9, <1>10, <1>13
    <3> QED
      BY <2>0, <3>1, <1>14, <1>15 DEF Held
  <2>3. CASE Blob(c).ch # ch
    <3>1. state'[c] = state[c] /\ bframe'[Blob(c).ch] = bframe[Blob(c).ch] /\ written'[c] = written[c]
      BY <2>0, <2>3, <1>3, <1>9, <1>10, <1>13
    <3> QED
      BY <2>0, <3>1, <1>14, <1>15 DEF Held
  <2> QED
    BY <2>1, <2>2, <2>3
<1>18. Behind(v)
  <2>1. Len(written'[v]) = Len(written[v]) + 1
    BY <1>12, <1>13
  <2> QED
    BY <2>1, <1>1, <1>3, BlockTaken
<1>19. PICK W : W = {v}
  OBVIOUS
<1>20. /\ W \in SUBSET Blobs
       /\ \A c \in Blobs \ W : state'[c] = state[c] /\ written'[c] = written[c]
       /\ \A c \in W : state[c] = "init" \/ Header1(c)
       /\ \A c \in Blobs : Block1(c) /\ state[c] = "init" => c \in W
       /\ \A c \in W : state'[c] = "init" => Behind(c)
  BY <1>3, <1>10, <1>13, <1>18, <1>19
<1>21. /\ Apart' /\ InOrder'
       /\ \A c \in Blobs : Sound(c)' /\ Ahead(c)'
       /\ \A k \in 1 .. Len(ab') : Carries(ab[k])' => Labelled(ab[k])'
  BY <1>14, <1>20, Taking
<1> QED
  BY <1>14, <1>16, <1>17, <1>21, Whole

Less == {ss \in Nat \X Nat : ss[1] < ss[2]}

LEMMA LessWellFounded == IsWellFoundedOn(Less, Nat)
<1>1. Less = OpToRel(<, Nat)
  BY DEF Less, OpToRel
<1> QED
  BY <1>1, NatLessThanWellFounded

\* The first of a set of places is there.
LEMMA FirstIs ==
  ASSUME NEW S, S \subseteq Nat, S # {}
  PROVE  First(S) \in S /\ \A j \in S : First(S) <= j
<1>1. PICK i \in S : \A j \in S : ~(<<j, i>> \in Less)
  BY LessWellFounded, WFMin
<1>2. ASSUME NEW j \in S PROVE i <= j
  <2>1. i \in Nat /\ j \in Nat
    OBVIOUS
  <2>2. ~(<<j, i>> \in Less)
    BY <1>1
  <2>3. ~(j < i)
    BY <2>1, <2>2 DEF Less
  <2> QED
    BY <2>1, <2>3
<1> QED
  BY <1>2 DEF First

-----------------------------------------------------------------------------
(* the other steps *)

\* The frame the sink is at.
Views == [id : Nat, left : Int, discard : BOOLEAN]

\* A frame, or a part of one, arrives.
LEMMA Watching ==
  ASSUME TInv, ab # <<>>, vframe \in Views,
         \/ ab[1].p.t = "videoframe" /\ command_videoframe(Head(ab))
         \/ ab[1].p.t = "video" /\ process_video(Head(ab))
  PROVE  TInv' /\ vframe' \in Views
<1>1. \E ps \in Seq(Packet) : Taken(Head(ab), ps)
  <2>1. Pkt("ping", 0, vframe.id, 0, 0) \in Packet
    BY DEF Pkt, Packet, Views
  <2>2. <<>> \in Seq(Packet) /\ <<Pkt("ping", 0, vframe.id, 0, 0)>> \in Seq(Packet)
    BY <2>1
  <2> QED
    BY <2>2 DEF command_videoframe, process_video
<1>2. PICK ps \in Seq(Packet) : Taken(Head(ab), ps)
  BY <1>1
<1>3. UNCHANGED <<bframe, state, written>>
  BY DEF command_videoframe, process_video
<1>4. \A c \in Blobs : ~Block1(c)
  BY DEF Block1
<1>5. TInv'
  BY <1>2, <1>3, <1>4, Passing
<1>6. vframe' \in Views
  <2>1. CASE ab[1].p.t = "videoframe" /\ command_videoframe(Head(ab))
    <3>1. Head(ab).p.sid \in Nat /\ Head(ab).p.num \in Int
      BY HeadOf, SMTT(30), SMTT(31) DEF Packet
    <3>2. PICK d \in BOOLEAN : vframe' = [id |-> Head(ab).p.sid, left |-> Head(ab).p.num, discard |-> d]
      BY <2>1 DEF command_videoframe
    <3> QED
      BY <3>1, <3>2 DEF Views
  <2>2. CASE process_video(Head(ab))
    <3>1. vframe' = [vframe EXCEPT !.left = @ - 1]
      BY <2>2 DEF process_video
    <3>2. vframe.left - 1 \in Int
      BY SMTT(30), SMTT(31) DEF Views
    <3> QED
      BY <3>1, <3>2 DEF Views
  <2> QED
    BY <2>1, <2>2
<1> QED
  BY <1>5, <1>6

\* A packet arrives at the sink.
LEMMA Received ==
  ASSUME TInv, vframe \in Views, Sink_Unpack
  PROVE  TInv' /\ vframe' \in Views
<1>1. ab # <<>> /\ Head(ab) = ab[1]
  BY HeadOf DEF Sink_Unpack
<1>2. CASE ab[1].p.t = "binarystream" /\ (command_binarystream_Exist(Head(ab)) \/ command_binarystream_Accept(Head(ab))
                                          \/ command_binarystream_Refuse(Head(ab)))
  <2>1. vframe' = vframe
    BY <1>2 DEF command_binarystream_Exist, command_binarystream_Accept, command_binarystream_Refuse
  <2> QED
    BY <1>1, <1>2, <2>1, Existing, Announcing
<1>3. CASE ab[1].p.t = "blob" /\ (process_blob_Discard(Head(ab)) \/ process_blob_Write(Head(ab))
                                  \/ process_blob_Full(Head(ab)))
  <2>1. vframe' = vframe
    BY <1>3 DEF process_blob_Discard, process_blob_Write, process_blob_Full
  <2> QED
    BY <1>1, <1>3, <2>1, Discarding, Writing, NotWritten
<1>4. CASE ab[1].p.t = "videoframe" /\ command_videoframe(Head(ab))
  BY <1>1, <1>4, Watching
<1>5. CASE ab[1].p.t = "video" /\ process_video(Head(ab))
  BY <1>1, <1>5, Watching
<1> QED
  BY <1>1, <1>2, <1>3, <1>4, <1>5 DEF Sink_Unpack

\* The user cancels a transfer.
LEMMA UserCancels ==
  ASSUME TInv, stream_cancel
  PROVE  TInv'
<1>0. /\ Types /\ Apart /\ InOrder
      /\ \A c \in Blobs : Sound(c) /\ Ahead(c) /\ Held(c)
      /\ \A k \in 1 .. Len(ab) : Carries(ab[k]) => Labelled(ab[k])
  BY DEF TInv
<1>1. PICK ch \in Channels : /\ bframe[ch].active /\ bframe' = Cancelled(ch) /\ Tell(bframe[ch].blob, "cancelled")
                             /\ ToSource(CancelOf(ch))
  BY DEF stream_cancel
<1>2. UNCHANGED <<cf, next, node, pending, out_stream, seqA, written, lastB, ab>>
  BY DEF stream_cancel, source
<1>3. PICK w : w = bframe[ch].blob
  OBVIOUS
<1>4. /\ w \in Blobs /\ state[w] = "init" /\ state'[w] = "cancelled"
      /\ \A c \in Blobs : c # w => state'[c] = state[c]
      /\ bframe' \in [Channels -> Frames] /\ state' \in [Blobs -> States]
      /\ Busy' /\ \A c \in Blobs : Held(c)'
      /\ CancelOf(ch) \in Seq(Packet)
  BY <1>1, <1>2, <1>3, Cancelling
<1>5. Blobs' = Blobs /\ Channels' = Channels /\ Message' = Message /\ Configs' = Configs
      /\ \A c : Blob(c)' = Blob(c) /\ Unknown(c)' = Unknown(c)
  BY <1>2 DEF Blobs, Channels, Blob, Message, Packet, Unknown
<1>6. Types'
  <2>1. ba' \in Seq(Message) /\ seqB' \in Nat
    <3>1. seqB \in Nat /\ ba \in Seq(Message)
      BY <1>0 DEF Types, SinkTypes, LineTypes
    <3> QED
      BY <3>1, <1>1, <1>4, AnsweredIs
  <2>2. SourceTypes'
    BY <1>0, <1>2, <1>5 DEF Types, SourceTypes
  <2>3. SinkTypes'
    BY <1>0, <1>2, <1>4, <1>5, <2>1 DEF Types, SinkTypes, States
  <2>4. LineTypes'
    BY <1>0, <1>2, <1>5, <2>1 DEF Types, LineTypes
  <2> QED
    BY <2>2, <2>3, <2>4 DEF Types
<1>7. Apart' /\ InOrder'
  <2>1. node' = node /\ ab' = ab
    BY <1>2
  <2>2. Apart'
    BY <1>0, <1>5, <2>1 DEF Apart
  <2>3. InOrder'
    BY <1>0, <2>1, ZenonT(30) DEF InOrder, Carries, Place
  <2> QED
    BY <2>2, <2>3
<1>8. ASSUME NEW k \in 1 .. Len(ab), ab[k].p.t = "binarystream"
      PROVE  ab[k].p.val # w
  BY <1>0, <1>4, <1>8 DEF Carries, Labelled
<1>9. ASSUME NEW c \in Blobs PROVE Sound(c)' /\ Ahead(c)'
  <2>1. Sound(c)'
    BY <1>0, <1>2, <1>5 DEF Sound
  <2>2. Expected(c)' => Expected(c)
    BY <1>2, <1>4, <1>8 DEF Expected
  <2>3. Ahead(c)
    BY <1>0
  <2>4. Ahead(c)'
    BY <2>2, <2>3, <1>2 DEF Ahead
  <2> QED
    BY <2>1, <2>4
<1>10. ASSUME NEW k \in 1 .. Len(ab'), Carries(ab[k])' PROVE Labelled(ab[k])'
  <2>1. k \in 1 .. Len(ab) /\ Carries(ab[k]) /\ ab'[k] = ab[k]
    BY <1>2, <1>10 DEF Carries
  <2>2. Labelled(ab[k])
    BY <2>1, <1>0
  <2>3. ab[k].p.t = "binarystream" => state'[ab[k].p.val] = state[ab[k].p.val]
    BY <2>1, <2>2, <1>4, <1>8 DEF Labelled
  <2>4. node' = node /\ written' = written
    BY <1>2
  <2>5. \A c : Size(c)' = Size(c)
    BY <1>5 DEF Size
  <2> QED
    BY <2>1, <2>2, <2>3, <2>4, <2>5, <1>5 DEF Labelled
<1> QED
  BY <1>2, <1>4, <1>6, <1>7, <1>9, <1>10, Whole

LEMMA Chatted ==
  ASSUME TInv, Chat
  PROVE  TInv'
<1>0. Types
  BY DEF TInv
<1>t. /\ SourceTypes /\ SinkTypes /\ LineTypes
      /\ seqB \in Nat /\ lastB \in Nat /\ ba \in Seq(Message) /\ ab \in Seq(Message) /\ out_stream \in Nat
  BY <1>0 DEF Types, SourceTypes, SinkTypes, LineTypes
<1>1. /\ ToSource(<<Pkt("event", 0, 0, 0, lastB)>>)
      /\ UNCHANGED <<cf, next, node, pending, out_stream, seqA, bframe, state, written, lastB, ab>>
  BY DEF Chat, source
<1>2. Pkt("event", 0, 0, 0, lastB) \in Packet
  BY <1>t DEF Pkt, Packet
<1>3. <<Pkt("event", 0, 0, 0, lastB)>> \in Seq(Packet)
  BY <1>2
<1>4. ba' \in Seq(Message) /\ seqB' \in Nat
  BY <1>t, <1>1, <1>3, AnsweredIs
<1>5. Blobs' = Blobs /\ Channels' = Channels /\ Message' = Message
  BY <1>1 DEF Blobs, Channels, Blob, Message, Packet
<1>6. SourceTypes'
  BY <1>t, <1>1, <1>5 DEF SourceTypes
<1>7. SinkTypes'
  BY <1>t, <1>1, <1>4, <1>5 DEF SinkTypes
<1>8. LineTypes'
  BY <1>t, <1>1, <1>4, <1>5 DEF LineTypes
<1>9. Types'
  BY <1>6, <1>7, <1>8 DEF Types
<1>10. PICK q : q = <<>>
  OBVIOUS
<1>11. /\ q \in Seq(Message) /\ ab' = ab \o q /\ \A j \in 1 .. Len(q) : ~Carries(q[j])
       /\ out_stream' >= out_stream
  BY <1>t, <1>1, <1>10
<1> QED
  BY <1>1, <1>9, <1>11, Untouched

\* The source takes a packet: a transfer may be unlinked.
LEMMA Answered ==
  ASSUME TInv, Source_Unpack
  PROVE  TInv'
<1>0. Types
  BY DEF TInv
<1>t. /\ SourceTypes /\ SinkTypes /\ LineTypes
      /\ ba \in Seq(Message) /\ ab \in Seq(Message) /\ out_stream \in Nat /\ pending \in Seq(1 .. next)
  BY <1>0 DEF Types, SourceTypes, SinkTypes, LineTypes
<1>1. /\ ba # <<>> /\ ba' = Tail(ba)
      /\ UNCHANGED <<cf, next, node, out_stream, seqA, seqB, bframe, state, written, lastB, ab>>
  BY DEF Source_Unpack, sink
<1>2. pending' = pending \/ \E sid : command_cancelstream(sid)
  BY DEF Source_Unpack
<1>3. pending' \in Seq(1 .. next)
  <2>1. CASE pending' = pending
    BY <2>1, <1>t
  <2>2. ASSUME NEW sid, command_cancelstream(sid), Places(sid) # {} PROVE pending' \in Seq(1 .. next)
    <3>1. Places(sid) \subseteq 1 .. Len(pending)
      BY DEF Places
    <3>2. Len(pending) \in Nat
      BY <1>t
    <3>3. Places(sid) \subseteq Nat
      BY <3>1, <3>2
    <3>4. PICK i : i = First(Places(sid))
      OBVIOUS
    <3>5. i \in 1 .. Len(pending)
      BY <2>2, <3>1, <3>3, <3>4, FirstIs
    <3>6. pending' = SubSeq(pending, 1, i - 1) \o SubSeq(pending, i + 1, Len(pending))
      BY <2>2, <3>4 DEF command_cancelstream, unlink_node
    <3> QED
      BY <3>5, <3>6, <1>t, Removed
  <2>3. ASSUME NEW sid, command_cancelstream(sid), Places(sid) = {} PROVE pending' \in Seq(1 .. next)
    BY <2>3, <1>t DEF command_cancelstream
  <2> QED
    BY <2>1, <2>2, <2>3, <1>2
<1>4. ba' \in Seq(Message)
  BY <1>t, <1>1, TailOf
<1>5. Blobs' = Blobs /\ Channels' = Channels /\ Message' = Message
  BY <1>1 DEF Blobs, Channels, Blob, Message, Packet
<1>6. SourceTypes'
  BY <1>t, <1>1, <1>3, <1>5 DEF SourceTypes
<1>7. SinkTypes'
  BY <1>t, <1>1, <1>5 DEF SinkTypes
<1>8. LineTypes'
  BY <1>t, <1>1, <1>4, <1>5 DEF LineTypes
<1>9. Types'
  BY <1>6, <1>7, <1>8 DEF Types
<1>10. PICK q : q = <<>>
  OBVIOUS
<1>11. /\ q \in Seq(Message) /\ ab' = ab \o q /\ \A j \in 1 .. Len(q) : ~Carries(q[j])
       /\ out_stream' >= out_stream
  BY <1>t, <1>1, <1>10
<1> QED
  BY <1>1, <1>9, <1>11, Untouched

\* A frame: its header and its parts.
LEMMA FrameIs ==
  ASSUME out_stream \in Nat, cf.parts \in Nat \ {0}
  PROVE  /\ Frame \in Seq(Packet) /\ Len(Frame) = cf.parts + 1
         /\ Frame[1].t = "videoframe" /\ Frame[1].sid = out_stream
         /\ \A i \in 1 .. Len(Frame) : i # 1 => Frame[i].t = "video"
<1>1. PICK h, g, s : /\ h = Pkt("videoframe", 0, out_stream, 0, cf.parts) /\ s = <<h>>
                     /\ g = [i \in 1 .. cf.parts |-> Pkt("video", 0, out_stream, 0, 1)]
  OBVIOUS
<1>2. h \in Packet /\ h.t = "videoframe" /\ h.sid = out_stream
  BY <1>1 DEF Pkt, Packet
<1>3. PICK p : p = Pkt("video", 0, out_stream, 0, 1)
  OBVIOUS
<1>4. p \in Packet /\ p.t = "video"
  BY <1>3 DEF Pkt, Packet
<1>5. g \in Seq(Packet) /\ Len(g) = cf.parts /\ \A i \in 1 .. Len(g) : g[i] = p
  BY <1>1, <1>3, <1>4
<1>6. s \in Seq(Packet) /\ Len(s) = 1 /\ s[1] = h
  BY <1>1, <1>2
<1>7. /\ s \o g \in Seq(Packet) /\ Len(s \o g) = Len(s) + Len(g) /\ Len(s) \in Nat /\ Len(g) \in Nat
      /\ \A i \in 1 .. Len(s) : i \in 1 .. Len(s \o g) /\ (s \o g)[i] = s[i]
      /\ \A i \in 1 .. Len(g) : Len(s) + i \in 1 .. Len(s \o g) /\ (s \o g)[Len(s) + i] = g[i]
      /\ \A i \in 1 .. Len(s \o g) : i \in 1 .. Len(s) \/ \E j \in 1 .. Len(g) : i = Len(s) + j
  <2>1. s \in Seq(Packet) /\ g \in Seq(Packet)
    BY <1>5, <1>6
  <2> QED
    BY <2>1, Grown, SMTT(30), SMTT(31)
<1>8. Frame = s \o g
  BY <1>1 DEF Frame
<1>9. Len(Frame) = cf.parts + 1 /\ Frame[1] = h
  BY <1>5, <1>6, <1>7, <1>8, SMTT(30), SMTT(31)
<1>10. ASSUME NEW i \in 1 .. Len(Frame), i # 1 PROVE Frame[i].t = "video"
  <2>1. i \notin 1 .. Len(s)
    BY <1>6, <1>10
  <2>2. PICK j \in 1 .. Len(g) : i = Len(s) + j
    BY <2>1, <1>7, <1>8
  <2> QED
    BY <2>2, <1>4, <1>5, <1>7, <1>8
<1> QED
  BY <1>2, <1>7, <1>8, <1>9, <1>10

LEMMA Shown ==
  ASSUME TInv, Vframe
  PROVE  TInv'
<1>0. Types
  BY DEF TInv
<1>t. /\ SourceTypes /\ SinkTypes /\ LineTypes /\ cf \in Configs
      /\ ba \in Seq(Message) /\ ab \in Seq(Message) /\ out_stream \in Nat \ {0} /\ seqA \in Nat
  BY <1>0 DEF Types, SourceTypes, SinkTypes, LineTypes
<1>1. /\ ab' = ab \o Numbered(Frame) /\ seqA' = seqA + Len(Frame) /\ out_stream' = out_stream + 1
      /\ UNCHANGED <<cf, next, node, pending, seqB, bframe, state, written, lastB, ba>>
  BY DEF Vframe, ToSink, step_vstream, sink
<1>2. out_stream \in Nat /\ cf.parts \in Nat \ {0}
  BY <1>t, Workload
<1>3. /\ Frame \in Seq(Packet) /\ Len(Frame) = cf.parts + 1
      /\ Frame[1].t = "videoframe" /\ Frame[1].sid = out_stream
      /\ \A i \in 1 .. Len(Frame) : i # 1 => Frame[i].t = "video"
  BY <1>2, FrameIs
<1>4. PICK q : q = Numbered(Frame)
  OBVIOUS
<1>5. q \in Seq(Message) /\ Len(q) = Len(Frame) /\ \A i \in 1 .. Len(Frame) : q[i].p = Frame[i]
  BY <1>3, <1>4, <1>t, NumberedIs
<1>6. ASSUME NEW j \in 1 .. Len(q) PROVE ~Carries(q[j])
  <2>1. q[j].p.t = "videoframe" \/ q[j].p.t = "video"
    <3>1. j \in 1 .. Len(Frame) /\ q[j].p = Frame[j]
      BY <1>5
    <3>2. CASE j = 1
      BY <3>1, <3>2, <1>3
    <3>3. CASE j # 1
      BY <3>1, <3>3, <1>3
    <3> QED
      BY <3>2, <3>3
  <2> QED
    BY <2>1 DEF Carries
<1>7. ab' \in Seq(Message) /\ seqA' \in Nat /\ out_stream' \in Nat \ {0} /\ out_stream' >= out_stream
  <2>1. ab' = ab \o q
    BY <1>1, <1>4
  <2>2. ab' \in Seq(Message)
    BY <2>1, <1>t, <1>5, GrownTo DEF Joins
  <2>3. Len(Frame) \in Nat
    BY <1>2, <1>3, Zero
  <2> QED
    BY <2>2, <2>3, <1>t, <1>1, Adds
<1>8. Blobs' = Blobs /\ Channels' = Channels /\ Message' = Message
  BY <1>1 DEF Blobs, Channels, Blob, Message, Packet
<1>9. SourceTypes'
  BY <1>t, <1>1, <1>7, <1>8 DEF SourceTypes
<1>10. SinkTypes'
  BY <1>t, <1>1, <1>8 DEF SinkTypes
<1>11. LineTypes'
  BY <1>t, <1>1, <1>7, <1>8 DEF LineTypes
<1>12. Types'
  BY <1>9, <1>10, <1>11 DEF Types
<1> QED
  BY <1>1, <1>4, <1>5, <1>6, <1>7, <1>12, Untouched

LEMMA Stuttered ==
  ASSUME TInv, UNCHANGED vars
  PROVE  TInv'
<1>0. Types
  BY DEF TInv
<1>t. /\ SourceTypes /\ SinkTypes /\ LineTypes /\ ab \in Seq(Message) /\ out_stream \in Nat
  BY <1>0 DEF Types, SourceTypes, LineTypes
<1>1. UNCHANGED <<cf, next, node, pending, out_stream, seqA, seqB, bframe, state, written, lastB, ab, ba>>
  BY DEF vars, source, sink
<1>2. Blobs' = Blobs /\ Channels' = Channels /\ Message' = Message
  BY <1>1 DEF Blobs, Channels, Blob, Message, Packet
<1>3. SourceTypes'
  BY <1>t, <1>1, <1>2 DEF SourceTypes
<1>4. SinkTypes'
  BY <1>t, <1>1, <1>2 DEF SinkTypes
<1>5. LineTypes'
  BY <1>t, <1>1, <1>2 DEF LineTypes
<1>6. Types'
  BY <1>3, <1>4, <1>5 DEF Types
<1>7. PICK q : q = <<>>
  OBVIOUS
<1>8. /\ q \in Seq(Message) /\ ab' = ab \o q /\ \A j \in 1 .. Len(q) : ~Carries(q[j])
      /\ out_stream' >= out_stream
  BY <1>t, <1>1, <1>7
<1> QED
  BY <1>1, <1>6, <1>8, Untouched

\* The whole argument, for every step.
LEMMA NextTransfers ==
  ASSUME TInv, vframe \in Views, [Next]_vars
  PROVE  TInv' /\ vframe' \in Views
<1>1. CASE Sink_Unpack
  BY <1>1, Received
<1>2. CASE Enqueue \/ append_blob \/ Vframe \/ Source_Unpack \/ stream_cancel \/ Chat \/ UNCHANGED vars
  <2>1. TInv'
    BY <1>2, Enqueued, Sent, Shown, Answered, UserCancels, Chatted, Stuttered
  <2>2. vframe' = vframe
    <3>1. Enqueue \/ append_blob \/ Vframe => UNCHANGED sink
      BY DEF Enqueue, append_blob, queue_node_Data, queue_node_Empty, queue_node_Broken, Vframe
    <3>2. Source_Unpack \/ UNCHANGED vars => UNCHANGED sink
      BY DEF Source_Unpack, vars
    <3>3. stream_cancel \/ Chat => vframe' = vframe
      BY DEF stream_cancel, Chat
    <3>4. UNCHANGED sink => vframe' = vframe
      BY DEF sink
    <3> QED
      BY <1>2, <3>1, <3>2, <3>3, <3>4
  <2> QED
    BY <2>1, <2>2
<1> QED
  BY <1>1, <1>2 DEF Next

LEMMA TransfersAlways == Spec => [](TInv /\ vframe \in Views)
<1>1. Init => TInv /\ vframe \in Views
  <2>1. Init => vframe \in Views
    BY SMTT(30), SMTT(31) DEF Init, Views
  <2> QED
    BY <2>1, InitTransfers
<1>2. TInv /\ vframe \in Views /\ [Next]_vars => (TInv /\ vframe \in Views)'
  BY NextTransfers
<1> QED
  BY <1>1, <1>2, PTL DEF Spec

\* Whatever is cancelled, refused or broken, and however the packets of
\* transfers on the same channel follow each other: process_blob writes a
\* transfer's own blocks to its descriptor, from the first, without gaps, the
\* handler hears of COMPLETED when it has all of them, and a channel is busy as
\* long as its handler has a transfer it does not know the end of.  For every
\* number of transfers and blocks.
THEOREM IntactAlways == Spec => []Intact
<1>1. TInv => Intact
  <2> SUFFICES ASSUME TInv, NEW b \in Blobs
               PROVE  /\ \A i \in 1 .. Len(written[b]) : written[b][i] = <<b, i>>
                      /\ state[b] = "completed" => Len(written[b]) = Blob(b).size
                      /\ state[b] = "init" <=> (bframe[Blob(b).ch].active /\ bframe[Blob(b).ch].blob = b)
    BY DEF Intact
  <2>1. Held(b)
    BY DEF TInv
  <2> QED
    BY <2>1 DEF Held
<1> QED
  BY <1>1, TransfersAlways, PTL

\* Who is told what in a step.
LEMMA Telling ==
  ASSUME TInv, Next, NEW b \in Blobs, state'[b] # state[b]
  PROVE  state[b] = "none" \/ state[b] = "init"
<1>s. state \in [Blobs -> States]
  BY DEF TInv, Types, SinkTypes, States
<1>1. CASE Sink_Unpack
  <2>1. ab # <<>> /\ Head(ab) = ab[1]
    BY <1>1, HeadOf DEF Sink_Unpack
  <2>2. PICK m : m = Head(ab)
    OBVIOUS
  <2>3. CASE m.p.t = "binarystream" /\ (command_binarystream_Accept(m) \/ command_binarystream_Refuse(m))
    <3>1. m.p.val \in Blobs /\ state[m.p.val] = "none"
      BY <2>1, <2>2, <2>3, HeaderIs
    <3>2. PICK told : state' = [state EXCEPT ![m.p.val] = told]
      BY <2>3 DEF command_binarystream_Accept, command_binarystream_Refuse, Tell
    <3> QED
      BY <3>1, <3>2, <1>s
  <2>4. CASE m.p.t = "binarystream" /\ command_binarystream_Exist(m)
    <3>1. m.p.ch \in Channels
      BY <2>1, <2>2, <2>4, HeaderIs
    <3>2. PICK ch \in Channels : ch = m.p.ch
      BY <3>1
    <3>3. /\ bframe[ch].active /\ state' = [state EXCEPT ![bframe[ch].blob] = "cancelled"]
      BY <2>4, <3>2 DEF command_binarystream_Exist, Tell
    <3>4. bframe[ch].blob \in Blobs /\ Blob(bframe[ch].blob).ch = ch /\ Held(bframe[ch].blob)
      BY <3>3 DEF TInv, Busy
    <3>5. state[bframe[ch].blob] = "init"
      BY <3>3, <3>4 DEF Held
    <3> QED
      BY <3>3, <3>4, <3>5, <1>s
  <2>5. CASE m.p.t = "blob" /\ (process_blob_Write(m) \/ process_blob_Full(m))
    <3>1. ~Foreign(m)
      BY <2>5 DEF process_blob_Write, process_blob_Full
    <3>2. PICK w : w = m.p.val
      OBVIOUS
    <3>3. w \in Blobs /\ bframe[m.p.ch].blob = w /\ state[w] = "init"
      BY <2>1, <2>2, <2>5, <3>1, <3>2, BlockIs
    <3>4. state' = state \/ \E told : state' = [state EXCEPT ![w] = told]
      BY <2>5, <3>3 DEF process_blob_Write, process_blob_Full, Tell
    <3>5. PICK told : state' = [state EXCEPT ![w] = told]
      BY <3>4
    <3> QED
      BY <3>3, <3>5, <1>s
  <2>6. CASE process_blob_Discard(m) \/ command_videoframe(m) \/ process_video(m)
    <3>1. state' = state
      BY <2>6 DEF process_blob_Discard, command_videoframe, process_video
    <3> QED
      BY <3>1
  <2> QED
    BY <1>1, <2>2, <2>3, <2>4, <2>5, <2>6, ZenonT(30) DEF Sink_Unpack
<1>2. CASE stream_cancel
  <2>1. PICK ch \in Channels : /\ bframe[ch].active /\ state' = [state EXCEPT ![bframe[ch].blob] = "cancelled"]
    BY <1>2 DEF stream_cancel, Tell
  <2>2. bframe[ch].blob \in Blobs /\ Blob(bframe[ch].blob).ch = ch /\ Held(bframe[ch].blob)
    BY <2>1 DEF TInv, Busy
  <2>3. state[bframe[ch].blob] = "init"
    BY <2>1, <2>2 DEF Held
  <2> QED
    BY <2>1, <2>2, <2>3, <1>s
<1>3. CASE Enqueue \/ append_blob \/ Vframe \/ Source_Unpack \/ Chat
  <2>1. Enqueue \/ append_blob \/ Vframe \/ Source_Unpack => UNCHANGED sink
    BY DEF Enqueue, append_blob, queue_node_Data, queue_node_Empty, queue_node_Broken, Vframe, Source_Unpack
  <2>2. Chat => state' = state
    BY DEF Chat
  <2>3. UNCHANGED sink => state' = state
    BY DEF sink
  <2> QED
    BY <1>3, <2>1, <2>2, <2>3
<1> QED
  BY <1>1, <1>2, <1>3 DEF Next

\* The binary handler is told the end of a transfer once: no step of either
\* side, no late packet and no late cancel changes COMPLETED or CANCELLED
\* (a12_stream_cancel, process_blob, command_binarystream).
THEOREM ToldOnceAlways == Spec => ToldOnce
<1>1. TInv /\ [Next]_vars =>
        [\A b \in Blobs : state[b] \in {"completed", "cancelled"} => state'[b] = state[b]]_vars
  <2> SUFFICES ASSUME TInv, Next, NEW b \in Blobs, state[b] \in {"completed", "cancelled"}
               PROVE  state'[b] = state[b]
    OBVIOUS
  <2> QED
    BY Telling
<1> QED
  BY <1>1, TransfersAlways, PTL DEF Spec, ToldOnce

-----------------------------------------------------------------------------
(* the window of frames *)

\* The window holds n frames, the oldest first.
Filled(n) ==
  /\ \A i \in Slots : window[i] # 0 <=> i <= n
  /\ npend = (IF n = WND THEN WND - 1 ELSE n)

Rising == \A j \in Slots : window[j] # 0 =>
            window[j] < out_stream /\ \A i \in Slots : i < j => window[i] < window[j]

Window ==
  /\ window \in [Slots -> Nat] /\ shown \in Nat /\ shown <= cf.frames
  /\ \E n \in 0 .. WND : Filled(n) /\ n <= shown
  /\ Rising

\* The source stays within the window: a frame on its way is newer than the
\* one the sink is at, and still in the window; the acknowledgements on their
\* way are not newer than that one.
Fits == NoAlias /\ cf.frames < WND

InWindow(sid) == \E i \in Slots : window[i] = sid

Newer ==
  /\ vframe.id < out_stream
  /\ \A k \in 1 .. Len(ab) : ab[k].p.t = "videoframe" => vframe.id < ab[k].p.sid /\ InWindow(ab[k].p.sid)
  /\ \A j, k \in 1 .. Len(ab) :
       ab[j].p.t = "videoframe" /\ ab[k].p.t = "videoframe" /\ j < k => ab[j].p.sid < ab[k].p.sid
  /\ \A k \in 1 .. Len(ba) : ba[k].p.t = "ping" => ba[k].p.sid <= vframe.id

WInv == Window /\ (Fits => Newer)

LEMMA WindowIs ==
  ASSUME Window
  PROVE  /\ WND \in Nat /\ WND > 2 /\ window \in [Slots -> Nat] /\ \A i \in Slots : window[i] \in Nat
         /\ shown \in Nat /\ Rising
BY StreamsAssumption DEF StreamsAssumption, Window

\* Frames are not touched, stream ids go up.
LEMMA WindowKept ==
  ASSUME Window, out_stream \in Nat, out_stream' \in Nat, out_stream' >= out_stream, UNCHANGED <<cf, pacing>>
  PROVE  Window'
<1>1. window' = window /\ npend' = npend /\ shown' = shown /\ cf' = cf
  BY DEF pacing
<1>2. Slots' = Slots /\ \A n : Filled(n)' <=> Filled(n)
  BY <1>1 DEF Slots, Filled
<1>3. Rising'
  <2>1. /\ WND \in Nat /\ WND > 2 /\ window \in [Slots -> Nat] /\ \A i \in Slots : window[i] \in Nat
        /\ shown \in Nat /\ Rising
    BY WindowIs
  <2>2. ASSUME NEW j \in Slots, window[j] # 0
        PROVE  window[j] < out_stream' /\ \A i \in Slots : i < j => window[i] < window[j]
    <3>1. window[j] < out_stream /\ \A i \in Slots : i < j => window[i] < window[j]
      BY <2>1, <2>2 DEF Rising
    <3>2. window[j] < out_stream'
      BY <3>1, <2>1
    <3> QED
      BY <3>1, <3>2
  <2> QED
    BY <2>2, <1>1, <1>2 DEF Rising
<1> QED
  BY <1>1, <1>2, <1>3 DEF Window

LEMMA ShrunkAt ==
  ASSUME NEW S, NEW s \in Seq(S), NEW u, u = s \/ (s # <<>> /\ u = Tail(s))
  PROVE  \E d \in {0, 1} :
           /\ d = 0 <=> ~(s # <<>> /\ u = Tail(s))
           /\ \A k \in 1 .. Len(u) : k \in Nat /\ k + d \in 1 .. Len(s) /\ u[k] = s[k + d]
<1>0. Len(s) \in Nat
  OBVIOUS
<1>1. CASE s # <<>> /\ u = Tail(s)
  <2>1. /\ Tail(s) \in Seq(S) /\ Len(Tail(s)) = Len(s) - 1 /\ Len(s) \in Nat \ {0}
        /\ Head(s) = s[1] /\ 1 \in 1 .. Len(s) /\ s[1] \in S
        /\ \A k \in 1 .. Len(Tail(s)) : k + 1 \in 1 .. Len(s) /\ Tail(s)[k] = s[k + 1]
        /\ \A k \in 1 .. Len(s) : k = 1 \/ \E j \in 1 .. Len(Tail(s)) : k = j + 1
    BY <1>1, Shrunk
  <2>2. ASSUME NEW k \in 1 .. Len(u) PROVE k \in Nat /\ k + 1 \in 1 .. Len(s) /\ u[k] = s[k + 1]
    <3>1. k \in 1 .. Len(Tail(s))
      BY <1>1
    <3>2. Len(Tail(s)) \in Int
      BY <2>1, SMTT(30), SMTT(31)
    <3>3. k \in Nat
      BY <3>1, <3>2
    <3> QED
      BY <1>1, <2>1, <3>1, <3>3
  <2>3. 1 \in {0, 1} /\ 1 # 0
    OBVIOUS
  <2> QED
    BY <1>1, <2>2, <2>3
<1>2. CASE ~(s # <<>> /\ u = Tail(s))
  <2>1. ASSUME NEW k \in 1 .. Len(s) PROVE k \in Nat /\ k + 0 \in 1 .. Len(s) /\ s[k] = s[k + 0]
    <3>1. k \in Nat /\ k + 0 = k
      BY <1>0
    <3> QED
      BY <3>1
  <2>2. 0 \in {0, 1}
    OBVIOUS
  <2> QED
    BY <1>2, <2>1, <2>2
<1> QED
  BY <1>1, <1>2

\* Packets that are no frames are sent.
LEMMA OtherSent ==
  ASSUME TInv, WInv, out_stream' \in Nat, out_stream' >= out_stream, UNCHANGED <<cf, pacing, vframe, ba>>,
         vframe \in Views,
         NEW q \in Seq(Message), ab' = ab \o q, \A j \in 1 .. Len(q) : q[j].p.t # "videoframe"
  PROVE  WInv'
<1>t. out_stream \in Nat /\ ab \in Seq(Message) /\ vframe.id \in Nat
  BY TypesSay DEF TInv, Views
<1>1. Window'
  BY <1>t, WindowKept DEF WInv
<1>2. UNCHANGED <<cf, window, vframe, ba>>
  BY DEF pacing
<1>3. Fits' <=> Fits
  BY <1>2 DEF Fits, NoAlias, Blobs, Blob
<1>4. ASSUME Fits PROVE Newer'
  <2>0. Newer
    BY <1>4 DEF WInv
  <2>1. \A k \in 1 .. Len(ab') : (k \in 1 .. Len(ab) /\ ab'[k] = ab[k]) \/ \E j \in 1 .. Len(q) : ab'[k] = q[j]
    <3>1. ab \in Seq(Message) /\ q \in Seq(Message) /\ ab' = ab \o q
      BY <1>t
    <3>2. Joins(ab', ab, q)
      BY <3>1, GrownTo
    <3> QED
      BY <3>2, ZenonT(30) DEF Joins
  <2>2. ASSUME NEW k \in 1 .. Len(ab'), ab'[k].p.t = "videoframe"
        PROVE  k \in 1 .. Len(ab) /\ ab'[k] = ab[k]
    BY <2>1, <2>2
  <2>3. vframe'.id < out_stream'
    BY <2>0, <1>2, <1>t DEF Newer
  <2>4. \A sid : InWindow(sid)' <=> InWindow(sid)
    BY <1>2 DEF InWindow, Slots
  <2>5. ASSUME NEW k \in 1 .. Len(ab'), ab'[k].p.t = "videoframe"
        PROVE  vframe'.id < ab'[k].p.sid /\ InWindow(ab[k].p.sid)'
    <3>1. k \in 1 .. Len(ab) /\ ab'[k] = ab[k]
      BY <2>2, <2>5
    <3>2. vframe.id < ab[k].p.sid /\ InWindow(ab[k].p.sid)
      BY <2>0, <2>5, <3>1 DEF Newer
    <3> QED
      BY <3>1, <3>2, <1>2 DEF InWindow, Slots
  <2>6. ASSUME NEW j \in 1 .. Len(ab'), NEW k \in 1 .. Len(ab'),
               ab'[j].p.t = "videoframe", ab'[k].p.t = "videoframe", j < k
        PROVE  ab'[j].p.sid < ab'[k].p.sid
    <3>1. j \in 1 .. Len(ab) /\ ab'[j] = ab[j] /\ k \in 1 .. Len(ab) /\ ab'[k] = ab[k]
      BY <2>2, <2>6
    <3> QED
      BY <2>0, <2>6, <3>1 DEF Newer
  <2>7. \A k \in 1 .. Len(ba') : ba'[k].p.t = "ping" => ba'[k].p.sid <= vframe'.id
    BY <2>0, <1>2 DEF Newer
  <2> QED
    BY <2>3, <2>5, <2>6, <2>7 DEF Newer
<1> QED
  BY <1>1, <1>3, <1>4 DEF WInv

\* The sink takes a packet, or none, and answers; the frame it is at stays or
\* is the one that arrives.
LEMMA SinkSteps ==
  ASSUME TInv, WInv, vframe \in Views, vframe' \in Views, UNCHANGED <<cf, pacing, out_stream>>,
         ab' = ab \/ (ab # <<>> /\ ab' = Tail(ab)),
         NEW ps \in Seq(Packet), ToSource(ps),
         \/ vframe'.id = vframe.id
         \/ ab # <<>> /\ ab' = Tail(ab) /\ ab[1].p.t = "videoframe" /\ vframe'.id = ab[1].p.sid,
         Fits => \A i \in 1 .. Len(ps) : ps[i].t = "ping" => ps[i].sid <= vframe.id
  PROVE  WInv'
<1>t. /\ out_stream \in Nat /\ ab \in Seq(Message) /\ ba \in Seq(Message) /\ seqB \in Nat /\ vframe.id \in Nat
      /\ vframe'.id \in Nat
  BY TypesSay DEF TInv, Views, Types, LineTypes
<1>1. Window'
  <2>1. out_stream' \in Nat /\ out_stream' >= out_stream
    BY <1>t
  <2> QED
    BY <1>t, <2>1, WindowKept DEF WInv
<1>2. UNCHANGED <<cf, window, out_stream>>
  BY DEF pacing
<1>3. Fits' <=> Fits
  BY <1>2 DEF Fits, NoAlias, Blobs, Blob
<1>4. ASSUME Fits PROVE Newer'
  <2>0. Newer
    BY <1>4 DEF WInv
  <2>1. PICK d \in {0, 1} : /\ d = 0 <=> ~(ab # <<>> /\ ab' = Tail(ab))
                            /\ \A k \in 1 .. Len(ab') : k \in Nat /\ k + d \in 1 .. Len(ab) /\ ab'[k] = ab[k + d]
    BY <1>t, ShrunkAt
  <2>2. ASSUME NEW k \in 1 .. Len(ab'), ab'[k].p.t = "videoframe"
        PROVE  vframe.id < ab'[k].p.sid /\ vframe'.id < ab'[k].p.sid /\ InWindow(ab[k].p.sid)'
    <3>1. PICK l \in 1 .. Len(ab) : l = k + d /\ ab'[k] = ab[l]
      BY <2>1
    <3>2. vframe.id < ab[l].p.sid /\ InWindow(ab[l].p.sid)
      BY <2>0, <2>2, <3>1 DEF Newer
    <3>3. CASE vframe'.id = vframe.id
      BY <3>1, <3>2, <3>3, <1>2 DEF InWindow, Slots
    <3>4. CASE vframe'.id # vframe.id
      <4>1. ab # <<>> /\ ab[1].p.t = "videoframe" /\ vframe'.id = ab[1].p.sid /\ d # 0
        BY <3>4, <2>1
      <4>2. 1 \in 1 .. Len(ab) /\ 1 < l
        <5>1. k \in Nat /\ k # 0 /\ d = 1 /\ Len(ab) \in Nat
          BY <4>1, <2>1, <1>t, SMTT(30), SMTT(31)
        <5> QED
          BY <5>1, <3>1, After
      <4>3. ab[1].p.sid < ab[l].p.sid
        BY <4>1, <4>2, <2>0, <2>2, <3>1 DEF Newer
      <4> QED
        BY <4>1, <4>3, <3>1, <3>2, <1>2 DEF InWindow, Slots
    <3> QED
      BY <3>3, <3>4
  <2>3. vframe'.id < out_stream'
    <3>1. CASE vframe'.id = vframe.id
      BY <3>1, <2>0, <1>2 DEF Newer
    <3>2. CASE ab # <<>> /\ ab[1].p.t = "videoframe" /\ vframe'.id = ab[1].p.sid
      <4>1. 1 \in 1 .. Len(ab)
        BY <3>2, <1>t
      <4>2. vframe.id < ab[1].p.sid /\ InWindow(ab[1].p.sid)
        BY <4>1, <3>2, <2>0 DEF Newer
      <4>3. PICK i \in Slots : window[i] = ab[1].p.sid
        BY <4>2 DEF InWindow
      <4>4. window[i] # 0
        BY <4>2, <4>3, <3>2, <1>t
      <4>5. window[i] < out_stream
        BY <4>4 DEF WInv, Window, Rising
      <4> QED
        BY <4>3, <4>5, <3>2, <1>2
    <3> QED
      BY <3>1, <3>2
  <2>4. ASSUME NEW j \in 1 .. Len(ab'), NEW k \in 1 .. Len(ab'),
               ab'[j].p.t = "videoframe", ab'[k].p.t = "videoframe", j < k
        PROVE  ab'[j].p.sid < ab'[k].p.sid
    <3>1. PICK i \in 1 .. Len(ab) : i = j + d /\ ab'[j] = ab[i]
      BY <2>1
    <3>2. PICK l \in 1 .. Len(ab) : l = k + d /\ ab'[k] = ab[l]
      BY <2>1
    <3>0. j \in Nat /\ k \in Nat /\ d \in Nat
      BY <2>1, Zero
    <3>3. i < l
      BY <2>4, <3>0, <3>1, <3>2, Shifted
    <3> QED
      BY <2>0, <2>4, <3>1, <3>2, <3>3 DEF Newer
  <2>5. vframe.id <= vframe'.id
    <3>1. CASE vframe'.id = vframe.id
      BY <3>1, <1>t, Zero
    <3>2. CASE ab # <<>> /\ ab[1].p.t = "videoframe" /\ vframe'.id = ab[1].p.sid
      <4>1. 1 \in 1 .. Len(ab)
        BY <3>2, <1>t
      <4>2. vframe.id < ab[1].p.sid
        BY <4>1, <3>2, <2>0 DEF Newer
      <4> QED
        BY <4>2, <3>2, <1>t
    <3> QED
      BY <3>1, <3>2
  <2>6. ASSUME NEW k \in 1 .. Len(ba'), ba'[k].p.t = "ping" PROVE ba'[k].p.sid <= vframe'.id
    <3>1. /\ ba' \in Seq(Message)
          /\ \/ k \in 1 .. Len(ba) /\ ba'[k] = ba[k]
             \/ \E i \in 1 .. Len(ps) : ba'[k].p = ps[i]
      BY <1>t, AnsweredIs
    <3>2. ba'[k].p.sid <= vframe.id
      BY <2>0, <2>6, <3>1, <1>4 DEF Newer
    <3>3. ba'[k].p.sid \in Nat
      <4>1. ba'[k] \in Message
        BY <3>1, ElementOf
      <4> QED
        BY <4>1 DEF Message, Packet
    <3> QED
      BY <3>2, <3>3, <2>5, <1>t
  <2> QED
    BY <2>2, <2>3, <2>4, <2>6 DEF Newer
<1> QED
  BY <1>1, <1>3, <1>4 DEF WInv

\* A frame is sent: the next free slot, or the last one, is its own.
LEMMA Stepped ==
  ASSUME Window, out_stream \in Nat \ {0}, cf.frames \in Nat, shown < cf.frames, shown' = shown + 1, UNCHANGED cf, step_vstream
  PROVE  /\ Window'
         /\ \E s \in Slots : /\ window'[s] = out_stream
                             /\ \A i \in Slots : i # s => window'[i] = window[i]
                             /\ shown < WND => window[s] = 0
<1>0. /\ WND \in Nat /\ WND > 2 /\ window \in [Slots -> Nat] /\ \A i \in Slots : window[i] \in Nat
      /\ shown \in Nat /\ Rising
  BY WindowIs
<1>1. PICK n \in 0 .. WND : Filled(n) /\ n <= shown
  BY DEF Window
<1>2. /\ \A i \in Slots : window[i] # 0 <=> i <= n
      /\ npend = (IF n = WND THEN WND - 1 ELSE n)
  BY <1>1 DEF Filled
<1>3. PICK s, k : s = npend + 1 /\ k = (IF n = WND THEN WND ELSE n + 1)
  OBVIOUS
<1>4. /\ s = k /\ s \in Slots /\ k \in 0 .. WND /\ n \in Nat /\ s \in Nat
      /\ npend \in Nat /\ (npend < WND - 1 <=> k # WND)
  BY <1>0, <1>2, <1>3 DEF Slots
<1>5. window' = [window EXCEPT ![s] = out_stream] /\ out_stream' = out_stream + 1
      /\ npend' = (IF npend < WND - 1 THEN npend + 1 ELSE npend)
  BY <1>3 DEF step_vstream
<1>6. /\ window' \in [Slots -> Nat] /\ window'[s] = out_stream
      /\ \A i \in Slots : i # s => window'[i] = window[i]
  BY <1>0, <1>4, <1>5
<1>7. npend' = (IF k = WND THEN WND - 1 ELSE k)
  <2>1. CASE k = WND
    <3>1. npend = WND - 1
      BY <2>1, <1>0, <1>3, <1>4
    <3> QED
      BY <2>1, <3>1, <1>4, <1>5
  <2>2. CASE k # WND
    BY <2>2, <1>3, <1>4, <1>5
  <2> QED
    BY <2>1, <2>2
<1>8. ASSUME NEW i \in Slots PROVE window'[i] # 0 <=> i <= k
  <2>0. i \in Nat
    BY <1>0, SMTT(30), SMTT(31) DEF Slots
  <2>1. CASE i = s
    BY <2>0, <2>1, <1>4, <1>6
  <2>2. CASE i # s
    <3>1. window'[i] # 0 <=> i <= n
      BY <2>2, <1>2, <1>6
    <3>2. i <= WND
      BY <1>0 DEF Slots
    <3>3. i <= n <=> i <= k
      BY <2>0, <2>2, <3>2, <1>0, <1>3, <1>4
    <3> QED
      BY <3>1, <3>3
  <2> QED
    BY <2>1, <2>2
<1>9. Slots' = Slots
  BY DEF Slots
<1>10. Filled(k)' /\ k <= shown' /\ shown' \in Nat /\ shown' <= cf.frames
  <2>1. Filled(k)'
    BY <1>7, <1>8, <1>9 DEF Filled
  <2> QED
    BY <2>1, <1>0, <1>1, <1>3, <1>4
<1>11. Rising'
  <2> SUFFICES ASSUME NEW j \in Slots, window'[j] # 0
               PROVE  window'[j] < out_stream' /\ \A i \in Slots : i < j => window'[i] < window'[j]
    BY <1>9 DEF Rising
  <2>0. \A i \in Slots : window[i] < out_stream
    <3> SUFFICES ASSUME NEW i \in Slots PROVE window[i] < out_stream
      OBVIOUS
    <3>1. CASE window[i] = 0
      BY <3>1
    <3>2. CASE window[i] # 0
      BY <3>2, <1>0 DEF Rising
    <3> QED
      BY <3>1, <3>2
  <2>1. CASE j = s
    <3>1. window'[j] = out_stream /\ window'[j] < out_stream'
      BY <2>1, <1>5, <1>6, SMTT(30), SMTT(31)
    <3>2. ASSUME NEW i \in Slots, i < j PROVE window'[i] < window'[j]
      <4>1. i # s
        BY <2>1, <3>2, <1>4
      <4> QED
        BY <4>1, <3>1, <2>0, <1>6
    <3> QED
      BY <3>1, <3>2
  <2>2. CASE j # s
    <3>1. window'[j] = window[j] /\ window[j] # 0 /\ window[j] \in Nat
      BY <2>2, <1>0, <1>6
    <3>2. window'[j] < out_stream'
      BY <3>1, <2>0, <1>5
    <3>3. ASSUME NEW i \in Slots, i < j PROVE window'[i] < window'[j]
      <4>1. j <= n
        BY <3>1, <1>2
      <4>2. i # s
        <5>1. j \in Nat /\ j <= WND
          BY <1>0 DEF Slots
        <5> QED
          BY <5>1, <4>1, <3>3, <1>0, <1>3, <1>4
      <4>3. window[i] < window[j]
        BY <3>1, <3>3, <1>0 DEF Rising
      <4> QED
        BY <4>2, <4>3, <3>1, <1>6
    <3> QED
      BY <3>2, <3>3
  <2> QED
    BY <2>1, <2>2
<1>12. Window'
  <2>1. cf' = cf
    OBVIOUS
  <2> QED
    BY <2>1, <1>4, <1>6, <1>9, <1>10, <1>11 DEF Window
<1>13. shown < WND => window[s] = 0
  <2> SUFFICES ASSUME shown < WND PROVE ~(s <= n)
    BY <1>2, <1>4
  <2> QED
    BY <1>0, <1>1, <1>3, <1>4
<1> QED
  BY <1>4, <1>6, <1>12, <1>13

\* The slots up to i go.
LEMMA Slid ==
  ASSUME Window, NEW n \in 0 .. WND, Filled(n), n <= shown, NEW i \in 1 .. WND - 1, i <= n, NEW sid, Slide(i, sid),
         UNCHANGED <<cf, out_stream, shown>>
  PROVE  /\ Window'
         /\ \A j \in Slots : window[j] # 0 /\ i < j => \E l \in Slots : window'[l] = window[j]
<1>0. /\ WND \in Nat /\ WND > 2 /\ window \in [Slots -> Nat] /\ \A k \in Slots : window[k] \in Nat
      /\ shown \in Nat /\ Rising
  BY WindowIs
<1>1. /\ \A k \in Slots : window[k] # 0 <=> k <= n
      /\ npend = (IF n = WND THEN WND - 1 ELSE n)
  BY DEF Filled
<1>n. i \in Nat /\ i # 0 /\ i < WND /\ n \in Nat /\ n <= WND
  BY <1>0
<1>2. PICK f, S, p : /\ p = i + 1 /\ S = {j \in p .. WND + 1 : j = WND + 1 \/ window[j] = 0} /\ f = First(S)
  OBVIOUS
<1>3. f = n + 1
  <2>1. n + 1 \in S
    <3>1. n + 1 \in p .. WND + 1
      BY <1>n, <1>2, <1>0
    <3>2. n + 1 = WND + 1 \/ (n + 1 \in Slots /\ ~(n + 1 <= n))
      BY <1>n, <1>0 DEF Slots
    <3>3. n + 1 = WND + 1 \/ window[n + 1] = 0
      BY <3>2, <1>1
    <3> QED
      BY <3>1, <3>3, <1>2
  <2>2. S \subseteq Nat
    BY <1>2, <1>n, <1>0
  <2>3. S # {}
    BY <2>1
  <2>4. f \in S /\ \A j \in S : f <= j
    BY <2>2, <2>3, <1>2, FirstIs
  <2>5. f <= n + 1 /\ f \in p .. WND + 1 /\ (f = WND + 1 \/ window[f] = 0)
    BY <2>1, <2>4, <1>2
  <2>6. f \in Nat /\ (f = WND + 1 \/ f \in Slots)
    BY <2>5, <1>2, <1>n, <1>0, SMTT(30), SMTT(31) DEF Slots
  <2>7. ~(f <= n)
    <3>1. CASE f = WND + 1
      BY <3>1, <1>n, <1>0
    <3>2. CASE f \in Slots /\ f # WND + 1
      BY <3>2, <2>5, <1>1
    <3> QED
      BY <3>1, <3>2, <2>6
  <2> QED
    BY <2>5, <2>6, <2>7, <1>n
<1>4. PICK k : k = n - i
  OBVIOUS
<1>5. to_move(i + 1) = k
  <2>1. to_move(i + 1) = f - p
    BY <1>2 DEF to_move
  <2> QED
    BY <2>1, <1>2, <1>3, <1>4, <1>n
<1>6. /\ window' = [j \in Slots |-> IF j <= k THEN window[(i + 1) + j - 1] ELSE 0]
      /\ npend' = k
  BY <1>5 DEF Slide, Moved
<1>7. k \in 0 .. WND - 1 /\ k \in Nat /\ k <= n /\ n = k + i
  BY <1>4, <1>n, <1>0
<1>8. ASSUME NEW j \in Slots, j <= k
      PROVE  i + j \in Slots /\ window'[j] = window[i + j] /\ i + j <= n
  <2>1. i + j \in Slots /\ (i + 1) + j - 1 = i + j /\ i + j <= n
    BY <1>8, <1>7, <1>n, <1>0 DEF Slots
  <2>2. window'[j] = window[(i + 1) + j - 1]
    BY <1>6, <1>8
  <2> QED
    BY <2>1, <2>2
<1>9. ASSUME NEW j \in Slots, ~(j <= k) PROVE window'[j] = 0
  BY <1>6, <1>9
<1>10. ASSUME NEW j \in Slots PROVE (window'[j] # 0 <=> j <= k) /\ window'[j] \in Nat
  <2>1. CASE j <= k
    BY <2>1, <1>8, <1>0, <1>1
  <2>2. CASE ~(j <= k)
    BY <2>2, <1>9
  <2> QED
    BY <2>1, <2>2
<1>11. window' \in [Slots -> Nat]
  <2>1. PICK w : w = [j \in Slots |-> IF j <= k THEN window[(i + 1) + j - 1] ELSE 0]
    OBVIOUS
  <2>2. \A j \in Slots : w[j] \in Nat
    BY <2>1, <1>6, <1>10
  <2>3. w \in [Slots -> Nat]
    BY <2>1, <2>2
  <2> QED
    BY <2>1, <2>3, <1>6
<1>12. Slots' = Slots
  BY DEF Slots
<1>13. Filled(k)'
  <2>1. npend' = (IF k = WND THEN WND - 1 ELSE k)
    BY <1>6, <1>7, <1>0
  <2> QED
    BY <2>1, <1>10, <1>12 DEF Filled
<1>14. Rising'
  <2> SUFFICES ASSUME NEW j \in Slots, window'[j] # 0
               PROVE  window'[j] < out_stream' /\ \A l \in Slots : l < j => window'[l] < window'[j]
    BY <1>12 DEF Rising
  <2>1. j <= k
    BY <1>10
  <2>2. i + j \in Slots /\ window'[j] = window[i + j] /\ window[i + j] # 0
    BY <2>1, <1>8
  <2>3. window[i + j] < out_stream /\ \A l \in Slots : l < i + j => window[l] < window[i + j]
    BY <2>2, <1>0 DEF Rising
  <2>4. ASSUME NEW l \in Slots, l < j PROVE window'[l] < window'[j]
    <3>1. l <= k /\ i + l < i + j
      BY <2>1, <2>4, <1>7, <1>n, <1>0 DEF Slots
    <3>2. i + l \in Slots /\ window'[l] = window[i + l]
      BY <3>1, <1>8
    <3> QED
      BY <3>1, <3>2, <2>2, <2>3
  <2> QED
    BY <2>2, <2>3, <2>4
<1>15. Window'
  <2>1. k \in 0 .. WND /\ k <= shown
    BY <1>7, <1>n, <1>0
  <2>2. shown' = shown /\ cf' = cf
    OBVIOUS
  <2> QED
    BY <2>1, <2>2, <1>11, <1>12, <1>13, <1>14 DEF Window
<1>16. ASSUME NEW j \in Slots, window[j] # 0, i < j PROVE \E l \in Slots : window'[l] = window[j]
  <2>1. j <= n
    BY <1>16, <1>1
  <2>2. PICK l : l = j - i
    OBVIOUS
  <2>3. l \in Slots /\ l <= k /\ i + l = j
    BY <2>1, <2>2, <1>16, <1>7, <1>n, <1>0 DEF Slots
  <2> QED
    BY <2>3, <1>8
<1> QED
  BY <1>15, <1>16

LEMMA FrameSent ==
  ASSUME TInv, WInv, vframe \in Views, Vframe
  PROVE  WInv'
<1>t. /\ cf \in Configs /\ out_stream \in Nat \ {0} /\ ab \in Seq(Message) /\ seqA \in Nat
      /\ vframe.id \in Nat
  BY TypesSay DEF TInv, Views
<1>w. cf.frames \in Nat /\ cf.parts \in Nat \ {0} /\ out_stream \in Nat
  BY <1>t, Workload
<1>1. /\ ab' = ab \o Numbered(Frame) /\ step_vstream /\ shown < cf.frames /\ shown' = shown + 1
      /\ out_stream' = out_stream + 1 /\ UNCHANGED <<cf, ba, vframe>>
  BY DEF Vframe, ToSink, step_vstream, sink
<1>2. /\ Window'
      /\ \E s \in Slots : /\ window'[s] = out_stream
                          /\ \A i \in Slots : i # s => window'[i] = window[i]
                          /\ shown < WND => window[s] = 0
  BY <1>t, <1>w, <1>1, Stepped DEF WInv
<1>3. PICK s \in Slots : /\ window'[s] = out_stream
                         /\ \A i \in Slots : i # s => window'[i] = window[i]
                         /\ shown < WND => window[s] = 0
  BY <1>2
<1>4. /\ Frame \in Seq(Packet) /\ Len(Frame) = cf.parts + 1
      /\ Frame[1].t = "videoframe" /\ Frame[1].sid = out_stream
      /\ \A i \in 1 .. Len(Frame) : i # 1 => Frame[i].t = "video"
  BY <1>w, FrameIs
<1>5. PICK q : q = Numbered(Frame)
  OBVIOUS
<1>6. q \in Seq(Message) /\ Len(q) = Len(Frame) /\ \A i \in 1 .. Len(Frame) : q[i].p = Frame[i]
  BY <1>4, <1>5, <1>t, NumberedIs
<1>7. ASSUME NEW i \in 1 .. Len(q), q[i].p.t = "videoframe" PROVE i = 1 /\ q[i].p.sid = out_stream
  <2>1. i \in 1 .. Len(Frame) /\ q[i].p = Frame[i]
    BY <1>6
  <2>2. i = 1
    BY <2>1, <1>4, <1>7
  <2> QED
    BY <2>1, <2>2, <1>4
<1>8. Fits' <=> Fits
  BY <1>1 DEF Fits, NoAlias, Blobs, Blob
<1>9. ASSUME Fits PROVE Newer'
  <2>0. Newer
    BY <1>9 DEF WInv
  <2>1. shown < WND
    <3>1. cf.frames < WND /\ shown \in Nat /\ WND \in Nat
      BY <1>9, WindowIs DEF Fits, WInv
    <3> QED
      BY <3>1, <1>1, <1>w
  <2>2. \A sid : InWindow(sid) /\ sid # 0 => InWindow(sid)'
    <3> SUFFICES ASSUME NEW sid, InWindow(sid), sid # 0 PROVE InWindow(sid)'
      OBVIOUS
    <3>1. PICK i \in Slots : window[i] = sid
      BY DEF InWindow
    <3>2. i # s
      BY <3>1, <2>1, <1>3
    <3>3. window'[i] = sid
      BY <3>1, <3>2, <1>3
    <3> QED
      BY <3>3 DEF InWindow, Slots
  <2>g. /\ ab \o q \in Seq(Message) /\ Len(ab \o q) = Len(ab) + Len(q) /\ Len(ab) \in Nat /\ Len(q) \in Nat
        /\ \A i \in 1 .. Len(ab) : i \in 1 .. Len(ab \o q) /\ (ab \o q)[i] = ab[i]
        /\ \A i \in 1 .. Len(q) : Len(ab) + i \in 1 .. Len(ab \o q) /\ (ab \o q)[Len(ab) + i] = q[i]
        /\ \A i \in 1 .. Len(ab \o q) : i \in 1 .. Len(ab) \/ \E j \in 1 .. Len(q) : i = Len(ab) + j
    <3>1. ab \in Seq(Message) /\ q \in Seq(Message)
      BY <1>t, <1>6
    <3>2. PICK w : w = ab \o q
      OBVIOUS
    <3>3. Joins(w, ab, q)
      BY <3>1, <3>2, GrownTo
    <3> QED
      BY <3>2, <3>3 DEF Joins
  <2>h. ab' = ab \o q
    BY <1>1, <1>5
  <2>3. ASSUME NEW k \in 1 .. Len(ab'), ab'[k].p.t = "videoframe"
        PROVE  \/ k \in 1 .. Len(ab) /\ ab'[k] = ab[k]
               \/ k = Len(ab) + 1 /\ ab'[k].p.sid = out_stream
    <3>1. CASE k \in 1 .. Len(ab)
      BY <3>1, <2>g, <2>h
    <3>2. CASE k \notin 1 .. Len(ab)
      <4>1. PICK j \in 1 .. Len(q) : k = Len(ab) + j
        BY <3>2, <2>g, <2>h, <2>3
      <4>2. ab'[k] = q[j]
        BY <4>1, <2>g, <2>h
      <4>3. j = 1 /\ q[j].p.sid = out_stream
        BY <4>2, <2>3, <1>7, ZenonT(30)
      <4> QED
        BY <4>1, <4>2, <4>3
    <3> QED
      BY <3>1, <3>2
  <2>4. vframe'.id < out_stream' /\ vframe.id < out_stream
    BY <2>0, <1>1, <1>t DEF Newer
  <2>5. ASSUME NEW k \in 1 .. Len(ab), ab[k].p.t = "videoframe"
        PROVE  /\ vframe.id < ab[k].p.sid /\ ab[k].p.sid < out_stream
               /\ InWindow(ab[k].p.sid) /\ ab[k].p.sid # 0
    <3>1. vframe.id < ab[k].p.sid /\ InWindow(ab[k].p.sid)
      BY <2>0, <2>5 DEF Newer
    <3>2. PICK i \in Slots : window[i] = ab[k].p.sid
      BY <3>1 DEF InWindow
    <3>3. window[i] \in Nat /\ Rising
      BY WindowIs DEF WInv
    <3>4. window[i] # 0
      BY <3>1, <3>2, <3>3, <1>t, Zero
    <3>5. window[i] < out_stream
      BY <3>3, <3>4 DEF Rising
    <3> QED
      BY <3>1, <3>2, <3>4, <3>5
  <2>6. ASSUME NEW k \in 1 .. Len(ab'), ab'[k].p.t = "videoframe"
        PROVE  vframe'.id < ab'[k].p.sid /\ InWindow(ab[k].p.sid)'
    <3>0. vframe' = vframe
      BY <1>1
    <3>1. CASE k \in 1 .. Len(ab) /\ ab'[k] = ab[k]
      <4>1. vframe.id < ab[k].p.sid /\ InWindow(ab[k].p.sid) /\ ab[k].p.sid # 0
        BY <3>1, <2>5, <2>6
      <4>2. PICK sid : sid = ab[k].p.sid
        OBVIOUS
      <4>3. InWindow(sid)'
        BY <4>1, <4>2, <2>2
      <4> QED
        BY <4>1, <4>2, <4>3, <3>0, <3>1 DEF InWindow
    <3>2. CASE ab'[k].p.sid = out_stream
      BY <3>0, <3>2, <2>4, <1>3 DEF InWindow, Slots
    <3> QED
      BY <3>1, <3>2, <2>3, <2>6
  <2>7. ASSUME NEW j \in 1 .. Len(ab'), NEW k \in 1 .. Len(ab'),
               ab'[j].p.t = "videoframe", ab'[k].p.t = "videoframe", j < k
        PROVE  ab'[j].p.sid < ab'[k].p.sid
    <3>1. j \in 1 .. Len(ab) /\ ab'[j] = ab[j]
      <4>1. j # Len(ab) + 1
        <5>1. k \in 1 .. Len(ab) \/ k = Len(ab) + 1
          BY <2>3, <2>7
        <5>2. Len(ab') = Len(ab) + Len(q) /\ Len(ab) \in Nat /\ Len(q) \in Nat
          BY <2>g, <2>h
        <5>3. j \in Nat /\ k <= Len(ab) + 1 /\ k \in Nat
          BY <5>1, <5>2
        <5> QED
          BY <5>2, <5>3, <2>7
      <4> QED
        BY <4>1, <2>3, <2>7
    <3>2. CASE k \in 1 .. Len(ab) /\ ab'[k] = ab[k]
      BY <3>1, <3>2, <2>0, <2>7 DEF Newer
    <3>3. CASE ab'[k].p.sid = out_stream
      BY <3>1, <3>3, <2>5, <2>7
    <3> QED
      BY <3>2, <3>3, <2>3, <2>7
  <2>8. \A k \in 1 .. Len(ba') : ba'[k].p.t = "ping" => ba'[k].p.sid <= vframe'.id
    BY <2>0, <1>1 DEF Newer
  <2> QED
    BY <2>4, <2>6, <2>7, <2>8 DEF Newer
<1> QED
  BY <1>2, <1>8, <1>9 DEF WInv

\* An acknowledgement.  Within the window it takes off the frame it names and
\* the older ones.
LEMMA Acknowledged ==
  ASSUME Window, NEW sid \in Nat, command_pingpacket(sid), UNCHANGED <<cf, out_stream, shown>>, cf.frames \in Nat
  PROVE  /\ Window'
         /\ Fits => \A j \in Slots : window[j] > sid => \E l \in Slots : window'[l] = window[j]
<1>0. /\ WND \in Nat /\ WND > 2 /\ window \in [Slots -> Nat] /\ \A k \in Slots : window[k] \in Nat
      /\ shown \in Nat /\ Rising
  BY WindowIs
<1>1. PICK n \in 0 .. WND : Filled(n) /\ n <= shown
  BY DEF Window
<1>2. shown <= cf.frames /\ (\A k \in Slots : window[k] # 0 <=> k <= n)
  BY <1>1 DEF Window, Filled
<1>3. PICK i, S : i = Stop(sid) /\ S = {k \in 1 .. WND + 1 : k = WND + 1 \/ window[k] = 0 \/ window[k] = sid}
                  /\ i = First(S)
  BY DEF Stop
<1>4. i \in 1 .. WND + 1
  <2>1. WND + 1 \in S
    BY <1>0, <1>3
  <2>2. S \subseteq Nat /\ S # {}
    BY <1>3, <2>1
  <2> QED
    BY <2>2, <1>3, FirstIs
<1>5. window[WND] # 0 => n = WND /\ ~Fits
  <2>1. WND \in Slots
    BY <1>0, SMTT(30), SMTT(31) DEF Slots
  <2> SUFFICES ASSUME window[WND] # 0 PROVE n = WND /\ ~(cf.frames < WND)
    BY DEF Fits
  <2>2. WND <= n
    BY <2>1, <1>2
  <2> QED
    BY <2>2, <1>0, <1>1, <1>2
<1>6. \/ UNCHANGED <<window, npend, backpressure>>
      \/ sid # 0 /\ i < WND /\ window[i] = sid /\ Slide(i, sid)
      \/ window[WND] # 0 /\ window' = [j \in Slots |-> 0] /\ npend' = 0
      \/ window[WND] # 0 /\ Slide(WND - 1, sid)
  BY <1>3 DEF command_pingpacket
<1>7. CASE UNCHANGED <<window, npend, backpressure>>
  <2>1. UNCHANGED <<window, npend, shown, out_stream, cf>>
    BY <1>7
  <2>2. Window'
    BY <2>1 DEF Window, Slots, Filled, Rising
  <2> QED
    BY <2>1, <2>2
<1>8. CASE sid # 0 /\ i < WND /\ window[i] = sid /\ Slide(i, sid)
  <2>1. i \in 1 .. WND - 1 /\ i \in Slots
    BY <1>0, <1>4, <1>8, SMTT(30), SMTT(31) DEF Slots
  <2>2. i <= n
    BY <2>1, <1>2, <1>8
  <2>3. /\ Window'
        /\ \A j \in Slots : window[j] # 0 /\ i < j => \E l \in Slots : window'[l] = window[j]
    BY <2>1, <2>2, <1>1, <1>8, Slid
  <2>4. ASSUME NEW j \in Slots, window[j] > sid PROVE window[j] # 0 /\ i < j
    <3>0. i \in Nat /\ j \in Nat /\ window[j] \in Nat
      BY <2>1, <1>0, SMTT(30), SMTT(31) DEF Slots
    <3>1. window[j] # 0
      BY <2>4, <3>0
    <3>2. CASE j = i
      BY <2>4, <3>0, <3>2, <1>8
    <3>3. CASE j < i
      <4>1. window[j] < window[i]
        BY <3>3, <2>1, <1>0, <1>8 DEF Rising
      <4> QED
        BY <4>1, <2>4, <3>0, <1>8
    <3> QED
      BY <3>0, <3>1, <3>2, <3>3, Below
  <2> QED
    BY <2>3, <2>4
<1>9. CASE window[WND] # 0 /\ window' = [j \in Slots |-> 0] /\ npend' = 0
  <2>1. Slots' = Slots /\ shown' = shown /\ cf' = cf
    BY DEF Slots
  <2>2. /\ window' \in [Slots -> Nat] /\ \A j \in Slots : window'[j] = 0
        /\ \A j \in Slots : ~(j <= 0)
    BY <1>0, <1>9 DEF Slots
  <2>3. npend' = (IF 0 = WND THEN WND - 1 ELSE 0) /\ 0 \in 0 .. WND /\ 0 <= shown
    BY <1>0, <1>9
  <2>4. Filled(0)'
    BY <2>1, <2>2, <2>3 DEF Filled
  <2>5. Rising'
    BY <2>1, <2>2 DEF Rising
  <2>6. Window'
    BY <2>1, <2>2, <2>3, <2>4, <2>5, <1>0, <1>2 DEF Window
  <2> QED
    BY <2>6, <1>5, <1>9
<1>10. CASE window[WND] # 0 /\ Slide(WND - 1, sid)
  <2>1. WND - 1 \in 1 .. WND - 1 /\ WND - 1 <= n
    BY <1>0, <1>5, <1>10
  <2>2. Window'
    BY <2>1, <1>1, <1>10, Slid
  <2> QED
    BY <2>2, <1>5, <1>10
<1> QED
  BY <1>6, <1>7, <1>8, <1>9, <1>10

LEMMA SourceTakes ==
  ASSUME TInv, WInv, vframe \in Views, Source_Unpack
  PROVE  WInv'
<1>t. /\ cf \in Configs /\ out_stream \in Nat /\ ba \in Seq(Message) /\ vframe.id \in Nat
  BY TypesSay DEF TInv, Views, Types, LineTypes
<1>w. cf.frames \in Nat
  BY <1>t, Workload
<1>1. /\ ba # <<>> /\ ba' = Tail(ba)
      /\ UNCHANGED <<cf, out_stream, shown, vframe, ab>>
  BY DEF Source_Unpack, sink
<1>2. PICK m : m = Head(ba)
  OBVIOUS
<1>3. /\ Tail(ba) \in Seq(Message) /\ Len(Tail(ba)) = Len(ba) - 1 /\ Len(ba) \in Nat \ {0}
      /\ Head(ba) = ba[1] /\ 1 \in 1 .. Len(ba) /\ ba[1] \in Message
      /\ \A k \in 1 .. Len(Tail(ba)) : k + 1 \in 1 .. Len(ba) /\ Tail(ba)[k] = ba[k + 1]
      /\ \A k \in 1 .. Len(ba) : k = 1 \/ \E j \in 1 .. Len(Tail(ba)) : k = j + 1
  BY <1>t, <1>1, Shrunk
<1>4. m = ba[1] /\ m.p.sid \in Nat
  BY <1>2, <1>3 DEF Message, Packet
<1>5. Fits' <=> Fits
  BY <1>1 DEF Fits, NoAlias, Blobs, Blob
<1>6. /\ Window'
      /\ Fits => \A k \in 1 .. Len(ab) : ab[k].p.t = "videoframe" => InWindow(ab[k].p.sid)'
  <2>1. CASE UNCHANGED <<window, npend, backpressure>>
    <3>1. UNCHANGED <<cf, pacing>> /\ out_stream' \in Nat /\ out_stream' >= out_stream /\ window' = window
      BY <2>1, <1>1, <1>t DEF pacing
    <3>2. Window'
      BY <3>1, <1>t, WindowKept DEF WInv
    <3>3. \A sid : InWindow(sid) => \E i \in Slots : window'[i] = sid
      BY <3>1 DEF InWindow
    <3>4. Fits => \A k \in 1 .. Len(ab) : ab[k].p.t = "videoframe" => \E i \in Slots : window'[i] = ab[k].p.sid
      BY <3>3 DEF WInv, Newer
    <3> QED
      BY <3>2, <3>4, <1>1 DEF InWindow, Slots
  <2>2. CASE m.p.t = "ping" /\ command_pingpacket(m.p.sid)
    <3>1. /\ Window'
          /\ Fits => \A j \in Slots : window[j] > m.p.sid => \E l \in Slots : window'[l] = window[j]
      BY <2>2, <1>1, <1>4, <1>w, Acknowledged DEF WInv
    <3>2. ASSUME Fits, NEW k \in 1 .. Len(ab), ab[k].p.t = "videoframe"
          PROVE  \E l \in Slots : window'[l] = ab[k].p.sid
      <4>1. vframe.id < ab[k].p.sid /\ InWindow(ab[k].p.sid) /\ m.p.sid <= vframe.id
        BY <2>2, <3>2, <1>3, <1>4 DEF WInv, Newer
      <4>2. PICK j \in Slots : window[j] = ab[k].p.sid
        BY <4>1 DEF InWindow
      <4>3. window[j] \in Nat
        BY WindowIs DEF WInv
      <4>4. window[j] > m.p.sid
        BY <4>1, <4>2, <4>3, <1>4, <1>t
      <4> QED
        BY <4>2, <4>4, <3>1, <3>2
    <3> QED
      BY <3>1, <3>2, <1>1 DEF InWindow, Slots
  <2> QED
    BY <2>1, <2>2, <1>2 DEF Source_Unpack
<1>7. ASSUME Fits PROVE Newer'
  <2>0. Newer
    BY <1>7 DEF WInv
  <2>1. vframe' = vframe /\ ab' = ab /\ out_stream' = out_stream
    BY <1>1
  <2>2. ASSUME NEW k \in 1 .. Len(ba'), ba'[k].p.t = "ping" PROVE ba'[k].p.sid <= vframe'.id
    <3>1. PICK j \in 1 .. Len(ba) : ba'[k] = ba[j]
      BY <1>1, <1>3
    <3> QED
      BY <3>1, <2>0, <2>1, <2>2 DEF Newer
  <2>3. vframe'.id < out_stream'
    BY <2>0, <2>1 DEF Newer
  <2>4. ASSUME NEW k \in 1 .. Len(ab'), ab'[k].p.t = "videoframe"
        PROVE  vframe'.id < ab'[k].p.sid /\ InWindow(ab[k].p.sid)'
    BY <2>0, <2>1, <2>4, <1>6, <1>7 DEF Newer
  <2>5. ASSUME NEW j \in 1 .. Len(ab'), NEW k \in 1 .. Len(ab'),
               ab'[j].p.t = "videoframe", ab'[k].p.t = "videoframe", j < k
        PROVE  ab'[j].p.sid < ab'[k].p.sid
    BY <2>0, <2>1, <2>5 DEF Newer
  <2> QED
    BY <2>2, <2>3, <2>4, <2>5 DEF Newer
<1> QED
  BY <1>5, <1>6, <1>7 DEF WInv

\* What the sink answers to a packet: an acknowledgement names the frame it is
\* at, or the completion of a transfer.
LEMMA SinkTakes ==
  ASSUME TInv, WInv, vframe \in Views, vframe' \in Views, Sink_Unpack
  PROVE  WInv'
<1>1. ab # <<>> /\ Head(ab) = ab[1]
  BY HeadOf DEF Sink_Unpack
<1>t. cf \in Configs /\ vframe.id \in Nat
  BY TypesSay DEF TInv, Views
<1>2. PICK m : m = Head(ab)
  OBVIOUS
<1>3. <<>> \in Seq(Packet) /\ Len(<<>>) = 0 /\ 1 .. 0 = {}
  OBVIOUS
<1>4. \E ps : /\ Taken(m, ps)
              /\ ps \in Seq(Packet)
              /\ Fits => \A i \in 1 .. Len(ps) : ps[i].t = "ping" => ps[i].sid <= vframe.id
              /\ vframe'.id = vframe.id \/ (ab[1].p.t = "videoframe" /\ vframe'.id = ab[1].p.sid)
  <2>1. CASE ab[1].p.t = "binarystream" /\ (command_binarystream_Exist(m) \/ command_binarystream_Accept(m)
                                            \/ command_binarystream_Refuse(m))
    <3>1. m.p.ch \in Channels /\ m.p.sid \in Nat
      BY <2>1, <1>1, <1>2, HeaderIs
    <3>2. PICK c, sid : sid \in Nat /\ c \in Channels /\ vframe' = vframe
                        /\ (Taken(m, <<>>) \/ Taken(m, <<Pkt("cancelstream", c, sid, 0, 0)>>))
      <4>1. bframe[m.p.ch].streamid \in Nat
        BY <3>1, TypesSay DEF TInv
      <4> QED
        BY <2>1, <3>1, <4>1 DEF command_binarystream_Exist, command_binarystream_Accept,
           command_binarystream_Refuse, CancelOf
    <3>3. PICK x : x = Pkt("cancelstream", c, sid, 0, 0)
      OBVIOUS
    <3>4. x \in Packet /\ x.t # "ping"
      BY <3>2, <3>3 DEF Pkt, Packet
    <3>5. <<x>> \in Seq(Packet) /\ Len(<<x>>) = 1 /\ <<x>>[1] = x /\ 1 .. 1 = {1}
      BY <3>4
    <3>6. CASE Taken(m, <<>>)
      BY <3>2, <3>6, <1>3
    <3>7. CASE Taken(m, <<x>>)
      BY <3>2, <3>4, <3>5, <3>7
    <3> QED
      BY <3>2, <3>3, <3>6, <3>7
  <2>2. CASE ab[1].p.t = "blob" /\ (process_blob_Discard(m) \/ process_blob_Full(m))
    <3>1. m.p.ch \in Channels
      BY <2>2, <1>1, <1>2, BlockIs
    <3>2. PICK c, sid : sid \in Nat /\ c \in Channels /\ vframe' = vframe
                        /\ (Taken(m, <<>>) \/ Taken(m, <<Pkt("cancelstream", c, sid, 0, 0)>>))
      <4>1. bframe[m.p.ch].streamid \in Nat
        BY <3>1, TypesSay DEF TInv
      <4> QED
        BY <2>2, <3>1, <4>1 DEF process_blob_Discard, process_blob_Full, CancelOf
    <3>3. PICK x : x = Pkt("cancelstream", c, sid, 0, 0)
      OBVIOUS
    <3>4. x \in Packet /\ x.t # "ping"
      BY <3>2, <3>3 DEF Pkt, Packet
    <3>5. <<x>> \in Seq(Packet) /\ Len(<<x>>) = 1 /\ <<x>>[1] = x /\ 1 .. 1 = {1}
      BY <3>4
    <3>6. CASE Taken(m, <<>>)
      BY <3>2, <3>6, <1>3
    <3>7. CASE Taken(m, <<x>>)
      BY <3>2, <3>4, <3>5, <3>7
    <3> QED
      BY <3>2, <3>3, <3>6, <3>7
  <2>3. CASE ab[1].p.t = "blob" /\ process_blob_Write(m)
    <3>0. ~Foreign(m)
      BY <2>3 DEF process_blob_Write
    <3>1. m.p.ch \in Channels /\ m.p.val \in Blobs /\ bframe[m.p.ch].blob = m.p.val
      BY <2>3, <3>0, <1>1, <1>2, BlockIs
    <3>2. PICK x : x = Pkt("ping", m.p.ch, Blob(m.p.val).ident, 0, 0)
      OBVIOUS
    <3>3. (Taken(m, <<>>) \/ Taken(m, <<x>>)) /\ vframe' = vframe
      BY <2>3, <3>1, <3>2 DEF process_blob_Write
    <3>4. Blob(m.p.val).ident \in Nat
      BY <3>1, <1>t, Workload
    <3>5. x \in Packet /\ x.sid = Blob(m.p.val).ident
      BY <3>1, <3>2, <3>4 DEF Pkt, Packet
    <3>6. <<x>> \in Seq(Packet) /\ Len(<<x>>) = 1 /\ <<x>>[1] = x /\ 1 .. 1 = {1}
      BY <3>5
    <3>7. Fits => x.sid = 0
      BY <3>1, <3>5 DEF Fits, NoAlias
    <3>8. 0 <= vframe.id
      BY <1>t
    <3>9. CASE Taken(m, <<>>)
      BY <3>3, <3>9, <1>3
    <3>10. CASE Taken(m, <<x>>)
      BY <3>3, <3>6, <3>7, <3>8, <3>10
    <3> QED
      BY <3>3, <3>9, <3>10
  <2>4. CASE ab[1].p.t = "videoframe" /\ command_videoframe(m)
    <3>1. Taken(m, <<>>) /\ \E d : vframe' = [id |-> m.p.sid, left |-> m.p.num, discard |-> d]
      BY <2>4 DEF command_videoframe
    <3>2. vframe'.id = ab[1].p.sid
      BY <3>1, <1>1, <1>2
    <3> QED
      BY <2>4, <3>1, <3>2, <1>3
  <2>5. CASE process_video(m)
    <3>1. PICK x : x = Pkt("ping", 0, vframe.id, 0, 0)
      OBVIOUS
    <3>2. (Taken(m, <<>>) \/ Taken(m, <<x>>)) /\ vframe' = [vframe EXCEPT !.left = @ - 1]
      BY <2>5, <3>1 DEF process_video
    <3>3. vframe'.id = vframe.id
      BY <3>2 DEF Views
    <3>4. x \in Packet /\ x.sid = vframe.id
      BY <3>1, <1>t DEF Pkt, Packet
    <3>5. <<x>> \in Seq(Packet) /\ Len(<<x>>) = 1 /\ <<x>>[1] = x /\ 1 .. 1 = {1}
      BY <3>4
    <3>6. x.sid <= vframe.id
      BY <3>4, <1>t
    <3>7. CASE Taken(m, <<>>)
      BY <3>3, <3>7, <1>3
    <3>8. CASE Taken(m, <<x>>)
      BY <3>3, <3>5, <3>6, <3>8
    <3> QED
      BY <3>2, <3>7, <3>8
  <2> QED
    BY <1>1, <1>2, <2>1, <2>2, <2>3, <2>4, <2>5 DEF Sink_Unpack
<1>5. PICK ps \in Seq(Packet) :
        /\ Taken(m, ps)
        /\ Fits => \A i \in 1 .. Len(ps) : ps[i].t = "ping" => ps[i].sid <= vframe.id
        /\ vframe'.id = vframe.id \/ (ab[1].p.t = "videoframe" /\ vframe'.id = ab[1].p.sid)
  BY <1>4
<1>6. ab' = Tail(ab) /\ ToSource(ps) /\ UNCHANGED <<cf, pacing, out_stream>>
  BY <1>5 DEF Taken, source
<1> QED
  BY <1>1, <1>5, <1>6, SinkSteps

LEMMA SinkSends ==
  ASSUME TInv, WInv, vframe \in Views, stream_cancel \/ Chat
  PROVE  WInv'
<1>t. Types /\ lastB \in Nat
  BY DEF TInv, Types, SinkTypes
<1>1. ab' = ab /\ vframe' = vframe /\ UNCHANGED <<cf, pacing, out_stream>>
  BY DEF stream_cancel, Chat, source
<1>2. PICK x : x \in Packet /\ x.t # "ping" /\ ToSource(<<x>>)
  <2>1. CASE Chat
    <3>1. PICK x : x = Pkt("event", 0, 0, 0, lastB)
      OBVIOUS
    <3>2. x \in Packet /\ x.t # "ping"
      BY <3>1, <1>t DEF Pkt, Packet
    <3>3. ToSource(<<x>>)
      BY <2>1, <3>1 DEF Chat
    <3> QED
      BY <3>2, <3>3
  <2>2. CASE stream_cancel
    <3>1. PICK c \in Channels : ToSource(<<Pkt("cancelstream", c, bframe[c].streamid, 0, 0)>>)
      BY <2>2 DEF stream_cancel, CancelOf
    <3>2. bframe[c].streamid \in Nat
      BY <1>t, TypesSay
    <3>3. PICK x : x = Pkt("cancelstream", c, bframe[c].streamid, 0, 0)
      OBVIOUS
    <3>4. x \in Packet /\ x.t # "ping"
      BY <3>2, <3>3 DEF Pkt, Packet
    <3> QED
      BY <3>1, <3>3, <3>4
  <2> QED
    BY <2>1, <2>2
<1>3. PICK ps : ps = <<x>>
  OBVIOUS
<1>4. ps \in Seq(Packet) /\ \A i \in 1 .. Len(ps) : ps[i] = x
  BY <1>2, <1>3
<1>5. /\ Fits => \A i \in 1 .. Len(ps) : ps[i].t = "ping" => ps[i].sid <= vframe.id
      /\ vframe' \in Views /\ vframe'.id = vframe.id /\ ToSource(ps)
  BY <1>1, <1>2, <1>3, <1>4
<1> QED
  BY <1>1, <1>4, <1>5, SinkSteps

LEMMA NextFrames ==
  ASSUME TInv, WInv, vframe \in Views, vframe' \in Views, [Next]_vars
  PROVE  WInv'
<1>t. out_stream \in Nat /\ ab \in Seq(Message)
  BY TypesSay DEF TInv
<1>1. CASE append_blob
  <2>1. PICK b \in Blobs : queue_node_Data(b) \/ queue_node_Empty(b) \/ queue_node_Broken(b)
    BY <1>1 DEF append_blob
  <2>2. \E q, n : Sends(b, q, n)
    BY <2>1, DataSends, EmptySends
  <2>3. PICK q, n : Sends(b, q, n)
    BY <2>2
  <2>4. /\ q \in Seq(Message) /\ ab' = ab \o q /\ out_stream' \in Nat /\ out_stream' >= out_stream
        /\ \A j \in 1 .. Len(q) : Carries(q[j])
    BY <2>3 DEF Sends
  <2>5. \A j \in 1 .. Len(q) : q[j].p.t # "videoframe"
    BY <2>4 DEF Carries
  <2>6. UNCHANGED <<cf, pacing, sink, ba>>
    BY <2>1 DEF queue_node_Data, queue_node_Empty, queue_node_Broken
  <2>7. UNCHANGED <<cf, pacing, vframe, ba>>
    BY <2>6 DEF sink
  <2> QED
    BY <2>4, <2>5, <2>7, OtherSent
<1>2. CASE Enqueue \/ UNCHANGED vars
  <2>1. UNCHANGED <<cf, pacing, sink, ba, ab, out_stream>>
    <3>1. Enqueue => UNCHANGED <<cf, pacing, sink, ba, ab, out_stream>>
      BY DEF Enqueue
    <3>2. UNCHANGED vars => UNCHANGED <<cf, pacing, sink, ba, ab, out_stream>>
      BY DEF vars, source
    <3> QED
      BY <1>2, <3>1, <3>2
  <2>2. UNCHANGED <<cf, pacing, vframe, ba>>
    BY <2>1 DEF sink
  <2>3. PICK q : q = <<>>
    OBVIOUS
  <2>4. /\ q \in Seq(Message) /\ ab' = ab \o q /\ out_stream' \in Nat /\ out_stream' >= out_stream
        /\ \A j \in 1 .. Len(q) : q[j].p.t # "videoframe"
    <3>1. q \in Seq(Message) /\ ab = ab \o q /\ \A j \in 1 .. Len(q) : FALSE
      BY <2>3, <1>t, Nothing
    <3> QED
      BY <2>1, <3>1, <1>t, Zero
  <2> QED
    BY <2>2, <2>4, OtherSent
<1> QED
  BY <1>1, <1>2, FrameSent, SourceTakes, SinkTakes, SinkSends DEF Next

LEMMA InitFrames == Init => WInv
<1> SUFFICES ASSUME Init PROVE WInv
  OBVIOUS
<1>1. /\ window = [i \in Slots |-> 0] /\ npend = 0 /\ shown = 0 /\ cf \in Configs
      /\ vframe = [id |-> 0, left |-> 0, discard |-> TRUE] /\ ab = <<>> /\ ba = <<>> /\ out_stream = 1
  BY DEF Init
<1>2. WND \in Nat /\ WND > 2
  BY StreamsAssumption DEF StreamsAssumption
<1>3. /\ window \in [Slots -> Nat] /\ \A j \in Slots : window[j] = 0
      /\ \A j \in Slots : ~(j <= 0)
  <2>1. \A j \in Slots : ~(j <= 0)
    BY <1>2 DEF Slots
  <2> QED
    BY <2>1, <1>1, Zero
<1>4. npend = (IF 0 = WND THEN WND - 1 ELSE 0) /\ 0 \in 0 .. WND /\ 0 <= shown /\ shown \in Nat /\ shown <= cf.frames
  BY <1>1, <1>2, Workload
<1>5. Filled(0) /\ Rising
  BY <1>3, <1>4 DEF Filled, Rising
<1>6. Window
  BY <1>3, <1>4, <1>5 DEF Window
<1>7. Newer
  <2>1. Len(ab) = 0 /\ Len(ba) = 0 /\ vframe.id < out_stream
    BY <1>1
  <2>2. 1 .. 0 = {}
    OBVIOUS
  <2> QED
    BY <2>1, <2>2 DEF Newer
<1> QED
  BY <1>6, <1>7 DEF WInv

\* Whatever is sent and acknowledged: the slots of frame_window in use come
\* first and hold rising stream ids, `pending' counts them, and while the
\* source stays within the window command_pingpacket takes no frame off that
\* the sink has not begun.  For every window and every number of frames.
THEOREM WindowExactAlways == Spec => []WindowExact
<1>1. Init => TInv /\ vframe \in Views /\ WInv
  <2>1. Init => vframe \in Views
    BY DEF Init, Views
  <2> QED
    BY <2>1, InitTransfers, InitFrames
<1>2. TInv /\ vframe \in Views /\ WInv /\ [Next]_vars => (TInv /\ vframe \in Views /\ WInv)'
  BY NextTransfers, NextFrames
<1>3. WInv => WindowExact
  <2> SUFFICES ASSUME WInv PROVE WindowExact
    OBVIOUS
  <2>0. /\ WND \in Nat /\ WND > 2 /\ window \in [Slots -> Nat] /\ \A k \in Slots : window[k] \in Nat
        /\ shown \in Nat /\ Rising
    BY WindowIs DEF WInv
  <2>1. PICK n \in 0 .. WND : Filled(n)
    BY DEF WInv, Window
  <2>2. PICK used : used = {i \in Slots : window[i] # 0}
    OBVIOUS
  <2>3. used = 1 .. n
    <3>1. \A i \in Slots : i \in used <=> i <= n
      BY <2>1, <2>2 DEF Filled
    <3>2. \A i \in 1 .. n : i \in Slots /\ i <= n
      BY <2>0 DEF Slots
    <3>3. \A i \in Slots : i <= n => i \in 1 .. n
      BY <2>0 DEF Slots
    <3>4. \A i \in used : i \in Slots
      BY <2>2
    <3> QED
      BY <3>1, <3>2, <3>3, <3>4
  <2>4. \A i \in used : window[i] < out_stream /\ \A j \in used : i < j => window[i] < window[j]
    BY <2>0, <2>2 DEF Rising
  <2>5. (NoAlias /\ cf.frames < WND) =>
          \A k \in 1 .. Len(ab) :
            ab[k].p.t = "videoframe" => \E i \in Slots : window[i] = ab[k].p.sid
    BY DEF WInv, Fits, Newer, InWindow
  <2> QED
    BY <2>1, <2>2, <2>3, <2>4, <2>5 DEF WindowExact, Filled
<1> QED
  BY <1>1, <1>2, <1>3, PTL DEF Spec
==============================================================================
