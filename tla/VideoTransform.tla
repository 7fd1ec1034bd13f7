--------------------------- MODULE VideoTransform ----------------------------
(***************************************************************************)
(* The transformation chains of video objects: a chain is a list of cells, *)
(* a cell has a slot for every attribute, and the slots of an attribute    *)
(* that are in use are worked off one after the other as the clock ticks.  *)
(* Scripts append to chains, tag, zap, finish, copy and cycle them; a tag  *)
(* is answered by an event when its transformation is over.                *)
(*                                                                         *)
(* Move and scale are like rotate, but for the events of                   *)
(* arcan_video_instanttransform, where move is like blend.  A value on its *)
(* way is Mid.  A slot is unused when its start is 0.                      *)
(*                                                                         *)
(* What goes wrong at the wrap of the clock, or by what an earlier         *)
(* transformation left in a cell, is named where it happens (`dev') and    *)
(* not followed further.                                                   *)
(***************************************************************************)
EXTENDS Integers, Sequences, FiniteSets, SequencesExt

CONSTANTS WRAP,       \* the clock's modulus, INT32_MAX / 3
          EXACT,      \* a float has every whole number up to this one, 2^24
          Configs     \* the objects, the calls made, bounds

Attrs == {"blend", "rotate"}
Mid == -1             \* a value between two others
Values == {0, 1}
Durations == 1 .. 2   \* bound: ticks of a transformation

ASSUME TransformAssumption ==
  /\ WRAP \in Nat /\ WRAP > 1 /\ EXACT \in Nat \ {0}
  /\ \A c \in Configs : c.objects \subseteq 1 .. 2 /\ c.ops \in Nat

VARIABLES
  cf,        \* the configuration, never changed
  c_ticks,
  chain,     \* [object -> sequence of cells]
  current,   \* [object -> [attribute -> value]]
  cycle,     \* [object -> FL_TCYCLE]
  events,    \* [object -> CHAIN_OVER events, in order]
  tags,      \* tags given so far
  goal,      \* [object -> [attribute -> what it is to be in the end, or Mid]]
  ops,       \* calls made
  dev        \* what went wrong

vars == <<cf, c_ticks, chain, current, cycle, events, tags, goal, ops, dev>>

Unused == [startt |-> 0, endt |-> 0, to |-> 0, tag |-> 0]
Empty  == [a \in Attrs |-> Unused]

Init ==
  /\ cf \in Configs /\ c_ticks = 1 /\ tags = 0 /\ ops = 0 /\ dev = {}
  /\ chain = [o \in cf.objects |-> <<>>] /\ events = [o \in cf.objects |-> <<>>]
  /\ current = [o \in cf.objects |-> [a \in Attrs |-> 0]]
  /\ goal = [o \in cf.objects |-> [a \in Attrs |-> 0]]
  /\ cycle = [o \in cf.objects |-> FALSE]

Cells(s) == 1 .. Len(s)
Pending(s, a) == {k \in Cells(s) : s[k][a].startt # 0}

\* The first cell whose slot is not in use, or a new one.
Base(s, a) ==
  LET free == {k \in Cells(s) : s[k][a].startt = 0}
  IN IF free = {} THEN Len(s) + 1 ELSE CHOOSE k \in free : \A j \in free : k <= j

\* `last' of the cell used: the one before it, or itself.
LastOf(s, a) == LET n == Base(s, a) IN IF n > 1 THEN s[n - 1][a] ELSE IF s = <<>> THEN Unused ELSE s[1][a]

\* mutant: every transformation starts at once
Start_Now(s, a) == c_ticks

Start(s, a) == IF LastOf(s, a).endt < c_ticks THEN c_ticks ELSE LastOf(s, a).endt

\* arcan_video_objectopacity and its like; a new slot keeps the tag a cell has.
append(s, a, to, tv) ==
  LET n == Base(s, a)
      grown == IF n > Len(s) THEN Append(s, Empty) ELSE s
  IN [grown EXCEPT ![n][a] = [startt |-> Start(s, a), endt |-> Start(s, a) + tv, to |-> to, tag |-> @.tag]]

\* What appending finds: the leftovers of another transformation, tick 0.
Leftover(s, a) ==
  LET n == Base(s, a)
  IN (n \in Cells(s) /\ (s[n][a].tag # 0 \/ s[n][a].endt > c_ticks)) \/ Start(s, a) = 0

\* mutant: what was scheduled stays
swipe_chain_None(s, a) == s

swipe_chain(s, a) == [k \in Cells(s) |-> [s[k] EXCEPT ![a] = Unused]]

InUse(cell) == \E a \in Attrs : cell[a].startt # 0

\* The slots of an attribute move up by one; the last cell goes if it is empty.
compact_transformation(s, a) ==
  LET n == Len(s)
      moved == [k \in Cells(s) |-> [s[k] EXCEPT ![a] = IF k < n THEN s[k + 1][a] ELSE Unused]]
  IN IF InUse(moved[n]) THEN moved ELSE SubSeq(moved, 1, n - 1)

-----------------------------------------------------------------------------
(* the clock *)

\* An object being updated: its chain, values, events, and whether it was
\* appended to.
Update(o) == [s |-> chain[o], cur |-> current[o], ev |-> events[o], aim |-> goal[o], odd |-> FALSE]

\* mutant: the event is left out when the transformation is cycled
over_Quiet(o, u, a) ==
  LET slot == u.s[1][a]
      again == append(u.s, a, slot.to, slot.endt - slot.startt)
  IN [s |-> compact_transformation(IF cycle[o] THEN again ELSE u.s, a),
      cur |-> [u.cur EXCEPT ![a] = slot.to],
      ev |-> IF slot.tag = 0 \/ cycle[o] THEN u.ev ELSE Append(u.ev, <<a, slot.tag>>),
      aim |-> IF cycle[o] THEN [u.aim EXCEPT ![a] = Mid] ELSE u.aim,
      odd |-> u.odd \/ (cycle[o] /\ Leftover(u.s, a))]

\* mutant: the next one moves up first
over_Moved(o, u, a) ==
  LET slot == u.s[1][a]
      rest == compact_transformation(u.s, a)
      next == IF rest # <<>> /\ rest[1][a].startt # 0 THEN rest[1][a] ELSE slot
  IN [s |-> IF cycle[o] THEN append(rest, a, next.to, next.endt - next.startt) ELSE rest,
      cur |-> [u.cur EXCEPT ![a] = slot.to],
      ev |-> IF slot.tag = 0 THEN u.ev ELSE Append(u.ev, <<a, slot.tag>>),
      aim |-> IF cycle[o] THEN [u.aim EXCEPT ![a] = Mid] ELSE u.aim,
      odd |-> u.odd \/ (cycle[o] /\ Leftover(u.s, a))]

\* The first transformation of attribute a is over: it is done again if the
\* chain is cycled, its tag is answered, the next one moves up.
over(o, u, a) ==
  LET slot == u.s[1][a]
      again == append(u.s, a, slot.to, slot.endt - slot.startt)
  IN [s |-> compact_transformation(IF cycle[o] THEN again ELSE u.s, a),
      cur |-> [u.cur EXCEPT ![a] = slot.to],
      ev |-> IF slot.tag = 0 THEN u.ev ELSE Append(u.ev, <<a, slot.tag>>),
      aim |-> IF cycle[o] THEN [u.aim EXCEPT ![a] = Mid] ELSE u.aim,
      odd |-> u.odd \/ (cycle[o] /\ Leftover(u.s, a))]

\* How far apart floats are at t.
Gap(t) ==
  LET gap[n \in 0 .. t] == IF t <= EXACT * 2^n THEN 2^n ELSE gap[n + 1]
  IN gap[0]

\* A number of ticks as a float: the nearest one there is, the even one of two.
float(t) ==
  LET u == Gap(t)
      below == (t \div u) * u
  IN IF 2 * (t - below) < u \/ (2 * (t - below) = u /\ (t \div u) % 2 = 0) THEN below ELSE below + u

\* lerp_fract has reached 1.
due(slot) == float(c_ticks) >= float(slot.endt)

step(o, u, a) ==
  IF u.s = <<>> \/ u.s[1][a].startt = 0 THEN u
  ELSE IF due(u.s[1][a]) THEN over(o, u, a)
  ELSE [u EXCEPT !.cur[a] = Mid]

\* arcan_video_tick: update_object looks at blend before the others;
\* last_updated has it run once in a tick, whatever the number of lists the
\* object is in.  Transformations across the wrap of the clock do not end.
Tick ==
  /\ dev = {}
  /\ \E b \in {[o \in cf.objects |-> step(o, Update(o), "blend")]} :
     \E u \in {[o \in cf.objects |-> step(o, b[o], "rotate")]} :
       LET wraps == /\ c_ticks + 1 = WRAP
                    /\ \E o \in cf.objects, a \in Attrs : \E k \in Pending(u[o].s, a) : u[o].s[k][a].endt >= WRAP
       IN /\ chain' = [o \in cf.objects |-> u[o].s] /\ current' = [o \in cf.objects |-> u[o].cur]
          /\ events' = [o \in cf.objects |-> u[o].ev] /\ goal' = [o \in cf.objects |-> u[o].aim]
          /\ dev' = (IF wraps THEN {"wrap"} ELSE {}) \cup
                    (IF \E o \in cf.objects : u[o].odd THEN {"leftover"} ELSE {})
  /\ c_ticks' = (c_ticks + 1) % WRAP
  /\ UNCHANGED <<cf, cycle, tags, ops>>

-----------------------------------------------------------------------------
(* what a script may call *)

Calls(op) == op \in cf.calls /\ dev = {} /\ ops < cf.ops /\ ops' = ops + 1 /\ UNCHANGED cf

\* A value other than the one asked for last (bound).
Other(o, a) == Values \ {goal[o][a]}

\* objectopacity, objectmove, objectscale, objectrotate3d with a duration.
Transform(o, a) ==
  /\ Calls("transform")
  /\ \E to \in Other(o, a), tv \in Durations :
       /\ chain' = [chain EXCEPT ![o] = append(@, a, to, tv)]
       /\ goal' = [goal EXCEPT ![o][a] = to]
  /\ dev' = IF Leftover(chain[o], a) THEN {"leftover"} ELSE {}
  /\ UNCHANGED <<c_ticks, current, cycle, events, tags>>

\* The same without a duration.
Immediate(o, a) ==
  /\ Calls("immediate")
  /\ chain' = [chain EXCEPT ![o] = swipe_chain(@, a)]
  /\ \E to \in Other(o, a) : current' = [current EXCEPT ![o][a] = to] /\ goal' = [goal EXCEPT ![o][a] = to]
  /\ UNCHANGED <<c_ticks, cycle, events, tags, dev>>

\* arcan_video_linkobjs: all but blend stops where it is.
Linkobjs(o) ==
  /\ Calls("link")
  /\ chain' = [chain EXCEPT ![o] = swipe_chain(@, "rotate")]
  /\ goal' = [goal EXCEPT ![o]["rotate"] = IF Pending(chain[o], "rotate") = {} THEN @ ELSE Mid]
  /\ UNCHANGED <<c_ticks, current, cycle, events, tags, dev>>

\* The last slot of the first run of slots in use gets the tag.
tagged(s, a, t) ==
  LET ends == {k \in Pending(s, a) : k + 1 \notin Pending(s, a)}
  IN IF ends = {} THEN s
     ELSE [s EXCEPT ![CHOOSE k \in ends : \A j \in ends : k <= j][a].tag = t]

Tagtransform(o, mask) ==
  /\ Calls("tag") /\ chain[o] # <<>> /\ tags' = tags + 1
  /\ chain' = [chain EXCEPT ![o] = IF "blend" \in mask
                                   THEN tagged(IF "rotate" \in mask THEN tagged(@, "rotate", tags') ELSE @,
                                               "blend", tags')
                                   ELSE tagged(@, "rotate", tags')]
  /\ UNCHANGED <<c_ticks, current, cycle, events, goal, dev>>

\* arcan_video_zaptransform: times are cleared, values and tags stay; a cell
\* is dropped when none of its slots has an end.
zap(s, mask) ==
  LET cleared == [k \in Cells(s) |-> [a \in Attrs |->
                    IF a \in mask THEN [s[k][a] EXCEPT !.startt = 0, !.endt = 0] ELSE s[k][a]]]
  IN SelectSeq(cleared, LAMBDA cell : \E a \in Attrs : cell[a].endt # 0)

Zaptransform(o, mask) ==
  /\ Calls("zap")
  /\ chain' = [chain EXCEPT ![o] = zap(@, mask)]
  /\ goal' = [goal EXCEPT ![o] = [a \in Attrs |-> IF a \in mask THEN Mid ELSE @[a]]]
  /\ UNCHANGED <<c_ticks, current, cycle, events, tags, dev>>

\* Which events arcan_video_instanttransform sends: as asked for blend (and
\* move); for rotate and scale, all if the last one was asked for, else none.
Sends(s, k, a, method) ==
  LET atlast == k + 1 \notin Pending(s, a)
  IN s[k][a].tag # 0 /\ IF a = "blend" THEN method = "ALL" \/ (method = "LAST" /\ atlast) ELSE method = "LAST"

\* The cells after it: starts are cleared, ends and tags stay.
instant(s, mask) ==
  SelectSeq([k \in Cells(s) |-> [a \in Attrs |->
               IF a \in mask THEN [s[k][a] EXCEPT !.startt = 0] ELSE s[k][a]]], InUse)

Instanttransform(o, mask, method) ==
  LET s == chain[o]
      news(k) == IF "blend" \in mask /\ k \in Pending(s, "blend") /\ Sends(s, k, "blend", method)
                 THEN <<<<"blend", s[k]["blend"].tag>>>> ELSE <<>>
      newr(k) == IF "rotate" \in mask /\ k \in Pending(s, "rotate") /\ Sends(s, k, "rotate", method)
                 THEN <<<<"rotate", s[k]["rotate"].tag>>>> ELSE <<>>
      final(a) == IF a \in mask /\ Pending(s, a) # {}
                  THEN s[CHOOSE k \in Pending(s, a) : \A j \in Pending(s, a) : j <= k][a].to
                  ELSE current[o][a]
  IN /\ Calls("instant")
     /\ events' = [events EXCEPT ![o] = @ \o FlattenSeq([k \in Cells(s) |-> news(k) \o newr(k)])]
     /\ current' = [current EXCEPT ![o] = [a \in Attrs |-> final(a)]]
     /\ chain' = [chain EXCEPT ![o] = instant(s, mask)]
     /\ UNCHANGED <<c_ticks, cycle, tags, goal, dev>>

Transformcycle(o) ==
  /\ Calls("cycle") /\ cycle' = [cycle EXCEPT ![o] = ~@]
  /\ UNCHANGED <<c_ticks, chain, current, events, tags, goal, dev>>

\* arcan_video_copytransform, and transfertransform (move).
Copytransform(o, d, move) ==
  /\ Calls("copy") /\ o # d
  /\ chain' = [chain EXCEPT ![d] = chain[o], ![o] = IF move THEN <<>> ELSE @]
  /\ current' = [current EXCEPT ![d] = current[o]]
  /\ goal' = [goal EXCEPT ![d] = goal[o], ![o] = IF move THEN [a \in Attrs |-> Mid] ELSE @]
  /\ UNCHANGED <<c_ticks, cycle, events, tags, dev>>

\* rebase_transform: blend is not looked at.
rebase_transform(s, n) ==
  [k \in Cells(s) |->
     IF s[k]["rotate"].startt = 0 THEN s[k]
     ELSE [s[k] EXCEPT !["rotate"].startt = @ + n, !["rotate"].endt = @ + n]]

\* The context of the objects is pushed, the clock ticks on, and it is popped.
Away(n) ==
  /\ Calls("away") /\ c_ticks + n < WRAP /\ c_ticks' = c_ticks + n
  /\ chain' = [o \in cf.objects |-> rebase_transform(chain[o], n)]
  /\ UNCHANGED <<current, cycle, events, tags, goal, dev>>

Masks == SUBSET Attrs \ {{}}

Script ==
  \/ \E o \in cf.objects, a \in Attrs : Transform(o, a) \/ Immediate(o, a)
  \/ \E o \in cf.objects, mask \in Masks :
       Tagtransform(o, mask) \/ Zaptransform(o, mask)
       \/ \E method \in {"ALL", "LAST", "NONE"} : Instanttransform(o, mask, method)
  \/ \E o \in cf.objects : Transformcycle(o) \/ Linkobjs(o)
  \/ \E o, d \in cf.objects, move \in BOOLEAN : Copytransform(o, d, move)
  \/ \E n \in 1 .. 2 : Away(n)

Next == Tick \/ Script

Spec == Init /\ [][Next]_vars

-----------------------------------------------------------------------------
(* properties *)

Exact == dev = {}

\* By how much two numbers of ticks that are the same as floats may differ.
Rounding(t) == IF Gap(t) = 1 THEN 0 ELSE Gap(t)

\* The slots of an attribute in use come first, one ends where the next one
\* begins, the first one has begun, up to the rounding of the ticks that
\* lerp_fract takes as floats, and is not overdue: whatever is appended, zapped,
\* finished or copied, and for attributes that are rebased also after a time in
\* a context that was pushed (objectmove, compact_transformation).
OneAfterTheOther ==
  Exact => \A o \in cf.objects : \A a \in Attrs :
    LET s == chain[o]
        used == Pending(s, a)
    IN /\ \E n \in 0 .. Len(s) : used = 1 .. n
       /\ (a = "rotate" \/ "away" \notin cf.calls) =>
            \A k \in used : /\ k = 1 => /\ s[k][a].startt <= c_ticks + Rounding(s[k][a].startt)
                                       /\ c_ticks <= s[k][a].endt
                            /\ k > 1 => s[k][a].startt = s[k - 1][a].endt

\* An attribute with nothing left to do has the value that was asked for last.
GoalReached ==
  Exact => \A o \in cf.objects, a \in Attrs :
    Pending(chain[o], a) = {} /\ goal[o][a] # Mid => current[o][a] = goal[o][a]

TagsOf(s, a) == {s[k][a].tag : k \in Pending(s, a)} \ {0}

\* A tag is in one slot, and not in one any more when its event has been sent.
TagOnce ==
  Exact => \A o \in cf.objects, a \in Attrs :
    /\ \A j, k \in Pending(chain[o], a) :
         chain[o][j][a].tag # 0 /\ chain[o][j][a].tag = chain[o][k][a].tag => j = k
    /\ "copy" \notin cf.calls =>
         /\ \A i \in Cells(events[o]) : events[o][i][1] = a => events[o][i][2] \notin TagsOf(chain[o], a)
         /\ \A i, j \in Cells(events[o]) : events[o][i] = events[o][j] => i = j

\* A tag is answered once, and the clock loses none: one that leaves the chain
\* is answered in that tick (tagtransform, update_object, instanttransform).
TagsAnswered ==
  [][/\ TagOnce'
     /\ c_ticks' = c_ticks + 1 /\ ops' = ops =>
          \A o \in cf.objects, a \in Attrs : \A t \in TagsOf(chain[o], a) \ TagsOf(chain'[o], a) :
            <<a, t>> \in ToSet(events'[o])]_vars

Plan(s, a) == [k \in 1 .. Cardinality(Pending(s, a)) |-> <<s[k][a].to, s[k][a].endt - s[k][a].startt>>]

\* A cycled chain stays what it is: a tick leaves the transformations of an
\* attribute alone or makes the first one the last (update_object, FL_TCYCLE).
CycleKeeps ==
  [][c_ticks' = c_ticks + 1 /\ ops' = ops =>
       \A o \in cf.objects, a \in Attrs :
         LET before == Plan(chain[o], a)
         IN cycle[o] /\ before # <<>> =>
              Plan(chain'[o], a) \in {before, Append(Tail(before), Head(before))}]_vars
==============================================================================
