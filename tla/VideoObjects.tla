---------------------------- MODULE VideoObjects -----------------------------
(***************************************************************************)
(* The objects of the video engine and what ties them together: parents    *)
(* and children, the lists of the output and of rendertargets and who owns *)
(* a member, storage shared between objects and framesets, and the stack   *)
(* of contexts with the objects that persist through it.                   *)
(*                                                                         *)
(* Every operation is a function from a state of the engine to the next,   *)
(* as the code calls them from each other (a deletion cascades through     *)
(* children and rendertargets).  Pixels, coordinates and shaders are left  *)
(* out; a store is textured or not.  Slots of a children array are a set.  *)
(*                                                                         *)
(* Some sequences of legal calls leave the counters or lists wrong.  They  *)
(* are named where they happen (`dev'); a behaviour is not followed past   *)
(* one.                                                                    *)
(***************************************************************************)
EXTENDS Integers, Sequences, FiniteSets, SequencesExt, FiniteSetsExt

CONSTANTS MAXORD,     \* largest order value, 65535
          Configs     \* limits and the operations a script uses

\* lim     vitem_limit          rtlim   RENDERTARGET_LIMIT
\* ctxlim  CONTEXT_STACK_LIMIT  stores  bound: stores alive at once
\* zvs     order values scripts use    texs    whether objects have textures
\* masks   whether MASK_LIVING is set, as scripts use it
\* ops     operations the script uses
ASSUME ObjectsAssumption ==
  /\ MAXORD \in Nat
  /\ \A c \in Configs : /\ c.lim \in Nat /\ c.lim >= 3 /\ c.rtlim \in Nat /\ c.ctxlim \in Nat \ {0}
                        /\ c.stores \in Nat /\ c.zvs \subseteq Nat /\ c.texs \subseteq BOOLEAN
                        /\ c.masks \subseteq BOOLEAN
                        \* a default attachment, the output too, outlives its context
                        /\ c.rtlim > 0 \/ "default" \in c.ops => c.ctxlim = 1

VARIABLES cf,   \* the configuration, never changed
          v     \* the engine

vars == <<cf, v>>

Levels == 0 .. cf.ctxlim - 1
Ids    == 1 .. cf.lim - 1
Stores == 1 .. cf.stores
EID    == 0        \* ARCAN_EID

\* An object is known by the context it is in and by its id; id 0 is the
\* world of that context.
World(k) == <<k, 0>>
Objects  == Levels \X Ids

None == -1         \* no owner; 0 is the output, n is rtargets[n - 1]
Null == 0          \* no store

Free == [inuse |-> FALSE, prsist |-> FALSE, ordofs |-> FALSE, living |-> FALSE, order |-> 0,
         parent |-> World(0), children |-> {}, att |-> 0, links |-> 0, owner |-> None,
         vstore |-> Null, frames |-> <<>>]

Init ==
  /\ cf \in Configs
  /\ v = [pool |-> [x \in Objects |-> Free], out |-> [k \in Levels |-> <<>>], rts |-> <<>>,
          attachment |-> 0, nalive |-> [k \in Levels |-> 0], ofs |-> [k \in Levels |-> 1], lvl |-> 0,
          rc |-> [s \in Stores |-> 0], tex |-> [s \in Stores |-> FALSE], dev |-> {}]

\* arcan_video_getobject, for objects of the current context.
InUse(w) == {<<w.lvl, i>> : i \in {j \in Ids : w.pool[<<w.lvl, j>>].inuse}}

OrderOf(w, x) == IF x[2] = 0 THEN 0 ELSE w.pool[x].order

Deviates(w, what, cond) == IF cond THEN [w EXCEPT !.dev = @ \cup {what}] ELSE w

-----------------------------------------------------------------------------
(* storage *)

drop_vstore(w, s) == [w EXCEPT !.rc[s] = @ - 1, !.tex[s] = @ /\ w.rc[s] > 1]

FreeStores(w) == {s \in Stores : w.rc[s] = 0}

\* populate_vstore, as the store of x; the one numbered like x if it is free.
populate_vstore(w, x, tex) ==
  LET own == x[1] * (cf.lim - 1) + x[2]
      s == IF own \in FreeStores(w) THEN own ELSE Min(FreeStores(w))
  IN [w EXCEPT !.rc[s] = 1, !.tex[s] = tex, !.pool[x].vstore = s]

drop_frameset(w, x) ==
  [FoldLeft(drop_vstore, w, w.pool[x].frames) EXCEPT !.pool[x].frames = <<>>]

-----------------------------------------------------------------------------
(* the lists of the output and of rendertargets *)

List(w, t, k) == IF t = 0 THEN w.out[k] ELSE w.rts[t].list
SetList(w, t, k, s) == IF t = 0 THEN [w EXCEPT !.out[k] = s] ELSE [w EXCEPT !.rts[t].list = s]

findrt(w, x) == {t \in 1 .. Len(w.rts) : w.rts[t].color = x}

\* mutant: the rendertarget is not told
detach_fromtarget_Half(w, t, x) ==
  IF t = None \/ ~Contains(List(w, t, x[1]), x) THEN w
  ELSE [SetList(w, t, x[1], Remove(List(w, t, x[1]), x))
          EXCEPT !.pool[x].att = @ - 1, !.pool[x].owner = IF @ = t THEN None ELSE @]

detach_fromtarget(w, t, x) ==
  IF t = None \/ ~Contains(List(w, t, x[1]), x) THEN w
  ELSE LET w1 == [SetList(w, t, x[1], Remove(List(w, t, x[1]), x))
                    EXCEPT !.pool[x].att = @ - 1, !.pool[x].owner = IF @ = t THEN None ELSE @]
       IN IF t = 0 THEN w1 ELSE [w1 EXCEPT !.pool[w.rts[t].color].att = @ - 1]

\* mutant: in front of those of the same order, and of those just below
Place_Early(w, s, zv) == Min({i \in 1 .. Len(s) : w.pool[s[i]].order >= zv - 1} \cup {Len(s) + 1})

\* The place in a list for order zv: behind all that are not above it.
Place(w, s, zv) == Min({i \in 1 .. Len(s) : w.pool[s[i]].order > zv} \cup {Len(s) + 1})

attach_object(w, t, x) ==
  LET s == List(w, t, x[1])
      w1 == [SetList(w, t, x[1], InsertAt(s, Place(w, s, w.pool[x].order), x))
               EXCEPT !.pool[x].att = @ + 1, !.pool[x].owner = IF @ = None THEN t ELSE @]
  IN IF t = 0 THEN w1 ELSE [w1 EXCEPT !.pool[w.rts[t].color].att = @ + 1]

\* arcan_vint_attachobject: to the default attachment.
attachobject(w, x) ==
  LET t == w.attachment
  IN IF t = w.pool[x].owner THEN w
     ELSE attach_object(IF w.pool[x].att # 0 THEN detach_fromtarget(w, w.pool[x].owner, x) ELSE w, t, x)

Attached(w, x) == {t \in 0 .. Len(w.rts) : Contains(List(w, t, x[1]), x)}

-----------------------------------------------------------------------------
(* parents, children, order *)

addchild(w, p, c) ==
  [w EXCEPT !.pool[p].children = @ \cup {c}, !.pool[p].links = @ + 1, !.pool[c].parent = p]

dropchild(w, p, c) ==
  IF c \notin w.pool[p].children THEN w
  ELSE [w EXCEPT !.pool[p].children = @ \ {c}, !.pool[p].links = @ - 1,
                 !.pool[c].parent = World(w.lvl)]

Clamp(zv) == IF zv < 0 THEN 0 ELSE IF zv > MAXORD THEN MAXORD ELSE zv

RECURSIVE update_zv(_, _, _)
update_zv(w, x, zv) ==
  LET o  == w.pool[x].owner
      w1 == [detach_fromtarget(w, o, x) EXCEPT !.pool[x].order = Clamp(zv)]
      w2 == Deviates(attach_object(w1, o, x), "order", Cardinality(Attached(w, x)) > 1)
      child(c, acc) == update_zv(acc, c, Clamp(zv) + acc.pool[c].order - w.pool[x].order)
  IN IF o = None THEN w
     ELSE FoldSet(child, w2, {c \in w.pool[x].children : w.pool[c].ordofs})

\* mutant: cycles are only looked for one step up
Ancestors_Near(w, x) == IF x[2] = 0 THEN {} ELSE {w.pool[x].parent}

RECURSIVE Ancestors(_, _)
Ancestors(w, x) ==
  IF x[2] = 0 THEN {} ELSE {w.pool[x].parent} \cup Ancestors(w, w.pool[x].parent)

\* arcan_video_linkobjs; p is the world's id, 0, for the object itself too.
linkobjs(w, x, p, living) ==
  LET w1 == [w EXCEPT !.pool[x].living = living]
      w2 == IF w.pool[x].parent[2] = 0 THEN w1 ELSE dropchild(w1, w.pool[x].parent, x)
      w3 == IF p[2] = 0 THEN w2 ELSE addchild(w2, p, x)
  IN CASE x \in Ancestors(w, p) -> w
       [] x \notin Ancestors(w, p) /\ w.pool[x].parent = p -> w1
       [] OTHER -> IF w.pool[x].ordofs THEN update_zv(w3, x, OrderOf(w3, p)) ELSE w3

-----------------------------------------------------------------------------
(* deletion *)

\* A persistent object is only deleted in the context it comes from.
Pinned(w, x) ==
  w.lvl > 0 /\ w.pool[x].prsist /\ w.pool[<<w.lvl - 1, x[2]>>].prsist

\* drop_rtarget, up to the cascade: the members are told, the array of
\* rendertargets closes up.
Closed(w, t) ==
  LET x  == w.rts[t].color
      ms == ToSet(w.rts[t].list)
      later == {y \in InUse(w) : w.pool[y].owner > t}
  IN Deviates([w EXCEPT !.rts = RemoveAt(w.rts, t),
                        !.attachment = IF @ = t THEN 0 ELSE @,
                        !.pool = [y \in Objects |->
                                    IF y = x THEN [w.pool[y] EXCEPT !.att = @ - Cardinality(ms) - 1]
                                    ELSE IF y \in ms THEN [w.pool[y] EXCEPT !.att = @ - 1]
                                    ELSE w.pool[y]]],
              "moved", later # {} \/ w.attachment > t)

\* mutant: the children of a deleted object are let go, never deleted
Doomed_None(w, x) == {}

\* The children that go with their parent.
Doomed(w, x) == {c \in w.pool[x].children : w.pool[c].living}

\* The object itself: it lets go of its children, its store, its slot.
Erased(w, x) ==
  LET let_go(c, acc) == dropchild(acc, x, c)
      w1 == drop_vstore(FoldSet(let_go, w, w.pool[x].children), w.pool[x].vstore)
  IN [w1 EXCEPT !.pool[x] = Free, !.nalive[w.lvl] = @ - 1]

RECURSIVE deleteobject(_, _)
deleteobject(w, x) ==
  LET out == detach_fromtarget(w, 0, x)
      rt(acc, t) == IF acc.pool[x].att = 0 THEN acc ELSE detach_fromtarget(acc, t, x)
      w1 == FoldLeft(rt, out, [t \in 1 .. Len(w.rts) |-> t])
      w2 == IF w.pool[x].parent[2] = 0 THEN w1 ELSE dropchild(w1, w.pool[x].parent, x)
      \* the members of a rendertarget go with it, or to the output; those the
      \* output owns as well, which is never marked TGTFL_ALIVE
      sweep(t) ==
        LET member(acc, y) ==
              CASE ~acc.pool[y].inuse -> acc
                [] acc.pool[y].inuse /\ acc.pool[y].owner = None -> Deviates(acc, "ownerless", TRUE)
                [] acc.pool[y].inuse /\ acc.pool[y].owner \in {0, t} ->
                     LET mine == Deviates([acc EXCEPT !.pool[y].owner = None], "primary",
                                          acc.pool[y].owner = 0 /\ acc.pool[y].living)
                     IN IF acc.pool[y].living THEN deleteobject(mine, y)
                        ELSE Deviates(attach_object(mine, 0, y), "twice", Contains(acc.out[acc.lvl], y))
                [] OTHER -> acc
        IN FoldLeft(member, Closed(w2, t), w2.rts[t].list)
      w3 == IF findrt(w2, x) = {} THEN w2 ELSE sweep(Min(findrt(w2, x)))
      w4 == drop_frameset(w3, x)
      cascade(c, acc) == deleteobject(acc, c)
  IN IF ~w.pool[x].inuse \/ Pinned(w, x) THEN w
     ELSE FoldSet(cascade, Erased(w4, x), Doomed(w4, x))

-----------------------------------------------------------------------------
(* contexts *)

\* Ids that push_transfer_persists and pop_transfer_persists look at: the
\* last one is left out.
Transferred == [i \in 1 .. cf.lim - 2 |-> i]

push_transfer_persists(w) ==
  LET transfer(acc, i) ==
        LET src == <<acc.lvl - 1, i>>
            dst == <<acc.lvl, i>>
            w1 == detach_fromtarget(acc, acc.pool[src].owner, src)
            w2 == [w1 EXCEPT !.pool[dst] = [w1.pool[src] EXCEPT !.parent = World(acc.lvl)],
                             !.nalive[acc.lvl] = @ + 1]
        IN IF acc.pool[src].inuse /\ acc.pool[src].prsist THEN attach_object(w2, 0, dst) ELSE acc
  IN FoldLeft(transfer, w, Transferred)

\* mutant: an object that comes back stays without a list
pop_transfer_persists_Loose(w) ==
  LET transfer(acc, i) ==
        LET src == <<acc.lvl, i>>
            dst == <<acc.lvl - 1, i>>
            w1 == detach_fromtarget(acc, acc.pool[src].owner, src)
            w2 == [w1 EXCEPT !.pool[dst] = [w1.pool[src] EXCEPT !.parent = w1.pool[dst].parent],
                             !.pool[src] = Free, !.nalive[acc.lvl] = @ - 1]
            w3 == Deviates(w2, "persist", ~acc.pool[dst].prsist)
            w4 == Deviates(w3, "children", \E c \in acc.pool[src].children : c[1] = acc.lvl)
        IN IF acc.pool[src].inuse /\ acc.pool[src].prsist THEN w4 ELSE acc
  IN FoldLeft(transfer, w, Transferred)

\* An object comes back as it is now, but for its parent.  That it comes from
\* below is not looked at; children of the upper context stay with it.
pop_transfer_persists(w) ==
  LET transfer(acc, i) ==
        LET src == <<acc.lvl, i>>
            dst == <<acc.lvl - 1, i>>
            w1 == detach_fromtarget(acc, acc.pool[src].owner, src)
            w2 == [w1 EXCEPT !.pool[dst] = [w1.pool[src] EXCEPT !.parent = w1.pool[dst].parent],
                             !.pool[src] = Free, !.nalive[acc.lvl] = @ - 1]
            w3 == Deviates(w2, "persist", ~acc.pool[dst].prsist)
            w4 == Deviates(w3, "children", \E c \in acc.pool[src].children : c[1] = acc.lvl)
        IN IF acc.pool[src].inuse /\ acc.pool[src].prsist THEN attach_object(w4, 0, dst) ELSE acc
  IN FoldLeft(transfer, w, Transferred)

pushcontext(w) ==
  push_transfer_persists([w EXCEPT !.lvl = @ + 1, !.out[w.lvl + 1] = <<>>,
                                   !.ofs[w.lvl + 1] = 1, !.nalive[w.lvl + 1] = 0])

\* deallocate_gl_context(true): all that is left in the context is deleted.
deallocate(w) ==
  LET delete(acc, i) == deleteobject(acc, <<acc.lvl, i>>)
      w1 == FoldLeft(delete, w, [i \in 1 .. cf.lim - 1 |-> i])
  IN Deviates([w1 EXCEPT !.pool = [x \in Objects |-> IF x[1] = w.lvl THEN Free ELSE w1.pool[x]]],
              "persist", InUse(w1) # {})

popcontext(w) ==
  IF w.lvl = 0 THEN [deallocate(w) EXCEPT !.ofs[0] = 1]
  ELSE [deallocate(pop_transfer_persists(w)) EXCEPT !.lvl = @ - 1, !.ofs[w.lvl] = 1]

-----------------------------------------------------------------------------
(* allocation *)

\* The slots video_allocid looks at, in order.
Probes(w) ==
  LET fix(i) == IF i = 0 THEN 1 ELSE i
      probe[n \in 0 .. cf.lim - 1] ==
        IF n = 0 THEN fix(w.ofs[w.lvl]) ELSE fix((probe[n - 1] + 1) % (cf.lim - 1))
  IN probe

video_allocid(w) ==
  LET free == {n \in 0 .. cf.lim - 1 : ~w.pool[<<w.lvl, Probes(w)[n]>>].inuse}
  IN IF free = {} THEN EID ELSE Probes(w)[Min(free)]

\* new_vobject, then attachobject.
new_vobject(w, i, tex, zv) ==
  LET x == <<w.lvl, i>>
      w1 == [w EXCEPT !.pool[x] = [Free EXCEPT !.inuse = TRUE, !.parent = World(w.lvl),
                                               !.living = TRUE, !.order = zv],
                      !.nalive[w.lvl] = @ + 1,
                      !.ofs[w.lvl] = IF @ + 1 >= cf.lim THEN 1 ELSE i + 1]
  IN attachobject(populate_vstore(w1, x, tex), x)

-----------------------------------------------------------------------------
(* what a script may call *)

\* Operation op takes the engine to w.
Does(op, w) == op \in cf.ops /\ v.dev = {} /\ v' = w /\ UNCHANGED cf

\* arcan_video_solidcolor, arcan_video_nullobject (no texture), rawobject.
New ==
  \E tex \in cf.texs, zv \in cf.zvs :
    /\ video_allocid(v) # EID /\ FreeStores(v) # {}
    /\ Does("new", new_vobject(v, video_allocid(v), tex, zv))

Delete == \E x \in InUse(v) : Does("delete", deleteobject(v, x))

Link == \E x \in InUse(v), p \in InUse(v) \cup {World(v.lvl)}, living \in cf.masks :
  Does("link", linkobjs(v, x, IF x = p THEN World(v.lvl) ELSE p, living))

Transformmask == \E x \in InUse(v), living \in cf.masks :
  Does("mask", [v EXCEPT !.pool[x].living = living])

Setzv == \E x \in InUse(v), zv \in cf.zvs :
  Does("order", update_zv(v, x, IF v.pool[x].ordofs THEN zv + OrderOf(v, v.pool[x].parent) ELSE zv))

Inheritorder == \E x \in InUse(v), val \in BOOLEAN :
  Does("order", update_zv([v EXCEPT !.pool[x].ordofs = val], x, OrderOf(v, v.pool[x].parent)))

\* mutant: the destination takes the store over without counting itself
shareglstore_Uncounted(w, x, y) ==
  IF FreeStores(w) = {} THEN w ELSE [drop_vstore(w, w.pool[y].vstore) EXCEPT !.pool[y].vstore = w.pool[x].vstore]

\* arcan_video_shareglstore from x to y.  A store that cannot be shared is
\* replaced by an empty one, except that of a rendertarget, which is left
\* alone after it has been dropped.
shareglstore(w, x, y) ==
  LET s  == w.pool[x].vstore
      w1 == drop_vstore(w, w.pool[y].vstore)
      broken == ~w.tex[s] \/ w.pool[x].prsist \/ w.pool[y].prsist
  IN CASE broken /\ findrt(w, y) # {} -> Deviates(w1, "store", TRUE)
       [] broken /\ findrt(w, y) = {} -> populate_vstore(w1, y, FALSE)
       [] OTHER -> [w1 EXCEPT !.pool[y].vstore = s, !.rc[s] = @ + 1]

Share == \E x \in InUse(v), y \in InUse(v) :
  x # y /\ FreeStores(v) # {} /\ Does("share", shareglstore(v, x, y))

\* arcan_video_allocframes: a frameset that grows forgets the frames it had.
allocframes(w, x, capacity) ==
  LET s == w.pool[x].vstore
  IN IF capacity <= 1 THEN drop_frameset(w, x)
     ELSE Deviates([w EXCEPT !.pool[x].frames = [i \in 1 .. capacity |-> s], !.rc[s] = @ + capacity],
                   "frames", w.pool[x].frames # <<>>)

Allocframes == \E x \in InUse(v), capacity \in 1 .. 2 :
  /\ v.tex[v.pool[x].vstore] /\ ~v.pool[x].prsist
  /\ capacity > 1 => Len(v.pool[x].frames) <= capacity
  /\ Does("frames", allocframes(v, x, capacity))

\* arcan_video_setasframe: a frame set again to the same store is counted
\* again.
Setasframe == \E y \in InUse(v), x \in InUse(v) : \E fid \in 1 .. Len(v.pool[y].frames) :
  LET s == v.pool[x].vstore
      old == v.pool[y].frames[fid]
      w1 == IF old = s THEN Deviates(v, "frames", TRUE) ELSE drop_vstore(v, old)
  IN v.tex[s] /\ Does("frames", [w1 EXCEPT !.pool[y].frames[fid] = s, !.rc[s] = @ + 1])

Setuprendertarget == \E x \in InUse(v) :
  /\ findrt(v, x) = {} /\ Len(v.rts) < cf.rtlim
  /\ Does("setup", [v EXCEPT !.rts = Append(@, [color |-> x, list |-> <<>>]), !.pool[x].att = @ + 1])

\* arcan_video_attachtorendertarget, to the output if t is 0.
attachtorendertarget(w, t, x, detach) ==
  LET w1 == IF detach THEN detach_fromtarget(w, w.pool[x].owner, x) ELSE w
  IN attach_object(detach_fromtarget(w1, t, x), t, x)

Attachtorendertarget == \E t \in 0 .. Len(v.rts), x \in InUse(v), detach \in BOOLEAN :
  /\ t > 0 => v.rts[t].color # x /\ ~v.pool[v.rts[t].color].prsist
  /\ ~v.pool[x].prsist
  /\ Does("targets", attachtorendertarget(v, t, x, detach))

\* An object that the output owns is taken off the output, whatever the
\* rendertarget named; any other is taken off a rendertarget not its owner.
Detachfromrendertarget == \E t \in 0 .. Len(v.rts), x \in InUse(v) :
  Does("targets", IF v.pool[x].owner = 0 THEN detach_fromtarget(v, 0, x)
                  ELSE IF t > 0 /\ v.pool[x].owner # t THEN detach_fromtarget(v, t, x) ELSE v)

Defaultattachment == \E t \in 0 .. Len(v.rts) : Does("default", [v EXCEPT !.attachment = t])

Persistobject == \E x \in InUse(v) :
  /\ v.pool[x].frames = <<>> /\ v.rc[v.pool[x].vstore] = 1 /\ v.pool[x].parent = World(v.lvl)
  /\ Does("contexts", [v EXCEPT !.pool[x].prsist = TRUE])

Pushcontext == v.lvl + 1 < cf.ctxlim /\ Does("contexts", pushcontext(v))
Popcontext == Does("contexts", popcontext(v))

Next ==
  \/ New \/ Delete \/ Link \/ Transformmask \/ Setzv \/ Inheritorder
  \/ Share \/ Allocframes \/ Setasframe
  \/ Setuprendertarget \/ Attachtorendertarget \/ Detachfromrendertarget \/ Defaultattachment
  \/ Persistobject \/ Pushcontext \/ Popcontext

Spec == Init /\ [][Next]_vars

-----------------------------------------------------------------------------
(* properties *)

Here(k) == {x \in Objects : x[1] = k /\ v.pool[x].inuse}
Live == UNION {Here(k) : k \in 0 .. v.lvl}

\* A persistent object that has gone on to the context above.
Shadow(x) == x[1] < v.lvl /\ v.pool[x].prsist /\ x[2] < cf.lim - 1

Exact == v.dev = {}

\* The counters an object is deleted by are what they count: the lists it is
\* in, the members it has as a rendertarget and its being one; its children.
\* deleteobject warns "[BUG] Broken reference counters" when they are not.
\* nalive counts the slots in use, and no id is refused while there is a free
\* one, other than the last of the pool, which the search does not come back to
\* (video_allocid).
CountersExact ==
  /\ Exact => \A k \in 0 .. v.lvl : v.nalive[k] = Cardinality(Here(k))
  /\ video_allocid(v) = EID => \A i \in 1 .. cf.lim - 2 : v.pool[<<v.lvl, i>>].inuse
  /\ Exact => \A x \in Live \ {y \in Live : Shadow(y)} :
       /\ v.pool[x].links = Cardinality(v.pool[x].children)
       /\ v.pool[x].att = Cardinality(Attached(v, x)) +
                          (IF findrt(v, x) = {} THEN 0 ELSE 1 + Len(v.rts[Min(findrt(v, x))].list))

\* A store has as many references as objects and frames use it: none is freed
\* in use, and none stays when its last user is gone (arcan_vint_drop_vstore).
StoresExact ==
  LET uses(s, x) == (IF v.pool[x].vstore = s THEN 1 ELSE 0) +
                    Cardinality({i \in 1 .. Len(v.pool[x].frames) : v.pool[x].frames[i] = s})
      users == {x \in Live : ~Shadow(x)}
  IN Exact => \A s \in Stores : v.rc[s] = FoldSet(LAMBDA x, n : n + uses(s, x), 0, users)

\* Parents and children agree, and nobody is their own ancestor, through
\* cascades and contexts (linkobjs, dropchild, deleteobject).
FamilyTree ==
  LET up[n \in Nat, x \in Objects] ==
        IF v.pool[x].parent[2] = 0 THEN TRUE ELSE n > 0 /\ up[n - 1, v.pool[x].parent]
  IN Exact => \A x \in Live :
       /\ ~Shadow(x) => \A c \in v.pool[x].children : v.pool[c].inuse /\ v.pool[c].parent[2] = x[2]
       /\ v.pool[x].parent[2] # 0 => v.pool[x].parent \in Live /\ x \in v.pool[v.pool[x].parent].children
       /\ up[cf.lim, x]

\* Only objects in use are in a list, once, in drawing order, and an object
\* that has an owner is in its list: what is drawn, by whom and over what
\* (attach_object, detach_fromtarget, update_zv).
ListsExact ==
  Exact =>
    /\ \A t \in 0 .. Len(v.rts), k \in 0 .. v.lvl :
         LET s == List(v, t, k)
         IN /\ IsInjective(s) /\ \A i \in 1 .. Len(s) : v.pool[s[i]].inuse /\ ~Shadow(s[i])
            /\ \A i, j \in 1 .. Len(s) : i < j => v.pool[s[i]].order <= v.pool[s[j]].order
    /\ \A x \in Live : ~Shadow(x) /\ v.pool[x].owner # None => v.pool[x].owner \in Attached(v, x)

\* An object that persists is there in every context above the one it was
\* made in, the last id of the pool excepted, and it is drawn in the context
\* on top, after any pushes and pops, unless a script takes it off.
Persists ==
  Exact => \A x \in Live :
    /\ Shadow(x) => LET up == <<x[1] + 1, x[2]>> IN v.pool[up].inuse /\ v.pool[up].prsist
    /\ x \in InUse(v) /\ v.pool[x].prsist /\ "targets" \notin cf.ops => 0 \in Attached(v, x)

\* What goes when an object goes: its children that are masked as living and
\* the members a rendertarget owns, at any depth, and nothing else.  A member
\* the output owns goes too (dev "primary"), against what rendertarget_attach
\* says of a primary connection; that deletion is left out.
Cascade ==
  LET gone(x) == v.pool[x].inuse /\ ~v'.pool[x].inuse
      heir(x, y) == \/ v.pool[y].parent = x
                    \/ \E t \in findrt(v, x) : Contains(v.rts[t].list, y) /\ v.pool[y].owner = t
      gones == {x \in InUse(v) : gone(x)}
  IN v'.lvl = v.lvl /\ v'.dev = {} /\ gones # {} =>
       /\ \A x \in gones : \A y \in InUse(v) :
            heir(x, y) /\ v.pool[y].living /\ ~Pinned(v, y) => y \in gones
       /\ Popcontext \/ Cardinality({y \in gones : ~\E x \in gones : heir(x, y) /\ v.pool[y].living}) <= 1

CascadeExact == [][Cascade]_vars
==============================================================================
