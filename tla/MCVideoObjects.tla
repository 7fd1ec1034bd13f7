--------------------------- MODULE MCVideoObjects ----------------------------
(* Limits and scripts of VideoObjects for TLC. *)
EXTENDS VideoObjects

Base == [lim |-> 4, rtlim |-> 0, ctxlim |-> 1, stores |-> 3, zvs |-> {1}, texs |-> {FALSE}, masks |-> BOOLEAN,
         ops |-> {"new", "delete"}]

\* Families: links, masks and orders that are inherited.
Families == [Base EXCEPT !.ops = @ \cup {"link"}]
Orders   == [Base EXCEPT !.masks = {TRUE}, !.ops = @ \cup {"link", "order"}]

\* Rendertargets: members with one or more of them, owned or not.
Target  == [Base EXCEPT !.rtlim = 1, !.ops = @ \cup {"setup", "targets", "default", "mask"}]
Layers  == [Base EXCEPT !.rtlim = 1, !.lim = 3, !.ops = @ \cup {"setup", "targets", "order"}]
Targets == [Base EXCEPT !.rtlim = 2, !.ops = @ \cup {"setup", "targets"}]

\* Stores that are shared, also by framesets and rendertargets.
Sharing == [Base EXCEPT !.texs = BOOLEAN, !.ops = @ \cup {"share"}, !.stores = 4]
Framesets == [Base EXCEPT !.lim = 3, !.texs = BOOLEAN, !.rtlim = 1, !.stores = 6,
                          !.ops = @ \cup {"share", "frames", "setup"}]

\* Contexts, with objects that persist, and their children.
Contexts == [Base EXCEPT !.ctxlim = 2, !.stores = 6, !.ops = @ \cup {"contexts"}]
Kin == [Base EXCEPT !.lim = 3, !.ctxlim = 2, !.stores = 6, !.ops = @ \cup {"contexts", "link"}]

Scripts == {Families, Orders, Target, Layers, Targets, Sharing, Framesets, Contexts, Kin}
==============================================================================
