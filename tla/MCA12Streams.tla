---------------------------- MODULE MCA12Streams -----------------------------
(* Workloads of A12Streams for TLC. *)
EXTENDS A12Streams

B(ch, kind, size, ident) == [ch |-> ch, kind |-> kind, size |-> size, ident |-> ident]

Base == [blobs |-> <<>>, fails |-> FALSE, rejects |-> FALSE, frames |-> 0, parts |-> 1,
         raw |-> FALSE, drops |-> FALSE, block |-> 0, chat |-> 0, shutdown_id |-> 0]

\* Three transfers, two on the same channel; the sink may refuse and cancel.
Files == [Base EXCEPT !.blobs = <<B(0, "file", 2, 0), B(0, "mem", 2, 0), B(1, "file", 1, 0)>>,
                      !.rejects = TRUE]

\* A source that breaks, with others behind it on its channel.
Broken == [Base EXCEPT !.blobs = <<B(0, "file", 2, 0), B(0, "file", 2, 0), B(0, "mem", 1, 0)>>,
                       !.fails = TRUE, !.rejects = TRUE]

\* A pipe, which only a cancel ends, ahead of a file.
Pipe == [Base EXCEPT !.blobs = <<B(0, "pipe", 2, 0), B(1, "file", 2, 0)>>, !.rejects = TRUE]

\* A file that was cut short, and one that was emptied, ahead of a block.
Short == [Base EXCEPT !.blobs = <<B(0, "short", 2, 0), B(1, "short", 1, 0), B(0, "mem", 1, 0)>>, !.rejects = TRUE]

\* The source stops when its second transfer has arrived.
Last == [Base EXCEPT !.blobs = <<B(0, "file", 2, 0), B(0, "file", 2, 7)>>, !.rejects = TRUE, !.shutdown_id = 7]

\* A font that waits for the sink to catch up, ahead of a file.
Font == [Base EXCEPT !.blobs = <<B(0, "file", 1, 0), B(0, "font", 1, 0), B(0, "file", 1, 0)>>, !.chat = 2,
                     !.frames = 2]

\* Frames within the window, with a transfer between them; past the window;
\* frames of several packets, paced; frames the sink discards.
Within == [Base EXCEPT !.frames = 3, !.parts = 2, !.blobs = <<B(0, "file", 2, 0)>>, !.rejects = TRUE]
Past   == [Base EXCEPT !.frames = 6, !.raw = TRUE]
Paced  == [Base EXCEPT !.frames = 6, !.parts = 2, !.block = 2]
Drops  == [Base EXCEPT !.frames = 4, !.drops = TRUE, !.block = 2]
Alias  == [Base EXCEPT !.frames = 3, !.block = 2, !.blobs = <<B(0, "mem", 1, 2)>>]

Workloads == {Files, Broken, Pipe, Short, Last, Font, Within, Past, Paced, Drops, Alias}
==============================================================================
