------------------------------- MODULE TafEcho -------------------------------
(***************************************************************************)
(* What the application flashes (TAF, UAF) promise: an echo over two lines.*)
(* A chunk that arrives joins the line it is for and leaves in the         *)
(* order of that line.  The lines share the output, and one that has begun *)
(* a segment keeps the output until the last chunk of the segment.         *)
(***************************************************************************)
EXTENDS Sequences

CONSTANTS
  Chunk,       \* the chunks, records with at least the field tlast
  Paths,       \* the lines
  LineOf(_)    \* the line of a chunk

VARIABLES
  in,          \* the chunks that wait at the input
  line,        \* line[p]: the chunks under way on line p
  open,        \* the line that owns the output, or "NONE"
  out          \* the chunks that wait at the output

vars == << in, line, open, out >>

Init ==
  /\ in = << >> /\ out = << >>
  /\ line = [p \in Paths |-> << >>]
  /\ open = "NONE"

Arrive(c) == in' = Append(in, c) /\ UNCHANGED << line, open, out >>

Leave == out # << >> /\ out' = Tail(out) /\ UNCHANGED << in, line, open >>

Join ==
  /\ in # << >>
  /\ in' = Tail(in)
  /\ line' = [line EXCEPT ![LineOf(Head(in))] = Append(@, Head(in))]
  /\ UNCHANGED << open, out >>

Open(p) == open = "NONE" /\ open' = p /\ UNCHANGED << in, line, out >>

Emit(p) ==
  /\ open = p
  /\ line[p] # << >>
  /\ out' = Append(out, Head(line[p]))
  /\ line' = [line EXCEPT ![p] = Tail(@)]
  /\ open' = IF Head(line[p]).tlast THEN "NONE" ELSE p
  /\ UNCHANGED in

Next ==
  \/ \E c \in Chunk : Arrive(c)
  \/ Join \/ Leave
  \/ \E p \in Paths : Open(p) \/ Emit(p)

Spec == Init /\ [][Next]_vars
=============================================================================
