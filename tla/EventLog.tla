------------------------------ MODULE EventLog ------------------------------
(***************************************************************************)
(* The event log of an experiment: a file of JSON lines, appended to by    *)
(* one process at a time and read by anyone.  A process that dies during   *)
(* an append leaves a tail without its newline: a fragment of an event, or *)
(* all of it.                                                              *)
(***************************************************************************)
EXTENDS Naturals, Sequences

\* A line or a tail that is no event, and no tail: the file is empty or ends in a newline.
Fragment == [text |-> "{"]
Empty == [text |-> ""]

VARIABLES lines,    \* the complete lines of the file
          tail,     \* what follows the last newline
          checked,  \* _tail_checked of the writing process
          emitted   \* the events that were written completely, kept for the properties

logVars == <<lines, tail, checked, emitted>>

LogInit == lines = << >> /\ tail = Empty /\ checked = FALSE /\ emitted = << >>

\* A process opens the log: it reads it and repairs nothing.
OpenLog == checked' = FALSE /\ UNCHANGED <<lines, tail, emitted>>

\* _terminate_torn_tail: once per process, at the first append, a tail becomes a line of its own.
LinesToAppendTo == IF tail # Empty /\ ~ checked THEN Append(lines, tail) ELSE lines

\* Faulty: emit does not care how the file ends.
EmitGlued(event) ==
  /\ lines' = Append(lines, IF tail = Empty THEN event ELSE Fragment)
  /\ tail' = Empty
  /\ checked' = TRUE
  /\ emitted' = Append(emitted, event)

\* emit: the line and its newline.
Emit(event) ==
  /\ lines' = Append(LinesToAppendTo, event)
  /\ tail' = Empty
  /\ checked' = TRUE
  /\ emitted' = Append(emitted, event)

\* The process dies in emit.
TearEmit(event) ==
  /\ lines' = LinesToAppendTo
  /\ tail' \in {Empty, Fragment, event}
  /\ emitted' = IF tail' = event THEN Append(emitted, event) ELSE emitted
  /\ checked' = FALSE

\* The loop that loads a file: a line that is no event is skipped.
ReadLine(events, line) == IF line \in {Fragment, Empty} THEN events ELSE Append(events, line)

\* The events among the first lines of a file.
Reading(file) ==
  LET upTo[n \in 0..Len(file)] == IF n = 0 THEN << >> ELSE ReadLine(upTo[n - 1], file[n])
  IN  upTo

EventsIn(file) == Reading(file)[Len(file)]

\* What a reader gets, a whole event without a newline included.
Readable == EventsIn(Append(lines, tail))

\* An event that was written completely is read by everyone from then on, in its place: a torn
\* append of a killed run costs neither an earlier event nor the next run's first one.
EventsSurvive == Readable = emitted
=============================================================================
