----------------------------- MODULE GstPipeline -----------------------------
(***************************************************************************)
(* A GStreamer pipeline, its bus, and the GLib main loop that hands the    *)
(* bus's messages to bus_call.  The library is external; the callback is   *)
(* the camera programs' own.  The bus keeps the messages posted before     *)
(* anybody watches it, and forgets them when the pipeline is stopped.      *)
(***************************************************************************)
EXTENDS Integers, Sequences

CONSTANT BusCap   \* bound on the messages waiting on the bus

ASSUME BusAssumption == BusCap \in Nat \ {0}

Messages == {"eos", "error", "other"}
StopMessages == {"eos", "error"}

VARIABLES
  pipeline,   \* "none", "null" (built), "playing", "stopped" or "freed"
  bus,        \* messages posted and not yet dispatched
  quit        \* whether the main loop has been told to return

gstVars == <<pipeline, bus, quit>>

GstInit == pipeline = "none" /\ bus = << >> /\ quit = FALSE

\* GStreamer's own threads, while they run.
Post(m) ==
  /\ pipeline = "playing"
  /\ Len(bus) < BusCap
  /\ bus' = Append(bus, m)
  /\ UNCHANGED <<pipeline, quit>>

\* Mutant: the end of the stream is not a reason to stop.
bus_call_ErrorOnly(m) == quit' = (quit \/ m = "error")

bus_call(m) == quit' = (quit \/ m \in StopMessages)

Dispatch ==
  /\ ~quit
  /\ bus # << >>
  /\ bus_call(Head(bus))
  /\ bus' = Tail(bus)
  /\ UNCHANGED pipeline

GstTypeOK ==
  /\ pipeline \in {"none", "null", "playing", "stopped", "freed"}
  /\ bus \in Seq(Messages)
  /\ quit \in BOOLEAN

=============================================================================
