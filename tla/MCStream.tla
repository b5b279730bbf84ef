------------------------------- MODULE MCStream -------------------------------
(* Threads g and h that use streams s and t with events e and f. *)
EXTENDS OpenRegStream

Two(ofG, ofH) == [k \in {"g", "h"} |-> IF k = "g" THEN ofG ELSE ofH]

\* example/example.cpp: jobs on one stream, between two events, and a copy on the other
Example ==
  StreamCreate("s") \o StreamCreate("t")
  \o Launch("s", "a") \o EventRecord("e", "s") \o Launch("s", "b") \o EventRecord("f", "s")
  \o StreamWaitEvent("t", "f") \o Launch("t", "c") \o StreamSynchronize("g", "t")
  \o StreamDestroy("s") \o StreamDestroy("t")

\* Two streams that wait for each other's events, and a synchronization of the device
Crossed ==
  Two(Launch("s", "a") \o EventRecord("e", "s") \o StreamWaitEvent("s", "f") \o Launch("s", "c")
      \o DeviceSynchronize,
      StreamWaitEvent("t", "e") \o Launch("t", "b") \o EventRecord("f", "t")
      \o EventSynchronize("f"))

\* An event that is recorded again after the first record is over
Again ==
  Two(StreamSynchronize("g", "s") \o Launch("s", "d"),
      Launch("s", "a") \o EventRecord("e", "s") \o EventSynchronize("e")
      \o Launch("s", "b") \o EventRecord("e", "s") \o StreamWaitEvent("t", "e")
      \o Launch("t", "c") \o StreamSynchronize("h", "t"))

\* A stream is destroyed with work in its queue; the device is synchronized afterwards.
Early ==
  Two(Launch("t", "a") \o StreamSynchronize("g", "t"),
      StreamCreate("s") \o Launch("s", "b") \o Launch("s", "c") \o StreamDestroy("s")
      \o Launch("t", "d") \o DeviceSynchronize)

MCPrograms == {Two(Example, <<>>), Crossed, Again, Early}
ASSUME Disciplined == StreamDiscipline /\ EventDiscipline /\ LaunchDiscipline
ExampleOnly == {Two(Example, <<>>)}
===============================================================================
