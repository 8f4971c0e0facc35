------------------------ MODULE MCTelemetryProcessor ------------------------
(* Instances of TelemetryProcessor for TLC. *)
EXTENDS TelemetryProcessor

\* Two copies of one matching event around a tampered and an unparsable record.
MixedEvents == <<1, 2, 1, 3>>
MixedKinds == <<"good", "tampered", "good", "unparsable">>

\* Two matching events, the first twice.
GoodEvents == <<1, 2, 1>>
GoodKinds == <<"good", "good", "good">>
=============================================================================
