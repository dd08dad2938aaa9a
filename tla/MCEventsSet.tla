---------------------------- MODULE MCEventsSet ----------------------------
(* Small instances of EventsSet for TLC. *)
EXTENDS EventsSet

(* Two jobs that wait for dates, and a stream. *)
DateJobs == <<"early", "late", "stream">>
(* All kinds together: two dates, one of them periodic, a timeout, a stream. *)
AllJobs == <<"early", "seldom", "out", "stream">>

Kinds ==
  [j \in Names |-> CASE j \in {"early", "late"} -> "date"
                     [] j \in {"often", "seldom"} -> "periodic"
                     [] j = "out" -> "timeout"
                     [] OTHER -> "stream"]
Periods == [j \in Names |-> IF j \in {"late", "seldom"} THEN 3 ELSE 2]
=============================================================================
