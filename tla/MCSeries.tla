------------------------------- MODULE MCSeries -------------------------------
(* Half seconds, buckets of two seconds, and a clock that steps back.       *)
EXTENDS SeriesHistory

Steps == {-3, 2, 3}
=============================================================================
