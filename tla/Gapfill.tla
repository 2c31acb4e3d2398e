------------------------------- MODULE Gapfill -------------------------------
(* The aggregate prom_delta of the database extension: GapfillDeltaTransition *)
(* of extension/src/lib.rs, for delta.  It sees the points of a series in     *)
(* the order of their times and makes one element per window.                *)
EXTENDS PromVectors

LOCAL INSTANCE SequencesExt

(* The arguments of the aggregate. *)
Window(lowest, greatest, step, range) ==
    [lowest |-> lowest, greatest |-> greatest, step |-> step, range |-> range]

(* new *)
NewTransition(w) == [window |-> <<>>, deltas |-> <<>>, min |-> w.lowest, max |-> w.lowest + w.range]

(* A window with fewer than two points gives no element. *)
add_delta_for_current_window(s) ==
    LET r == extrapolatedRate(s.window, s.min, s.max, FALSE)
    IN  IF Len(s.window) < 2 THEN Null ELSE r.v

(* The window moves on by a step and forgets what is before it. *)
flush_current_window(w, s) ==
    LET min == s.min + w.step IN
    [window |-> SelectSeq(s.window, LAMBDA p : p.t >= min),
     deltas |-> Append(s.deltas, add_delta_for_current_window(s)),
     min |-> min, max |-> s.max + w.step]

RECURSIVE FlushUntil(_, _, _)
FlushUntil(w, s, time) ==
    IF time <= s.max THEN s ELSE FlushUntil(w, flush_current_window(w, s), time)

(* Stale markers are skipped; windows before the point are flushed, and the  *)
(* point may lie between windows.                                            *)
add_data_point(w, s, p) ==
    LET AddTo(flushed) ==
            IF p.t >= flushed.min THEN [flushed EXCEPT !.window = Append(@, p)] ELSE flushed
    IN  IF p.v = Stale THEN s ELSE AddTo(FlushUntil(w, s, p.t))

to_pg_array(w, s) == FlushUntil(w, s, w.greatest + 1).deltas

(* prom_delta over the points of a series: an error if one lies outside. *)
prom_delta(w, pts) ==
    [err |-> \E i \in DOMAIN pts : pts[i].t < w.lowest \/ pts[i].t > w.greatest,
     array |-> to_pg_array(w, FoldLeft(LAMBDA s, p : add_data_point(w, s, p), NewTransition(w), pts))]
=============================================================================
