----------------------------- MODULE MCMetrics ------------------------------
(***************************************************************************)
(* Small catalogs of metrics: two threads and an interrupt on one counter, *)
(* a gauge or a reducer, resets, overflows, an exporter with short pages,  *)
(* and a system that is stopped while they are used.                       *)
(***************************************************************************)
EXTENDS Metrics

Nothing == [u \in Users |-> {}]
Never == [u \in Users |-> 0]
Op(verb, arg) == [verb |-> verb, m |-> 1, arg |-> arg, noWait |-> FALSE]
Try(op) == [op EXCEPT !.noWait = TRUE]
Of(m, op) == [op EXCEPT !.m = m]
Export == Op("export", 0)

Counter ==
    [backend |-> "atomic", instrument |-> "counter", overflow |-> "saturate", lowest |-> 0,
     highest |-> 3, size |-> 0, boundaries |-> <<>>, ratio |-> <<1, 2>>]
Locked(instrument) == [Counter EXCEPT !.backend = "locked", !.instrument = instrument]

Design(metrics, a, b, na, nb) ==
    [metrics |-> metrics, ops |-> [Nothing EXCEPT !["a"] = a, !["b"] = b],
     calls |-> [Never EXCEPT !["a"] = na, !["b"] = nb], page |-> 1, stops |-> FALSE]

(* Additions meet: one must not undo the other, at the limit or before     *)
Adds(overflow) ==
    Design(<<[Counter EXCEPT !.overflow = overflow]>>, {Op("add", 2)},
           {Op("add", 1), Op("add", 2), Op("add", 0), Op("get", 0)}, 2, 2)
(* A reader between the writes of one thread, and of two                   *)
Reread == Design(<<Counter>>, {Op("add", 1), Op("reset", 0)}, {Op("get", 0), Try(Op("get", 0))}, 3, 1)
Between == [Design(<<Counter>>, {Op("add", 1)}, {Op("add", 2), Op("reset", 0)}, 1, 1) EXCEPT
               !.ops["c"] = {Op("get", 0)}, !.calls["c"] = 1]
GaugeReads ==
    Design(<<[Counter EXCEPT !.instrument = "gauge"]>>, {Op("set", 1), Op("set", 2), Op("set", 9)},
           {Op("get", 0), Op("set", 3), Op("reject", 0)}, 2, 2)
Resets == Design(<<Counter>>, {Op("add", 1)}, {Op("reset", 0), Op("get", 0)}, 2, 2)

(* A locked metric: waiting, trying, overflowing                           *)
Tries == Design(<<[Locked("counter") EXCEPT !.overflow = "wrap"]>>,
                {Op("add", 2), Op("reset", 0), Op("get", 0), Op("reject", 0)},
                {Try(Op("add", 1)), Try(Op("get", 0)), Op("add", 0)}, 2, 3)
LockedGauge == Design(<<Locked("gauge")>>, {Op("set", 1), Op("set", 9)}, {Try(Op("get", 0))}, 2, 1)

(* One user, many observations                                             *)
Observing(metric, n) ==
    Design(<<metric>>, {Op("observe", v) : v \in (metric.lowest..metric.highest)}, {}, n, 0)
Small(instrument, overflow) ==
    [Locked(instrument) EXCEPT !.overflow = overflow, !.size = 2, !.boundaries = <<0, 2>>]
Signed(instrument, overflow) == [Small(instrument, overflow) EXCEPT !.lowest = -2, !.highest = 1]
Observations ==
    {Observing(Small(i, "saturate"), 3) : i \in Reducers \ {"window"}}
        \cup {Observing(Small("window", o), 4) : o \in {"reject", "saturate", "wrap"}}
        \cup {Observing(Signed("summary", o), 3) : o \in {"reject", "saturate", "wrap"}}

(* An exporter with pages of one, two or four records                      *)
Exported(metrics, page) ==
    [Design(metrics, {Export}, {Op("reset", 0), Of(2, Op("reset", 0))}, 0, 2) EXCEPT !.page = page]
Exports ==
    {Exported(<<Counter, Small("window", "saturate")>>, page) : page \in {1, 2, 4}}
        \cup {Exported(<<Small("last", "saturate"), Small("histogram", "saturate")>>, 2)}

Stopped == [Design(<<Locked("counter"), Counter>>, {Op("add", 1), Of(2, Op("add", 1))},
                   {Op("get", 0), Of(2, Op("reset", 0))}, 1, 2) EXCEPT !.stops = TRUE]

MCMetricDesigns ==
    {Adds(o) : o \in {"reject", "saturate", "wrap"}}
        \cup {Reread, Between, GaugeReads, Resets, Tries, LockedGauge, Stopped}
        \cup Observations \cup Exports
=============================================================================
