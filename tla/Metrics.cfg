SPECIFICATION MetricSpec
CONSTANTS
    MetricDesigns <- MCMetricDesigns
    Users = {"a", "b", "c"}
INVARIANTS
    MetricsTrue
PROPERTIES
    MonotoneInEpoch
    MetricsProgress
