CONSTANT KEY_LENGTH_BITS = 4
SPECIFICATION Spec
INVARIANTS
  DistanceIsXorMetric
  BucketIsDistanceScale
  OwnBucketIsCloser
  RefreshHitsItsBucket
