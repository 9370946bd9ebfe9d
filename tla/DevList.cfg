SPECIFICATION ListSpec
CONSTANTS
  n1 = n1
  n2 = n2
  n3 = n3
  n4 = n4
  c1 = c1
  v1 = v1
  v2 = v2
  v3 = v3
  None = None
  Names <- MCNames
  Conns <- MCConns
  Drivers <- MCDrivers
  Hash <- MCHash
  Buckets <- MCBuckets
  DevicesOf <- MCDevicesOf
  Capacity = 3
  MaxDrivers = 2
INVARIANT
  TableSound
  NoneMissing
PROPERTY
  ImplementsRegistry
