SPECIFICATION Spec
CONSTANTS
  Transports = {t1, t2, t3}
  Addresses = {a1, a2}
  Senders = {s1}
  Owner = owner
  NoTransport = none
PROPERTY DuplicateIsRefused
CHECK_DEADLOCK FALSE
