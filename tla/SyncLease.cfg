SPECIFICATION LeaseSpec
CONSTANTS
    Token = {a, b, c}
    NoToken = none
    TTL = 2
SYMMETRY Attempts
INVARIANT OwnerIsLatest
PROPERTIES FencedInOrder LiveLeaseNotStolen ImplementsFencedResource
\* every attempt is made once: when all of them ended, nothing is left to do
CHECK_DEADLOCK FALSE
