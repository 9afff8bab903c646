\* parseip against the reference grammar of numeric names.
CONSTANTS
  Names <- MCNames
  Undef = Undef
  Fail = Fail
  DNS = DNS
SPECIFICATION Spec
INVARIANT ParseIPAgrees
