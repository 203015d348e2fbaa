\* Sixteen command lines, six configurations, five environments; two hosts, three origins.
CONSTANTS
  a1 = a1
  a2 = a2
  NoWord = NoWord
  NotANumber = NotANumber
  NoHost = NoHost
  NoAttempt = NoAttempt
  NumberOf <- MCNumberOf
  IntOf <- MCIntOf
  PathOf <- MCPathOf
  AddressOf <- MCAddressOf
  DomainOf <- MCDomainOf
  ConfigWords <- MCConfigWords
  Numeral = {"8080"}
  OriginOf <- MCOriginOf
  HashOf <- MCHashOf
  Invocation <- MCInvocation
  NoInvocation = NoInvocation
  Host <- MCHost
  Origin <- MCOrigin
  Password = {"one", "two", ""}
  Slot = {a1, a2}
  MinuteTokens = 1
  HourTokens = 1
SPECIFICATION Spec
SYMMETRY MCSymmetry
INVARIANT AddressPrecedence
INVARIANT EarnedAccess
INVARIANT OriginDecides
INVARIANT LogoutLocksOut
PROPERTY LoginLetsIn
PROPERTY FailureCosts
CHECK_DEADLOCK FALSE
