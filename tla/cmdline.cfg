SPECIFICATION Spec
CONSTANTS
  Words = {"word", "7", "5s", "a:b:c"}
  Lists = {"word"}
  Numbers = {"7"}
  Intervals = {"5s"}
  NoHosts = {"a:b:c"}
  Typed = {"get", "post", "start", "ping", "set", "connect", "--version", "-i", "--include", "-d", "--dump", "-t", "-h", "-c", "word", "7", "a:b:c"}
  MaxLength = 5
INVARIANTS ReadsLeftToRight OptionMayComeFirst
CHECK_DEADLOCK FALSE
