SPECIFICATION Spec
CONSTANTS
  Calls = {c1, c2}
  Keeper = Keeper
  Verdicts = {"ok"}
  NoCall = NoCall
  MaxPings = 1
  MaxReplies = 2
SYMMETRY Symmetry
INVARIANTS TypeOK OwnReply ReaderNeverStuck NoLostReply ReturnedNotPending
PROPERTIES RefinesRequestReply
CHECK_DEADLOCK FALSE
