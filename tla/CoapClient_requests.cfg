CONSTANTS
  Task = {s, t}
  Peer = {p}
  Id = {1, 2}
  Kind = {"CON", "NON"}
  AnswerKind = {"ACK"}
  Behind = {Junk}
  MaxNum = 2
  MaxRetransmit = 2
  MaxRequests = 2
  MaxInits = 1
  NULL = NULL
  Junk = Junk
SPECIFICATION FairSpec
INVARIANTS  WaitIsWoken AnswersOwn
 
CHECK_DEADLOCK FALSE
