\* Two plain chats, a stream and a topology request, under a fair executor;
\* args.prompt is echoed.
SPECIFICATION FairSpec
CONSTANTS
  p = p
  q = q
  s = s
  t = t
  None = None
  Requests = {p, q, s, t}
  Kind <- KindOf
  Turns <- TurnsOf
  SampleLen = 2
  Echo = TRUE
INVARIANTS
  TypeOK
  DialogOwned
  AnswerExact
  QueueExact
PROPERTIES
  Answered
CHECK_DEADLOCK FALSE
