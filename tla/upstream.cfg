\* Two requests, one without any limit and over https, one limited by its
\* upstream alone, and one pooled object of timings.
CONSTANTS
  r1 = r1
  r2 = r2
  o1 = o1
  Requests = {r1, r2}
  Objects = {o1}
  NoOne = NoOne
  Https = {r1}
  ServiceTimeout <- MCServiceTimeout
  UpstreamTimeout <- MCUpstreamTimeout
  Answers <- MCAnswers
  Route <- MCRoute
SPECIFICATION FairSpec
INVARIANTS
  OwnTimings
  CountedOnce
PROPERTIES
  AnswerMatchesRecord
  Answered
