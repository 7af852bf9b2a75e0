CONSTANTS
  gw = gw
  h1 = h1
  h2 = h2
  m1 = m1
  m2 = m2
  Hosts <- MCHosts
  Gateway = gw
  Announces <- MCAnnounces
  Broadcast = bc
  Nobody = nobody
  ARP_CACHE_SIZE = 2
  E1000_NUM_TX_DESC = 4
  MAX_QUERIES = 2
  MAX_IN_WINDOW = 1
SPECIFICATION Spec
SYMMETRY Alike
INVARIANTS TypeOK SentUnlessOverwritten CacheIsCurrent NoWaitInPoll PollSends AnswerBelongs
CHECK_DEADLOCK FALSE
