SPECIFICATION HandshakeSpec
CONSTANTS
  Threads = {t1, t2, t3}
  Handlers = {h1, h2, h3, h4}
  NoThread = NoThread
  NoHandler = NoHandler
  SpuriousThreads = {t3}
INVARIANTS
  HandshakeInv
PROPERTIES
  CallbackReturns
  AbstractSpec
