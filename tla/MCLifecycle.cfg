SPECIFICATION FairSpec
CONSTANTS
  Handlers = {h1, h2}
PROPERTY StopsAfterSignal
