CONSTANTS
  batch = batch
  single = single
  f1 = f1
  f2 = f2
  f3 = f3
  w1 = w1
  w2 = w2
  t1 = t1
  t2 = t2
  seed = seed
  None = None
  Request = {batch, single}
  Flow = {f1, f2, f3}
  Worker = {w1, w2}
  AuditedIds = 1
  Batch <- MCBatch
  Heuristics <- MCHeuristics
  Hybrid <- MCHybrid
  Technique <- MCTechnique
  Register = {}
  Offer <- NoOffer
  Faults <- NoFaults
SPECIFICATION FairSpec
PROPERTIES
  EveryFlowScored
