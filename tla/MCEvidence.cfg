SPECIFICATION LiveSpec
CONSTANTS
  run = run
  rerun = rerun
  selection = selection
  dud = dud
  freeze = freeze
  evaluation = evaluation
  b1 = b1
  b2 = b2
  p1 = p1
  p2 = p2
  Absent = Absent
  Torn = Torn
  Artifact = {run, dud, selection}
  Kind <- ChainKind
  Needs <- ChainNeeds
  Unfitted = {dud}
  Body = {b1, b2}
  Publisher = {p1, p2}
  Crashes = {"making", "writing", "opening", "filling", "verifying", "promoting", "indexing"}
  Exclusive = TRUE

INVARIANTS
  PublishedWhole
  PublishHonest
  EvidenceChain
PROPERTY
  RecoveryIndexes
