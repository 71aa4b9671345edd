CONSTANTS
  api = api
  cli = cli
  d1 = d1
  d2 = d2
  d3 = d3
  batch = batch
  again = again
  followup = followup
  apart = apart
  Processes = {api, cli}
  Cases = {d1, d2, d3}
  Calls = {batch, again, followup, apart}
  Job <- MCJob
  Waiting = {d3}
  Configured = "configured"
  Attempts = 2
  MaxResets = 1
SPECIFICATION Spec
INVARIANTS
  RunsAreIsolated
PROPERTIES
  EveryCallReturns
CHECK_DEADLOCK FALSE
