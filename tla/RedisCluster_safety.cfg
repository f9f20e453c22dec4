\* Two threads, two nodes, one slot: three events are a table that is out of date
\* and a migration under way, or a failure with its takeover and restart.
CONSTANTS
  Threads = {t1, t2}
  Nodes = {a, b}
  NoNode = NoNode
  Slots = {s1}
  NoSlot = NoSlot
  Configured = {a}
  RedirectMax = 3
  MaxConns = 1
  MaxEvents = 3
SPECIFICATION Spec
INVARIANTS LoansAccounted SlotLearnedFromOwner CalmRounds
PROPERTY StepsNearer
SYMMETRY Symmetry
CONSTRAINT LastAlone
