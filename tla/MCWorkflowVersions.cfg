\* Three publishes over two versions, from no version at all or from the state
\* after a publish alone, where three more are the least that can wait for
\* each other in a cycle; two creates and a trigger beside them.
SPECIFICATION EarlyOrLateSpec
CONSTANTS
  Creators = {c1, c2}
  Publishers = {p1, p2, p3}
  Triggers = {t1}
  None = None
  MaxVersion = 2
INVARIANTS
  PublishesGoOn
  TriggerFindsVersion
PROPERTIES
  ImplementsCatalogue
  PublishesEnd
