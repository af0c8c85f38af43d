\* One plain request, repeated after refusals.
CONSTANTS
  plain = plain
  extended = extended
  Requests = {plain}
  Extended = {}
SPECIFICATION RoutingSpec
INVARIANTS NeverSwitchesWorkers
