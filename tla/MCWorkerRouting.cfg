\* A plain request and one that needs a verified context, in any order and repeated.
CONSTANTS
  plain = plain
  extended = extended
  Requests = {plain, extended}
  Extended = {extended}
SPECIFICATION RoutingSpec
INVARIANTS UnavailableMeansNotTaken TakenAtMostOnce ExtendedStaysOnOllama
PROPERTIES HealthIsHonest FallbackBesideIdlePrimary WorkerPromiseKept
