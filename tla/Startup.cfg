\* One name and two classes beyond those of the repository, two webhooks.
CONSTANTS
  MyIngestor = MyIngestor
  MyHandler = MyHandler
  Plugin = {"plugin"}
  Custom = {MyIngestor, MyHandler}
  BaseOf <- MCBaseOf
  NoClass = NoClass
  Webhook = {hook, other_hook}
  MaxRegistrations = 2
SPECIFICATION Spec
INVARIANTS
  TypeOK
  StartedCanDispatch
  ServesItsKind
  SessionsAreClosed
  RefusedStartLeavesNothing
PROPERTIES
  ConfiguredClassesStay
