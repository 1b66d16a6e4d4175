--------------------------- MODULE StartupProofs ---------------------------
(***************************************************************************)
(* What holds of every start, for any plug-in names and classes, any       *)
(* webhooks and any number of registrations.                               *)
(***************************************************************************)
EXTENDS Startup, TLAPS

\* The classes that are shipped are of the kinds under which they are registered, and
\* Slack's is the only handler.
LEMMA ShippedClasses ==
  /\ DOMAIN Shipped \subseteq Name
  /\ "none" \notin DOMAIN Shipped
  /\ \A name \in DOMAIN Shipped : Shipped[name] \in Class
  /\ ShippedAs("handler") = {"slack_webhook"}
  /\ \A kind \in Kind : ShippedAs(kind) \subseteq DOMAIN Shipped
<1> DEFINE names == {"http_api", "threshold", "freshness", "slack_webhook"}
           shipped == {"HttpApiIngestor", "ThresholdEvaluator", "FreshnessEvaluator", "SlackHandler"}
<1>1. DOMAIN Shipped = names
  BY DEF Shipped
<1>2. DOMAIN ShippedBase = shipped
  BY DEF ShippedBase
<1>3. /\ Shipped["http_api"] = "HttpApiIngestor"
      /\ Shipped["threshold"] = "ThresholdEvaluator"
      /\ Shipped["freshness"] = "FreshnessEvaluator"
      /\ Shipped["slack_webhook"] = "SlackHandler"
  BY DEF Shipped
<1>4. /\ BaseOf["HttpApiIngestor"] = "ingestor"
      /\ BaseOf["ThresholdEvaluator"] = "evaluator"
      /\ BaseOf["FreshnessEvaluator"] = "evaluator"
      /\ BaseOf["SlackHandler"] = "handler"
  BY <1>2, RegistryAssumption DEF ShippedBase
<1>5. ShippedAs("handler") = {"slack_webhook"}
  BY <1>1, <1>3, <1>4 DEF ShippedAs
<1>6. \A name \in DOMAIN Shipped : Shipped[name] \in Class
  BY <1>1, <1>2, <1>3 DEF Class
<1> QED
  BY <1>1, <1>5, <1>6 DEF Name, ShippedAs

-----------------------------------------------------------------------------
\* What a lookup leaves in the cache: nothing that was there is replaced.
LEMMA ObtainedKeeps ==
  ASSUME NEW cache \in [Name -> Class \cup {NoClass}], NEW kind \in Kind, NEW name \in Name,
         classes \in [Kind -> [Name -> Class \cup {NoClass}]]
  PROVE  /\ Obtained(cache, kind, name) \in [Name -> Class \cup {NoClass}]
         /\ \A other \in Name :
              cache[other] # NoClass => Obtained(cache, kind, name)[other] = cache[other]
         /\ \A other \in Name \ {name} : Obtained(cache, kind, name)[other] = cache[other]
         /\ cache[name] = NoClass => Obtained(cache, kind, name)[name] = classes[kind][name]
  BY DEF Obtained

\* Registered classes are of their kind, and no shipped name is without one.
WellRegistered ==
  \A kind \in Kind, name \in Name :
    /\ classes[kind][name] # NoClass => BaseOf[classes[kind][name]] = kind
    /\ name \in ShippedAs(kind) => classes[kind][name] # NoClass

\* What the validation of the configuration settles: before it there is no instance,
\* after it each component has one of its kind.
Instantiated ==
  IF config = NoConfig
    THEN main \in {"loading", "exited"} /\ instances = [name \in Name |-> NoClass]
    ELSE /\ main # "loading"
         /\ config \in Config /\ Admits(config)
         /\ \A kind \in Kind :
              /\ instances[config[kind]] # NoClass
              /\ BaseOf[instances[config[kind]]] = kind

\* What is open is the session of the one handler.
OneSession ==
  open # {} =>
    main = "serving" /\ open = {<<config["handler"], instances[config["handler"]]>>}

\* Who has come how far has passed the checks before.
Checked ==
  /\ main = "settled" => settings # "unread"
  /\ main \in {"complete", "admin", "serving"} => settings \in Webhook
  /\ main \in {"loading", "loaded", "settled", "complete"} => servers = {}
  /\ main # "exited" => exit = "none"
  /\ last # Nothing => main \in {"serving", "exited"}
  /\ StartedCanDispatch
  /\ RefusedStartLeavesNothing

IInv == TypeOK /\ WellRegistered /\ Instantiated /\ OneSession /\ Checked

-----------------------------------------------------------------------------
\* validate_registry_types replaces no instance, and gives each component one.
LEMMA ValidatedKeeps ==
  ASSUME TypeOK, NEW cfg \in Config
  PROVE  /\ Validated(cfg) \in [Name -> Class \cup {NoClass}]
         /\ \A name \in Name : instances[name] # NoClass => Validated(cfg)[name] = instances[name]
<1> DEFINE first == Obtained(instances, "ingestor", cfg["ingestor"])
           second == Obtained(first, "evaluator", cfg["evaluator"])
<1>1. \A kind \in Kind : cfg[kind] \in Name
  BY DEF Config
<1>2. /\ first \in [Name -> Class \cup {NoClass}]
      /\ \A name \in Name : instances[name] # NoClass => first[name] = instances[name]
  BY <1>1, ObtainedKeeps DEF TypeOK, Kind
<1>3. /\ second \in [Name -> Class \cup {NoClass}]
      /\ \A name \in Name : first[name] # NoClass => second[name] = first[name]
  <2> HIDE DEF first
  <2> QED
    BY <1>1, <1>2, ObtainedKeeps DEF TypeOK, Kind
<1>4. /\ Validated(cfg) = Obtained(second, "handler", cfg["handler"])
      /\ Validated(cfg) \in [Name -> Class \cup {NoClass}]
      /\ \A name \in Name : second[name] # NoClass => Validated(cfg)[name] = second[name]
  <2>1. Validated(cfg) = Obtained(second, "handler", cfg["handler"])
    BY DEF Validated
  <2> HIDE DEF second
  <2> QED
    BY <1>1, <1>3, <2>1, ObtainedKeeps DEF TypeOK, Kind
<1> HIDE DEF first, second
<1> QED
  BY <1>2, <1>3, <1>4

LEMMA ValidatedFills ==
  ASSUME TypeOK, WellRegistered, NEW cfg \in Config, Admits(cfg),
         instances = [name \in Name |-> NoClass]
  PROVE  \A kind \in Kind : /\ Validated(cfg)[cfg[kind]] # NoClass
                            /\ BaseOf[Validated(cfg)[cfg[kind]]] = kind
<1> DEFINE i == cfg["ingestor"]
           e == cfg["evaluator"]
           h == cfg["handler"]
<1>1. i \in Name /\ e \in Name /\ h \in Name
  BY DEF Config, Kind
<1>2. \A kind \in Kind : cfg[kind] \in ShippedAs(kind)
  BY DEF Admits
<1>3. i # e /\ i # h /\ e # h
  BY <1>2 DEF ShippedAs, Kind
<1>4. /\ Validated(cfg)[i] = classes["ingestor"][i]
      /\ Validated(cfg)[e] = classes["evaluator"][e]
      /\ Validated(cfg)[h] = classes["handler"][h]
  BY <1>1, <1>3 DEF Validated, Obtained, TypeOK
<1>5. \A kind \in Kind : /\ classes[kind][cfg[kind]] # NoClass
                         /\ BaseOf[classes[kind][cfg[kind]]] = kind
  BY <1>2 DEF WellRegistered, Config
<1> QED
  BY <1>4, <1>5 DEF Kind

LEMMA InitOK == Init => IInv
<1> SUFFICES ASSUME Init PROVE IInv
  OBVIOUS
<1>1. \A kind \in Kind, name \in Name :
        (IF name \in ShippedAs(kind) THEN Shipped[name] ELSE NoClass) \in Class \cup {NoClass}
  BY ShippedClasses
<1>2. /\ classes \in [Kind -> [Name -> Class \cup {NoClass}]]
      /\ instances \in [Name -> Class \cup {NoClass}]
  BY <1>1 DEF Init, InitRegistry
<1>3. TypeOK
  BY <1>2, StartupAssumption DEF Init, TypeOK, Nothing
<1>4. WellRegistered
  <2> SUFFICES ASSUME NEW kind \in Kind, NEW name \in Name
               PROVE  /\ classes[kind][name] # NoClass => BaseOf[classes[kind][name]] = kind
                      /\ name \in ShippedAs(kind) => classes[kind][name] # NoClass
    BY DEF WellRegistered
  <2>1. classes[kind][name] = IF name \in ShippedAs(kind) THEN Shipped[name] ELSE NoClass
    BY DEF Init, InitRegistry
  <2>2. name \in ShippedAs(kind) => Shipped[name] \in Class /\ BaseOf[Shipped[name]] = kind
    BY ShippedClasses DEF ShippedAs
  <2> QED
    BY <2>1, <2>2, RegistryAssumption
<1>5. Instantiated /\ OneSession
  BY DEF Init, InitRegistry, Instantiated, OneSession
<1>6. Checked
  BY DEF Init, Checked, StartedCanDispatch, RefusedStartLeavesNothing, Nothing
<1> QED
  BY <1>3, <1>4, <1>5, <1>6 DEF IInv

\* While the program lives, its components' instances are there and of their kind.
LEMMA Components ==
  ASSUME IInv, config # NoConfig
  PROVE  /\ config \in Config /\ Admits(config)
         /\ \A kind \in Kind :
              /\ config[kind] \in Name
              /\ instances[config[kind]] \in Class
              /\ Served(kind, config[kind]) = instances[config[kind]]
              /\ BaseOf[instances[config[kind]]] = kind
         /\ config["handler"] = "slack_webhook"
<1>1. /\ config \in Config /\ Admits(config)
      /\ \A kind \in Kind : /\ instances[config[kind]] # NoClass
                            /\ BaseOf[instances[config[kind]]] = kind
  BY DEF IInv, Instantiated
<1>2. \A kind \in Kind : config[kind] \in Name
  BY <1>1 DEF Config
<1>3. config["handler"] = "slack_webhook"
  BY <1>1, ShippedClasses DEF Admits, Kind
<1> QED
  BY <1>1, <1>2, <1>3 DEF IInv, TypeOK, Served

-----------------------------------------------------------------------------
\* Loading makes the instances and nothing else: the one step of config.
LEMMA LoadOK == IInv /\ LoadConfig => IInv'
<1> SUFFICES ASSUME IInv, LoadConfig PROVE IInv'
  OBVIOUS
<1> USE DEF IInv
<1>1. /\ main = "loading" /\ config = NoConfig /\ servers = {} /\ last = Nothing
      /\ open = {} /\ exit = "none"
      /\ instances = [name \in Name |-> NoClass]
      /\ UNCHANGED <<env, dotenv, settings, servers, open, last, classes, registered>>
  <2>1. main = "loading" /\ UNCHANGED <<environment, settings, servers, uses, classes, registered>>
    BY DEF LoadConfig
  <2>2. config = NoConfig /\ instances = [name \in Name |-> NoClass]
    BY <2>1 DEF Instantiated
  <2>3. servers = {} /\ last = Nothing /\ open = {} /\ exit = "none"
    BY <2>1 DEF Checked, OneSession
  <2> QED
    BY <2>1, <2>2, <2>3 DEF environment, uses
<1>2. WellRegistered'
  BY <1>1 DEF WellRegistered
<1>3. CASE /\ main' = "exited" /\ exit' \in {"config_error", "raised"}
           /\ UNCHANGED <<config, instances>>
  <2>1. TypeOK' /\ Instantiated' /\ OneSession'
    BY <1>1, <1>3 DEF TypeOK, Instantiated, OneSession
  <2>2. Checked'
    BY <1>1, <1>3 DEF Checked, StartedCanDispatch, RefusedStartLeavesNothing
  <2> QED
    BY <1>2, <2>1, <2>2
<1>4. CASE \E cfg \in Config : /\ Admits(cfg)
                               /\ main' = "loaded" /\ config' = cfg
                               /\ instances' = Validated(cfg)
                               /\ UNCHANGED exit
  <2>1. PICK cfg \in Config : /\ Admits(cfg)
                              /\ main' = "loaded" /\ config' = cfg
                              /\ instances' = Validated(cfg)
                              /\ UNCHANGED exit
    BY <1>4
  <2>2. instances' \in [Name -> Class \cup {NoClass}]
    BY <2>1, ValidatedKeeps
  <2>3. \A kind \in Kind : /\ instances'[cfg[kind]] # NoClass
                           /\ BaseOf[instances'[cfg[kind]]] = kind
    BY <1>1, <2>1, ValidatedFills
  <2>4. cfg # NoConfig
    BY <2>1, ShippedClasses DEF Admits, NoConfig, Kind
  <2>5. TypeOK' /\ OneSession'
    BY <1>1, <2>1, <2>2 DEF TypeOK, OneSession
  <2>6. Instantiated'
    BY <2>1, <2>3, <2>4 DEF Instantiated, Admits
  <2>7. Checked'
    BY <1>1, <2>1 DEF Checked, StartedCanDispatch, RefusedStartLeavesNothing
  <2> QED
    BY <1>2, <2>5, <2>6, <2>7
<1> QED
  BY <1>3, <1>4 DEF LoadConfig, Exits

\* Between loading and serving the registry and the configuration are left alone, but for
\* a last lookup that finds everything.
LEMMA CheckOK ==
  ASSUME IInv, ReadSettings \/ CheckIntegrations \/ StartMetrics \/ Interrupt
  PROVE  IInv'
<1> USE DEF IInv
<1>1. /\ main \in {"loaded", "settled", "complete", "admin"}
      /\ main' \in {"settled", "complete", "admin", "exited"}
      /\ UNCHANGED <<config, env, dotenv, open, last, classes, instances, registered>>
  BY DEF ReadSettings, CheckIntegrations, StartMetrics, Interrupt, Exits, environment, uses, registry
<1>2. open = {} /\ last = Nothing
  BY <1>1 DEF OneSession, Checked
<1>3. WellRegistered' /\ OneSession'
  BY <1>1, <1>2 DEF WellRegistered, OneSession
<1>4. Instantiated'
  BY <1>1 DEF Instantiated, Admits
<1>5. TypeOK' /\ Checked'
  <2> USE DEF Checked, StartedCanDispatch, RefusedStartLeavesNothing, Exits, Nothing
  <2>1. CASE ReadSettings
    BY <1>1, <1>2, <2>1, StartupAssumption DEF ReadSettings, Accepted, TypeOK
  <2>2. CASE CheckIntegrations
    <3>1. main = "settled" /\ UNCHANGED <<settings, servers>>
      BY <2>2 DEF CheckIntegrations
    <3>2. config["handler"] = "slack_webhook"
      BY <3>1, Components DEF Instantiated
    <3>3. \/ main' = "complete" /\ UNCHANGED exit /\ settings # "unset"
          \/ main' = "exited" /\ exit' = "incomplete"
      BY <2>2, <3>2 DEF CheckIntegrations, MissingVars
    <3> QED
      BY <1>1, <1>2, <3>1, <3>3 DEF TypeOK
  <2>3. CASE StartMetrics
    BY <1>1, <1>2, <2>3, StartupAssumption DEF StartMetrics, TypeOK
  <2>4. CASE Interrupt
    BY <1>1, <1>2, <2>4 DEF Interrupt, TypeOK
  <2> QED
    BY <2>1, <2>2, <2>3, <2>4
<1> QED
  BY <1>3, <1>4, <1>5

\* Who looks the components of the configuration up changes nothing.
LEMMA LookupsChangeNothing ==
  ASSUME IInv, config # NoConfig
  PROVE  /\ Validated(config) \in [Name -> Class \cup {NoClass}]
         /\ \A kind \in Kind : Validated(config)[config[kind]] = instances[config[kind]]
         /\ Obtained(instances, "handler", config["handler"]) = instances
<1>1. config \in Config /\ \A kind \in Kind : config[kind] \in Name /\ instances[config[kind]] # NoClass
  BY Components DEF IInv, Instantiated
<1>2. /\ Validated(config) \in [Name -> Class \cup {NoClass}]
      /\ \A kind \in Kind : Validated(config)[config[kind]] = instances[config[kind]]
  BY <1>1, ValidatedKeeps DEF IInv
<1>3. Obtained(instances, "handler", config["handler"]) = instances
  BY <1>1 DEF Obtained, IInv, TypeOK, Kind
<1> QED
  BY <1>2, <1>3

LEMMA ServeOK ==
  ASSUME IInv, StartServing \/ Shutdown \/ \E key \in Key : Dispatch(key)
  PROVE  IInv'
<1> USE DEF IInv
<1>1. main \in {"admin", "serving"} /\ config # NoConfig
  BY DEF StartServing, Shutdown, Dispatch, Instantiated
<1>2. UNCHANGED <<config, env, dotenv, settings, classes, registered>>
  BY DEF StartServing, Shutdown, Dispatch, environment
<1>3. /\ Validated(config) \in [Name -> Class \cup {NoClass}]
      /\ \A kind \in Kind : Validated(config)[config[kind]] = instances[config[kind]]
      /\ Obtained(instances, "handler", config["handler"]) = instances
  BY <1>1, LookupsChangeNothing
<1>4. instances' \in {Validated(config), instances}
  BY <1>3 DEF StartServing, Shutdown, Dispatch
<1>5. /\ instances' \in [Name -> Class \cup {NoClass}]
      /\ \A kind \in Kind : instances'[config[kind]] = instances[config[kind]]
  BY <1>3, <1>4 DEF TypeOK
<1>6. WellRegistered'
  BY <1>2 DEF WellRegistered
<1>7. Instantiated'
  <2>1. main' # "loading"
    BY DEF StartServing, Shutdown, Dispatch, Exits
  <2> QED
    BY <1>1, <1>2, <1>5, <2>1 DEF Instantiated, Admits
<1>8. /\ config["handler"] \in Name
      /\ instances[config["handler"]] \in Class
      /\ Served("handler", config["handler"]) = instances[config["handler"]]
      /\ settings \in Webhook
      /\ instances'[config["handler"]] = instances[config["handler"]]
  BY <1>1, <1>5, Components DEF Checked, Kind
<1>9. TypeOK' /\ OneSession' /\ Checked'
  <2> USE DEF Checked, StartedCanDispatch, RefusedStartLeavesNothing
  <2>1. CASE StartServing
    <3>1. open = {} /\ last = Nothing
      BY <2>1 DEF OneSession, StartServing
    <3>2. /\ main = "admin" /\ main' = "serving"
          /\ servers' \in {servers, servers \cup {"admin"}}
          /\ UNCHANGED <<exit, open, last>>
      BY <2>1 DEF StartServing, uses
    <3> QED
      BY <1>2, <1>5, <1>8, <3>1, <3>2 DEF TypeOK, OneSession, Nothing
  <2>2. CASE Shutdown
    <3>1. /\ main = "serving" /\ main' = "exited" /\ exit' = "done"
          /\ open' = open \ {<<config[kind], Served(kind, config[kind])>> : kind \in Kind}
          /\ servers' = servers \ {"admin"} /\ UNCHANGED last
      BY <2>2 DEF Shutdown, Exits
    <3>2. open' = {}
      BY <1>8, <3>1 DEF OneSession, Kind
    <3> QED
      BY <1>2, <1>5, <1>8, <3>1, <3>2 DEF TypeOK, OneSession
  <2>3. CASE \E key \in Key : Dispatch(key)
    <3>1. PICK key \in Key : Dispatch(key)
      BY <2>3
    <3>2. /\ main = "serving" /\ UNCHANGED <<main, exit, servers>>
          /\ last' = <<key, Resolved(key)>>
          /\ open' = IF Resolved(key) = "unset" THEN open
                     ELSE open \cup {<<config["handler"], instances[config["handler"]]>>}
      BY <1>8, <3>1 DEF Dispatch
    <3>3. /\ Resolved(key) \in {"unset", "sqlite"} \cup Webhook
          /\ key = "slack_webhook_url" => Resolved(key) = settings
      BY <1>8, StartupAssumption DEF Resolved, GetSettings
    <3>4. last' \in Key \X ({"unset", "sqlite"} \cup Webhook)
      BY <3>2, <3>3
    <3>5. open' \subseteq Name \X Class
      BY <1>8, <3>2 DEF TypeOK
    <3>6. TypeOK'
      BY <1>2, <1>5, <3>2, <3>4, <3>5 DEF TypeOK
    <3>7. OneSession'
      BY <1>2, <1>8, <3>2 DEF OneSession
    <3>8. Checked'
      BY <1>2, <1>8, <3>2, <3>3
    <3> QED
      BY <3>6, <3>7, <3>8
  <2> QED
    BY <2>1, <2>2, <2>3
<1> QED
  BY <1>6, <1>7, <1>9

\* What others do reaches no instance and no setting that was read.
LEMMA OthersOK ==
  ASSUME IInv, EditDotenv \/ RegisterClass
  PROVE  IInv'
<1> USE DEF IInv
<1>1. UNCHANGED <<main, exit, config, env, settings, servers, open, last, instances>>
  BY DEF EditDotenv, RegisterClass, Register, uses, registry, environment
<1>2. Instantiated' /\ OneSession' /\ Checked'
  BY <1>1 DEF Instantiated, Admits, OneSession, Checked, StartedCanDispatch,
              RefusedStartLeavesNothing
<1>3. CASE EditDotenv
  <2>1. dotenv' \in Setting /\ UNCHANGED <<classes, registered>>
    BY <1>3 DEF EditDotenv, registry
  <2> QED
    BY <1>1, <1>2, <2>1 DEF TypeOK, WellRegistered
<1>4. CASE RegisterClass
  <2>1. /\ registered' = registered + 1 /\ registered < MaxRegistrations
        /\ UNCHANGED dotenv
    BY <1>4 DEF RegisterClass, environment
  <2>2. PICK kind \in Kind, name \in Name, class \in Class :
          /\ BaseOf[class] = kind
          /\ classes' = [classes EXCEPT ![kind][name] = class]
    BY <1>4 DEF RegisterClass, Register
  <2>3. TypeOK'
    BY <1>1, <2>1, <2>2, StartupAssumption DEF TypeOK
  <2>4. class # NoClass
    BY RegistryAssumption
  <2>5. WellRegistered'
    BY <2>2, <2>4 DEF WellRegistered, TypeOK
  <2> QED
    BY <1>2, <2>3, <2>5
<1> QED
  BY <1>3, <1>4

LEMMA NextOK == IInv /\ [Next]_vars => IInv'
<1> SUFFICES ASSUME IInv, [Next]_vars PROVE IInv'
  OBVIOUS
<1>1. CASE LoadConfig
  BY <1>1, LoadOK
<1>2. CASE ReadSettings \/ CheckIntegrations \/ StartMetrics \/ Interrupt
  BY <1>2, CheckOK
<1>3. CASE StartServing \/ Shutdown \/ \E key \in Key : Dispatch(key)
  BY <1>3, ServeOK
<1>4. CASE EditDotenv \/ RegisterClass
  BY <1>4, OthersOK
<1>5. CASE UNCHANGED vars
  BY <1>5 DEF vars, environment, uses, registry, IInv, TypeOK, WellRegistered, Instantiated,
              Admits, OneSession, Checked, StartedCanDispatch, RefusedStartLeavesNothing
<1> QED
  BY <1>1, <1>2, <1>3, <1>4, <1>5 DEF Next, Exited

LEMMA AlwaysIInv == Spec => []IInv
  BY InitOK, NextOK, PTL DEF Spec

-----------------------------------------------------------------------------
\* The state of the start and of the registry has its type, whatever is registered and
\* wherever the program gives up (src/main.py:34-91, src/engine/registry.py:17-80).
THEOREM TypeCorrect == Spec => []TypeOK
<1>1. IInv => TypeOK
  BY DEF IInv
<1> QED
  BY <1>1, AlwaysIInv, PTL

\* A handler whose key names the settings' webhook finds the https URL that was checked at
\* the start, whatever happens to .env
\* (src/main.py:58-72, src/config/settings.py:51-73, src/handlers/slack.py:97-105).
THEOREM CheckedIsFound == Spec => []StartedCanDispatch
<1>1. IInv => StartedCanDispatch
  BY DEF IInv, Checked
<1> QED
  BY <1>1, AlwaysIInv, PTL

\* No component is of another kind than it is used as, for any classes registered under
\* any names (src/engine/registry.py:40-62, src/config/parser.py:153-173).
THEOREM KindsAgree == Spec => []ServesItsKind
<1>1. IInv => ServesItsKind
  BY Components DEF ServesItsKind
<1> QED
  BY <1>1, AlwaysIInv, PTL

\* A program that has ended leaves no session open: the instance whose session a dispatch
\* opened is the one the shutdown obtains
\* (src/engine/executor.py:73-105, src/handlers/slack.py:27-43).
THEOREM NothingLeftOpen == Spec => []SessionsAreClosed
<1>1. IInv => SessionsAreClosed
  BY DEF IInv, OneSession, SessionsAreClosed
<1> QED
  BY <1>1, AlwaysIInv, PTL

\* A start that is refused, with a message or by an error that nobody catches, had no
\* server up (src/main.py:34-91).
THEOREM RefusedIsUnseen == Spec => []RefusedStartLeavesNothing
<1>1. IInv => RefusedStartLeavesNothing
  BY DEF IInv, Checked
<1> QED
  BY <1>1, AlwaysIInv, PTL

\* Once the configuration is loaded no registration and no lookup replaces what serves it
\* (src/config/parser.py:153-173, src/engine/registry.py:40-80).
THEOREM InstancesStay == Spec => ConfiguredClassesStay
<1> DEFINE Stays == config # NoConfig =>
             \A kind \in Kind : Served(kind, config[kind])' = Served(kind, config[kind])
<1>1. IInv /\ IInv' /\ [Next]_vars => [Stays]_vars
  <2> SUFFICES ASSUME IInv, IInv', Next, config # NoConfig, NEW kind \in Kind
               PROVE  Served(kind, config[kind])' = Served(kind, config[kind])
    BY DEF Stays
  <2>1. UNCHANGED config
    BY DEF Next, LoadConfig, ReadSettings, CheckIntegrations, StartMetrics, StartServing,
           Interrupt, Dispatch, Shutdown, EditDotenv, RegisterClass, Exited, vars, IInv,
           Instantiated
  <2>2. /\ Served(kind, config[kind]) = instances[config[kind]]
        /\ instances[config[kind]] # NoClass
    BY Components, RegistryAssumption
  <2>3. instances'[config[kind]] = instances[config[kind]]
    <3>1. CASE StartServing \/ Shutdown
      BY <3>1, LookupsChangeNothing DEF StartServing, Shutdown
    <3>2. CASE \E key \in Key : Dispatch(key)
      BY <3>2, LookupsChangeNothing DEF Dispatch
    <3>3. CASE UNCHANGED instances
      BY <3>3
    <3> QED
      BY <3>1, <3>2, <3>3 DEF Next, LoadConfig, ReadSettings, CheckIntegrations, StartMetrics,
         Interrupt, EditDotenv, RegisterClass, Register, Exited, vars, registry, IInv, Instantiated
  <2> QED
    BY <2>1, <2>2, <2>3 DEF Served
<1> HIDE DEF Stays
<1>2. Spec => [][Stays]_vars
  BY <1>1, AlwaysIInv, PTL DEF Spec
<1> QED
  BY <1>2 DEF Stays, ConfiguredClassesStay

=============================================================================
