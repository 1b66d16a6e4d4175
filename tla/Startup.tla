------------------------------ MODULE Startup ------------------------------
(***************************************************************************)
(* The start of the program: async_main of src/main.py up to the moment it *)
(* is ready, with load_config (src/config/parser.py), the settings         *)
(* (src/config/settings.py) and the Registry, and what the serving program *)
(* makes of them: a dispatch looks its webhook up by the key its handler   *)
(* is configured with, and the shutdown closes what dispatches have        *)
(* opened.  How it serves is the subject of Lifecycle.                     *)
(*                                                                         *)
(* Until it awaits the admin server main runs without a pause; only the    *)
(* file system changes meanwhile.  A check's configuration is reduced to   *)
(* the names of its components; a dispatch may be for any key, and what    *)
(* else the schema asks is the input "invalid".                            *)
(*                                                                         *)
(* External: the files, the environment, the ports; code around the        *)
(* program that registers classes, before it starts or while it awaits.    *)
(***************************************************************************)
EXTENDS Registry

CONSTANTS
  Webhook,          \* https URLs
  MaxRegistrations  \* bound on the registrations

ASSUME StartupAssumption ==
  /\ MaxRegistrations \in Nat
  /\ Webhook \cap {"unread", "unset", "refused", "sqlite"} = {}

VARIABLES
  main,        \* where async_main is
  exit,        \* how the program has ended
  config,      \* the names of a check's components
  env,         \* SLACK_WEBHOOK_URL in the environment
  dotenv,      \* SLACK_WEBHOOK_URL in the file .env
  settings,    \* slack_webhook_url of the settings that get_settings has cached
  servers,     \* the servers that are up, and the tracing
  open,        \* the components that have an HTTP session, by name and class
  last,        \* history: the key of the last dispatch, and the webhook it found
  registered   \* registrations made

registry == <<classes, instances, registered>>
environment == <<env, dotenv>>
uses == <<open, last>>

vars == <<main, exit, config, environment, settings, servers, uses, registry>>

\* What the variable may be set to.  Refused are an empty value, which is no URL, and
\* plain http.
Setting == {"unset", "refused"} \cup Webhook

\* Fault: the URL is not validated.
AcceptedUnchecked == Setting

Accepted == {"unset"} \cup Webhook

\* Keys that a handler may be configured with, in lower case: the settings' webhook,
\* another setting that has a value, and anything else.
Key == {"slack_webhook_url", "database_url", "unknown"}

Config == [Kind -> Name]
NoConfig == [kind \in Kind |-> "none"]
Nothing == <<"none", "none">>

TypeOK ==
  /\ main \in {"loading", "loaded", "settled", "complete", "admin", "serving", "exited"}
  /\ exit \in {"none", "config_error", "incomplete", "raised", "interrupted", "done"}
  /\ config \in Config \cup {NoConfig}
  /\ env \in Setting /\ dotenv \in Setting
  /\ settings \in {"unread", "unset"} \cup Webhook
  /\ servers \subseteq {"tracing", "metrics", "admin"}
  /\ open \subseteq Name \X Class
  /\ last \in {Nothing} \cup Key \X ({"unset", "sqlite"} \cup Webhook)
  /\ registered \in 0..MaxRegistrations
  /\ classes \in [Kind -> [Name -> Class \cup {NoClass}]]
  /\ instances \in [Name -> Class \cup {NoClass}]

Init ==
  /\ main = "loading"
  /\ exit = "none"
  /\ config = NoConfig
  /\ env \in Setting /\ dotenv \in Setting
  /\ settings = "unread"
  /\ servers = {}
  /\ open = {} /\ last = Nothing
  /\ registered = 0
  /\ InitRegistry

Exits(how) == main' = "exited" /\ exit' = how

-----------------------------------------------------------------------------
\* Fault: any name that is registered can be configured.
AdmitsRegistered(cfg) == \A kind \in Kind : classes[kind][cfg[kind]] # NoClass

\* The types that the schema admits are literals.
Admits(cfg) == \A kind \in Kind : cfg[kind] \in ShippedAs(kind)

\* Fault: the types are looked up, not instantiated.
ValidatedOnly(cfg) == instances

\* validate_registry_types: every component is obtained, in this order.
Validated(cfg) ==
  Obtained(Obtained(Obtained(instances,
    "ingestor", cfg["ingestor"]), "evaluator", cfg["evaluator"]), "handler", cfg["handler"])

\* load_config, whose ConfigErrors end the program with a message.  Errors of other
\* kinds escape it: those of reading the file, and the TypeError for a document that
\* is not a mapping.
LoadConfig ==
  /\ main = "loading"
  /\ \/ \E file \in {"missing", "malformed", "empty", "invalid"} :
          Exits("config_error") /\ UNCHANGED <<config, instances>>
     \/ \E file \in {"unreadable", "not_a_mapping"} :
          Exits("raised") /\ UNCHANGED <<config, instances>>
     \/ \E cfg \in Config :
          IF Admits(cfg)
            THEN /\ main' = "loaded"
                 /\ config' = cfg
                 /\ instances' = Validated(cfg)
                 /\ UNCHANGED exit
            ELSE Exits("config_error") /\ UNCHANGED <<config, instances>>
  /\ UNCHANGED <<environment, settings, servers, uses, classes, registered>>

\* AppSettings(): the environment, else the file.
InEnvironment == IF env # "unset" THEN env ELSE dotenv

\* Fault: the settings are read again by every call.
GetSettingsAnew == InEnvironment

\* get_settings, which lru_cache keeps.
GetSettings == IF settings = "unread" THEN InEnvironment ELSE settings

\* The settings are read, or one is refused, this or another: the ValidationError is not
\* caught.
ReadSettings ==
  /\ main = "loaded"
  /\ \/ /\ GetSettings \in Accepted
        /\ main' = "settled" /\ settings' = GetSettings /\ UNCHANGED exit
     \/ Exits("raised") /\ UNCHANGED settings
  /\ UNCHANGED <<config, environment, servers, uses, registry>>

\* validate_required_integrations, by the types of the handlers.
MissingVars ==
  IF config["handler"] = "slack_webhook" /\ settings = "unset"
    THEN {"SLACK_WEBHOOK_URL"} ELSE {}

\* Fault: the servers are started first.
CheckIntegrationsLate ==
  /\ main = "settled"
  /\ servers' \in SUBSET {"tracing", "metrics"}
  /\ IF MissingVars = {} THEN main' = "complete" /\ UNCHANGED exit ELSE Exits("incomplete")
  /\ UNCHANGED <<config, environment, settings, uses, registry>>

\* What is missing ends the program with CONFIGURATION_INCOMPLETE.
CheckIntegrations ==
  /\ main = "settled"
  /\ IF MissingVars = {} THEN main' = "complete" /\ UNCHANGED exit ELSE Exits("incomplete")
  /\ UNCHANGED <<config, environment, settings, servers, uses, registry>>

\* Tracing and the metrics server, if enabled.  A port that is taken raises.
StartMetrics ==
  /\ main = "complete"
  /\ \E on \in SUBSET {"tracing", "metrics"} :
       \/ main' = "admin" /\ servers' = on /\ UNCHANGED exit
       \/ "metrics" \in on /\ servers' = on \ {"metrics"} /\ Exits("raised")
  /\ UNCHANGED <<config, environment, settings, uses, registry>>

\* The admin server is up, or its failure is logged.  The hooks of executor.startup do
\* nothing but obtain the components; then the program is ready.
StartServing ==
  /\ main = "admin"
  /\ main' = "serving"
  /\ servers' \in {servers, servers \cup {"admin"}}
  /\ instances' = Validated(config)
  /\ UNCHANGED <<exit, config, environment, settings, uses, classes, registered>>

\* SIGINT while main awaits the admin server cancels it, and asyncio.run raises
\* KeyboardInterrupt.
Interrupt ==
  /\ main = "admin"
  /\ Exits("interrupted")
  /\ UNCHANGED <<config, environment, settings, servers, uses, registry>>

-----------------------------------------------------------------------------
\* getattr(settings, webhook_url_env_key.lower(), None)
Resolved(key) ==
  IF key = "slack_webhook_url" THEN GetSettings
  ELSE IF key = "database_url" THEN "sqlite" ELSE "unset"

\* A handler dispatches: it raises MISSING_WEBHOOK, or posts in its instance's session.
Dispatch(key) ==
  /\ main = "serving"
  /\ LET name == config["handler"] IN
     /\ instances' = Obtained(instances, "handler", name)
     /\ last' = <<key, Resolved(key)>>
     /\ open' = IF Resolved(key) = "unset" THEN open
                ELSE open \cup {<<name, Served("handler", name)>>}
  /\ UNCHANGED <<main, exit, config, environment, settings, servers, classes, registered>>

\* executor.shutdown closes the sessions of the components that it obtains; then the
\* admin server ends.
Shutdown ==
  /\ main = "serving"
  /\ instances' = Validated(config)
  /\ open' = open \ {<<config[kind], Served(kind, config[kind])>> : kind \in Kind}
  /\ servers' = servers \ {"admin"}
  /\ Exits("done")
  /\ UNCHANGED <<config, environment, settings, last, classes, registered>>

\* External: somebody edits .env.
EditDotenv ==
  /\ main # "exited"
  /\ \E value \in Setting \ {dotenv} : dotenv' = value
  /\ UNCHANGED <<main, exit, config, env, settings, servers, uses, registry>>

\* External: a class is registered.
RegisterClass ==
  /\ main \in {"loading", "admin", "serving"}
  /\ registered < MaxRegistrations
  /\ registered' = registered + 1
  /\ \E kind \in Kind, name \in Name, class \in Class : Register(kind, name, class)
  /\ UNCHANGED <<main, exit, config, environment, settings, servers, uses>>

\* The process is gone.
Exited == main = "exited" /\ UNCHANGED vars

Next ==
  \/ LoadConfig \/ ReadSettings \/ CheckIntegrations \/ StartMetrics
  \/ StartServing \/ Interrupt
  \/ \E key \in Key : Dispatch(key)
  \/ Shutdown
  \/ EditDotenv \/ RegisterClass
  \/ Exited

Spec == Init /\ [][Next]_vars

-----------------------------------------------------------------------------
\* A program that has started can dispatch: a handler whose key names the settings'
\* webhook always finds one, it is the https URL that was checked at the start, and no
\* edit of .env takes it away or changes it
\* (src/main.py:58-72, src/config/settings.py:51-73, src/handlers/slack.py:97-105).
StartedCanDispatch ==
  last[1] = "slack_webhook_url" => last[2] \in Webhook /\ last[2] = settings

\* The cache is shared by the three kinds, yet every component of a program that has
\* loaded its configuration is of the kind it is used as, whatever names have been
\* registered as what (src/engine/registry.py:40-62, src/config/parser.py:62-63, 97-98).
ServesItsKind ==
  config # NoConfig => \A kind \in Kind : BaseOf[Served(kind, config[kind])] = kind

\* The components that serve a configuration are those of the classes registered when it
\* was loaded: its validation has made their instances, and a class registered under
\* one of their names later never serves
\* (src/config/parser.py:153-173, src/engine/registry.py:40-80).
ConfiguredClassesStay ==
  [][config # NoConfig =>
       \A kind \in Kind : Served(kind, config[kind])' = Served(kind, config[kind])]_vars

\* A program that has ended has closed every session its handlers opened, whatever was
\* registered under their names meanwhile
\* (src/engine/executor.py:73-105, src/engine/registry.py:56-80, src/handlers/slack.py:27-43).
SessionsAreClosed == main = "exited" => open = {}

\* A start that is refused for its configuration or its settings, with a message or by an
\* error that nobody catches, has done nothing that the outside could see: no server was
\* up and no tracing configured
\* (src/main.py:34-91).
RefusedStartLeavesNothing ==
  \/ exit \in {"config_error", "incomplete"}
  \/ exit = "raised" /\ settings = "unread"
  => servers = {}

=============================================================================
