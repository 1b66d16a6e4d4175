------------------------------ MODULE Registry ------------------------------
(***************************************************************************)
(* The Registry of src/engine/registry.py: a class for each name in each   *)
(* of three dictionaries, and one cache of instances for all of them, by   *)
(* name alone.  A class registered later replaces the class, and leaves    *)
(* the instance.                                                           *)
(*                                                                         *)
(* An instance is known by its class: there is never a second one of the   *)
(* same name.                                                              *)
(***************************************************************************)
EXTENDS Integers, FiniteSets

CONSTANTS
  Plugin,   \* names that the repository does not register
  Custom,   \* classes that it does not contain
  BaseOf,   \* the kind of component each class inherits from
  NoClass   \* no class, no instance

Kind == {"ingestor", "evaluator", "handler"}

\* The classes that the dictionaries start with.
Shipped ==
  [http_api      |-> "HttpApiIngestor",
   threshold     |-> "ThresholdEvaluator",
   freshness     |-> "FreshnessEvaluator",
   slack_webhook |-> "SlackHandler"]

ShippedBase ==
  [HttpApiIngestor    |-> "ingestor",
   ThresholdEvaluator |-> "evaluator",
   FreshnessEvaluator |-> "evaluator",
   SlackHandler       |-> "handler"]

Name == DOMAIN Shipped \cup Plugin
Class == DOMAIN ShippedBase \cup Custom

ASSUME RegistryAssumption ==
  /\ BaseOf \in [Class -> Kind]
  /\ \A c \in DOMAIN ShippedBase : BaseOf[c] = ShippedBase[c]
  /\ NoClass \notin Class

VARIABLES
  classes,   \* _INGESTORS, _EVALUATORS and _HANDLERS
  instances  \* _INSTANCES

ShippedAs(kind) == {name \in DOMAIN Shipped : BaseOf[Shipped[name]] = kind}

InitRegistry ==
  /\ classes = [kind \in Kind |->
       [name \in Name |-> IF name \in ShippedAs(kind) THEN Shipped[name] ELSE NoClass]]
  /\ instances = [name \in Name |-> NoClass]

\* get_ingestor, get_evaluator, get_handler: what they return,
Served(kind, name) ==
  IF instances[name] = NoClass THEN classes[kind][name] ELSE instances[name]

\* and what they leave in a cache.
Obtained(cache, kind, name) ==
  [cache EXCEPT ![name] = IF @ = NoClass THEN classes[kind][name] ELSE @]

\* Fault: the instance of the class before is thrown away.
RegisterAnew(kind, name, class) ==
  /\ BaseOf[class] = kind
  /\ classes' = [classes EXCEPT ![kind][name] = class]
  /\ instances' = [instances EXCEPT ![name] = NoClass]

\* register_ingestor, register_evaluator, register_handler; they raise on a class of
\* another kind.
Register(kind, name, class) ==
  /\ BaseOf[class] = kind
  /\ classes' = [classes EXCEPT ![kind][name] = class]
  /\ UNCHANGED instances

=============================================================================
