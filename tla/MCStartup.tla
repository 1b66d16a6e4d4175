------------------------------ MODULE MCStartup ------------------------------
(***************************************************************************)
(* Bounds for Startup: a class of one's own for ingestors and one for      *)
(* handlers, which may be registered under any name.                       *)
(***************************************************************************)
EXTENDS Startup

CONSTANTS MyIngestor, MyHandler

MCBaseOf ==
  [class \in Class |->
     IF class \in DOMAIN ShippedBase THEN ShippedBase[class]
     ELSE IF class = MyIngestor THEN "ingestor" ELSE "handler"]

=============================================================================
