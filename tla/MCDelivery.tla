------------------------------ MODULE MCDelivery ------------------------------
(***************************************************************************)
(* What has to arrive in the end: events at the pages and at the           *)
(* publisher, answers at the clients of a driver, the report of a          *)
(* verification.  The four services share no state, so a behaviour of all  *)
(* of them is one of each: every behaviour here is about one of them, and  *)
(* the others rest.  What fairness asks for is disabled in a service that  *)
(* rests.                                                                  *)
(***************************************************************************)
EXTENDS Console, Outbox, Verification, StdioTransport

VARIABLE service

deliveryVars == <<service, vars, outboxVars, verificationVars, transportVars>>

DeliveryInit ==
  /\ service \in {"console", "outbox", "verification", "transport"}
  /\ ConsoleInit /\ (service # "console" => mix = CHOOSE m \in Mixes : TRUE)
  /\ OutboxInit
  /\ VerificationInit
  /\ TransportInit

Only(s) ==
  /\ service = s
  /\ UNCHANGED service
  /\ s # "console"      => UNCHANGED vars
  /\ s # "outbox"       => UNCHANGED outboxVars
  /\ s # "verification" => UNCHANGED verificationVars
  /\ s # "transport"    => UNCHANGED transportVars

DeliveryNext ==
  \/ Only("console")      /\ ConsoleNext
  \/ Only("outbox")       /\ OutboxNext
  \/ Only("verification") /\ VerificationNext
  \/ Only("transport")    /\ TransportNext

DeliverySpec ==
  /\ DeliveryInit /\ [][DeliveryNext]_deliveryVars
  /\ ConsoleFairness /\ OutboxFairness /\ VerificationFairness /\ TransportFairness
=============================================================================
