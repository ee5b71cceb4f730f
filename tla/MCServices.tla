------------------------------ MODULE MCServices ------------------------------
(***************************************************************************)
(* What the services around the runs may never do.  They share no state,   *)
(* so a behaviour of all of them is one of each: every behaviour here is   *)
(* about one of them, and the others rest.                                 *)
(***************************************************************************)
EXTENDS Console, ManagementRequests, ManagementAccess, Projection, TaskPages, StdioTransport,
        ClaudeDriver, OpenCodeDriver, Worktrees, Bootstrap

VARIABLE service

servicesVars == <<service, vars, requestVars, accessVars, projectionVars, pageVars,
                  transportVars, claudeVars, ocVars, worktreeVars, bootVars>>

ServicesInit ==
  /\ service \in {"console", "requests", "access", "projection", "pages", "transport", "claude",
                  "opencode", "leases", "worktrees", "bridges"}
  /\ ConsoleInit /\ (service # "console" => mix = CHOOSE m \in Mixes : TRUE)
  /\ RequestsInit
  /\ AccessInit
  /\ ProjectionInit
  /\ service # "projection" => facts = [t \in BoardTasks |-> CHOOSE f \in FirstFacts : TRUE]
  /\ PagesInit /\ (service # "pages" => DOMAIN listed[1] = {})
  /\ TransportInit
  /\ ClaudeInit
  /\ OpenCodeInit
  /\ WorktreesInit
  /\ BootInit /\ (service # "bridges" => file = NoFile)

Only(s) ==
  /\ service = s
  /\ UNCHANGED service
  /\ s # "console"      => UNCHANGED vars
  /\ s # "requests"     => UNCHANGED requestVars
  /\ s # "access"       => UNCHANGED accessVars
  /\ s # "projection"   => UNCHANGED projectionVars
  /\ s # "pages"        => UNCHANGED pageVars
  /\ s # "transport"    => UNCHANGED transportVars
  /\ s # "claude"       => UNCHANGED claudeVars
  /\ s # "opencode"     => UNCHANGED ocVars
  /\ s # "bridges"      => UNCHANGED bootVars
  /\ s # "worktrees"    => UNCHANGED <<gitVars, ownVars, ens>>
  /\ s \notin {"worktrees", "leases"} => UNCHANGED leaseVars

ServicesNext ==
  \/ Only("console")      /\ ConsoleNext
  \/ Only("requests")     /\ RequestsNext
  \/ Only("access")       /\ AccessNext
  \/ Only("projection")   /\ ProjectionNext
  \/ Only("pages")        /\ PagesNext
  \/ Only("transport")    /\ TransportNext
  \/ Only("claude")       /\ ClaudeNext
  \/ Only("opencode")     /\ OpenCodeNext
  \/ Only("bridges")      /\ BootNext
  \/ Only("leases")       /\ LeaseNext
  \/ Only("worktrees")    /\ WorktreesNext

ServicesSpec == ServicesInit /\ [][ServicesNext]_servicesVars

ServicesTypeOK ==
  /\ StreamTypeOK /\ ConsoleTypeOK /\ RequestsTypeOK /\ AccessTypeOK /\ ProjectionTypeOK
  /\ PagesTypeOK /\ TransportTypeOK /\ ClaudeTypeOK /\ OpenCodeTypeOK /\ WorktreesTypeOK
  /\ BootTypeOK
=============================================================================
