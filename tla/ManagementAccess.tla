-------------------------- MODULE ManagementAccess --------------------------
(***************************************************************************)
(* How a browser gets into the management HTTP server and out again: the   *)
(* launch secret of each page that is opened is exchanged once for a       *)
(* session, a session ends by logout, a repeated logout gets its answer    *)
(* again.  Handlers stop where they await the event cursor, so requests    *)
(* overlap.                                                                *)
(*                                                                         *)
(* Requests that fail the checks of dispatch on host, method, origin and   *)
(* fetch metadata change nothing and are left out.                         *)
(***************************************************************************)
EXTENDS Naturals, FiniteSets

CONSTANTS HttpRequests,     \* requests under way
          Cookies,          \* cookie tokens, random and new each
          LogoutKeys,
          NoKey,
          MaxLaunches,      \* bound: pages opened
          MaxLaunchFailures \* MAX_LAUNCH_FAILURES

ASSUME AccessAssumption == /\ MaxLaunches \in Nat
                           /\ MaxLaunchFailures \in Nat \ {0}
                           /\ NoKey \notin LogoutKeys

VARIABLES
  launches,   \* launch secrets made so far
  secret,     \* launchSecret; number 0 if there is none
  sessions,   \* cookies with a session
  replays,    \* logoutReplays: cookie -> key of its logout
  http,       \* request -> the rest of its handler
  opened      \* history: cookie -> number of the secret that it was issued for

accessVars == <<launches, secret, sessions, replays, http, opened>>

NoSecret == [n |-> 0, expired |-> FALSE, failures |-> 0]
NoHandler == [pc |-> "none"]

AccessInit == /\ launches = 0
              /\ secret = NoSecret
              /\ sessions = {}
              /\ replays = [c \in Cookies |-> NoKey]
              /\ http = [q \in HttpRequests |-> NoHandler]
              /\ opened = [c \in Cookies |-> 0]

ActivateLaunchSecret ==
  /\ launches < MaxLaunches
  /\ launches' = launches + 1
  /\ secret' = [NoSecret EXCEPT !.n = launches']
  /\ UNCHANGED <<sessions, replays, http, opened>>

SecretExpires ==
  /\ secret.n # 0
  /\ secret' = [secret EXCEPT !.expired = TRUE]
  /\ UNCHANGED <<launches, sessions, replays, http, opened>>

\* consumeLaunchSecret: the page sends the secret n of its address.
Unusable == secret.n = 0 \/ secret.expired

Failure == IF secret.failures + 1 >= MaxLaunchFailures
           THEN NoSecret ELSE [secret EXCEPT !.failures = @ + 1]

ExchangeRefused(n) ==
  /\ Unusable \/ n # secret.n
  /\ secret' = IF Unusable THEN NoSecret ELSE Failure
  /\ UNCHANGED <<launches, sessions, replays, http, opened>>

\* Mutant: the secret stays until the session is there.
ConsumeSecretLater(q, n) ==
  /\ ~Unusable /\ n = secret.n
  /\ http[q] = NoHandler
  /\ http' = [http EXCEPT ![q] = [pc |-> "exchanging", n |-> n]]
  /\ UNCHANGED <<launches, secret, sessions, replays, opened>>

ConsumeSecret(q, n) ==
  /\ ~Unusable /\ n = secret.n
  /\ http[q] = NoHandler
  /\ secret' = NoSecret
  /\ http' = [http EXCEPT ![q] = [pc |-> "exchanging", n |-> n]]
  /\ UNCHANGED <<launches, sessions, replays, opened>>

OpenSession(q, c) ==
  /\ http[q].pc = "exchanging"
  /\ opened[c] = 0
  /\ sessions' = sessions \cup {c}
  /\ opened' = [opened EXCEPT ![c] = http[q].n]
  /\ http' = [http EXCEPT ![q] = NoHandler]
  /\ UNCHANGED <<launches, secret, replays>>

\* deleteSession: a repetition is answered from logoutReplays without a session.
Logout(q, c, k) ==
  /\ http[q] = NoHandler
  /\ c \in sessions
  /\ replays[c] # k
  /\ http' = [http EXCEPT ![q] = [pc |-> "leaving", cookie |-> c, key |-> k]]
  /\ UNCHANGED <<launches, secret, sessions, replays, opened>>

LoggedOut(q) ==
  /\ http[q].pc = "leaving"
  /\ sessions' = sessions \ {http[q].cookie}
  /\ replays' = [replays EXCEPT ![http[q].cookie] = http[q].key]
  /\ http' = [http EXCEPT ![q] = NoHandler]
  /\ UNCHANGED <<launches, secret, opened>>

\* revokeAll, when the server is closed; handlers that wait go on.
RevokeAll ==
  /\ secret' = NoSecret
  /\ sessions' = {}
  /\ replays' = [c \in Cookies |-> NoKey]
  /\ UNCHANGED <<launches, http, opened>>

AccessNext ==
  \/ ActivateLaunchSecret \/ SecretExpires \/ RevokeAll
  \/ \E n \in 1..MaxLaunches : \/ ExchangeRefused(n)
                               \/ \E q \in HttpRequests : ConsumeSecret(q, n)
  \/ \E q \in HttpRequests : \/ \E c \in Cookies : \/ OpenSession(q, c)
                                                   \/ \E k \in LogoutKeys : Logout(q, c, k)
                             \/ LoggedOut(q)

AccessSpec == AccessInit /\ [][AccessNext]_accessVars

-----------------------------------------------------------------------------
AccessTypeOK ==
  /\ secret.n \in 0..launches /\ launches <= MaxLaunches
  /\ secret.failures \in 0..(MaxLaunchFailures - 1)
  /\ sessions \subseteq Cookies
  /\ replays \in [Cookies -> LogoutKeys \cup {NoKey}]
  /\ opened \in [Cookies -> 0..launches]

\* A page that is opened leads to one session at most, although the exchange awaits
\* the event cursor between the secret and the session and may be sent twice, and a
\* session that has ended stays ended (management-http.ts exchangeSession).
SecretOpensOneSession ==
  /\ \A c, d \in Cookies : opened[c] # 0 /\ opened[c] = opened[d] => c = d
  /\ \A c \in sessions : opened[c] # 0 /\ replays[c] = NoKey
=============================================================================
