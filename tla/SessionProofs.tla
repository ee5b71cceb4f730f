----------------------------- MODULE SessionProofs -----------------------------
(***************************************************************************)
(* Proofs that the sessions of a run form a chain of which one listens, in *)
(* the runtime (Sessions) and as the policy of the core has it (Rollover), *)
(* for any number of runs, sessions, overlapping rollovers and failures of *)
(* them.                                                                   *)
(***************************************************************************)
EXTENDS RunSessions, FiniteSetTheorems, TLAPS

(***************************************************************************)
(* The runtime.                                                            *)
(***************************************************************************)

Bindings == [status : {"none", "ACTIVE", "SUPERSEDED", "CLOSED"},
             run : SessionRuns \cup {NoSession}, external : Nat,
             predecessor : SessionIds \cup {NoSession}]
HandleRecords == [session : SessionIds \cup {NoSession}, external : Nat]
RolloverRecords == [at : {"none", "rejected", "creating", "committing", "replacing"},
                    run : SessionRuns \cup {NoSession}, key : RolloverKeys \cup {NoSession},
                    handle : SessionIds \cup {NoSession}, external : Nat]

SessionsTyped ==
  /\ bindings \in [SessionIds -> Bindings]
  /\ handles \in [SessionRuns -> HandleRecords]
  /\ drivers \in [SessionRuns -> Nat]
  /\ rollovers \in [RolloverCalls -> RolloverRecords]
  /\ ending \in [SessionRuns -> {"no", "closed", "lost"} \cup SessionIds]
  /\ strayed \subseteq SessionRuns

\* A session that is there belongs to a run, and so do the session it succeeded, the
\* handle of the run, the one its end has read and the one a rollover began with.
Belongs(s, r) == s \in SessionIds /\ bindings[s].run = r /\ bindings[s].status # "none"
BelongsThen(s, r) == s \in SessionIds /\ bindings'[s].run = r /\ bindings'[s].status # "none"
Under(c) == rollovers[c].at \in {"creating", "committing", "replacing"}
BindingsBelong ==
  /\ \A r \in SessionRuns : Belongs(r, r)
  /\ \A k \in RolloverKeys : bindings[k].status # "none" =>
       bindings[k].run \in SessionRuns /\ Belongs(bindings[k].predecessor, bindings[k].run)
  /\ \A r \in SessionRuns : handles[r] # NoHandle => Belongs(handles[r].session, r)
  /\ \A r \in SessionRuns : ending[r] \in SessionIds => Belongs(ending[r], r)
  /\ \A c \in RolloverCalls : Under(c) =>
       /\ rollovers[c].run \in SessionRuns /\ rollovers[c].key \in RolloverKeys
       /\ Belongs(rollovers[c].handle, rollovers[c].run)

OneActive == \A r \in SessionRuns, s, t \in SessionIds : s \in Active(r) /\ t \in Active(r) => s = t

\* A rollover has moved the driver of r and is not over.
Moved(c, r) == rollovers[c].run = r /\ rollovers[c].at \in {"committing", "replacing"}

\* One rollover of a run at a time moves its driver, and none after one has failed with
\* the driver moved: the driver is then ahead of the session the others know.
Ahead(r) == r \in strayed \/ \E c \in RolloverCalls : Moved(c, r)
HandlesBehind == \A r \in SessionRuns : /\ handles[r].external <= drivers[r]
                                        /\ Ahead(r) => handles[r].external < drivers[r]
CreatingBehind ==
  \A c \in RolloverCalls, r \in SessionRuns : rollovers[c].at = "creating" /\ rollovers[c].run = r =>
    /\ rollovers[c].external <= drivers[r]
    /\ Ahead(r) => rollovers[c].external < drivers[r]
MovesAlone ==
  \A c \in RolloverCalls, r \in SessionRuns : Moved(c, r) =>
    /\ rollovers[c].external = drivers[r]
    /\ r \notin strayed
    /\ \A d \in RolloverCalls : Moved(d, r) => d = c
OneMoves == HandlesBehind /\ CreatingBehind /\ MovesAlone

\* What the handle is replaced with listens, unless the run has ended.
ReplacedListens ==
  \A c \in RolloverCalls : At(c, "replacing") =>
    LET w == rollovers[c]
    IN /\ Belongs(w.key, w.run) /\ bindings[w.key].external = w.external
       /\ ending[w.run] = "no" => bindings[w.key].status = "ACTIVE"

SessionsInv == /\ SessionsTyped /\ BindingsBelong /\ OneActive /\ OneMoves /\ ReplacedListens
               /\ HandlesReachTheirSession

LEMMA SessionsStart == SessionsInit => SessionsInv
<1> SUFFICES ASSUME SessionsInit PROVE SessionsInv
  OBVIOUS
<1> USE SessionsAssumption DEF SessionsInit, NoBinding, NoRollover, SessionIds
<1>1. SessionsTyped
  BY DEF SessionsTyped, Bindings, HandleRecords, RolloverRecords
<1>2. BindingsBelong
  BY DEF BindingsBelong, Belongs, Under, NoHandle
<1>3. OneActive
  BY DEF OneActive, Active
<1>4. OneMoves
  BY DEF OneMoves, HandlesBehind, CreatingBehind, MovesAlone, Ahead, Moved
<1>5. ReplacedListens
  BY DEF ReplacedListens, At
<1>6. HandlesReachTheirSession
  BY DEF HandlesReachTheirSession
<1> QED
  BY <1>1, <1>2, <1>3, <1>4, <1>5, <1>6 DEF SessionsInv

LEMMA SessionsInductive == SessionsInv /\ [SessionsNext]_sessionVars => SessionsInv'
<1> SUFFICES ASSUME SessionsInv, [SessionsNext]_sessionVars PROVE SessionsInv'
  OBVIOUS
<1>a. /\ SessionsTyped /\ BindingsBelong /\ OneActive /\ OneMoves /\ ReplacedListens
      /\ HandlesReachTheirSession
  BY DEF SessionsInv
<1> USE SessionsAssumption
<1>1. CASE UNCHANGED sessionVars
  <2>1. UNCHANGED <<bindings, handles, drivers, rollovers, ending, strayed>>
    BY <1>1 DEF sessionVars
  <2>2. SessionsTyped'
    BY <1>a, <2>1 DEF SessionsTyped
  <2>3. BindingsBelong'
    BY <1>a, <2>1 DEF BindingsBelong, Belongs, Under
  <2>4. OneActive'
    BY <1>a, <2>1 DEF OneActive, Active
  <2>5. HandlesBehind' /\ CreatingBehind'
    BY <1>a, <2>1 DEF OneMoves, HandlesBehind, CreatingBehind, Ahead, Moved
  <2>6. MovesAlone'
    BY <1>a, <2>1 DEF OneMoves, MovesAlone, Moved
  <2>7. ReplacedListens'
    BY <1>a, <2>1 DEF ReplacedListens, At, Belongs
  <2>8. HandlesReachTheirSession'
    BY <1>a, <2>1 DEF HandlesReachTheirSession, Rolling
  <2> QED BY <2>2, <2>3, <2>4, <2>5, <2>6, <2>7, <2>8 DEF SessionsInv, OneMoves
<1>2. ASSUME NEW c \in RolloverCalls, NEW r \in SessionRuns, NEW k \in RolloverKeys, Rollover(c, r, k)
      PROVE  SessionsInv'
  <2> DEFINE place == IF MayBeAssembled(SuccessorContext(r, k)) THEN "creating" ELSE "rejected"
  <2>1. /\ rollovers[c].at = "none" /\ handles[r] # NoHandle
        /\ rollovers' = [rollovers EXCEPT ![c] =
                          [at |-> place, run |-> r, key |-> k, handle |-> handles[r].session,
                           external |-> handles[r].external]]
        /\ UNCHANGED <<bindings, handles, drivers, ending, strayed>>
        /\ place \in {"creating", "rejected"}
    BY <1>2 DEF Rollover, At
  <2> HIDE DEF place
  <2>2. SessionsTyped'
    BY <1>a, <2>1 DEF SessionsTyped, HandleRecords, RolloverRecords
  <2>3. BindingsBelong'
    BY <1>a, <2>1 DEF SessionsTyped, BindingsBelong, Belongs, Under
  <2>4. OneActive'
    BY <1>a, <2>1 DEF OneActive, Active
  <2>5. \A d \in RolloverCalls, q \in SessionRuns : Moved(d, q)' <=> Moved(d, q)
    BY <1>a, <2>1 DEF SessionsTyped, Moved
  <2>6. OneMoves'
    <3>1. \A q \in SessionRuns : Ahead(q)' <=> Ahead(q)
      BY <2>1, <2>5 DEF Ahead
    <3>2. HandlesBehind'
      BY <1>a, <2>1, <3>1 DEF OneMoves, HandlesBehind
    <3>3. CreatingBehind'
      <4>1. /\ \A d \in RolloverCalls : d # c => rollovers'[d] = rollovers[d]
            /\ rollovers'[c].run = r /\ rollovers'[c].external = handles[r].external
        BY <1>a, <2>1 DEF SessionsTyped
      <4> SUFFICES ASSUME NEW d \in RolloverCalls, NEW q \in SessionRuns,
                          rollovers'[d].at = "creating", rollovers'[d].run = q
                   PROVE  /\ rollovers'[d].external <= drivers'[q]
                          /\ Ahead(q)' => rollovers'[d].external < drivers'[q]
        BY DEF CreatingBehind
      <4>2. CASE d = c
        BY <1>a, <2>1, <3>1, <4>1, <4>2 DEF OneMoves, HandlesBehind
      <4>3. CASE d # c
        BY <1>a, <2>1, <3>1, <4>1, <4>3 DEF OneMoves, CreatingBehind
      <4> QED BY <4>2, <4>3
    <3>4. MovesAlone'
      <4>1. \A d \in RolloverCalls, q \in SessionRuns : Moved(d, q) => d # c
        BY <2>1 DEF Moved
      <4> QED BY <1>a, <2>1, <2>5, <4>1 DEF SessionsTyped, OneMoves, MovesAlone
    <3> QED BY <3>2, <3>3, <3>4 DEF OneMoves
  <2>7. ReplacedListens'
    BY <1>a, <2>1 DEF SessionsTyped, ReplacedListens, At, Belongs
  <2>8. HandlesReachTheirSession'
    BY <1>a, <2>1 DEF SessionsTyped, HandlesReachTheirSession, Rolling
  <2> QED BY <2>2, <2>3, <2>4, <2>6, <2>7, <2>8 DEF SessionsInv
<1>3. ASSUME NEW c \in RolloverCalls, DriverCreates(c) PROVE SessionsInv'
  <2> DEFINE r == rollovers[c].run
  <2>1. /\ rollovers[c].at = "creating" /\ drivers[r] = rollovers[c].external
        /\ drivers' = [drivers EXCEPT ![r] = @ + 1]
        /\ rollovers' = [rollovers EXCEPT ![c].at = "committing", ![c].external = drivers[r] + 1]
        /\ UNCHANGED <<bindings, handles, ending, strayed>>
    BY <1>3 DEF DriverCreates, InSession, At
  <2>2. r \in SessionRuns /\ drivers[r] \in Nat /\ rollovers[c] \in RolloverRecords
    BY <1>a, <2>1 DEF SessionsTyped, BindingsBelong, Under
  <2>3. SessionsTyped'
    BY <1>a, <2>1, <2>2 DEF SessionsTyped, RolloverRecords
  <2>4. BindingsBelong'
    <3>1. \A d \in RolloverCalls : /\ rollovers'[d].run = rollovers[d].run
                                   /\ rollovers'[d].key = rollovers[d].key
                                   /\ rollovers'[d].handle = rollovers[d].handle
                                   /\ Under(d)' <=> Under(d)
      BY <1>a, <2>1 DEF SessionsTyped, Under, RolloverRecords
    <3>2. \A t, q : Belongs(t, q)' <=> Belongs(t, q)
      BY <2>1 DEF Belongs
    <3> QED BY <1>a, <2>1, <3>1, <3>2 DEF BindingsBelong
  <2>5. OneActive'
    BY <1>a, <2>1 DEF OneActive, Active
  <2>6. r \notin strayed /\ \A d \in RolloverCalls : ~Moved(d, r)
    <3>1. ~(rollovers[c].external < drivers[r])
      BY <2>1, <2>2
    <3> QED BY <1>a, <2>1, <2>2, <3>1 DEF OneMoves, CreatingBehind, Ahead
  <2>7. \A d \in RolloverCalls, q \in SessionRuns :
           Moved(d, q)' <=> (d = c /\ q = r) \/ Moved(d, q)
    BY <1>a, <2>1, <2>2 DEF SessionsTyped, Moved, RolloverRecords
  <2>8. OneMoves'
    <3>1. \A q \in SessionRuns : Ahead(q)' => q = r \/ Ahead(q)
      BY <2>1, <2>7 DEF Ahead
    <3>2. /\ drivers' \in [SessionRuns -> Nat] /\ drivers'[r] = drivers[r] + 1
          /\ \A q \in SessionRuns : drivers'[q] = IF q = r THEN drivers[r] + 1 ELSE drivers[q]
          /\ rollovers'[c].external = drivers'[r]
          /\ \A d \in RolloverCalls : d # c => rollovers'[d] = rollovers[d]
          /\ rollovers'[c].at = "committing"
      BY <1>a, <2>1, <2>2 DEF SessionsTyped, RolloverRecords
    <3>3. /\ \A q \in SessionRuns : handles[q].external \in Nat /\ drivers[q] \in Nat
          /\ \A d \in RolloverCalls : rollovers[d].external \in Nat
      BY <1>a DEF SessionsTyped, HandleRecords, RolloverRecords
    <3>4. HandlesBehind'
      <4> SUFFICES ASSUME NEW q \in SessionRuns
                   PROVE  /\ handles[q].external <= drivers'[q]
                          /\ Ahead(q)' => handles[q].external < drivers'[q]
        BY <2>1 DEF HandlesBehind
      <4>1. /\ handles[q].external <= drivers[q]
            /\ Ahead(q) => handles[q].external < drivers[q]
        BY <1>a DEF OneMoves, HandlesBehind
      <4> HIDE DEF r
      <4> QED BY <2>2, <3>1, <3>2, <3>3, <4>1
    <3>5. CreatingBehind'
      <4> SUFFICES ASSUME NEW d \in RolloverCalls, NEW q \in SessionRuns,
                          rollovers'[d].at = "creating", rollovers'[d].run = q
                   PROVE  /\ rollovers'[d].external <= drivers'[q]
                          /\ Ahead(q)' => rollovers'[d].external < drivers'[q]
        BY DEF CreatingBehind
      <4>1. d # c /\ rollovers'[d] = rollovers[d]
        BY <3>2
      <4>2. /\ rollovers[d].external <= drivers[q]
            /\ Ahead(q) => rollovers[d].external < drivers[q]
        BY <1>a, <4>1 DEF OneMoves, CreatingBehind
      <4> HIDE DEF r
      <4> QED BY <2>2, <3>1, <3>2, <3>3, <4>1, <4>2
    <3>6. MovesAlone'
      <4> SUFFICES ASSUME NEW d \in RolloverCalls, NEW q \in SessionRuns, Moved(d, q)'
                   PROVE  /\ rollovers'[d].external = drivers'[q]
                          /\ q \notin strayed'
                          /\ \A e \in RolloverCalls : Moved(e, q)' => e = d
        BY DEF MovesAlone
      <4>1. CASE d = c /\ q = r
        BY <2>1, <2>2, <2>6, <2>7, <3>2, <4>1
      <4>2. CASE ~(d = c /\ q = r)
        <5>1. Moved(d, q) /\ q # r /\ d # c
          <6>1. Moved(d, q)
            BY <2>7, <4>2
          <6>2. q # r
            BY <2>6, <6>1
          <6>3. d # c
            BY <2>1, <6>1 DEF Moved
          <6> QED BY <6>1, <6>2, <6>3
        <5>2. /\ rollovers[d].external = drivers[q] /\ q \notin strayed
              /\ \A e \in RolloverCalls : Moved(e, q) => e = d
          BY <1>a, <5>1 DEF OneMoves, MovesAlone
        <5>3. rollovers'[d] = rollovers[d] /\ drivers'[q] = drivers[q] /\ strayed' = strayed
          BY <2>1, <3>2, <5>1
        <5>4. \A e \in RolloverCalls : Moved(e, q)' => Moved(e, q)
          BY <2>7, <5>1
        <5> QED BY <5>2, <5>3, <5>4
      <4> QED BY <4>1, <4>2
    <3> QED BY <3>4, <3>5, <3>6 DEF OneMoves
  <2>9. ReplacedListens'
    BY <1>a, <2>1 DEF SessionsTyped, ReplacedListens, At, Belongs
  <2>10. HandlesReachTheirSession'
    BY <1>a, <2>1, <2>2 DEF SessionsTyped, HandlesReachTheirSession, Rolling
  <2> QED BY <2>3, <2>4, <2>5, <2>8, <2>9, <2>10 DEF SessionsInv
<1>4. ASSUME NEW c \in RolloverCalls, DriverRefuses(c) PROVE SessionsInv'
  <2>1. /\ rollovers[c].at = "creating"
        /\ rollovers' = [rollovers EXCEPT ![c] = NoRollover]
        /\ UNCHANGED <<bindings, handles, drivers, ending, strayed>>
    BY <1>4 DEF DriverRefuses, Ends, At
  <2>2. SessionsTyped'
    BY <1>a, <2>1 DEF SessionsTyped, RolloverRecords, NoRollover
  <2>3. BindingsBelong'
    BY <1>a, <2>1 DEF SessionsTyped, BindingsBelong, Belongs, Under, NoRollover
  <2>4. OneActive'
    BY <1>a, <2>1 DEF OneActive, Active
  <2>5. \A d \in RolloverCalls, q \in SessionRuns : Moved(d, q)' <=> Moved(d, q)
    BY <1>a, <2>1 DEF SessionsTyped, Moved, NoRollover
  <2>6. OneMoves'
    <3>1. \A q \in SessionRuns : Ahead(q)' <=> Ahead(q)
      BY <2>1, <2>5 DEF Ahead
    <3>2. /\ \A d \in RolloverCalls : d # c => rollovers'[d] = rollovers[d]
          /\ rollovers'[c].at = "none"
      BY <1>a, <2>1 DEF SessionsTyped, NoRollover
    <3> QED
      BY <1>a, <2>1, <2>5, <3>1, <3>2
      DEF OneMoves, HandlesBehind, CreatingBehind, MovesAlone, Moved
  <2>7. ReplacedListens'
    BY <1>a, <2>1 DEF SessionsTyped, ReplacedListens, At, Belongs, NoRollover
  <2>8. HandlesReachTheirSession'
    BY <1>a, <2>1 DEF SessionsTyped, HandlesReachTheirSession, Rolling
  <2> QED BY <2>2, <2>3, <2>4, <2>6, <2>7, <2>8 DEF SessionsInv
<1>5. ASSUME NEW c \in RolloverCalls, CommitRollover(c) PROVE SessionsInv'
  <2> DEFINE w == rollovers[c]
             new == [status |-> "ACTIVE", run |-> w.run, external |-> w.external,
                     predecessor |-> w.handle]
  <2>1. /\ w.at = "committing"
        /\ bindings[w.handle].status = "ACTIVE" /\ bindings[w.key].status = "none"
        /\ bindings' = [bindings EXCEPT ![w.handle].status = "SUPERSEDED", ![w.key] = new]
        /\ rollovers' = [rollovers EXCEPT ![c].at = "replacing"]
        /\ UNCHANGED <<handles, drivers, ending, strayed>>
    BY <1>5 DEF CommitRollover, RolloverPossible, Goes, At
  <2>2. /\ w \in RolloverRecords /\ w.run \in SessionRuns /\ w.key \in RolloverKeys
        /\ w.handle \in SessionIds /\ w.key \in SessionIds /\ w.handle # w.key
        /\ bindings[w.handle].run = w.run
    BY <1>a, <2>1 DEF SessionsTyped, BindingsBelong, Under, Belongs, SessionIds
  <2>3. /\ bindings'[w.key] = new
        /\ bindings'[w.handle] = [bindings[w.handle] EXCEPT !.status = "SUPERSEDED"]
        /\ \A t \in SessionIds \ {w.handle, w.key} : bindings'[t] = bindings[t]
    BY <1>a, <2>1, <2>2 DEF SessionsTyped
  <2>a. bindings' \in [SessionIds -> Bindings]
    <3>1. bindings[w.handle] \in Bindings /\ w.external \in Nat
      BY <1>a, <2>2 DEF SessionsTyped, RolloverRecords
    <3>2. [bindings[w.handle] EXCEPT !.status = "SUPERSEDED"] \in Bindings
      BY <3>1 DEF Bindings
    <3>3. new \in Bindings
      BY <2>2, <3>1 DEF Bindings
    <3>4. DOMAIN bindings' = SessionIds /\ bindings' = [t \in SessionIds |-> bindings'[t]]
      BY <1>a, <2>1 DEF SessionsTyped
    <3>5. \A t \in SessionIds : bindings[t] \in Bindings
      BY <1>a DEF SessionsTyped
    <3> HIDE DEF w, new
    <3>6. \A t \in SessionIds : bindings'[t] \in Bindings
      BY <2>3, <3>2, <3>3, <3>5
    <3> QED BY <3>4, <3>6
  <2>b. rollovers' \in [RolloverCalls -> RolloverRecords]
    <3>1. [w EXCEPT !.at = "replacing"] \in RolloverRecords
      BY <2>2 DEF RolloverRecords
    <3>2. rollovers' = [rollovers EXCEPT ![c] = [w EXCEPT !.at = "replacing"]]
      BY <2>1
    <3> QED BY <1>a, <3>1, <3>2 DEF SessionsTyped
  <2>4. SessionsTyped'
    BY <1>a, <2>1, <2>a, <2>b DEF SessionsTyped
  <2>c. \A d \in RolloverCalls : rollovers'[d] = IF d = c THEN [w EXCEPT !.at = "replacing"] ELSE rollovers[d]
    BY <1>a, <2>1 DEF SessionsTyped
  <2>d. \A d \in RolloverCalls : /\ rollovers'[d].run = rollovers[d].run
                                 /\ rollovers'[d].key = rollovers[d].key
                                 /\ rollovers'[d].handle = rollovers[d].handle
                                 /\ rollovers'[d].external = rollovers[d].external
                                 /\ rollovers'[d].at = IF d = c THEN "replacing" ELSE rollovers[d].at
    BY <2>2, <2>c DEF RolloverRecords
  <2>5. \A t \in SessionIds, q \in SessionRuns : Belongs(t, q) => Belongs(t, q)' /\ t # w.key
    <3> SUFFICES ASSUME NEW t \in SessionIds, NEW q \in SessionRuns, Belongs(t, q)
                 PROVE  Belongs(t, q)' /\ t # w.key
      OBVIOUS
    <3>1. t # w.key
      BY <2>1 DEF Belongs
    <3>2. bindings[t] \in Bindings
      BY <1>a DEF SessionsTyped
    <3>3. bindings'[t].run = q /\ bindings'[t].status # "none"
      BY <2>2, <2>3, <3>1, <3>2 DEF Belongs, Bindings
    <3> QED BY <3>1, <3>3 DEF Belongs
  <2>6. BindingsBelong'
    <3>1. \A q \in SessionRuns : Belongs(q, q)'
      BY <1>a, <2>5 DEF BindingsBelong, Belongs
    <3>2. \A k \in RolloverKeys : bindings'[k].status # "none" =>
            bindings'[k].run \in SessionRuns /\ Belongs(bindings[k].predecessor, bindings[k].run)'
      <4> SUFFICES ASSUME NEW k \in RolloverKeys, bindings'[k].status # "none"
                   PROVE  /\ bindings'[k].run \in SessionRuns
                          /\ Belongs(bindings[k].predecessor, bindings[k].run)'
        OBVIOUS
      <4>1. Belongs(w.handle, w.run)
        BY <2>1, <2>2 DEF Belongs
      <4>2. CASE k = w.key
        <5>1. bindings'[k].run = w.run /\ bindings'[k].predecessor = w.handle
          BY <2>3, <4>2
        <5> QED BY <2>2, <2>5, <4>1, <5>1
      <4>3. CASE k # w.key
        <5>1. /\ bindings'[k].run = bindings[k].run /\ bindings[k].status # "none"
              /\ bindings'[k].predecessor = bindings[k].predecessor
          <6>1. bindings[k] \in Bindings /\ k \in SessionIds
            BY <1>a DEF SessionsTyped, SessionIds
          <6>2. CASE k = w.handle
            <7> HIDE DEF w
            <7> QED BY <2>1, <2>3, <6>1, <6>2 DEF Bindings
          <6>3. CASE k # w.handle
            BY <2>1, <2>2, <2>3, <4>3, <6>1, <6>3
          <6> QED BY <6>2, <6>3
        <5>2. bindings[k].run \in SessionRuns /\ Belongs(bindings[k].predecessor, bindings[k].run)
          BY <1>a, <5>1 DEF BindingsBelong
        <5>3. bindings[k].predecessor \in SessionIds
          BY <5>2 DEF Belongs
        <5> QED BY <2>5, <5>1, <5>2, <5>3
      <4> QED BY <4>2, <4>3
    <3>a. \A t, q : Belongs(t, q) => t \in SessionIds
      BY DEF Belongs
    <3>b. handles' = handles /\ ending' = ending
      BY <2>1
    <3>3. \A q \in SessionRuns : handles'[q] # NoHandle => Belongs(handles[q].session, q)'
      <4> SUFFICES ASSUME NEW q \in SessionRuns, handles[q] # NoHandle
                   PROVE  Belongs(handles[q].session, q)'
        BY <3>b
      <4>1. Belongs(handles[q].session, q)
        BY <1>a DEF BindingsBelong
      <4> QED BY <2>5, <3>a, <3>b, <4>1 DEF Belongs
    <3>4. \A q \in SessionRuns : ending'[q] \in SessionIds => Belongs(ending[q], q)'
      <4> SUFFICES ASSUME NEW q \in SessionRuns, ending[q] \in SessionIds
                   PROVE  Belongs(ending[q], q)'
        BY <3>b
      <4>1. Belongs(ending[q], q)
        BY <1>a DEF BindingsBelong
      <4> QED BY <2>5, <3>a, <3>b, <4>1 DEF Belongs
    <3>5. \A d \in RolloverCalls : /\ rollovers'[d].run = rollovers[d].run
                                   /\ rollovers'[d].key = rollovers[d].key
                                   /\ rollovers'[d].handle = rollovers[d].handle
                                   /\ Under(d)' => Under(d)
      BY <1>a, <2>1, <2>2 DEF SessionsTyped, RolloverRecords, Under
    <3>6. \A d \in RolloverCalls : Under(d)' =>
            /\ rollovers'[d].run \in SessionRuns /\ rollovers'[d].key \in RolloverKeys
            /\ Belongs(rollovers[d].handle, rollovers[d].run)'
      BY <1>a, <2>5, <3>5 DEF BindingsBelong, Belongs
    <3> QED BY <3>1, <3>2, <3>3, <3>4, <3>6 DEF BindingsBelong
  <2>7. \A q \in SessionRuns : Active(q)' = IF q = w.run THEN {w.key} ELSE Active(q)
    <3> SUFFICES ASSUME NEW q \in SessionRuns PROVE Active(q)' = IF q = w.run THEN {w.key} ELSE Active(q)
      OBVIOUS
    <3>1. \A t : t \in Active(q) <=> t \in SessionIds /\ bindings[t].run = q /\ bindings[t].status = "ACTIVE"
      BY DEF Active
    <3>2. \A t : t \in Active(q)' <=> t \in SessionIds /\ bindings'[t].run = q /\ bindings'[t].status = "ACTIVE"
      BY DEF Active
    <3>3. /\ bindings'[w.key].run = w.run /\ bindings'[w.key].status = "ACTIVE"
          /\ bindings'[w.handle].status = "SUPERSEDED"
      BY <1>a, <2>2, <2>3 DEF SessionsTyped, Bindings
    <3>4. w.handle \in SessionIds /\ w.key \in SessionIds /\ bindings[w.handle].run = w.run
          /\ bindings[w.handle].status = "ACTIVE" /\ bindings[w.key].status = "none"
      BY <2>1, <2>2
    <3>5. \A s, t \in SessionIds : s \in Active(q) /\ t \in Active(q) => s = t
      BY <1>a DEF OneActive
    <3> HIDE DEF w, new
    <3>6. CASE q = w.run
      <4>1. \A t \in SessionIds : t \in Active(q) => t = w.handle
        BY <3>1, <3>4, <3>5, <3>6
      <4>2. ASSUME NEW t PROVE t \in Active(q)' <=> t = w.key
        <5>1. CASE t = w.key
          BY <3>2, <3>3, <3>4, <3>6, <5>1
        <5>2. CASE t = w.handle
          BY <3>2, <3>3, <3>4, <5>2
        <5>3. CASE t \notin {w.key, w.handle}
          <6>1. t \in SessionIds => bindings'[t] = bindings[t] /\ t \notin Active(q)
            BY <2>3, <4>1, <5>3
          <6> QED BY <3>1, <3>2, <5>3, <6>1
        <5> QED BY <5>1, <5>2, <5>3
      <4>3. Active(q)' = {w.key}
        BY <4>2
      <4> QED BY <3>6, <4>3
    <3>7. CASE q # w.run
      <4>1. ASSUME NEW t PROVE t \in Active(q)' <=> t \in Active(q)
        <5>1. CASE t = w.key
          BY <3>1, <3>2, <3>3, <3>4, <3>7, <5>1
        <5>2. CASE t = w.handle
          BY <3>1, <3>2, <3>3, <3>4, <3>7, <5>2
        <5>3. CASE t \notin {w.key, w.handle}
          <6>1. t \in SessionIds => bindings'[t] = bindings[t]
            BY <2>3, <5>3
          <6> QED BY <3>1, <3>2, <6>1
        <5> QED BY <5>1, <5>2, <5>3
      <4> QED BY <3>7, <4>1
    <3> QED BY <3>6, <3>7
  <2>8. OneActive'
    BY <1>a, <2>7 DEF OneActive
  <2>9. \A d \in RolloverCalls, q \in SessionRuns : Moved(d, q)' <=> Moved(d, q)
    BY <1>a, <2>1, <2>2 DEF SessionsTyped, Moved, RolloverRecords
  <2>10. OneMoves'
    <3>1. \A q \in SessionRuns : Ahead(q)' <=> Ahead(q)
      BY <2>1, <2>9 DEF Ahead
    <3>2. \A d \in RolloverCalls : /\ rollovers'[d].external = rollovers[d].external
                                   /\ rollovers'[d].run = rollovers[d].run
                                   /\ rollovers'[d].at = "creating" => rollovers[d].at = "creating"
      BY <1>a, <2>1, <2>2 DEF SessionsTyped, RolloverRecords
    <3> QED
      BY <1>a, <2>1, <2>9, <3>1, <3>2 DEF OneMoves, HandlesBehind, CreatingBehind, MovesAlone
  <2>11. ReplacedListens'
    <3>1. Moved(c, w.run)
      BY <2>1 DEF Moved
    <3>2. bindings'[w.key].external = w.external /\ bindings'[w.key].status = "ACTIVE"
      BY <2>3
    <3>3. BelongsThen(w.key, w.run)
      BY <2>2, <2>3 DEF BelongsThen
    <3> SUFFICES ASSUME NEW d \in RolloverCalls, rollovers'[d].at = "replacing"
                 PROVE  /\ BelongsThen(rollovers'[d].key, rollovers'[d].run)
                        /\ bindings'[rollovers'[d].key].external = rollovers'[d].external
                        /\ ending'[rollovers'[d].run] = "no" => bindings'[rollovers'[d].key].status = "ACTIVE"
      BY DEF ReplacedListens, At, Belongs, BelongsThen
    <3>4. CASE d = c
      <4>1. /\ rollovers'[d].key = w.key /\ rollovers'[d].run = w.run /\ rollovers'[d].external = w.external
        BY <2>d, <3>4
      <4> HIDE DEF w, new
      <4> QED BY <3>2, <3>3, <4>1
    <3>5. CASE d # c
      <4>1. rollovers'[d] = rollovers[d] /\ rollovers[d].at = "replacing" /\ ending' = ending
        BY <2>1, <2>c, <3>5
      <4>2. /\ Belongs(rollovers[d].key, rollovers[d].run)
            /\ bindings[rollovers[d].key].external = rollovers[d].external
            /\ ending[rollovers[d].run] = "no" => bindings[rollovers[d].key].status = "ACTIVE"
        BY <1>a, <4>1 DEF ReplacedListens, At
      <4>3. rollovers[d].run # w.run /\ rollovers[d].run \in SessionRuns
        <5>1. rollovers[d].run \in SessionRuns
          BY <1>a, <4>1 DEF BindingsBelong, Under
        <5>2. Moved(d, rollovers[d].run)
          BY <4>1 DEF Moved
        <5> QED BY <1>a, <2>2, <3>1, <3>5, <5>1, <5>2 DEF OneMoves, MovesAlone
      <4>4. rollovers[d].key \in SessionIds \ {w.handle, w.key}
        BY <2>1, <2>2, <4>2, <4>3 DEF Belongs
      <4>5. bindings'[rollovers[d].key] = bindings[rollovers[d].key]
        BY <2>3, <4>4
      <4>6. BelongsThen(rollovers[d].key, rollovers[d].run)
        BY <4>2, <4>5 DEF Belongs, BelongsThen
      <4> QED BY <4>1, <4>2, <4>5, <4>6
    <3> QED BY <3>4, <3>5
  <2>12. HandlesReachTheirSession'
    <3>1. \A q \in SessionRuns : /\ Rolling(q, {"replacing"}) => Rolling(q, {"replacing"})'
                                 /\ Rolling(q, {"committing", "replacing"}) => Rolling(q, {"committing", "replacing"})'
      BY <2>d DEF Rolling
    <3>2. \A q \in SessionRuns : q = w.run =>
            Rolling(q, {"replacing"})' /\ Rolling(q, {"committing", "replacing"})'
      BY <2>d DEF Rolling
    <3> SUFFICES ASSUME NEW q \in SessionRuns, handles[q] # NoHandle
                 PROVE  /\ \/ /\ bindings'[handles[q].session].external = handles[q].external
                              /\ ending[q] = "no" => bindings'[handles[q].session].status = "ACTIVE"
                           \/ Rolling(q, {"replacing"})'
                        /\ \/ drivers[q] = handles[q].external
                           \/ q \in strayed \/ Rolling(q, {"committing", "replacing"})'
      BY <2>1 DEF HandlesReachTheirSession
    <3>3. CASE q = w.run
      BY <3>2, <3>3
    <3>4. CASE q # w.run
      <4>1. Belongs(handles[q].session, q)
        BY <1>a DEF BindingsBelong
      <4>2. handles[q].session \in SessionIds \ {w.handle, w.key}
        BY <2>1, <2>2, <3>4, <4>1 DEF Belongs
      <4>3. bindings'[handles[q].session] = bindings[handles[q].session]
        BY <2>3, <4>2
      <4> QED BY <1>a, <3>1, <4>3 DEF HandlesReachTheirSession
    <3> QED BY <3>3, <3>4
  <2> QED BY <2>4, <2>6, <2>8, <2>10, <2>11, <2>12 DEF SessionsInv
<1>6. ASSUME NEW c \in RolloverCalls, RolloverNotCommitted(c) PROVE SessionsInv'
  <2>1. /\ rollovers[c].at = "committing"
        /\ rollovers' = [rollovers EXCEPT ![c] = NoRollover]
        /\ strayed' = strayed \cup {rollovers[c].run}
        /\ UNCHANGED <<bindings, handles, drivers, ending>>
    BY <1>6 DEF RolloverNotCommitted, Ends, At
  <2>a. rollovers[c].run \in SessionRuns
    BY <1>a, <2>1 DEF BindingsBelong, Under
  <2>2. SessionsTyped'
    BY <1>a, <2>1, <2>a DEF SessionsTyped, RolloverRecords, NoRollover
  <2>3. BindingsBelong'
    BY <1>a, <2>1 DEF SessionsTyped, BindingsBelong, Belongs, Under, NoRollover
  <2>4. OneActive'
    BY <1>a, <2>1 DEF OneActive, Active
  <2>5. rollovers[c].run \in SessionRuns /\ Moved(c, rollovers[c].run)
    BY <1>a, <2>1 DEF BindingsBelong, Under, Moved
  <2>6. \A d \in RolloverCalls, q \in SessionRuns : Moved(d, q)' <=> Moved(d, q) /\ d # c
    BY <1>a, <2>1 DEF SessionsTyped, Moved, NoRollover
  <2>7. OneMoves'
    <3>1. \A q \in SessionRuns : Ahead(q)' => Ahead(q)
      BY <2>1, <2>5, <2>6 DEF Ahead
    <3>2. /\ \A d \in RolloverCalls : d # c => rollovers'[d] = rollovers[d]
          /\ rollovers'[c].at = "none"
      BY <1>a, <2>1 DEF SessionsTyped, NoRollover
    <3>3. HandlesBehind' /\ CreatingBehind'
      BY <1>a, <2>1, <3>1, <3>2 DEF OneMoves, HandlesBehind, CreatingBehind
    <3>4. MovesAlone'
      BY <1>a, <2>1, <2>5, <2>6, <3>2 DEF OneMoves, MovesAlone
    <3> QED BY <3>3, <3>4 DEF OneMoves
  <2>8. ReplacedListens'
    BY <1>a, <2>1 DEF SessionsTyped, ReplacedListens, At, Belongs, NoRollover
  <2>9. HandlesReachTheirSession'
    BY <1>a, <2>1 DEF SessionsTyped, HandlesReachTheirSession, Rolling
  <2> QED BY <2>2, <2>3, <2>4, <2>7, <2>8, <2>9 DEF SessionsInv
<1>7. ASSUME NEW c \in RolloverCalls, ReplaceBinding(c) PROVE SessionsInv'
  <2> DEFINE w == rollovers[c]
  <2>1. /\ w.at = "replacing"
        /\ handles' = IF handles[w.run] = NoHandle THEN handles
                      ELSE [handles EXCEPT ![w.run] = [session |-> w.key, external |-> w.external]]
        /\ rollovers' = [rollovers EXCEPT ![c] = NoRollover]
        /\ UNCHANGED <<bindings, drivers, ending, strayed>>
    BY <1>7 DEF ReplaceBinding, Ends, At
  <2>2. /\ w \in RolloverRecords /\ w.run \in SessionRuns /\ w.key \in RolloverKeys
        /\ Moved(c, w.run) /\ Belongs(w.key, w.run) /\ bindings[w.key].external = w.external
        /\ ending[w.run] = "no" => bindings[w.key].status = "ACTIVE"
        /\ w.external = drivers[w.run]
    BY <1>a, <2>1 DEF SessionsTyped, BindingsBelong, Under, Moved, ReplacedListens, At, OneMoves,
        MovesAlone
  <2>3. SessionsTyped'
    BY <1>a, <2>1, <2>2 DEF SessionsTyped, HandleRecords, RolloverRecords, NoRollover, SessionIds
  <2>4. BindingsBelong'
    <3>1. \A d \in RolloverCalls : rollovers'[d] = IF d = c THEN NoRollover ELSE rollovers[d]
      BY <1>a, <2>1 DEF SessionsTyped
    <3>2. \A d \in RolloverCalls : Under(d)' => Under(d) /\ rollovers'[d] = rollovers[d]
      BY <3>1 DEF Under, NoRollover
    <3>3. \A t, q : Belongs(t, q)' <=> Belongs(t, q)
      BY <2>1 DEF Belongs
    <3>4. \A q \in SessionRuns : \/ handles'[q] = handles[q]
                                \/ (q = w.run /\ handles'[q].session = w.key)
      BY <1>a, <2>1 DEF SessionsTyped
    <3>5. \A q \in SessionRuns : handles'[q] # NoHandle => Belongs(handles'[q].session, q)
      BY <1>a, <2>2, <3>4 DEF BindingsBelong
    <3> QED BY <1>a, <2>1, <3>2, <3>3, <3>5 DEF BindingsBelong
  <2>5. OneActive'
    BY <1>a, <2>1 DEF OneActive, Active
  <2>6. \A d \in RolloverCalls, q \in SessionRuns : Moved(d, q)' <=> Moved(d, q) /\ d # c
    BY <1>a, <2>1 DEF SessionsTyped, Moved, NoRollover
  <2>7. /\ handles'[w.run] = handles[w.run] \/ handles'[w.run].external = drivers[w.run]
        /\ \A q \in SessionRuns \ {w.run} : handles'[q] = handles[q]
    BY <1>a, <2>1, <2>2 DEF SessionsTyped
  <2>8. OneMoves'
    <3>1. \A q \in SessionRuns : Ahead(q)' => Ahead(q) /\ q # w.run
      <4>1. w.run \notin strayed /\ \A d \in RolloverCalls : Moved(d, w.run) => d = c
        BY <1>a, <2>2 DEF OneMoves, MovesAlone
      <4> QED BY <2>1, <2>2, <2>6, <4>1 DEF Ahead
    <3>2. /\ \A d \in RolloverCalls : d # c => rollovers'[d] = rollovers[d]
          /\ rollovers'[c].at = "none"
      BY <1>a, <2>1 DEF SessionsTyped, NoRollover
    <3>3. drivers[w.run] \in Nat
      BY <1>a, <2>2 DEF SessionsTyped
    <3>4. HandlesBehind'
      BY <1>a, <2>1, <2>2, <2>7, <3>1, <3>3 DEF OneMoves, HandlesBehind
    <3>5. CreatingBehind'
      BY <1>a, <2>1, <3>1, <3>2 DEF OneMoves, CreatingBehind
    <3>6. MovesAlone'
      BY <1>a, <2>1, <2>6, <3>2 DEF OneMoves, MovesAlone
    <3> QED BY <3>4, <3>5, <3>6 DEF OneMoves
  <2>9. ReplacedListens'
    BY <1>a, <2>1 DEF SessionsTyped, ReplacedListens, At, Belongs, NoRollover
  <2>10. HandlesReachTheirSession'
    BY <1>a, <2>1, <2>2 DEF SessionsTyped, HandlesReachTheirSession, Rolling
  <2> QED BY <2>3, <2>4, <2>5, <2>8, <2>9, <2>10 DEF SessionsInv
<1>8. ASSUME NEW r \in SessionRuns, RunEnds(r) PROVE SessionsInv'
  <2>1. PICK s \in Active(r) : ending' = [ending EXCEPT ![r] = s]
    BY <1>8 DEF RunEnds
  <2>2. ending[r] = "no" /\ UNCHANGED <<bindings, handles, drivers, rollovers, strayed>>
    BY <1>8 DEF RunEnds
  <2>3. Belongs(s, r)
    BY <2>1 DEF Active, Belongs
  <2>4. SessionsTyped'
    BY <1>a, <2>1, <2>2, <2>3 DEF SessionsTyped, Belongs
  <2>5. BindingsBelong'
    BY <1>a, <2>1, <2>2, <2>3 DEF SessionsTyped, BindingsBelong, Belongs, Under
  <2>6. OneActive' /\ OneMoves'
    BY <1>a, <2>2 DEF OneActive, Active, OneMoves, HandlesBehind, CreatingBehind, MovesAlone, Ahead,
                      Moved
  <2>7. \A q \in SessionRuns : ending'[q] = "no" => ending[q] = "no"
    BY <1>a, <2>1, <2>2 DEF SessionsTyped
  <2>8. ReplacedListens'
    BY <1>a, <2>2, <2>7 DEF ReplacedListens, At, Belongs, BindingsBelong, Under
  <2>9. HandlesReachTheirSession'
    BY <1>a, <2>2, <2>7 DEF HandlesReachTheirSession, Rolling
  <2> QED BY <2>4, <2>5, <2>6, <2>8, <2>9 DEF SessionsInv
<1>9. ASSUME NEW r \in SessionRuns, CommitEnd(r) PROVE SessionsInv'
  <2> DEFINE s == ending[r]
  <2>1. /\ s \in SessionIds /\ Belongs(s, r)
        /\ UNCHANGED <<handles, drivers, rollovers, strayed>>
    BY <1>9, <1>a DEF CommitEnd, BindingsBelong
  <2>2. /\ ending' \in [SessionRuns -> {"no", "closed", "lost"} \cup SessionIds]
        /\ ending'[r] \in {"closed", "lost"}
        /\ \A q \in SessionRuns \ {r} : ending'[q] = ending[q]
    BY <1>9, <1>a DEF CommitEnd, SessionsTyped
  <2>3. /\ bindings' \in [SessionIds -> Bindings]
        /\ bindings' = bindings \/ bindings' = [bindings EXCEPT ![s].status = "CLOSED"]
    BY <1>9, <1>a DEF CommitEnd, SessionsTyped, Bindings
  <2>4. SessionsTyped'
    BY <1>a, <2>1, <2>2, <2>3 DEF SessionsTyped
  <2>5. \A t \in SessionIds : /\ bindings'[t].run = bindings[t].run
                              /\ bindings'[t].predecessor = bindings[t].predecessor
                              /\ bindings'[t].external = bindings[t].external
                              /\ bindings'[t].status = "none" <=> bindings[t].status = "none"
                              /\ bindings'[t].status = "ACTIVE" => bindings[t].status = "ACTIVE"
                              /\ bindings'[t].status # bindings[t].status => t = s
    <3>1. CASE bindings' = bindings
      BY <3>1
    <3>2. CASE bindings' = [bindings EXCEPT ![s].status = "CLOSED"]
      <4>1. bindings[s] \in Bindings /\ bindings[s].status # "none"
        BY <1>a, <2>1 DEF SessionsTyped, Belongs
      <4>2. \A t \in SessionIds : bindings'[t] = IF t = s THEN [bindings[s] EXCEPT !.status = "CLOSED"]
                                                ELSE bindings[t]
        BY <1>a, <3>2 DEF SessionsTyped
      <4> HIDE DEF s
      <4> QED BY <4>1, <4>2 DEF Bindings
    <3> QED BY <2>3, <3>1, <3>2
  <2>6. \A t \in SessionIds, q \in SessionRuns : Belongs(t, q) => Belongs(t, q)'
    BY <2>5 DEF Belongs
  <2>7. BindingsBelong'
    <3>1. \A t, q : Belongs(t, q) => BelongsThen(t, q)
      BY <2>5 DEF Belongs, BelongsThen
    <3>2. \A k \in RolloverKeys : k \in SessionIds
      BY DEF SessionIds
    <3>3. \A q \in SessionRuns : BelongsThen(q, q)
      BY <1>a, <3>1 DEF BindingsBelong
    <3>4. \A k \in RolloverKeys : bindings'[k].status # "none" =>
            bindings'[k].run \in SessionRuns /\ BelongsThen(bindings'[k].predecessor, bindings'[k].run)
      <4> SUFFICES ASSUME NEW k \in RolloverKeys, bindings'[k].status # "none"
                   PROVE  bindings'[k].run \in SessionRuns /\ BelongsThen(bindings'[k].predecessor, bindings'[k].run)
        OBVIOUS
      <4>1. /\ bindings'[k].run = bindings[k].run /\ bindings'[k].predecessor = bindings[k].predecessor
            /\ bindings[k].status # "none"
        BY <2>5, <3>2
      <4>2. bindings[k].run \in SessionRuns /\ Belongs(bindings[k].predecessor, bindings[k].run)
        BY <1>a, <4>1 DEF BindingsBelong
      <4> QED BY <3>1, <4>1, <4>2
    <3>5. \A q \in SessionRuns : handles'[q] # NoHandle => BelongsThen(handles'[q].session, q)
      BY <1>a, <2>1, <3>1 DEF BindingsBelong
    <3>6. \A q \in SessionRuns : ending'[q] \in SessionIds => BelongsThen(ending'[q], q)
      <4> SUFFICES ASSUME NEW q \in SessionRuns, ending'[q] \in SessionIds PROVE BelongsThen(ending'[q], q)
        OBVIOUS
      <4>1. q # r
        BY <2>2, SessionsAssumption DEF SessionIds
      <4>2. ending'[q] = ending[q]
        BY <2>2, <4>1
      <4> QED BY <1>a, <3>1, <4>2 DEF BindingsBelong
    <3>7. \A d \in RolloverCalls : Under(d)' => Under(d) /\ rollovers'[d] = rollovers[d]
      BY <2>1 DEF Under
    <3>8. \A d \in RolloverCalls : Under(d)' =>
            /\ rollovers'[d].run \in SessionRuns /\ rollovers'[d].key \in RolloverKeys
            /\ BelongsThen(rollovers'[d].handle, rollovers'[d].run)
      <4> SUFFICES ASSUME NEW d \in RolloverCalls, Under(d), rollovers'[d] = rollovers[d]
                   PROVE  /\ rollovers[d].run \in SessionRuns /\ rollovers[d].key \in RolloverKeys
                          /\ BelongsThen(rollovers[d].handle, rollovers[d].run)
        BY <3>7
      <4> QED BY <1>a, <3>1 DEF BindingsBelong
    <3> QED BY <3>3, <3>4, <3>5, <3>6, <3>8 DEF BindingsBelong, Belongs, BelongsThen
  <2>8. OneActive'
    BY <1>a, <2>5 DEF OneActive, Active
  <2>9. OneMoves'
    BY <1>a, <2>1 DEF OneMoves, HandlesBehind, CreatingBehind, MovesAlone, Ahead, Moved
  <2>10. ReplacedListens'
    BY <1>a, <2>1, <2>2, <2>5, <2>6 DEF ReplacedListens, At, Belongs, BindingsBelong, Under
  <2>11. HandlesReachTheirSession'
    BY <1>a, <2>1, <2>2, <2>5 DEF HandlesReachTheirSession, Rolling, BindingsBelong, Belongs
  <2> QED BY <2>4, <2>7, <2>8, <2>9, <2>10, <2>11 DEF SessionsInv
<1>10. ASSUME NEW r \in SessionRuns, CloseRun(r) PROVE SessionsInv'
  <2>1. /\ handles' = [handles EXCEPT ![r] = NoHandle] /\ ending[r] \in {"closed", "lost"}
        /\ UNCHANGED <<bindings, drivers, rollovers, ending, strayed>>
    BY <1>10 DEF CloseRun
  <2>2. SessionsTyped'
    BY <1>a, <2>1 DEF SessionsTyped, HandleRecords, NoHandle
  <2>3. BindingsBelong'
    BY <1>a, <2>1 DEF SessionsTyped, BindingsBelong, Belongs, Under
  <2>4. OneActive' /\ ReplacedListens'
    BY <1>a, <2>1 DEF OneActive, Active, ReplacedListens, At, Belongs
  <2>5. OneMoves'
    <3>1. \A q \in SessionRuns : handles'[q].external <= handles[q].external
                                /\ handles'[q].external \in Nat /\ handles[q].external \in Nat
                                /\ drivers[q] \in Nat
      BY <1>a, <2>1 DEF SessionsTyped, HandleRecords, NoHandle
    <3>a. \A q \in SessionRuns : Ahead(q)' <=> Ahead(q)
      BY <2>1 DEF Ahead, Moved
    <3>2. HandlesBehind'
      <4> SUFFICES ASSUME NEW q \in SessionRuns
                   PROVE  /\ handles'[q].external <= drivers[q]
                          /\ Ahead(q)' => handles'[q].external < drivers[q]
        BY <2>1 DEF HandlesBehind
      <4>1. /\ handles[q].external <= drivers[q]
            /\ Ahead(q) => handles[q].external < drivers[q]
        BY <1>a DEF OneMoves, HandlesBehind
      <4> QED BY <3>1, <3>a, <4>1
    <3> QED BY <1>a, <2>1, <3>2 DEF OneMoves, CreatingBehind, MovesAlone, Ahead, Moved
  <2>6. HandlesReachTheirSession'
    BY <1>a, <2>1 DEF SessionsTyped, HandlesReachTheirSession, Rolling
  <2> QED BY <2>2, <2>3, <2>4, <2>5, <2>6 DEF SessionsInv
<1> QED
  BY <1>1, <1>2, <1>3, <1>4, <1>5, <1>6, <1>7, <1>8, <1>9, <1>10 DEF SessionsNext

\* Whoever answers a run reaches it: the handle of a run names the session that listens
\* and the external session of its binding, and the driver is in it, whatever rollovers
\* overlap and fail and whenever the run ends (local-runtime.ts rollover;
\* active-run-registry.ts replaceBinding).
THEOREM HandlesReach == SessionsSpec => []HandlesReachTheirSession
<1>1. SessionsInv => HandlesReachTheirSession
  BY DEF SessionsInv
<1> QED BY SessionsStart, SessionsInductive, <1>1, PTL DEF SessionsSpec

(***************************************************************************)
(* The chain of the sessions of a run.  What the mapping reads is the one   *)
(* session of Active(r), and the predecessors written in the bindings.      *)
(***************************************************************************)
LEMMA OnlyOne == /\ TheOne({}) = NoSession
                 /\ \A s : TheOne({s}) = s
<1>1. \A s : Cardinality({s}) = 1
  BY FS_Singleton
<1> QED BY <1>1 DEF TheOne

LEMMA ActiveIsOne == ASSUME OneActive, NEW r \in SessionRuns
                     PROVE  Active(r) = {} \/ \E s \in SessionIds : Active(r) = {s}
<1>1. Active(r) \subseteq SessionIds /\ \A s, t \in Active(r) : s = t
  BY DEF OneActive, Active
<1> QED BY <1>1

LEMMA SessionStepsMap ==
  SessionsInv /\ SessionsInv' /\ [SessionsNext]_sessionVars
    => UNCHANGED sessionVars \/ Chain!ChainNext \/ UNCHANGED Chain!chainVars
<1> SUFFICES ASSUME SessionsInv, SessionsInv', SessionsNext
             PROVE  Chain!ChainNext \/ UNCHANGED Chain!chainVars
  BY DEF sessionVars
<1> USE SessionsAssumption
<1>a. SessionsTyped /\ BindingsBelong /\ OneActive
  BY DEF SessionsInv
<1>c. ASSUME NEW r \in SessionRuns, NEW s \in SessionIds, s \notin SessionRuns,
             Listening[r] # NoSession, ~\E p \in Successions : s \in {p[1], p[2]},
             Listening' = [Listening EXCEPT ![r] = s],
             Successions' = Successions \cup {<<Listening[r], s>>}
      PROVE  Chain!ChainNext
  <2>1. ~Chain!Linked(s)
    BY <1>c DEF Chain!Linked
  <2>2. Chain!Succeed(r, s)
    BY <1>c, <2>1 DEF Chain!Succeed
  <2> QED BY <2>2 DEF Chain!ChainNext
<1>d. ASSUME NEW r \in SessionRuns, Listening[r] # NoSession,
             Listening' = [Listening EXCEPT ![r] = NoSession], Successions' = Successions
      PROVE  Chain!ChainNext
  <2>1. Chain!EndChain(r)
    BY <1>d DEF Chain!EndChain
  <2> QED BY <2>1 DEF Chain!ChainNext
<1>1. ASSUME UNCHANGED bindings PROVE UNCHANGED Chain!chainVars
  BY <1>1 DEF Chain!chainVars, Listening, Successions, Active
<1>2. ASSUME NEW c \in RolloverCalls, CommitRollover(c) PROVE Chain!ChainNext
  <2> DEFINE w == rollovers[c]
             new == [status |-> "ACTIVE", run |-> w.run, external |-> w.external,
                     predecessor |-> w.handle]
  <2>1. /\ w.at = "committing"
        /\ bindings[w.handle].status = "ACTIVE" /\ bindings[w.key].status = "none"
        /\ bindings' = [bindings EXCEPT ![w.handle].status = "SUPERSEDED", ![w.key] = new]
    BY <1>2 DEF CommitRollover, RolloverPossible, At
  <2>2. /\ w.run \in SessionRuns /\ w.key \in RolloverKeys /\ w.handle \in SessionIds
        /\ w.key \in SessionIds /\ w.handle # w.key /\ bindings[w.handle].run = w.run
    BY <1>a, <2>1 DEF BindingsBelong, Under, Belongs, SessionIds
  <2>3. /\ bindings'[w.key] = new
        /\ bindings'[w.handle] = [bindings[w.handle] EXCEPT !.status = "SUPERSEDED"]
        /\ \A t \in SessionIds \ {w.handle, w.key} : bindings'[t] = bindings[t]
        /\ bindings[w.handle] \in Bindings
    BY <1>a, <2>1, <2>2 DEF SessionsTyped
  <2> HIDE DEF w
  <2>4. Active(w.run) = {w.handle}
    BY <1>a, <2>1, <2>2 DEF OneActive, Active
  <2>5. \A q \in SessionRuns : Active(q)' = IF q = w.run THEN {w.key} ELSE Active(q)
    <3>1. \A q \in SessionRuns : q = w.run => w.key \in Active(q)'
      BY <2>2, <2>3 DEF Active
    <3>2. \A q \in SessionRuns, t \in SessionIds \ {w.key} :
             t \in Active(q)' <=> t # w.handle /\ t \in Active(q)
      BY <2>2, <2>3 DEF Active, Bindings
    <3>3. \A q \in SessionRuns : w.handle \in Active(q) => q = w.run
      BY <2>2 DEF Active
    <3>4. \A q \in SessionRuns \ {w.run} : w.key \notin Active(q) /\ w.key \notin Active(q)'
      BY <2>1, <2>2, <2>3 DEF Active
    <3>5. \A q \in SessionRuns : Active(q) \subseteq SessionIds /\ Active(q)' \subseteq SessionIds
      BY DEF Active, SessionIds
    <3> SUFFICES ASSUME NEW q \in SessionRuns
                 PROVE  Active(q)' = IF q = w.run THEN {w.key} ELSE Active(q)
      OBVIOUS
    <3>6. CASE q = w.run
      BY <2>2, <2>4, <3>1, <3>2, <3>5, <3>6
    <3>7. CASE q # w.run
      BY <2>2, <3>2, <3>3, <3>4, <3>5, <3>7
    <3> QED BY <3>6, <3>7
  <2>6. Listening[w.run] = w.handle /\ Listening' = [Listening EXCEPT ![w.run] = w.key]
    BY <2>2, <2>4, <2>5, OnlyOne DEF Listening
  <2>7. Successions' = Successions \cup {<<w.handle, w.key>>}
    <3>1. \A t \in RolloverKeys : t # w.key => /\ bindings'[t].predecessor = bindings[t].predecessor
                                               /\ bindings'[t].status # "none" <=> bindings[t].status # "none"
      <4> SUFFICES ASSUME NEW t \in RolloverKeys, t # w.key
                   PROVE  /\ bindings'[t].predecessor = bindings[t].predecessor
                          /\ bindings'[t].status # "none" <=> bindings[t].status # "none"
        OBVIOUS
      <4>1. CASE t = w.handle
        BY <2>1, <2>3, <4>1 DEF Bindings
      <4>2. CASE t # w.handle
        BY <2>3, <4>2 DEF SessionIds
      <4> QED BY <4>1, <4>2
    <3>2. bindings'[w.key].predecessor = w.handle /\ bindings'[w.key].status # "none"
      BY <2>3
    <3> SUFFICES ASSUME NEW p PROVE p \in Successions' <=> p \in Successions \cup {<<w.handle, w.key>>}
      OBVIOUS
    <3>3. p \in Successions' <=> \E t \in RolloverKeys :
             bindings'[t].status # "none" /\ p = <<bindings'[t].predecessor, t>>
      BY DEF Successions
    <3>4. p \in Successions <=> \E t \in RolloverKeys :
             bindings[t].status # "none" /\ p = <<bindings[t].predecessor, t>>
      BY DEF Successions
    <3> QED BY <2>1, <2>2, <3>1, <3>2, <3>3, <3>4
  <2>8. ~\E p \in Successions : w.key \in {p[1], p[2]}
    BY <1>a, <2>1 DEF Successions, BindingsBelong, Belongs
  <2>9. Listening[w.run] # NoSession /\ w.key \notin SessionRuns
    BY <2>2, <2>6 DEF SessionIds
  <2> QED BY <1>c, <2>2, <2>6, <2>7, <2>8, <2>9
<1>3. ASSUME NEW r \in SessionRuns, CommitEnd(r)
      PROVE  Chain!ChainNext \/ UNCHANGED Chain!chainVars
  <2> DEFINE s == ending[r]
  <2>1. CASE UNCHANGED bindings
    BY <1>1, <2>1
  <2>2. CASE bindings[s].status = "ACTIVE" /\ bindings' = [bindings EXCEPT ![s].status = "CLOSED"]
    <3>1. s \in SessionIds /\ Belongs(s, r) /\ bindings[s] \in Bindings
      BY <1>3, <1>a DEF CommitEnd, BindingsBelong, SessionsTyped
    <3>2. \A t \in SessionIds : bindings'[t] = IF t = s THEN [bindings[s] EXCEPT !.status = "CLOSED"]
                                               ELSE bindings[t]
      BY <1>a, <2>2, <3>1 DEF SessionsTyped
    <3> HIDE DEF s
    <3>3. \A t \in SessionIds : /\ bindings'[t].run = bindings[t].run
                                /\ bindings'[t].predecessor = bindings[t].predecessor
                                /\ bindings'[t].status = "none" <=> bindings[t].status = "none"
                                /\ bindings'[t].status = "ACTIVE" <=> t # s /\ bindings[t].status = "ACTIVE"
      BY <2>2, <3>1, <3>2 DEF Bindings
    <3>4. Active(r) = {s} /\ \A q \in SessionRuns : Active(q)' = IF q = r THEN {} ELSE Active(q)
      BY <1>a, <2>2, <3>1, <3>3 DEF Active, OneActive, Belongs
    <3>5. Listening[r] = s /\ Listening' = [Listening EXCEPT ![r] = NoSession]
      BY <3>4, OnlyOne DEF Listening
    <3>6. Successions' = Successions
      BY <3>3 DEF Successions, SessionIds
    <3> QED BY <1>d, <3>1, <3>5, <3>6 DEF SessionIds
  <2> QED BY <1>3, <2>1, <2>2 DEF CommitEnd
<1> QED
  BY <1>1, <1>2, <1>3 DEF SessionsNext, Rollover, DriverCreates, DriverRefuses, RolloverNotCommitted,
     ReplaceBinding, RunEnds, CloseRun

\* The sessions of each run form a chain of which one listens until the run has ended,
\* and none after (session-binding.ts, local-runtime.ts rollover,
\* bridge-control-service.ts recordTerminalDriverFailure).
THEOREM RunSessionsFormChains == SessionsSpec => SessionsFormChains
<1>1. SessionsInit => Chain!ChainInit
  <2> SUFFICES ASSUME SessionsInit PROVE Chain!ChainInit
    OBVIOUS
  <2> USE SessionsAssumption
  <2>1. \A r \in SessionRuns : Active(r) = {r}
    BY DEF SessionsInit, Active, SessionIds, NoBinding
  <2>2. Listening = [r \in SessionRuns |-> r]
    BY <2>1, OnlyOne DEF Listening
  <2>3. Successions = {}
    BY DEF SessionsInit, Successions, SessionIds, NoBinding
  <2> QED BY <2>2, <2>3 DEF Chain!ChainInit
<1>2. SessionsInv /\ SessionsInv' /\ [SessionsNext]_sessionVars
        => [UNCHANGED sessionVars \/ Chain!ChainNext]_(Chain!chainVars)
  BY SessionStepsMap
<1> QED BY SessionsStart, SessionsInductive, <1>1, <1>2, PTL DEF SessionsSpec, SessionsFormChains

(***************************************************************************)
(* The policy of the core.                                                 *)
(***************************************************************************)
Statuses == {"absent", "CREATED", "ACTIVE", "ROLLOVER_PENDING", "SUPERSEDED", "CLOSED", "FAILED"}
PolicyTyped ==
  /\ policySessions \in [PolicyIds -> Statuses]
  /\ predecessors \in [PolicyIds -> PolicyIds \cup {0}]
  /\ plan \in PolicyIds \cup {0}

OneStands == \A s, t \in Standing : s = t

\* Only the predecessor of the plan is pending, and the plan is not yet active.
PlanStands ==
  /\ \A s \in PolicyIds : policySessions[s] = "ROLLOVER_PENDING" => plan # 0 /\ s = predecessors[plan]
  /\ plan # 0 => /\ policySessions[plan] = "CREATED" /\ predecessors[plan] # 0
                 /\ policySessions[predecessors[plan]] = "ROLLOVER_PENDING"

\* Whoever has been succeeded, or is to be, can not be succeeded again.
PredecessorsRest ==
  /\ \A t \in PolicyIds : predecessors[t] # 0 =>
       /\ policySessions[t] # "absent"
       /\ policySessions[predecessors[t]] \in {"ROLLOVER_PENDING", "SUPERSEDED", "FAILED"}
       /\ policySessions[predecessors[t]] = "ROLLOVER_PENDING" => t = plan
  /\ predecessors[1] = 0 /\ policySessions[1] # "absent"

PolicyInv == PolicyTyped /\ OneStands /\ PlanStands /\ PredecessorsRest

LEMMA AfterOf == /\ After("ACTIVE", "REQUEST_ROLLOVER") = "ROLLOVER_PENDING"
                 /\ After("ACTIVE", "FAIL") = "FAILED"
<1>1. \A t \in SessionTransitions : t[1] = "ACTIVE" /\ t[2] = "REQUEST_ROLLOVER"
         <=> t = <<"ACTIVE", "REQUEST_ROLLOVER", "ROLLOVER_PENDING">>
  BY DEF SessionTransitions
<1>2. \A t \in SessionTransitions : t[1] = "ACTIVE" /\ t[2] = "FAIL"
         <=> t = <<"ACTIVE", "FAIL", "FAILED">>
  BY DEF SessionTransitions
<1>3. {<<"ACTIVE", "REQUEST_ROLLOVER", "ROLLOVER_PENDING">>, <<"ACTIVE", "FAIL", "FAILED">>}
         \subseteq SessionTransitions
  BY DEF SessionTransitions
<1>4. (CHOOSE t \in SessionTransitions : t[1] = "ACTIVE" /\ t[2] = "REQUEST_ROLLOVER")
        = <<"ACTIVE", "REQUEST_ROLLOVER", "ROLLOVER_PENDING">>
  BY <1>1, <1>3
<1>5. (CHOOSE t \in SessionTransitions : t[1] = "ACTIVE" /\ t[2] = "FAIL")
        = <<"ACTIVE", "FAIL", "FAILED">>
  BY <1>2, <1>3
<1>6. /\ <<"ACTIVE", "REQUEST_ROLLOVER", "ROLLOVER_PENDING">>[3] = "ROLLOVER_PENDING"
      /\ <<"ACTIVE", "FAIL", "FAILED">>[3] = "FAILED"
  OBVIOUS
<1> QED BY <1>4, <1>5, <1>6, Zenon DEF After

LEMMA PolicyIdOne == 1 \in PolicyIds /\ 0 \notin PolicyIds /\ PolicyIds \subseteq Nat
BY RolloverAssumption DEF PolicyIds

LEMMA PolicyStarts == RolloverInit => PolicyInv
<1> SUFFICES ASSUME RolloverInit PROVE PolicyInv
  OBVIOUS
<1> USE PolicyIdOne DEF RolloverInit
<1>1. PolicyTyped
  BY DEF PolicyTyped, Statuses
<1>2. OneStands /\ PlanStands /\ PredecessorsRest
  BY DEF OneStands, Standing, PlanStands, PredecessorsRest
<1> QED BY <1>1, <1>2 DEF PolicyInv

\* What a plan does, whichever decision asks for it.
LEMMA PlanDoes ==
  ASSUME PolicyInv, NEW decision, NEW current \in PolicyIds, NEW s \in PolicyIds,
         PlanFor(decision, current, s)
  PROVE  /\ plan = 0 /\ policySessions[current] = "ACTIVE" /\ policySessions[s] = "absent"
         /\ s # current
         /\ policySessions' = [policySessions EXCEPT ![current] = "ROLLOVER_PENDING", ![s] = "CREATED"]
         /\ predecessors' = [predecessors EXCEPT ![s] = current]
         /\ plan' = s
<1>1. PICK o \in Offers(current, s) :
         /\ PlanInput(o, current) /\ SnapshotHolds(o, current)
         /\ SuccessorHolds(o, current) /\ TimesInOrder(o)
         /\ policySessions' = [policySessions EXCEPT ![current] = After("ACTIVE", "REQUEST_ROLLOVER"),
                                                     ![o.session] = o.status]
         /\ predecessors' = [predecessors EXCEPT ![o.session] = o.after]
         /\ plan' = o.session
  BY DEF PlanFor
<1>2. o.session \in {s, current}
  BY DEF Offers
<1>3. o.session = s /\ s # current /\ o.status = "CREATED" /\ o.after = current
  BY <1>1, <1>2 DEF PlanInput, SuccessorHolds
<1>4. policySessions[s] = "absent"
  BY <1>1, <1>3 DEF SuccessorHolds
<1>5. plan = 0 /\ policySessions[current] = "ACTIVE"
  BY DEF PlanFor
<1> QED BY <1>1, <1>3, <1>4, <1>5, AfterOf

\* A step either keeps the mapping or takes a step of the chain.
LEMMA PolicySteps ==
  PolicyInv /\ RolloverNext
    => PolicyInv' /\ (PolicyChain!ChainNext \/ UNCHANGED PolicyChain!chainVars)
<1> SUFFICES ASSUME PolicyInv, RolloverNext
             PROVE  PolicyInv' /\ (PolicyChain!ChainNext \/ UNCHANGED PolicyChain!chainVars)
  OBVIOUS
<1> USE PolicyIdOne
<1>a. PolicyTyped /\ OneStands /\ PlanStands /\ PredecessorsRest
  BY DEF PolicyInv
<1>b. \A A, s : Cardinality({s}) = 1
  BY FS_Singleton
<1>c. ASSUME Standing' = Standing, PolicyLinks' = PolicyLinks
      PROVE  UNCHANGED PolicyChain!chainVars
  BY <1>c DEF PolicyChain!chainVars, Stands
<1>d. \A s \in PolicyIds : Standing = {s} => Stands = s
  BY FS_Singleton DEF Stands
<1>e. \A s \in PolicyIds : Standing' = {s} => Stands' = s
  BY FS_Singleton DEF Stands
<1>f. Standing' = {} => Stands' = 0
  BY DEF Stands
<1>h. /\ Standing \subseteq PolicyIds /\ Standing' \subseteq PolicyIds
      /\ \A s \in PolicyIds :
           /\ s \in Standing <=> policySessions[s] \in {"ACTIVE", "ROLLOVER_PENDING"}
           /\ s \in Standing' <=> policySessions'[s] \in {"ACTIVE", "ROLLOVER_PENDING"}
  BY DEF Standing, PolicyIds
<1>g. ASSUME NEW s \in PolicyIds, Standing = {s}, Standing' = {}, PolicyLinks' = PolicyLinks
      PROVE  PolicyChain!ChainNext
  <2>1. PolicyChain!EndChain(1)
    BY <1>d, <1>f, <1>g DEF PolicyChain!EndChain
  <2> QED BY <2>1 DEF PolicyChain!ChainNext
<1>1. ASSUME NEW decision, NEW current \in PolicyIds, NEW s \in PolicyIds,
             PlanFor(decision, current, s)
      PROVE  PolicyInv' /\ UNCHANGED PolicyChain!chainVars
  <2>1. /\ plan = 0 /\ policySessions[current] = "ACTIVE" /\ policySessions[s] = "absent"
        /\ s # current
        /\ policySessions' = [policySessions EXCEPT ![current] = "ROLLOVER_PENDING", ![s] = "CREATED"]
        /\ predecessors' = [predecessors EXCEPT ![s] = current]
        /\ plan' = s
    BY <1>1, PlanDoes
  <2>2. \A t \in PolicyIds :
           policySessions'[t] = IF t = s THEN "CREATED"
                                ELSE IF t = current THEN "ROLLOVER_PENDING" ELSE policySessions[t]
    BY <1>a, <2>1 DEF PolicyTyped
  <2>3. \A t \in PolicyIds : predecessors'[t] = IF t = s THEN current ELSE predecessors[t]
    BY <1>a, <2>1 DEF PolicyTyped
  <2>4. Standing' = Standing
    <3>a. policySessions[current] = "ACTIVE" /\ policySessions[s] = "absent" /\ s # current
      BY <2>1
    <3> SUFFICES ASSUME NEW t \in PolicyIds PROVE t \in Standing' <=> t \in Standing
      BY <1>h
    <3>1. CASE t \in {s, current}
      BY <1>h, <2>2, <3>1, <3>a
    <3>2. CASE t \notin {s, current}
      BY <1>h, <2>2, <3>2
    <3> QED BY <3>1, <3>2
  <2>5. \A t \in PolicyIds : predecessors[t] # 0 => predecessors[t] \notin {current, s} /\ t # s
    BY <1>a, <2>1 DEF PredecessorsRest
  <2>6. PolicyLinks' = PolicyLinks
    <3> SUFFICES ASSUME NEW x PROVE x \in PolicyLinks' <=> x \in PolicyLinks
      OBVIOUS
    <3>1. x \in PolicyLinks' <=> \E t \in PolicyIds :
            predecessors'[t] # 0 /\ policySessions'[predecessors'[t]] = "SUPERSEDED" /\ x = <<predecessors'[t], t>>
      BY DEF PolicyLinks
    <3>2. x \in PolicyLinks <=> \E t \in PolicyIds :
            predecessors[t] # 0 /\ policySessions[predecessors[t]] = "SUPERSEDED" /\ x = <<predecessors[t], t>>
      BY DEF PolicyLinks
    <3>3. \A t \in PolicyIds : predecessors[t] # 0 =>
            /\ predecessors'[t] = predecessors[t]
            /\ policySessions'[predecessors[t]] = policySessions[predecessors[t]]
      <4>1. \A t \in PolicyIds : predecessors[t] # 0 => predecessors[t] \in PolicyIds
        BY <1>a DEF PolicyTyped
      <4> QED BY <2>2, <2>3, <2>5, <4>1
    <3>4. predecessors'[s] = current /\ policySessions'[current] = "ROLLOVER_PENDING"
      BY <2>1, <2>2, <2>3
    <3>5. \A t \in PolicyIds : t # s => predecessors'[t] = predecessors[t]
      BY <2>3
    <3>6. predecessors[s] = 0
      BY <2>5
    <3> QED BY <3>1, <3>2, <3>3, <3>4, <3>5, <3>6
  <2>7. PolicyTyped'
    BY <1>a, <2>1 DEF PolicyTyped, Statuses
  <2>8. OneStands'
    BY <1>a, <2>4 DEF OneStands
  <2>9. PlanStands'
    BY <1>a, <2>1, <2>2, <2>3 DEF PlanStands, PolicyTyped
  <2>10. PredecessorsRest'
    <3>1. /\ policySessions'[s] = "CREATED" /\ policySessions'[current] = "ROLLOVER_PENDING"
          /\ predecessors'[s] = current /\ plan' = s
      BY <2>1, <2>2, <2>3
    <3>2. s # 1 /\ policySessions'[1] # "absent" /\ predecessors'[1] = 0
      <4>1. policySessions[1] # "absent" /\ predecessors[1] = 0
        BY <1>a DEF PredecessorsRest
      <4>2. s # 1
        BY <2>1, <4>1
      <4> QED BY PolicyIdOne, <2>2, <2>3, <4>1, <4>2
    <3>3. ASSUME NEW t \in PolicyIds, t # s, predecessors[t] # 0
          PROVE  /\ predecessors'[t] = predecessors[t] /\ policySessions'[t] # "absent"
                 /\ policySessions'[predecessors[t]] \in {"SUPERSEDED", "FAILED"}
      <4>1. /\ predecessors[t] \in PolicyIds /\ predecessors[t] \notin {current, s}
            /\ policySessions[t] # "absent"
            /\ policySessions[predecessors[t]] \in {"ROLLOVER_PENDING", "SUPERSEDED", "FAILED"}
            /\ policySessions[predecessors[t]] = "ROLLOVER_PENDING" => t = plan
        BY <1>a, <2>5, <3>3 DEF PredecessorsRest, PolicyTyped
      <4>2. t # plan
        BY <2>1, PolicyIdOne, <3>3 DEF PolicyIds
      <4> QED BY <2>2, <2>3, <3>3, <4>1, <4>2
    <3>4. \A t \in PolicyIds : t # s => predecessors'[t] = predecessors[t]
      BY <2>3
    <3> QED BY <3>1, <3>2, <3>3, <3>4 DEF PredecessorsRest
  <2> QED BY <1>c, <2>4, <2>6, <2>7, <2>8, <2>9, <2>10 DEF PolicyInv
<1>2. ASSUME NEW s \in PolicyIds, FailAfterProviderError(s)
      PROVE  PolicyInv' /\ PolicyChain!ChainNext
  <2>1. /\ plan = 0 /\ policySessions[s] = "ACTIVE"
        /\ policySessions' = [policySessions EXCEPT ![s] = "FAILED"]
        /\ UNCHANGED <<predecessors, plan>>
    BY <1>2, AfterOf DEF FailAfterProviderError
  <2>2. \A t \in PolicyIds : policySessions'[t] = IF t = s THEN "FAILED" ELSE policySessions[t]
    BY <1>a, <2>1 DEF PolicyTyped
  <2>3. Standing = {s} /\ Standing' = {}
    <3>1. s \in Standing /\ \A t \in Standing : t = s
      BY <1>a, <1>h, <2>1 DEF OneStands
    <3>2. ASSUME NEW t \in PolicyIds PROVE t \notin Standing'
      <4>1. policySessions'[t] = IF t = s THEN "FAILED" ELSE policySessions[t]
        BY <2>2
      <4> QED BY <1>h, <3>1, <4>1
    <3> QED BY <1>h, <2>1, <3>1, <3>2
  <2>4. PolicyLinks' = PolicyLinks
    BY <1>a, <2>1, <2>2 DEF PolicyLinks, PolicyTyped
  <2>5. PolicyInv'
    BY <1>a, <2>1, <2>2, <2>3 DEF PolicyInv, PolicyTyped, Statuses, OneStands, PlanStands,
       PredecessorsRest
  <2> QED BY <1>g, <2>3, <2>4, <2>5
<1>3. ASSUME CompleteRollover
      PROVE  PolicyInv' /\ PolicyChain!ChainNext
  <2> DEFINE p == predecessors[plan]
  <2>1. /\ plan \in PolicyIds /\ p \in PolicyIds /\ p # plan /\ plan # 1
        /\ policySessions[plan] = "CREATED" /\ policySessions[p] = "ROLLOVER_PENDING"
        /\ policySessions' = [policySessions EXCEPT ![plan] = "ACTIVE", ![p] = "SUPERSEDED"]
        /\ plan' = 0 /\ predecessors' = predecessors
    BY <1>a, <1>3 DEF CompleteRollover, PolicyTyped, PlanStands, PredecessorsRest
  <2> HIDE DEF p
  <2>2. \A t \in PolicyIds :
           policySessions'[t] = IF t = p THEN "SUPERSEDED"
                                ELSE IF t = plan THEN "ACTIVE" ELSE policySessions[t]
    BY <1>a, <2>1 DEF PolicyTyped
  <2>3. Standing = {p} /\ Standing' = {plan}
    <3>1. p \in Standing /\ \A t \in Standing : t = p
      BY <1>a, <1>h, <2>1 DEF OneStands
    <3>2. ASSUME NEW t \in PolicyIds PROVE t \in Standing' <=> t = plan
      <4>1. policySessions'[t] = IF t = p THEN "SUPERSEDED" ELSE IF t = plan THEN "ACTIVE" ELSE policySessions[t]
        BY <2>2
      <4>2. p # plan
        BY <2>1
      <4> QED BY <1>h, <3>1, <4>1, <4>2
    <3>3. \A t : t \in Standing' => t \in PolicyIds
      BY <1>h
    <3>4. Standing = {p}
      BY <3>1
    <3> HIDE DEF p
    <3>5. \A t : t \in Standing' <=> t = plan
      <4>1. plan \in PolicyIds
        BY <2>1
      <4> QED BY <3>2, <3>3, <4>1
    <3>6. Standing' = {plan}
      BY <3>5
    <3> QED BY <3>4, <3>6
  <2>4. \A t \in PolicyIds : predecessors[t] # 0 =>
           predecessors[t] \in PolicyIds /\ predecessors[t] # plan
           /\ (predecessors[t] = p <=> t = plan)
    BY <1>a, <2>1 DEF PredecessorsRest, PolicyTyped, p
  <2>5. PolicyLinks' = PolicyLinks \cup {<<p, plan>>}
    <3> SUFFICES ASSUME NEW x PROVE x \in PolicyLinks' <=> x \in PolicyLinks \cup {<<p, plan>>}
      OBVIOUS
    <3>1. x \in PolicyLinks' <=> \E t \in PolicyIds :
            predecessors[t] # 0 /\ policySessions'[predecessors[t]] = "SUPERSEDED"
            /\ x = <<predecessors[t], t>>
      BY <2>1 DEF PolicyLinks
    <3>2. x \in PolicyLinks <=> \E t \in PolicyIds :
            predecessors[t] # 0 /\ policySessions[predecessors[t]] = "SUPERSEDED"
            /\ x = <<predecessors[t], t>>
      BY DEF PolicyLinks
    <3>3. \A t \in PolicyIds : predecessors[t] # 0 =>
             (policySessions'[predecessors[t]] = "SUPERSEDED"
                <=> policySessions[predecessors[t]] = "SUPERSEDED" \/ t = plan)
      BY <2>1, <2>2, <2>4
    <3>4. predecessors[plan] = p /\ p # 0
      BY <2>1 DEF p
    <3> QED BY <2>1, <2>4, <3>1, <3>2, <3>3, <3>4
  <2>6. ~PolicyChain!Linked(plan)
    <3>1. \A l \in PolicyLinks : \E t \in PolicyIds :
            predecessors[t] # 0 /\ policySessions[predecessors[t]] = "SUPERSEDED"
            /\ l[1] = predecessors[t] /\ l[2] = t
      BY DEF PolicyLinks
    <3>2. policySessions[p] # "SUPERSEDED" /\ predecessors[plan] = p
      BY <2>1 DEF p
    <3>3. \A l \in PolicyLinks : l[1] # plan /\ l[2] # plan
      BY <2>4, <3>1, <3>2
    <3> QED BY <3>3 DEF PolicyChain!Linked
  <2>7. PolicyChain!Succeed(1, plan)
    BY <1>d, <1>e, <2>1, <2>3, <2>5, <2>6 DEF PolicyChain!Succeed
  <2>8. PolicyChain!ChainNext
    BY <2>1, <2>7 DEF PolicyChain!ChainNext
  <2>9. PolicyTyped' /\ OneStands' /\ PlanStands'
    BY <1>a, <2>1, <2>2, <2>3 DEF PolicyTyped, Statuses, OneStands, PlanStands, p
  <2>10. PredecessorsRest'
    <3>1. \A t \in PolicyIds : predecessors[t] # 0 =>
             /\ policySessions[t] # "absent"
             /\ policySessions[predecessors[t]] \in {"ROLLOVER_PENDING", "SUPERSEDED", "FAILED"}
             /\ policySessions[predecessors[t]] = "ROLLOVER_PENDING" => t = plan
      BY <1>a DEF PredecessorsRest
    <3>2. predecessors[1] = 0 /\ policySessions[1] # "absent"
      BY <1>a DEF PredecessorsRest
    <3>3. predecessors' = predecessors
      BY <2>1
    <3>4. \A t \in PolicyIds : /\ policySessions[t] # "absent" => policySessions'[t] # "absent"
                               /\ policySessions[t] \in {"SUPERSEDED", "FAILED"}
                                    => policySessions'[t] = policySessions[t]
      <4>1. policySessions[plan] = "CREATED" /\ policySessions[p] = "ROLLOVER_PENDING"
        BY <2>1
      <4> QED BY <2>2, <4>1
    <3>5. \A t \in PolicyIds : predecessors[t] # 0 =>
             policySessions'[predecessors[t]] \in {"SUPERSEDED", "FAILED"}
      BY <2>2, <2>4, <3>1, <3>4
    <3> QED BY PolicyIdOne, <3>1, <3>2, <3>3, <3>4, <3>5 DEF PredecessorsRest
  <2> QED BY <2>8, <2>9, <2>10 DEF PolicyInv
<1>4. ASSUME FailRollover
      PROVE  PolicyInv' /\ PolicyChain!ChainNext
  <2> DEFINE p == predecessors[plan]
  <2>1. /\ plan \in PolicyIds /\ p \in PolicyIds /\ p # plan
        /\ policySessions[plan] = "CREATED" /\ policySessions[p] = "ROLLOVER_PENDING"
        /\ policySessions' = [policySessions EXCEPT ![plan] = "FAILED", ![p] = "FAILED"]
        /\ plan' = 0 /\ predecessors' = predecessors
    BY <1>a, <1>4 DEF FailRollover, PolicyTyped, PlanStands, PredecessorsRest
  <2> HIDE DEF p
  <2>2. \A t \in PolicyIds :
           policySessions'[t] = IF t \in {p, plan} THEN "FAILED" ELSE policySessions[t]
    BY <1>a, <2>1 DEF PolicyTyped
  <2>3. Standing = {p} /\ Standing' = {}
    <3>1. p \in Standing /\ \A t \in Standing : t = p
      BY <1>a, <1>h, <2>1 DEF OneStands
    <3>2. ASSUME NEW t \in PolicyIds PROVE t \notin Standing'
      <4>1. policySessions'[t] = IF t \in {p, plan} THEN "FAILED" ELSE policySessions[t]
        BY <2>2
      <4> QED BY <1>h, <3>1, <4>1
    <3> QED BY <1>h, <2>1, <3>1, <3>2
  <2>4. PolicyLinks' = PolicyLinks
    BY <1>a, <2>1, <2>2 DEF PolicyLinks, PolicyTyped
  <2>5. PolicyTyped' /\ OneStands' /\ PlanStands'
    <3>1. PolicyTyped' /\ OneStands'
      BY <1>a, <2>1, <2>3 DEF PolicyTyped, Statuses, OneStands
    <3>2. PlanStands'
      <4>1. plan' = 0 /\ p = predecessors[plan]
        BY <2>1 DEF p
      <4> QED BY <1>a, <2>2, <4>1 DEF PlanStands
    <3> QED BY <3>1, <3>2
  <2>6. PredecessorsRest'
    <3>1. \A t \in PolicyIds : predecessors[t] # 0 =>
             predecessors[t] \in PolicyIds /\ predecessors[t] # plan
             /\ (policySessions[predecessors[t]] = "ROLLOVER_PENDING" => predecessors[t] = p)
      BY <1>a, <2>1 DEF PredecessorsRest, PolicyTyped, p
    <3>2. ASSUME NEW t \in PolicyIds, predecessors[t] # 0
          PROVE  /\ policySessions'[t] # "absent"
                 /\ policySessions'[predecessors[t]] \in {"SUPERSEDED", "FAILED"}
      <4>1. /\ policySessions[t] # "absent"
            /\ policySessions[predecessors[t]] \in {"ROLLOVER_PENDING", "SUPERSEDED", "FAILED"}
        BY <1>a, <3>2 DEF PredecessorsRest
      <4> QED BY <2>2, <3>1, <3>2, <4>1
    <3>3. predecessors' = predecessors /\ predecessors[1] = 0 /\ policySessions'[1] # "absent"
      <4>1. predecessors[1] = 0 /\ policySessions[1] # "absent"
        BY <1>a DEF PredecessorsRest
      <4>2. policySessions'[1] = IF 1 \in {p, plan} THEN "FAILED" ELSE policySessions[1]
        BY <2>2
      <4>3. predecessors' = predecessors
        BY <2>1
      <4> QED BY <4>1, <4>2, <4>3
    <3> QED BY <3>2, <3>3 DEF PredecessorsRest
  <2> QED BY <1>g, <2>1, <2>3, <2>4, <2>5, <2>6 DEF PolicyInv
<1> QED
  BY <1>1, <1>2, <1>3, <1>4 DEF RolloverNext, PlanAtThreshold, PlanAfterProviderError

\* Planned, completed or failed, the rollovers of a run make a chain of its sessions: the
\* session planned away stands for the run until its successor does, and a rollover that
\* fails leaves none (rollover-policy.ts).
THEOREM RolloversFormAChain == RolloverSpec => PolicyFormsChain
<1>1. RolloverInit => PolicyChain!ChainInit
  <2> SUFFICES ASSUME RolloverInit PROVE PolicyChain!ChainInit
    OBVIOUS
  <2>1. Standing = {1} /\ PolicyLinks = {}
    BY PolicyIdOne DEF RolloverInit, Standing, PolicyLinks
  <2>2. Stands = 1
    BY <2>1, FS_Singleton DEF Stands
  <2> QED BY <2>1, <2>2 DEF PolicyChain!ChainInit
<1>2. PolicyInv /\ [RolloverNext]_policyVars => PolicyInv'
  <2>1. PolicyInv /\ UNCHANGED policyVars => PolicyInv'
    BY DEF policyVars, PolicyInv, PolicyTyped, OneStands, Standing, PlanStands, PredecessorsRest
  <2> QED BY <2>1, PolicySteps
<1>3. PolicyInv /\ [RolloverNext]_policyVars
        => [UNCHANGED policyVars \/ PolicyChain!ChainNext]_(PolicyChain!chainVars)
  BY PolicySteps
<1> QED BY PolicyStarts, <1>1, <1>2, <1>3, PTL DEF RolloverSpec, PolicyFormsChain

\* One session of a run listens until the run has ended, and handles reach it, in the
\* runtime and under the policy (local-runtime.ts rollover, rollover-policy.ts).
THEOREM OneListens == SessionsSpec /\ RolloverSpec => OneSessionListens
  BY HandlesReach, RunSessionsFormChains, RolloversFormAChain, PTL DEF OneSessionListens
=============================================================================
