---------------------------- MODULE PeerManager ----------------------------
(***************************************************************************)
(* The peers a gateway relays messages to (peer_manager.py) and the admin  *)
(* routes that add, remove and check them (admin_api.py).  Every request   *)
(* suspends while it talks to the peer, so relays, checks, sweeps and      *)
(* changes of the configuration interleave on the three dictionaries.      *)
(*                                                                         *)
(* down_until is kept as the ticks left to it, so time is unbounded and    *)
(* the state space is not.  A relay, check or sweep is a slot that one     *)
(* request after another may use.                                          *)
(***************************************************************************)
EXTENDS Integers, FiniteSets

CONSTANTS
    Peers,       \* peer names
    Configured,  \* those that peers_config starts with, enabled
    Relays,      \* POST /a2a/relay requests that may be open at a time
    Checks,      \* POST /admin/peers/{name}/check, likewise
    Sweeps,      \* POST /a2a/peers/discover, likewise
    Threshold,   \* _FAILURE_THRESHOLD
    Cooldown     \* _COOLDOWN_SECONDS, in ticks

ASSUME PeersAssumption ==
    /\ Configured \subseteq Peers /\ "idle" \notin Peers
    /\ IsFiniteSet(Relays)
    /\ Threshold \in Nat \ {0} /\ Cooldown \in Nat \ {0}

VARIABLES
    config,      \* peers_config: each peer's entry
    failures,    \* _cb_state's failures; 0 when the peer has no entry
    left,        \* ticks until down_until; NotDown when it is None
    discovered,  \* _discovered
    relay,       \* the peer each open relay waits for
    check,       \* the peer each open check waits for
    sweep,       \* what each open sweep knows of each peer
    asked,       \* history: peers a discovery was begun for since removed
    outlived     \* history: peers removed while a discovery was going on

breaker == <<failures, left>>
history == <<asked, outlived>>
vars == <<config, breaker, discovered, relay, check, sweep, history>>

Idle    == "idle"
NotDown == -1
Cards   == {"available", "unreachable"}

Enabled(p)  == config[p] = "enabled"
\* time.monotonic() < down_until.
IsDown(p)   == left[p] > 0
Elapsed(p)  == left[p] = 0
OpenOn(p)   == {r \in Relays : relay[r] = p}

\* Mutant: the clock is not looked at.
AutoResetEarly(ps) ==
    /\ failures' = [p \in Peers |-> IF p \in ps /\ left[p] # NotDown
                                     THEN 0 ELSE failures[p]]
    /\ left' = [p \in Peers |-> IF p \in ps THEN NotDown ELSE left[p]]

\* _is_peer_down on each of ps: an entry whose cooldown is over goes.
AutoReset(ps) ==
    /\ failures' = [p \in Peers |-> IF p \in ps /\ Elapsed(p) THEN 0 ELSE failures[p]]
    /\ left' = [p \in Peers |-> IF p \in ps /\ Elapsed(p) THEN NotDown ELSE left[p]]

\* Mutant: the failures are forgotten, the peer stays marked down.
RecordSuccessKeepsDown(p) ==
    /\ failures' = [failures EXCEPT ![p] = 0]
    /\ UNCHANGED left

\* _cb_record_success.
RecordSuccess(p) ==
    /\ failures' = [failures EXCEPT ![p] = 0]
    /\ left' = [left EXCEPT ![p] = NotDown]

\* Mutant: > for >=.
RecordFailureLate(p) ==
    /\ failures' = [failures EXCEPT ![p] = @ + 1]
    /\ left' = IF failures'[p] > Threshold
                 THEN [left EXCEPT ![p] = Cooldown] ELSE left

\* _cb_record_failure.
RecordFailure(p) ==
    /\ failures' = [failures EXCEPT ![p] = @ + 1]
    /\ left' = IF failures'[p] >= Threshold
                 THEN [left EXCEPT ![p] = Cooldown] ELSE left
-----------------------------------------------------------------------------
\* Mutant: the breaker is not asked.
RelayUnchecked(r, p) ==
    /\ relay[r] = Idle /\ Enabled(p)
    /\ relay' = [relay EXCEPT ![r] = p]
    /\ UNCHANGED <<config, breaker, discovered, check, sweep, history>>

\* send_to_peer up to its await; an unknown or disabled peer is refused.
Relay(r, p) ==
    /\ relay[r] = Idle /\ Enabled(p) /\ ~IsDown(p)
    /\ AutoReset({p})
    /\ relay' = [relay EXCEPT ![r] = p]
    /\ UNCHANGED <<config, discovered, check, sweep, history>>

\* Mutant: a refused relay re-arms the breaker.
SkipRearms(p) ==
    /\ Enabled(p) /\ IsDown(p)
    /\ left' = [left EXCEPT ![p] = Cooldown]
    /\ UNCHANGED <<config, failures, discovered, relay, check, sweep, history>>

\* send_to_peer of a peer that is marked down answers without calling it.
Skip(p) == Enabled(p) /\ IsDown(p) /\ UNCHANGED vars

\* send_message returned: whatever became of the breaker, or of the peer,
\* in the meantime.
RelayAnswered(r) ==
    /\ relay[r] # Idle
    /\ RecordSuccess(relay[r])
    /\ relay' = [relay EXCEPT ![r] = Idle]
    /\ UNCHANGED <<config, discovered, check, sweep, history>>

\* send_message raised: it wraps every error in an A2AClientError.
RelayFails(r) ==
    /\ relay[r] # Idle
    /\ RecordFailure(relay[r])
    /\ relay' = [relay EXCEPT ![r] = Idle]
    /\ UNCHANGED <<config, discovered, check, sweep, history>>

\* peer_status, read by the metrics stream: resets as it looks.
Status ==
    /\ AutoReset({p \in Peers : Enabled(p)})
    /\ UNCHANGED <<config, discovered, relay, check, sweep, history>>

\* The clock.
Tick ==
    /\ left' = [p \in Peers |-> IF left[p] > 0 THEN left[p] - 1 ELSE left[p]]
    /\ UNCHANGED <<config, failures, discovered, relay, check, sweep, history>>

\* POST /admin/peers: refuses a name it has, leaves _cb_state alone.
Add(p) ==
    /\ config[p] = "absent"
    /\ \E entry \in {"enabled", "disabled"} : config' = [config EXCEPT ![p] = entry]
    /\ UNCHANGED <<breaker, discovered, relay, check, sweep, history>>

BeingDiscovered(p) ==
    (\E k \in Checks : check[k] = p) \/ (\E s \in Sweeps : sweep[s][p] # "out")

\* What removing a peer leaves alone, and the history of it.
Forget(p) ==
    /\ asked' = asked \ {p}
    /\ outlived' = IF BeingDiscovered(p) THEN outlived \cup {p} ELSE outlived
    /\ UNCHANGED <<breaker, relay, check, sweep>>

\* Mutant: the cached discovery stays.
RemoveKeepsCard(p) ==
    /\ config' = [config EXCEPT ![p] = "absent"]
    /\ UNCHANGED discovered
    /\ Forget(p)

\* DELETE /admin/peers/{name}: clears the cached discovery even for a name
\* it does not have.
Remove(p) ==
    /\ config' = [config EXCEPT ![p] = "absent"]
    /\ discovered' = [discovered EXCEPT ![p] = "none"]
    /\ Forget(p)

\* POST /admin/peers/{name}/check, up to its await ...
Check(k, p) ==
    /\ check[k] = Idle /\ Enabled(p)
    /\ check' = [check EXCEPT ![k] = p]
    /\ asked' = asked \cup {p}
    /\ UNCHANGED <<config, breaker, discovered, relay, sweep, outlived>>

\* ... and after it; _discover_one never reports "error".
CheckEnds(k) ==
    /\ check[k] # Idle
    /\ \E card \in Cards : discovered' = [discovered EXCEPT ![check[k]] = card]
    /\ check' = [check EXCEPT ![k] = Idle]
    /\ UNCHANGED <<config, breaker, relay, sweep, history>>

Unswept == [p \in Peers |-> "out"]

\* discover_all fixes its list of peers and asks them all at once.
Sweep(s) ==
    /\ sweep[s] = Unswept /\ \E p \in Peers : Enabled(p)
    /\ sweep' = [sweep EXCEPT ![s] =
                    [p \in Peers |-> IF Enabled(p) THEN "waiting" ELSE "out"]]
    /\ asked' = asked \cup {p \in Peers : Enabled(p)}
    /\ UNCHANGED <<config, breaker, discovered, relay, check, outlived>>

\* One of its _discover_one ends; gather keeps the result.
SweepHears(s, p) ==
    /\ sweep[s][p] = "waiting"
    /\ \E card \in Cards : sweep' = [sweep EXCEPT ![s][p] = card]
    /\ UNCHANGED <<config, breaker, discovered, relay, check, history>>

\* The last one has: all results are stored.
SweepEnds(s) ==
    /\ sweep[s] # Unswept
    /\ \A p \in Peers : sweep[s][p] # "waiting"
    /\ discovered' = [p \in Peers |-> IF sweep[s][p] \in Cards
                                       THEN sweep[s][p] ELSE discovered[p]]
    /\ sweep' = [sweep EXCEPT ![s] = Unswept]
    /\ UNCHANGED <<config, breaker, relay, check, history>>

Init ==
    /\ config = [p \in Peers |-> IF p \in Configured THEN "enabled" ELSE "absent"]
    /\ failures = [p \in Peers |-> 0]
    /\ left = [p \in Peers |-> NotDown]
    /\ discovered = [p \in Peers |-> "none"]
    /\ relay = [r \in Relays |-> Idle]
    /\ check = [k \in Checks |-> Idle]
    /\ sweep = [s \in Sweeps |-> Unswept]
    /\ asked = {} /\ outlived = {}

Next ==
    \/ \E r \in Relays : \/ RelayAnswered(r) \/ RelayFails(r)
                         \/ \E p \in Peers : Relay(r, p)
    \/ \E p \in Peers : Skip(p) \/ Add(p) \/ Remove(p)
    \/ \E k \in Checks : CheckEnds(k) \/ \E p \in Peers : Check(k, p)
    \/ \E s \in Sweeps : Sweep(s) \/ SweepEnds(s) \/ \E p \in Peers : SweepHears(s, p)
    \/ Status
    \/ Tick

\* Only time must pass: no request need be made, and none need end.
Spec == Init /\ [][Next]_vars /\ WF_vars(Tick)
-----------------------------------------------------------------------------
TypeOK ==
    /\ config \in [Peers -> {"absent", "enabled", "disabled"}]
    /\ failures \in [Peers -> Nat]
    /\ left \in [Peers -> 0..Cooldown \cup {NotDown}]
    /\ discovered \in [Peers -> Cards \cup {"none"}]
    /\ relay \in [Relays -> Peers \cup {Idle}]
    /\ check \in [Checks -> Peers \cup {Idle}]
    /\ sweep \in [Sweeps -> [Peers -> Cards \cup {"waiting", "out"}]]
    /\ asked \subseteq Peers /\ outlived \subseteq Peers

\* A peer has a down_until exactly when its failures since the last success
\* or reset reached the threshold, however the relays that counted them
\* overlapped with resets, late answers and readers of peer_status.
DownAtThreshold == \A p \in Peers : left[p] # NotDown <=> failures[p] >= Threshold

\* The breaker stops the relaying: a peer's failures overshoot the threshold
\* by no more than the relays that were open when it was marked down.
FailuresAreBounded ==
    \A p \in Peers : failures[p] + Cardinality(OpenOn(p))
                       <= Threshold - 1 + Cardinality(Relays)

\* A peer nobody has begun to discover since it was removed has no card, and
\* none is on its way, unless a check or a sweep was going on as it was
\* removed: the late answer of that one is the only way a removed peer's card
\* comes back (remove_peer pops _discovered, check_peer stores after awaiting).
UnaskedIsUnknown ==
    \A p \in Peers \ (asked \cup outlived) :
        discovered[p] = "none" /\ ~BeingDiscovered(p)

\* The inductive invariant: the breaker's two need each other and the types.
IInv == TypeOK /\ DownAtThreshold /\ FailuresAreBounded /\ UnaskedIsUnknown

\* A peer that is marked down becomes usable again: relays that end late
\* may re-arm the breaker, but not for ever, since no new ones start.
DownPeersComeBack == \A p \in Peers : IsDown(p) ~> ~IsDown(p)

\* A cooldown is cut short only by a relay to that peer that succeeds: not
\* by a refusal, by a look at the status or by removing the peer.
CooldownsAreServed ==
    [][\A p \in Peers : IsDown(p) /\ left'[p] = NotDown =>
          \E r \in Relays : relay[r] = p /\ relay'[r] = Idle]_vars

=============================================================================
