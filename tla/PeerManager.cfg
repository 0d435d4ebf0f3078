SPECIFICATION Spec
CONSTANTS
    Peers = {"p"}
    Configured = {"p"}
    Relays = {r1, r2, r3}
    Checks = {k1}
    Sweeps = {s1}
    Threshold = 3
    Cooldown = 3
INVARIANTS DownAtThreshold FailuresAreBounded UnaskedIsUnknown
PROPERTIES CooldownsAreServed DownPeersComeBack
