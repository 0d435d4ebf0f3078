SPECIFICATION Spec
CONSTANTS
    Sends = {s1}
    Streams = {m1}
    Cancels = {c1}
    Canceled = t0
    Ids = {w1, w2}
    Urls = {hook}
    NoUrl = NoUrl
    Delays <- MCDelays
    MaxRetries = 3
    MaxChanges = 4
INVARIANTS EveryWebhookIsTried PausesAreBounded
PROPERTIES EveryRequestAnswers
