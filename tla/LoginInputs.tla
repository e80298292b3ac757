---------------------------- MODULE LoginInputs ----------------------------
(* The calculations of LoginPolicy against what they are meant to compute,  *)
(* for every input within the bounds below.                                *)
EXTENDS LoginPolicy

CONSTANTS
    MaxFailures,  \* bound on the failure count and on the limit
    MaxDelay,     \* bound on base, maximum and duration: the largest of the width
    MaxHops       \* bound on the length of the forwarded chain

\* The bounds are numbers, and a delay is a duration.
ASSUME InputsAssumption ==
    /\ MaxFailures \in Nat /\ MaxDelay \in Nat /\ MaxHops \in Nat
    /\ MaxDelay < Half

VARIABLE input

Entries == Addresses \cup {Garbage}

\* A delay within a second of the largest duration would overflow when it is
\* rounded up: 292 years, which no configuration asks for.
Inputs ==
    [kind : {"backoff"}, count : 1 .. MaxFailures, limit : 1 .. MaxFailures,
     base : 1 .. MaxDelay, maximum : 1 .. MaxDelay]
    \cup [kind : {"source"}, peer : Entries,
          chain : UNION {[1 .. n -> Entries] : n \in 0 .. MaxHops}]
    \cup [kind : {"retry"}, duration : 1 .. MaxDelay - Second]

\* config.Load refuses a maximum below the base.
AcceptedInput(i) == i.kind = "backoff" => i.maximum >= i.base

NoInput == [kind |-> "none"]

PowerOfTwo(n) ==
    LET power[i \in 0 .. n] == IF i = 0 THEN 1 ELSE 2 * power[i - 1]
    IN  power[n]

(* loginBackoff: no delay below the limit, then the base doubled with       *)
(* every further failure and cut at the maximum, even where the doubled    *)
(* value is no longer a duration.                                          *)
BackoffDoubles ==
    input.kind = "backoff" =>
        LoginBackoff(input.count, input.limit, input.base, input.maximum) =
            IF input.count < input.limit THEN 0
            ELSE Min({input.base * PowerOfTwo(input.count - input.limit), input.maximum})

(* loginSource: behind a trusted peer the nearest hop that is no trusted    *)
(* proxy is counted, whatever the entries before it claim; an unreadable   *)
(* hop in that place counts as the peer, and a chain of proxies as its     *)
(* first entry.                                                            *)
SourceIsNearestOutsider ==
    input.kind = "source" /\ input.peer \in Trusted /\ input.chain # <<>> =>
        LET outside == {i \in DOMAIN input.chain : input.chain[i] \notin Trusted}
            hop     == IF outside = {} THEN 1 ELSE Max(outside)
        IN  LoginSource(input.peer, input.chain) =
                IF input.chain[hop] = Garbage THEN input.peer ELSE input.chain[hop]

(* retryAfterSeconds: the least number of seconds, at least one, after      *)
(* which the delay is over.                                                *)
RetryAfterCoversDelay ==
    input.kind = "retry" =>
        RetryAfterSeconds(input.duration) =
            Min({n \in 1 .. MaxDelay : n * Second >= input.duration})

\* The three computations of auth_security.go give what their references say on
\* every accepted input.
PolicyMeetsReference ==
    /\ BackoffDoubles
    /\ SourceIsNearestOutsider
    /\ RetryAfterCoversDelay
=============================================================================
