---------------------------- MODULE LoginPolicy ----------------------------
(***************************************************************************)
(* The calculations of the login throttle (control-service                 *)
(* httpapi/auth_security.go). Durations are numbers of one unit of time,   *)
(* an address is a model value, and the entries of X-Forwarded-For are a   *)
(* sequence whose last entry is the nearest hop.                           *)
(***************************************************************************)
EXTENDS Integers, Sequences, FiniteSetsExt

CONSTANTS
    Addresses,  \* what parses as an address
    Trusted,    \* addresses inside TrustedProxyCIDRs
    Garbage,    \* an entry that does not parse
    Second,     \* units of time in a second
    Bits        \* width of a duration

ASSUME PolicyAssumption ==
    /\ Trusted \subseteq Addresses
    /\ Garbage \notin Addresses
    /\ Second \in Nat \ {0}
    /\ Bits \in Nat \ {0}
    /\ 2 ^ (Bits - 1) \in Nat \ {0}

-----------------------------------------------------------------------------
(* loginBackoff *)

\* time.Duration is a signed integer of fixed width, below Half and not below -Half.
Half    == 2 ^ (Bits - 1)
Wrap(n) == ((n + Half) % (2 * Half)) - Half

\* One round of the loop: its early return keeps the maximum.
Doubled(delay, maximum) ==
    IF delay >= maximum \/ delay > maximum \div 2 THEN maximum ELSE Wrap(2 * delay)

\* The delay after every round.
Delays(doublings, base, maximum) ==
    LET delay[n \in 0 .. doublings] == IF n = 0 THEN base ELSE Doubled(delay[n - 1], maximum)
    IN  delay

LoginBackoff(failureCount, failureLimit, base, maximum) ==
    IF failureCount < failureLimit THEN 0
    ELSE LET doublings == failureCount - failureLimit
             last   == Delays(doublings, base, maximum)[doublings]
         IN  IF last > maximum THEN maximum ELSE last

-----------------------------------------------------------------------------
(* loginSource *)

\* Mutant: the walk starts at the entry that the client wrote.
WalkFromLeft(peer, chain) ==
    LET walk[i \in 1 .. Len(chain) + 1] ==
            IF i > Len(chain) THEN chain[Len(chain)]
            ELSE IF chain[i] = Garbage THEN peer
            ELSE IF chain[i] \notin Trusted THEN chain[i]
            ELSE walk[i + 1]
    IN  walk[1]

\* The loop over the chain, from its last entry.
Walk(peer, chain) ==
    LET walk[i \in 0 .. Len(chain)] ==
            IF i = 0 THEN chain[1]
            ELSE IF chain[i] = Garbage THEN peer
            ELSE IF chain[i] \notin Trusted THEN chain[i]
            ELSE walk[i - 1]
    IN  walk[Len(chain)]

LoginSource(peer, chain) ==
    IF peer = Garbage THEN "unknown"
    ELSE IF peer \notin Trusted \/ chain = <<>> THEN peer
    ELSE Walk(peer, chain)

-----------------------------------------------------------------------------
(* retryAfterSeconds *)

RetryAfterSeconds(duration) == Max({Wrap(duration + Second - 1) \div Second, 1})
=============================================================================
