--------------------------- MODULE CredentialCache ---------------------------
(***************************************************************************)
(* The credentials an agent host resolves and keeps in memory              *)
(* (examples/node-agent/src/credentials.ts, CredentialManager).            *)
(*                                                                         *)
(* A use waits for a synchronisation, shared with the uses that find one   *)
(* under way, and takes the material from the cache or from a resolution,  *)
(* shared with the uses that saw the same revision. Answers of the server  *)
(* arrive in any order. An entry may run out of its time at any moment.    *)
(***************************************************************************)
EXTENDS Credentials

CONSTANT Uses

VARIABLES
    cache,     \* credential to [rev, value]
    metadata,  \* credential to updatedAt, as synchronised
    syncing,   \* at most one synchronisation: [floor, hidden, seen, answered, list]
    asks,      \* resolutions under way: [by, of, rev, answered, ok, value]
    current,   \* #resolutions: credential to the use that started it
    uses       \* [phase, of, floor, hidden, seen, ask, value] by use

cacheVars == <<cache, metadata, syncing, asks, current, uses>>

NoUse == [phase |-> "idle", floor |-> 0, hidden |-> FALSE, seen |-> 0, ask |-> {}, value |-> 0]

CacheInit ==
    /\ CredentialsInit
    /\ cache = <<>> /\ metadata = <<>> /\ syncing = {} /\ asks = {} /\ current = <<>>
    /\ uses = [u \in Uses |-> NoUse]

\* A map without c, and with x for c.
Dropped(f, c) == [d \in DOMAIN f \ {c} |-> f[d]]
Set(f, c, x)  == [d \in DOMAIN f \cup {c} |-> IF d = c THEN x ELSE f[d]]

-----------------------------------------------------------------------------
(* Synchronisation. *)

\* use, synchronize: join the synchronisation under way or start one. What the
\* server holds when it starts is remembered to judge the outcome by.
StartUse(u, c) ==
    /\ uses[u].phase = "idle"
    /\ LET sync == IF syncing # {} THEN CHOOSE s \in syncing : TRUE
                   ELSE [floor |-> [d \in Creds |-> cred[d].value], hidden |-> {d \in Creds : ~VisibleCredential(d)},
                         seen |-> secretEdits, answered |-> FALSE, list |-> <<>>]
       IN /\ syncing' = {sync}
          /\ uses' = [uses EXCEPT ![u] = [phase |-> "sync", of |-> c, floor |-> sync.floor[c],
                                          hidden |-> c \in sync.hidden, seen |-> sync.seen, ask |-> {}, value |-> 0]]
    /\ UNCHANGED <<cache, metadata, asks, current>>

\* listAgentCredentials answers.
AnswerList ==
    \E s \in syncing :
        /\ ~s.answered
        /\ syncing' = {[s EXCEPT !.answered = TRUE, !.list = [c \in {d \in Creds : VisibleCredential(d)} |-> cred[c].rev]]}
        /\ UNCHANGED <<cache, metadata, asks, current, uses>>

\* #synchronize: entries of another revision go, the uses that wait go on.
Synchronized ==
    \E s \in syncing :
        /\ s.answered
        /\ cache' = [c \in {d \in DOMAIN cache : d \in DOMAIN s.list /\ s.list[d] = cache[d].rev} |-> cache[c]]
        /\ metadata' = s.list
        /\ syncing' = {}
        /\ uses' = [u \in Uses |-> IF uses[u].phase = "sync" THEN [uses[u] EXCEPT !.phase = "synced"] ELSE uses[u]]
        /\ UNCHANGED <<asks, current>>

-----------------------------------------------------------------------------
(* Material. *)

Ended(u, phase, value) == [uses EXCEPT ![u].phase = phase, ![u].value = value]

\* Mutant: an entry of any revision is good.
AnyRevision(c) == c \in DOMAIN cache

CacheHit(c) == c \in DOMAIN cache /\ cache[c].rev = metadata[c]

\* A resolution under way for the same revision.
Joinable(c) == c \in DOMAIN current /\ \E a \in asks : a.by = current[c] /\ a.rev = metadata[c]

\* use, #material: from the cache, by a resolution under way, or by a new one.
Material(u) ==
    LET c == uses[u].of IN
    /\ uses[u].phase = "synced"
    /\ \/ /\ c \notin DOMAIN metadata
          /\ uses' = Ended(u, "unavailable", 0)
          /\ UNCHANGED <<cache, asks, current>>
       \/ /\ c \in DOMAIN metadata /\ CacheHit(c)
          /\ uses' = Ended(u, "done", cache[c].value)
          /\ UNCHANGED <<cache, asks, current>>
       \/ /\ c \in DOMAIN metadata /\ ~CacheHit(c) /\ Joinable(c)
          /\ uses' = [uses EXCEPT ![u].phase = "wait", ![u].ask = {current[c]}]
          /\ cache' = Dropped(cache, c)
          /\ UNCHANGED <<asks, current>>
       \/ /\ c \in DOMAIN metadata /\ ~CacheHit(c) /\ ~Joinable(c)
          /\ uses' = [uses EXCEPT ![u].phase = "wait", ![u].ask = {u}]
          /\ cache' = Dropped(cache, c)
          /\ current' = Set(current, c, u)
          /\ asks' = asks \cup {[by |-> u, of |-> c, rev |-> metadata[c], answered |-> FALSE, ok |-> FALSE, value |-> 0]}
    /\ UNCHANGED <<metadata, syncing>>

\* resolveAgentCredential answers with the value, or refuses.
AnswerResolve(a) ==
    /\ a \in asks /\ ~a.answered
    /\ asks' = (asks \ {a}) \cup {[a EXCEPT !.answered = TRUE, !.ok = VisibleCredential(a.of), !.value = cred[a.of].value]}
    /\ UNCHANGED <<cache, metadata, syncing, current, uses>>

\* The value is cached under the revision the use had seen; whoever waits for it
\* gets it.
Resolved(a) ==
    /\ a \in asks /\ a.answered
    /\ asks' = asks \ {a}
    /\ cache' = IF a.ok THEN Set(cache, a.of, [rev |-> a.rev, value |-> a.value]) ELSE cache
    /\ current' = IF a.of \in DOMAIN current /\ current[a.of] = a.by THEN Dropped(current, a.of) ELSE current
    /\ uses' = [u \in Uses |-> IF uses[u].phase = "wait" /\ uses[u].ask = {a.by}
                               THEN [uses[u] EXCEPT !.phase = IF a.ok THEN "done" ELSE "unavailable", !.value = a.value]
                               ELSE uses[u]]
    /\ UNCHANGED <<metadata, syncing>>

\* maxCacheMs or the expiry of the material passes.
ExpireEntry(c) ==
    /\ c \in DOMAIN cache
    /\ cache' = Dropped(cache, c)
    /\ UNCHANGED <<metadata, syncing, asks, current, uses>>

\* clear(): resolutions under way are forgotten, not stopped.
ClearCache ==
    /\ cache # <<>> \/ metadata # <<>> \/ current # <<>>
    /\ cache' = <<>> /\ metadata' = <<>> /\ current' = <<>>
    /\ UNCHANGED <<syncing, asks, uses>>

\* A use that ended makes room for another.
NextUse(u) ==
    /\ uses[u].phase \in {"done", "unavailable"}
    /\ \A a \in asks : a.by # u
    /\ uses' = [uses EXCEPT ![u] = NoUse]
    /\ UNCHANGED <<cache, metadata, syncing, asks, current>>

CacheStep ==
    \/ AnswerList \/ Synchronized \/ ClearCache
    \/ \E u \in Uses : Material(u) \/ NextUse(u) \/ \E c \in Creds : StartUse(u, c)
    \/ \E a \in asks : AnswerResolve(a) \/ Resolved(a)
    \/ \E c \in Creds : ExpireEntry(c)

CacheNext ==
    \/ CacheStep /\ UNCHANGED credentialVars
    \/ CredentialEdit /\ UNCHANGED cacheVars

CacheSpec == CacheInit /\ [][CacheNext]_<<cacheVars, credentialVars>>

-----------------------------------------------------------------------------
(* Properties. *)

\* CredentialManager: a use never gets a value older than the one the server held
\* when the synchronisation it waited for began, whatever was cached, shared or
\* answered late; and it gets none of a credential that was out of its reach
\* then, unless that has changed since.
UsesAreFresh ==
    \A u \in Uses :
        uses[u].phase = "done" =>
            /\ uses[u].value >= uses[u].floor
            /\ uses[u].hidden => secretEdits > uses[u].seen
=============================================================================
