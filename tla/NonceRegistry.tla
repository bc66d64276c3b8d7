---------------------------- MODULE NonceRegistry ----------------------------
(* crates/crypto/src/nonce.rs: threads draw nonces and register them in one *)
(* set behind a lock, which refuses a nonce it has seen.  The set may be    *)
(* cleared for a new session.                                               *)
EXTENDS Naturals

CONSTANTS Threads, Nonces

NotDrawn == "nothing"

ASSUME NonceAssumption == NotDrawn \notin Nonces

VARIABLES
    registered,  \* the set behind the lock
    drawn,       \* drawn[t]: the nonce t has generated and not yet registered
    given        \* given[n]: how often n was returned since the last clear

noncevars == <<registered, drawn, given>>

NonceInit ==
    /\ registered = {}
    /\ drawn = [t \in Threads |-> NotDrawn]
    /\ given = [n \in Nonces |-> 0]

\* generate_and_register_nonce: the random generator first, without the lock.
GenerateNonce(t) ==
    /\ drawn[t] = NotDrawn
    /\ \E n \in Nonces : drawn' = [drawn EXCEPT ![t] = n]
    /\ UNCHANGED <<registered, given>>

Known(n) == n \in registered

\* register_nonce: the lookup and the insertion are one call under the lock.
RegisterNonce(t) ==
    /\ drawn[t] # NotDrawn
    /\ ~Known(drawn[t])
    /\ registered' = registered \cup {drawn[t]}
    /\ given' = [given EXCEPT ![drawn[t]] = @ + 1]
    /\ drawn' = [drawn EXCEPT ![t] = NotDrawn]

\* A nonce seen before is an error, and the caller draws again.
NonceCollision(t) ==
    /\ drawn[t] # NotDrawn
    /\ Known(drawn[t])
    /\ drawn' = [drawn EXCEPT ![t] = NotDrawn]
    /\ UNCHANGED <<registered, given>>

\* clear forgets the nonces, also those a thread is about to register.
ClearRegistry ==
    /\ registered' = {} /\ given' = [n \in Nonces |-> 0]
    /\ UNCHANGED drawn

NonceNext ==
    \/ \E t \in Threads : GenerateNonce(t) \/ RegisterNonce(t) \/ NonceCollision(t)
    \/ ClearRegistry

NonceSpec == NonceInit /\ [][NonceNext]_noncevars
---------------------------------------------------------------------------
(* Between two clears no nonce is given out twice, to one thread or to     *)
(* two, and the set holds those given out (nonce.rs:186-192).              *)
NoNonceTwice ==
    \A n \in Nonces : given[n] = IF Known(n) THEN 1 ELSE 0
===========================================================================
