------------------------- MODULE VaultUnlockProofs -------------------------
(***************************************************************************)
(* Proofs about VaultUnlock, for every set of openers and passwords, every *)
(* threshold and delay, and every bound of the counter and the clock.      *)
(*                                                                         *)
(* The inductive invariant says why no failure is ever forgotten: the tag  *)
(* of every header in the system is the one of a header without failures,  *)
(* so a header that carries one cannot verify, so no opener ever gets past *)
(* unlock_header with it to the code that resets the counter.              *)
(***************************************************************************)
EXTENDS VaultUnlock, WellFoundedInduction, TLAPS

\* Every tag in the system was computed over a zero counter, and a header with
\* a zero counter still is what its tag was computed over.
TagsUncounted(h) == h.tag.attempts = 0 /\ (h.body.attempts = 0 => h.body = h.tag)

\* An opener about to write carries a failure it has just counted.
WritersCarryFailure ==
  \A o \in Openers :
    /\ pc[o] \notin {"granted", "granting"}
    /\ pc[o] \in {"denied", "denying"} => copy[o].body.attempts > 0

IInv ==
  /\ TypeOK
  /\ disk # Torn => TagsUncounted(disk)
  /\ \A o \in Openers : TagsUncounted(copy[o])
  /\ WritersCarryFailure

\* apply_backoff yields a well-formed header body with a positive counter, one
\* more than before unless it is saturated, and a lockout that is not over yet.
LEMMA ApplyBackoffType ==
  ASSUME NEW b \in Body, NEW now \in Nat
  PROVE  /\ ApplyBackoff(b, now) \in Body
         /\ ApplyBackoff(b, now).attempts > 0
         /\ ApplyBackoff(b, now).attempts = IncrementAttempts(b.attempts)
         /\ ApplyBackoff(b, now).lockout >= now
<1> DEFINE n == IncrementAttempts(b.attempts)
<1>1. b.attempts \in 0..CounterMax
  BY DEF Body
<1>2. n \in 0..CounterMax /\ n > 0
  BY <1>1, CounterAssumption DEF IncrementAttempts
<1> HIDE DEF n
<1>3. BackoffBase ^ n \in Nat
  BY <1>2, DelayAssumption
<1>4. CalculateBackoff(n) \in Nat
  BY <1>3, DelayAssumption DEF CalculateBackoff
<1>5. BackoffDelay(n) \in Nat
  BY <1>4, DelayAssumption DEF BackoffDelay
<1>6. now + BackoffDelay(n) \in Nat /\ now + BackoffDelay(n) >= now
  BY <1>5
<1>7. ApplyBackoff(b, now) =
        [attempts |-> n, lockout |-> now + BackoffDelay(n), modified |-> now]
  BY DEF ApplyBackoff, n
<1>8. n = IncrementAttempts(b.attempts)
  BY DEF n
<1> QED
  BY <1>2, <1>6, <1>7, <1>8 DEF Body

\* The vault as created satisfies the invariant.
LEMMA InitInv == Init => IInv
<1> SUFFICES ASSUME Init PROVE IInv
  OBVIOUS
<1>1. clock = 1 /\ FreshBody(clock) \in Body /\ FreshBody(clock).attempts = 0
  BY CounterAssumption DEF Init, FreshBody, Body
<1>2. disk \in Header /\ TagsUncounted(disk)
  BY <1>1 DEF Init, Header, TagsUncounted
<1>3. TypeOK
  BY <1>1, <1>2, PasswordAssumption DEF Init, TypeOK, Idle
<1>4. WritersCarryFailure
  BY DEF Init, Idle, WritersCarryFailure
<1>5. \A o \in Openers : TagsUncounted(copy[o])
  BY <1>2 DEF Init
<1> QED
  BY <1>2, <1>3, <1>4, <1>5 DEF IInv

\* Where a header verifies, its counter is zero.
LEMMA VerifiedIsUncounted ==
  ASSUME NEW h, NEW pw, TagsUncounted(h), Authenticates(h, pw)
  PROVE  h.body.attempts = 0
BY DEF Authenticates, VerifyIntegrity, TagsUncounted

\* The end of a guess counts it, or not, for this opener alone.
LEMMA EndGuessType ==
  ASSUME TypeOK, NEW o \in Openers, EndGuess(o)
  PROVE  late' \in [Openers -> Nat]
<1>1. late \in [Openers -> Nat] /\ late[o] + 1 \in Nat
  BY DEF TypeOK
<1> QED
  BY <1>1 DEF EndGuess

\* Every step of an opener keeps the invariant.
LEMMA OpenerInv ==
  ASSUME IInv, NEW o \in Openers, OpenVault(o) \/ Close(o) \/ Crash(o)
  PROVE  IInv'
<1> USE DEF IInv
<1>0. TypeOK /\ copy[o] \in Header /\ clock \in Nat
  BY DEF TypeOK
<1>1. ASSUME NEW pw \in Passwords, ReadHeader(o, pw) PROVE IInv'
  <2>1. disk \in Header
    BY <1>1, <1>0 DEF ReadHeader, TypeOK
  <2>2. TypeOK'
    BY <1>1, <1>0, <2>1 DEF ReadHeader, TypeOK, Goto
  <2>3. WritersCarryFailure'
    BY <1>1, <1>0 DEF ReadHeader, TypeOK, Goto, WritersCarryFailure
  <2>4. TagsUncounted(disk)' /\ \A q \in Openers : TagsUncounted(copy[q])'
    BY <1>1, <1>0 DEF ReadHeader, TypeOK, TagsUncounted
  <2> QED
    BY <2>2, <2>3, <2>4
<1>2. CASE Deny(o)
  <2> DEFINE b == ApplyBackoff(copy[o].body, clock)
  <2>1. b \in Body /\ b.attempts > 0
    BY <1>0, ApplyBackoffType DEF Header
  <2> HIDE DEF b
  <2>2. copy' = [copy EXCEPT ![o] = [body |-> b, tag |-> copy[o].tag]]
    <3>1. copy' = [copy EXCEPT ![o] = [copy[o] EXCEPT !.body = b]]
      BY <1>2 DEF Deny, b
    <3>2. [copy[o] EXCEPT !.body = b] = [body |-> b, tag |-> copy[o].tag]
      BY <1>0 DEF Header
    <3> QED
      BY <3>1, <3>2
  <2>3. copy' \in [Openers -> Header]
    BY <2>1, <2>2, <1>0 DEF TypeOK, Header
  <2>4. TypeOK'
    BY <1>2, <1>0, <2>3, EndGuessType DEF Deny, TypeOK, Goto
  <2>5. copy'[o].body = b /\ copy'[o].tag = copy[o].tag
    BY <2>2, <1>0 DEF TypeOK
  <2>6. \A q \in Openers : q # o => copy'[q] = copy[q]
    BY <2>2, <1>0 DEF TypeOK
  <2>7. WritersCarryFailure'
    BY <1>2, <1>0, <2>1, <2>5, <2>6 DEF Deny, TypeOK, Goto, WritersCarryFailure
  <2>8. b.attempts # 0
    BY <2>1 DEF Body
  <2>9. \A q \in Openers : TagsUncounted(copy[q])'
    BY <2>5, <2>6, <2>8 DEF TagsUncounted
  <2>10. disk' = disk
    BY <1>2 DEF Deny
  <2> QED
    BY <2>4, <2>7, <2>9, <2>10 DEF TagsUncounted
<1>3. CASE Grant(o)
  <2>1. copy[o].body.attempts = 0
    BY <1>3, <1>0, VerifiedIsUncounted DEF Grant
  <2>2. pc' = [pc EXCEPT ![o] = "open"] /\ UNCHANGED copy
    BY <1>3, <2>1 DEF Grant, Goto
  <2>3. UNCHANGED <<disk, clock, keystorePw, typed, ledger>> /\ late' \in [Openers -> Nat]
    BY <1>3, <1>0, EndGuessType DEF Grant
  <2> QED
    BY <1>0, <2>2, <2>3 DEF TypeOK, WritersCarryFailure, TagsUncounted
<1>4. CASE Truncate(o)
  <2>1. pc[o] = "denied" /\ pc' = [pc EXCEPT ![o] = "denying"]
    BY <1>4 DEF Truncate, Goto, WritersCarryFailure
  <2>2. disk' = Torn /\ UNCHANGED <<clock, keystorePw, typed, copy, ledger, late>>
    BY <1>4 DEF Truncate
  <2> QED
    BY <1>0, <2>1, <2>2 DEF TypeOK, WritersCarryFailure, TagsUncounted
<1>5. CASE WriteHeader(o)
  <2>1. pc[o] = "denying" /\ pc' = [pc EXCEPT ![o] = "idle"]
    BY <1>5 DEF WriteHeader, Goto, WritersCarryFailure, Returned
  <2>2. disk' = copy[o] /\ ledger' = Recorded(o)
    BY <1>5, <2>1 DEF WriteHeader
  <2>3. UNCHANGED <<clock, keystorePw, typed, copy>> /\ late' = [q \in Openers |-> 0]
    BY <1>5 DEF WriteHeader
  <2>4. copy[o].body.lockout \in Nat
    BY <1>0 DEF Header, Body
  <2>5. Recorded(o) \in [failures : Nat, until : Nat]
    BY <1>0, <2>4 DEF TypeOK, Recorded
  <2>6. TypeOK'
    BY <1>0, <2>1, <2>2, <2>3, <2>5 DEF TypeOK
  <2> QED
    BY <1>0, <2>1, <2>2, <2>3, <2>6 DEF TypeOK, WritersCarryFailure, TagsUncounted
<1>6. CASE WriteFails(o)
  <2>1. pc' = [pc EXCEPT ![o] = "idle"]
    BY <1>6 DEF WriteFails, Goto, WritersCarryFailure, Returned
  <2>2. UNCHANGED <<disk, clock, keystorePw, typed, copy, ledger, late>>
    BY <1>6 DEF WriteFails
  <2> QED
    BY <1>0, <2>1, <2>2 DEF TypeOK, WritersCarryFailure, TagsUncounted
<1>7. CASE Close(o) \/ Crash(o)
  <2>1. pc' = [pc EXCEPT ![o] = "idle"]
    BY <1>7 DEF Close, Crash, Goto
  <2>2. UNCHANGED <<disk, clock, keystorePw, typed, copy, ledger, late>>
    BY <1>7 DEF Close, Crash
  <2> QED
    BY <1>0, <2>1, <2>2 DEF TypeOK, WritersCarryFailure, TagsUncounted
<1> QED
  BY <1>1, <1>2, <1>3, <1>4, <1>5, <1>6, <1>7 DEF OpenVault

\* So does every step of the system.
LEMMA StepInv == IInv /\ [Next]_vars => IInv'
<1> SUFFICES ASSUME IInv, [Next]_vars PROVE IInv'
  OBVIOUS
<1>1. CASE Tick
  BY <1>1 DEF Tick, IInv, TypeOK, WritersCarryFailure, TagsUncounted
<1>2. CASE UNCHANGED vars
  BY <1>2 DEF vars, IInv, TypeOK, WritersCarryFailure, TagsUncounted
<1> QED
  BY <1>1, <1>2, OpenerInv DEF Next

\* The invariant holds throughout.
THEOREM AlwaysInv == Spec => []IInv
BY InitInv, StepInv, PTL DEF Spec

\* Every header that open_vault reads, changes and writes stays well formed,
\* whatever the openers, the delays and the saturation point of the counter.
THEOREM TypeCorrect == Spec => []TypeOK
BY AlwaysInv, PTL DEF IInv

-----------------------------------------------------------------------------
(***************************************************************************)
(* With any number of openers.  A header is written only by an opener that *)
(* read one, so it counts at most one failure more than the ledger did     *)
(* when it was read, and the ledger only grows: no opener gets to the code *)
(* that resets it.                                                         *)
(***************************************************************************)
CountInv ==
  /\ NoFailureInvented
  /\ \A o \in Openers :
       /\ pc[o] = "deriving" => copy[o].body.attempts <= ledger.failures
       /\ pc[o] \in {"denied", "denying"} => copy[o].body.attempts <= ledger.failures + 1

\* Every step of an opener keeps what it holds within the ledger.
LEMMA CountStep ==
  ASSUME IInv, CountInv, NEW o \in Openers, OpenVault(o) \/ Close(o) \/ Crash(o)
  PROVE  CountInv'
<1> USE DEF CountInv
<1>a. /\ TypeOK /\ ledger.failures \in Nat /\ copy \in [Openers -> Header]
      /\ disk \in Header \cup {Torn}
      /\ DOMAIN pc = Openers /\ pc = [q \in Openers |-> pc[q]]
  BY DEF IInv, TypeOK
<1>0. /\ TypeOK /\ ledger.failures \in Nat /\ copy \in [Openers -> Header]
      /\ DOMAIN pc = Openers /\ pc = [q \in Openers |-> pc[q]]
      /\ \A q \in Openers : copy[q].body.attempts \in 0..CounterMax
      /\ disk # Torn => disk.body.attempts \in 0..CounterMax
  BY <1>a DEF Header, Body
<1>1. ASSUME NEW pw \in Passwords, ReadHeader(o, pw) PROVE CountInv'
  <2>1. /\ pc' = [pc EXCEPT ![o] = "deriving"] /\ copy' = [copy EXCEPT ![o] = disk]
        /\ disk # Torn /\ UNCHANGED <<disk, ledger>>
    BY <1>1 DEF ReadHeader, Goto
  <2>2. disk.body.attempts <= ledger.failures
    BY <2>1 DEF NoFailureInvented
  <2> QED
    BY <1>0, <2>1, <2>2 DEF NoFailureInvented
<1>2. CASE Deny(o)
  <2> DEFINE b == ApplyBackoff(copy[o].body, clock)
  <2>1. /\ pc[o] = "deriving" /\ pc' = [pc EXCEPT ![o] = "denied"] /\ UNCHANGED <<disk, ledger>>
    BY <1>2 DEF Deny, Goto
  <2>2. b.attempts = IncrementAttempts(copy[o].body.attempts)
    BY <1>0, ApplyBackoffType DEF IInv, TypeOK, Header
  <2>3. b.attempts <= ledger.failures + 1
    <3>1. copy[o].body.attempts <= ledger.failures
      BY <2>1
    <3> HIDE DEF b
    <3> QED
      BY <1>0, <2>2, <3>1, CounterAssumption DEF IncrementAttempts
  <2>4. copy'[o].body = b /\ \A q \in Openers : q # o => copy'[q] = copy[q]
    <3>1. copy' = [copy EXCEPT ![o] = [copy[o] EXCEPT !.body = b]]
      BY <1>2 DEF Deny
    <3>2. [copy[o] EXCEPT !.body = b].body = b
      BY <1>0 DEF Header
    <3> HIDE DEF b
    <3> QED
      BY <1>0, <3>1, <3>2
  <2> HIDE DEF b
  <2> QED
    BY <1>0, <2>1, <2>3, <2>4 DEF NoFailureInvented
<1>3. CASE Grant(o)
  <2>1. copy[o].body.attempts = 0
    BY <1>3, VerifiedIsUncounted DEF Grant, IInv
  <2>2. pc' = [pc EXCEPT ![o] = "open"] /\ UNCHANGED <<disk, ledger, copy>>
    BY <1>3, <2>1 DEF Grant, Goto
  <2> QED
    BY <1>0, <2>2 DEF NoFailureInvented
<1>4. CASE Truncate(o)
  <2>1. /\ pc[o] = "denied" /\ pc' = [pc EXCEPT ![o] = "denying"] /\ disk' = Torn
        /\ UNCHANGED <<ledger, copy>>
    BY <1>4 DEF Truncate, Goto, IInv, WritersCarryFailure
  <2> QED
    BY <1>0, <2>1 DEF NoFailureInvented
<1>5. CASE WriteHeader(o)
  <2>1. /\ pc[o] = "denying" /\ pc' = [pc EXCEPT ![o] = "idle"] /\ disk' = copy[o]
        /\ ledger'.failures = ledger.failures + 1 /\ copy' = copy
    BY <1>5 DEF WriteHeader, Goto, Returned, Recorded, IInv, WritersCarryFailure
  <2> QED
    BY <1>0, <2>1 DEF NoFailureInvented
<1>6. CASE WriteFails(o) \/ Close(o) \/ Crash(o)
  <2>1. pc'[o] \in {"idle", "open"} /\ UNCHANGED <<disk, ledger, copy>>
    BY <1>6, <1>0 DEF WriteFails, Close, Crash, Goto, Returned
  <2>2. \A q \in Openers : q # o => pc'[q] = pc[q]
    BY <1>6, <1>0 DEF WriteFails, Close, Crash, Goto
  <2> QED
    BY <2>1, <2>2 DEF NoFailureInvented
<1> QED
  BY <1>1, <1>2, <1>3, <1>4, <1>5, <1>6 DEF OpenVault

\* However many openers run at once and wherever they are cut off, no header on disk
\* counts more failures than were written back.
THEOREM NoneIsInvented == Spec => []NoFailureInvented
<1>1. Init => CountInv
  BY DEF Init, CountInv, NoFailureInvented, FreshBody, Idle
<1>2. IInv /\ CountInv /\ [Next]_vars => CountInv'
  <2> SUFFICES ASSUME IInv, CountInv, [Next]_vars PROVE CountInv'
    OBVIOUS
  <2>1. CASE Tick
    BY <2>1 DEF Tick, CountInv, NoFailureInvented
  <2>2. CASE UNCHANGED vars
    BY <2>2 DEF vars, CountInv, NoFailureInvented
  <2> QED
    BY <2>1, <2>2, CountStep DEF Next
<1>3. CountInv => NoFailureInvented
  BY DEF CountInv
<1> QED
  BY <1>1, <1>2, <1>3, AlwaysInv, PTL DEF Spec

\* The header on disk forbids guesses now.
DiskForbids == disk # Torn /\ IsLockedOut(disk.body, clock)

\* An opener that is deriving keys while the header on disk forbids it read an earlier
\* header and has finished no guess since this one was written: it cannot have begun
\* a second one.
LateInv ==
  /\ OneLateGuess
  /\ \A o \in Openers : pc[o] = "deriving" /\ DiskForbids => late[o] = 0

\* Every step of an opener keeps its late guesses at one.
LEMMA LateStep ==
  ASSUME IInv, LateInv, NEW o \in Openers, OpenVault(o) \/ Close(o) \/ Crash(o)
  PROVE  LateInv'
<1> USE DEF LateInv
<1>0. DOMAIN pc = Openers /\ pc = [q \in Openers |-> pc[q]] /\ late \in [Openers -> Nat]
  BY DEF IInv, TypeOK
<1>1. ASSUME NEW pw \in Passwords, ReadHeader(o, pw) PROVE LateInv'
  <2>1. pc' = [pc EXCEPT ![o] = "deriving"] /\ UNCHANGED <<disk, clock, late>> /\ ~DiskForbids
    BY <1>1 DEF ReadHeader, Goto, DiskForbids
  <2>2. ~DiskForbids'
    BY <2>1 DEF DiskForbids
  <2> QED
    BY <2>1, <2>2 DEF OneLateGuess
<1>2. CASE Deny(o) \/ Grant(o)
  <2>1. /\ pc[o] = "deriving" /\ pc'[o] # "deriving" /\ UNCHANGED <<disk, clock>>
        /\ \A q \in Openers : q # o => pc'[q] = pc[q]
    BY <1>0, <1>2 DEF Deny, Grant, Goto
  <2>2. late' = IF DiskForbids THEN [late EXCEPT ![o] = @ + 1] ELSE late
    BY <1>2 DEF Deny, Grant, EndGuess, DiskForbids
  <2>3. DiskForbids' <=> DiskForbids
    BY <2>1 DEF DiskForbids
  <2>4. \A q \in Openers : q # o => late'[q] = late[q]
    BY <1>0, <2>2
  <2>5. late'[o] <= 1
    BY <1>0, <2>1, <2>2 DEF OneLateGuess
  <2> QED
    BY <2>1, <2>3, <2>4, <2>5 DEF OneLateGuess
<1>3. CASE Truncate(o)
  BY <1>0, <1>3 DEF Truncate, OneLateGuess, DiskForbids
<1>4. CASE WriteHeader(o)
  BY <1>4 DEF WriteHeader, OneLateGuess
<1>5. CASE WriteFails(o) \/ Close(o) \/ Crash(o)
  <2>1. pc'[o] \in {"idle", "open"} /\ UNCHANGED <<disk, clock, late>>
    BY <1>5, <1>0 DEF WriteFails, Close, Crash, Goto, Returned
  <2>2. \A q \in Openers : q # o => pc'[q] = pc[q]
    BY <1>5, <1>0 DEF WriteFails, Close, Crash, Goto
  <2>3. DiskForbids' <=> DiskForbids
    BY <2>1 DEF DiskForbids
  <2> QED
    BY <2>1, <2>2, <2>3 DEF OneLateGuess
<1> QED
  BY <1>1, <1>2, <1>3, <1>4, <1>5 DEF OpenVault

\* However many openers overtake each other, a lockout that is on disk lets each of them
\* finish at most one guess, the one it had begun before.
THEOREM LateGuessesAreFew == Spec => []OneLateGuess
<1>1. Init => LateInv
  BY DEF Init, LateInv, OneLateGuess, Idle
<1>2. IInv /\ LateInv /\ [Next]_vars => LateInv'
  <2> SUFFICES ASSUME IInv, LateInv, [Next]_vars PROVE LateInv'
    OBVIOUS
  <2>1. CASE Tick
    <3>1. clock' = clock + 1 /\ clock \in Nat /\ UNCHANGED <<disk, pc, late>>
      BY <2>1 DEF Tick, IInv, TypeOK
    <3>2. disk # Torn => disk.body.lockout \in Nat
      BY DEF IInv, TypeOK, Header, Body
    <3>3. DiskForbids' => DiskForbids
      BY <3>1, <3>2 DEF DiskForbids, IsLockedOut
    <3> QED
      BY <3>1, <3>3 DEF LateInv, OneLateGuess
  <2>2. CASE UNCHANGED vars
    BY <2>2 DEF vars, LateInv, OneLateGuess, DiskForbids
  <2> QED
    BY <2>1, <2>2, LateStep DEF Next
<1>3. LateInv => OneLateGuess
  BY DEF LateInv
<1> QED
  BY <1>1, <1>2, <1>3, AlwaysInv, PTL DEF Spec

-----------------------------------------------------------------------------
(***************************************************************************)
(* With one opener.  What it holds in memory follows from the ledger: the  *)
(* header as written last while it derives keys, one failure more when it  *)
(* is about to write.                                                      *)
(***************************************************************************)
Counted(failures) == IF failures < CounterMax THEN failures ELSE CounterMax

\* Only a header whose lockout is over is read, so the next one is not earlier.
LedgerInv(o) ==
  /\ LedgerExact
  /\ pc[o] = "deriving" =>
       /\ copy[o].body.lockout = ledger.until /\ ledger.until <= clock
       /\ copy[o].body.attempts = Counted(ledger.failures)
  /\ pc[o] \in {"denied", "denying"} =>
       /\ copy[o].body.lockout >= ledger.until
       /\ copy[o].body.attempts = Counted(ledger.failures + 1)

\* Every step of the one opener keeps what it holds in line with the ledger.
LEMMA LedgerStep ==
  ASSUME NEW o \in Openers, IInv, LedgerInv(o), OpenVault(o) \/ Close(o) \/ Crash(o)
  PROVE  LedgerInv(o)'
<1> USE DEF LedgerInv
<1>0. TypeOK /\ copy[o] \in Header /\ clock \in Nat /\ ledger.failures \in Nat
      /\ ledger.until \in Nat /\ copy[o].body \in Body
  BY DEF IInv, TypeOK, Header
<1>1. ASSUME NEW pw \in Passwords, ReadHeader(o, pw) PROVE LedgerInv(o)'
  <2>1. copy'[o] = disk /\ pc'[o] = "deriving" /\ UNCHANGED <<disk, clock, ledger>>
    BY <1>1, <1>0 DEF ReadHeader, Goto, TypeOK
  <2>2. disk \in Header /\ disk # Torn /\ ~IsLockedOut(disk.body, clock)
    BY <1>1, <1>0 DEF ReadHeader, TypeOK
  <2>3. disk.body.lockout = ledger.until /\ disk.body.attempts = Counted(ledger.failures)
    BY <2>2 DEF LedgerExact, Counted
  <2>4. ledger.until <= clock
    BY <2>2, <2>3, <1>0 DEF IsLockedOut
  <2> QED
    BY <2>1, <2>3, <2>4 DEF LedgerExact, Counted
<1>2. CASE Deny(o)
  <2> DEFINE b == ApplyBackoff(copy[o].body, clock)
  <2>1. b \in Body /\ b.lockout >= clock /\ b.attempts = IncrementAttempts(copy[o].body.attempts)
    BY <1>0, ApplyBackoffType
  <2>2. copy'[o].body = b
    <3>1. copy' = [copy EXCEPT ![o] = [copy[o] EXCEPT !.body = b]]
      BY <1>2 DEF Deny
    <3>2. [copy[o] EXCEPT !.body = b].body = b
      BY <1>0 DEF Header
    <3> HIDE DEF b
    <3> QED
      BY <3>1, <3>2, <1>0 DEF TypeOK
  <2> HIDE DEF b
  <2>3. pc[o] = "deriving" /\ pc'[o] = "denied" /\ UNCHANGED <<disk, clock, ledger>>
    BY <1>2, <1>0 DEF Deny, Goto, TypeOK
  <2>4. b.attempts = Counted(ledger.failures + 1)
    BY <2>1, <2>3, <1>0, CounterAssumption DEF Counted, IncrementAttempts
  <2>5. b.lockout >= ledger.until
    BY <2>1, <2>3, <1>0 DEF Body
  <2> QED
    BY <2>2, <2>3, <2>4, <2>5 DEF LedgerExact, Counted
<1>3. CASE Grant(o)
  <2>1. copy[o].body.attempts = 0
    BY <1>3, VerifiedIsUncounted DEF Grant, IInv
  <2>2. pc'[o] = "open" /\ UNCHANGED <<disk, clock, ledger, copy>>
    BY <1>3, <1>0, <2>1 DEF Grant, Goto, TypeOK
  <2> QED
    BY <2>2 DEF LedgerExact
<1>4. CASE Truncate(o)
  <2>1. pc[o] = "denied" /\ pc'[o] = "denying" /\ disk' = Torn /\ UNCHANGED <<clock, ledger, copy>>
    BY <1>4, <1>0 DEF Truncate, Goto, TypeOK, IInv, WritersCarryFailure
  <2> QED
    BY <2>1 DEF LedgerExact, Counted
<1>5. CASE WriteHeader(o)
  <2>1. pc[o] = "denying" /\ pc'[o] = "idle" /\ disk' = copy[o] /\ ledger' = Recorded(o)
    BY <1>5, <1>0 DEF WriteHeader, Goto, Returned, TypeOK, IInv, WritersCarryFailure
  <2>2. copy[o].body.lockout = ledger'.until
    BY <2>1, <1>0 DEF Recorded, Body
  <2>3. ledger'.failures = ledger.failures + 1
    BY <2>1 DEF Recorded
  <2> QED
    BY <2>1, <2>2, <2>3 DEF LedgerExact, Counted
<1>6. CASE WriteFails(o) \/ Close(o) \/ Crash(o)
  <2>1. pc'[o] \in {"idle", "open"} /\ UNCHANGED <<disk, clock, ledger, copy>>
    BY <1>6, <1>0 DEF WriteFails, Close, Crash, Goto, Returned, TypeOK
  <2> QED
    BY <2>1 DEF LedgerExact
<1> QED
  BY <1>1, <1>2, <1>3, <1>4, <1>5, <1>6 DEF OpenVault

\* With one opener this holds throughout.
LEMMA AlwaysLedger ==
  ASSUME NEW o, Openers = {o}
  PROVE  Spec => []LedgerInv(o)
<1>1. Init => LedgerInv(o)
  BY CounterAssumption DEF Init, LedgerInv, LedgerExact, FreshBody, Idle
<1>2. IInv /\ LedgerInv(o) /\ [Next]_vars => LedgerInv(o)'
  <2> SUFFICES ASSUME IInv, LedgerInv(o), [Next]_vars PROVE LedgerInv(o)'
    OBVIOUS
  <2>1. CASE Tick
    BY <2>1 DEF Tick, LedgerInv, LedgerExact, Counted, IInv, TypeOK
  <2>2. CASE UNCHANGED vars
    BY <2>2 DEF vars, LedgerInv, LedgerExact, Counted
  <2> QED
    BY <2>1, <2>2, LedgerStep DEF Next
<1> QED
  BY <1>1, <1>2, AlwaysInv, PTL DEF Spec

\* One process at a time loses no failure: whatever crashes and failed writes come
\* between, a header that is whole records exactly the failures that were
\* written, up to the saturation of the counter, and the last lockout.
THEOREM LedgerIsExact ==
  ASSUME NEW o, Openers = {o}
  PROVE  Spec => []LedgerExact
<1>1. LedgerInv(o) => LedgerExact
  BY DEF LedgerInv
<1> QED
  BY <1>1, AlwaysLedger, PTL

-----------------------------------------------------------------------------
(***************************************************************************)
(* What guesses cost.  EarliestRecord is defined by recursion: that there  *)
(* is such a function is proved from its beginnings, of which a smallest   *)
(* one that is missing cannot exist.                                       *)
(***************************************************************************)
\* A set of naturals has a least member.
LEMMA LeastIsThere ==
  ASSUME NEW S, S \subseteq Nat, S # {}
  PROVE  \E x \in S : \A y \in S : x <= y
<1> DEFINE R == OpToRel(<, Nat)
<1>1. IsWellFoundedOn(R, Nat)
  BY NatLessThanWellFounded, Zenon
<1>2. \A x, y \in Nat : y < x => <<y, x>> \in R
  BY DEF OpToRel
<1>3. \E x \in S : \A y \in S : ~ (<<y, x>> \in R)
  <2> HIDE DEF R
  <2> QED
    BY <1>1, WFMin
<1>4. PICK x \in S : \A y \in S : ~ (y < x)
  <2> HIDE DEF R
  <2> QED
    BY <1>2, <1>3
<1>5. \A y \in S : x <= y
  <2> SUFFICES ASSUME NEW y \in S PROVE x <= y
    OBVIOUS
  <2>1. x \in Nat /\ y \in Nat /\ ~ (y < x)
    BY <1>4
  <2> HIDE DEF R
  <2> QED
    BY <2>1
<1> QED
  BY <1>5

\* The delays are naturals, as the counter reaches the threshold before it saturates.
LEMMA WaitType ==
  ASSUME Threshold <= CounterMax, NEW n \in Nat
  PROVE  WaitAfter(n) \in Nat
<1>1. CASE n >= Threshold
  BY <1>1, DelayAssumption DEF WaitAfter
<1>2. CASE n < Threshold
  <2>1. n \in 0..CounterMax
    BY <1>2, DelayAssumption, CounterAssumption
  <2>2. BackoffBase ^ n \in Nat /\ BackoffMax \in Nat
    BY <2>1, DelayAssumption
  <2> QED
    BY <1>2, <2>2, DelayAssumption DEF WaitAfter
<1> QED
  BY <1>1, <1>2, DelayAssumption

\* The next value of the recursion, and the beginnings of the function.
After(g, n) == IF n <= 1 THEN 1 ELSE g[n - 1] + WaitAfter(n - 1)
Beginnings(n) == {g \in [0..n -> Nat] : \A i \in 0..n : g[i] = After(g, i)}

\* Any two beginnings agree where both are defined.
LEMMA BeginningsAgree ==
  ASSUME NEW n \in Nat, NEW m \in Nat, n <= m, NEW g \in Beginnings(n), NEW h \in Beginnings(m)
  PROVE  \A i \in 0..n : g[i] = h[i]
<1> DEFINE S == {i \in 0..n : g[i] # h[i]}
<1>1. \A i \in 0..n : i \in Nat /\ i \in 0..m
  OBVIOUS
<1>2. \A i \in 0..n : g[i] = After(g, i) /\ h[i] = After(h, i)
  BY <1>1 DEF Beginnings
<1>3. ASSUME S # {} PROVE FALSE
  <2>1. S \subseteq Nat
    BY <1>1
  <2>2. PICK x \in S : \A y \in S : x <= y
    <3> HIDE DEF S
    <3> QED
      BY <1>3, <2>1, LeastIsThere
  <2>3. x \in 0..n /\ g[x] # h[x]
    OBVIOUS
  <2>4. CASE x <= 1
    BY <1>2, <2>3, <2>4 DEF After
  <2>5. CASE x > 1
    <3>1. x - 1 \in 0..n /\ ~ (x <= x - 1)
      BY <2>3, <2>5
    <3>2. g[x - 1] = h[x - 1]
      BY <2>2, <3>1
    <3> QED
      BY <1>2, <2>3, <2>5, <3>2 DEF After
  <2> QED
    BY <2>3, <2>4, <2>5
<1> QED
  BY <1>3

\* There is a beginning of every length.
LEMMA BeginningsExist ==
  ASSUME Threshold <= CounterMax, NEW n \in Nat
  PROVE  Beginnings(n) # {}
<1> DEFINE S == {i \in Nat : Beginnings(i) = {}}
<1>1. ASSUME S # {} PROVE FALSE
  <2>1. PICK x \in S : \A y \in S : x <= y
    <3>1. S \subseteq Nat
      OBVIOUS
    <3> HIDE DEF S
    <3> QED
      BY <1>1, <3>1, LeastIsThere
  <2>2. x \in Nat /\ Beginnings(x) = {}
    OBVIOUS
  <2>3. CASE x <= 1
    <3> DEFINE g == [i \in 0..x |-> 1]
    <3>1. g \in [0..x -> Nat]
      OBVIOUS
    <3>2. \A i \in 0..x : g[i] = After(g, i)
      BY <2>2, <2>3 DEF After
    <3>3. g \in Beginnings(x)
      BY <3>1, <3>2 DEF Beginnings
    <3> QED
      BY <2>2, <3>3
  <2>4. CASE x > 1
    <3>1. x - 1 \in Nat /\ ~ (x <= x - 1)
      BY <2>2, <2>4
    <3>2. PICK g \in Beginnings(x - 1) : TRUE
      BY <2>1, <3>1
    <3>3. g \in [0..(x - 1) -> Nat] /\ \A i \in 0..(x - 1) : g[i] = After(g, i)
      BY <3>2 DEF Beginnings
    <3>4. WaitAfter(x - 1) \in Nat
      BY <3>1, WaitType
    <3> DEFINE w == WaitAfter(x - 1)
    <3> DEFINE h == [i \in 0..x |-> IF i = x THEN g[x - 1] + w ELSE g[i]]
    <3>5. x - 1 \in 0..(x - 1) /\ g[x - 1] \in Nat
      BY <2>2, <2>4, <3>3
    <3>6. \A i \in 0..x : i = x \/ i \in 0..(x - 1)
      BY <2>2
    <3>7. h \in [0..x -> Nat]
      <4>1. w \in Nat
        BY <3>4
      <4> HIDE DEF w
      <4> QED
        BY <3>3, <3>5, <3>6, <4>1
    <3>8. ASSUME NEW i \in 0..x PROVE h[i] = After(h, i)
      <4>1. CASE i = x
        <5>1. x - 1 \in 0..x /\ x - 1 # x
          BY <2>2, <2>4
        <5>2. h[x - 1] = g[x - 1] /\ h[x] = g[x - 1] + w
          BY <2>2, <5>1
        <5> HIDE DEF h
        <5> QED
          BY <2>2, <2>4, <4>1, <5>2 DEF After
      <4>2. CASE i # x /\ i <= 1
        <5>1. h[i] = g[i] /\ i \in 0..(x - 1)
          BY <3>6, <4>2
        <5> HIDE DEF h
        <5> QED
          BY <3>3, <4>2, <5>1 DEF After
      <4>3. CASE i # x /\ i > 1
        <5>1. i \in 0..(x - 1) /\ i - 1 \in 0..x /\ i - 1 # x
          BY <2>2, <3>6, <4>3
        <5>2. h[i] = g[i] /\ h[i - 1] = g[i - 1]
          BY <4>3, <5>1
        <5> HIDE DEF h
        <5> QED
          BY <3>3, <4>3, <5>1, <5>2 DEF After
      <4> QED
        BY <2>2, <4>1, <4>2, <4>3
    <3>9. h \in Beginnings(x)
      <4> HIDE DEF h
      <4> QED
        BY <3>7, <3>8 DEF Beginnings
    <3> QED
      BY <2>2, <3>9
  <2> QED
    BY <2>2, <2>3, <2>4
<1> QED
  BY <1>1

\* So EarliestRecord is what its definition says, and a natural.
LEMMA EarliestIs ==
  ASSUME Threshold <= CounterMax
  PROVE  /\ \A n \in Nat : EarliestRecord[n] \in Nat /\ EarliestRecord[n] >= 1
         /\ EarliestRecord[0] = 1 /\ EarliestRecord[1] = 1
         /\ \A n \in Nat \ {0} : EarliestRecord[n + 1] = EarliestRecord[n] + WaitAfter(n)
<1> DEFINE pieces == [n \in Nat |-> CHOOSE g \in Beginnings(n) : TRUE]
<1> DEFINE f == [n \in Nat |-> pieces[n][n]]
<1>1. \A n \in Nat : pieces[n] \in Beginnings(n)
  BY BeginningsExist
<1> HIDE DEF pieces
<1>2. ASSUME NEW n \in Nat PROVE pieces[n][n] \in Nat /\ pieces[n][n] = After(pieces[n], n)
  <2>1. pieces[n] \in Beginnings(n) /\ n \in 0..n
    BY <1>1
  <2> QED
    BY <2>1 DEF Beginnings
<1>3. ASSUME NEW n \in Nat, n > 1 PROVE pieces[n][n - 1] = pieces[n - 1][n - 1]
  <2>1. n - 1 \in Nat /\ n - 1 <= n /\ n - 1 \in 0..(n - 1)
    BY <1>3
  <2>2. pieces[n - 1] \in Beginnings(n - 1) /\ pieces[n] \in Beginnings(n)
    BY <1>1, <2>1
  <2> QED
    BY <2>1, <2>2, BeginningsAgree
<1>4. ASSUME NEW n \in Nat
      PROVE  f[n] = IF n <= 1 THEN 1 ELSE f[n - 1] + WaitAfter(n - 1)
  <2>1. CASE n <= 1
    BY <1>2, <2>1 DEF After
  <2>2. CASE n > 1
    <3>1. n - 1 \in Nat
      BY <2>2
    <3>2. f[n] = pieces[n][n] /\ f[n - 1] = pieces[n - 1][n - 1]
      BY <3>1
    <3> HIDE DEF f
    <3> QED
      BY <1>2, <1>3, <2>2, <3>2 DEF After
  <2> QED
    BY <2>1, <2>2
<1>5. f = [n \in Nat |-> IF n <= 1 THEN 1 ELSE f[n - 1] + WaitAfter(n - 1)]
  <2>1. f = [n \in Nat |-> f[n]]
    OBVIOUS
  <2> HIDE DEF f
  <2> QED
    BY <1>4, <2>1
<1>6. EarliestRecord = [n \in Nat |-> IF n <= 1 THEN 1 ELSE EarliestRecord[n - 1] + WaitAfter(n - 1)]
  <2> DEFINE Is(e) == e = [n \in Nat |-> IF n <= 1 THEN 1 ELSE e[n - 1] + WaitAfter(n - 1)]
  <2>1. EarliestRecord = CHOOSE e : Is(e)
    BY DEF EarliestRecord
  <2>2. \E e : Is(e)
    <3> HIDE DEF f
    <3> QED
      BY <1>5
  <2>3. Is(EarliestRecord)
    <3> HIDE DEF Is
    <3> QED
      BY <2>1, <2>2, Zenon
  <2> QED
    BY <2>3
<1>7. ASSUME NEW n \in Nat
      PROVE  EarliestRecord[n] = IF n <= 1 THEN 1 ELSE EarliestRecord[n - 1] + WaitAfter(n - 1)
  BY <1>6
<1>8. ASSUME NEW n \in Nat \ {0} PROVE EarliestRecord[n + 1] = EarliestRecord[n] + WaitAfter(n)
  <2>1. n + 1 \in Nat /\ ~ (n + 1 <= 1) /\ (n + 1) - 1 = n
    OBVIOUS
  <2> QED
    BY <1>7, <2>1
<1>9. ASSUME NEW n \in Nat PROVE EarliestRecord[n] \in Nat /\ EarliestRecord[n] >= 1
  <2> DEFINE S == {i \in Nat : ~ (EarliestRecord[i] \in Nat /\ EarliestRecord[i] >= 1)}
  <2>1. ASSUME S # {} PROVE FALSE
    <3>1. PICK x \in S : \A y \in S : x <= y
      <4>1. S \subseteq Nat
        OBVIOUS
      <4> HIDE DEF S
      <4> QED
        BY <2>1, <4>1, LeastIsThere
    <3>2. x \in Nat /\ ~ (EarliestRecord[x] \in Nat /\ EarliestRecord[x] >= 1)
      OBVIOUS
    <3>3. x > 1
      BY <1>7, <3>2
    <3>4. x - 1 \in Nat /\ ~ (x <= x - 1)
      BY <3>2, <3>3
    <3>5. /\ EarliestRecord[x - 1] \in Nat /\ EarliestRecord[x - 1] >= 1
          /\ WaitAfter(x - 1) \in Nat
      BY <3>1, <3>4, WaitType
    <3> QED
      BY <1>7, <3>2, <3>3, <3>5
  <2> QED
    BY <2>1
<1>10. EarliestRecord[0] = 1 /\ EarliestRecord[1] = 1
  BY <1>7
<1> QED
  BY <1>8, <1>9, <1>10

\* The failure that is counted next costs the delay that its number calls for, saturated
\* or not.
LEMMA DelayIsTheWait ==
  ASSUME Threshold <= CounterMax, NEW n \in Nat \ {0}
  PROVE  BackoffDelay(Counted(n)) = WaitAfter(n)
<1>1. CASE n >= Threshold
  <2>1. Counted(n) >= Threshold
    BY <1>1, CounterAssumption, DelayAssumption DEF Counted
  <2> QED
    BY <1>1, <2>1 DEF BackoffDelay, WaitAfter
<1>2. CASE n < Threshold
  <2>1. Counted(n) = n /\ n # 0
    BY <1>2, CounterAssumption, DelayAssumption DEF Counted
  <2>2. ~ (n >= Threshold)
    BY <1>2, DelayAssumption
  <2> QED
    BY <2>1, <2>2 DEF BackoffDelay, WaitAfter, CalculateBackoff
<1> QED
  BY <1>1, <1>2, DelayAssumption

\* The time of the failures on record has passed; the lockout on record, and the copy of
\* an opener about to write, put the next one off for long enough.
CostInv(o) ==
  /\ clock >= EarliestRecord[ledger.failures]
  /\ ledger.failures > 0 => ledger.until >= EarliestRecord[ledger.failures + 1]
  /\ ledger.failures = 0 => ledger.until = 0
  /\ pc[o] \in {"deriving", "denied", "denying"} => clock >= EarliestRecord[ledger.failures + 1]
  /\ pc[o] \in {"denied", "denying"} =>
       copy[o].body.lockout >= EarliestRecord[ledger.failures + 2]

\* Every step of the one opener keeps the cost of a guess.
LEMMA CostStep ==
  ASSUME Threshold <= CounterMax, NEW o \in Openers, IInv, LedgerInv(o), CostInv(o),
         OpenVault(o) \/ Close(o) \/ Crash(o)
  PROVE  CostInv(o)'
<1> DEFINE n == ledger.failures
<1>0. /\ TypeOK /\ copy[o] \in Header /\ clock \in Nat \ {0} /\ n \in Nat
      /\ ledger.until \in Nat /\ copy[o].body \in Body
      /\ n + 1 \in Nat \ {0} /\ n + 2 \in Nat /\ (n + 1) + 1 = n + 2
  <2>1. TypeOK /\ copy[o] \in Header /\ clock \in Nat \ {0} /\ n \in Nat /\ ledger.until \in Nat
    BY DEF IInv, TypeOK
  <2> HIDE DEF n
  <2> QED
    BY <2>1 DEF Header
<1>e. /\ EarliestRecord[n] \in Nat /\ EarliestRecord[n + 1] \in Nat /\ EarliestRecord[n + 2] \in Nat
      /\ EarliestRecord[n + 2] = EarliestRecord[n + 1] + WaitAfter(n + 1)
      /\ WaitAfter(n + 1) \in Nat
      /\ n = 0 => EarliestRecord[n + 1] = 1
  <2> HIDE DEF n
  <2> QED
    BY <1>0, EarliestIs, WaitType
<1>1. ASSUME NEW pw \in Passwords, ReadHeader(o, pw) PROVE CostInv(o)'
  <2>1. pc'[o] = "deriving" /\ UNCHANGED <<disk, clock, ledger>>
    BY <1>1, <1>0 DEF ReadHeader, Goto, TypeOK
  <2>2. disk \in Header /\ disk # Torn /\ ~IsLockedOut(disk.body, clock)
    BY <1>1, <1>0 DEF ReadHeader, TypeOK
  <2>3. disk.body.lockout = ledger.until
    BY <2>2 DEF LedgerInv, LedgerExact
  <2>4. ledger.until = 0 \/ clock >= ledger.until
    BY <2>2, <2>3, <1>0 DEF IsLockedOut
  <2>5. clock >= EarliestRecord[n + 1]
    <3>1. CASE n = 0
      BY <1>0, <1>e, <3>1
    <3>2. CASE n > 0
      <4>1. ledger.until >= EarliestRecord[n + 1] /\ EarliestRecord[n + 1] >= 1
        <5>1. ledger.until >= EarliestRecord[n + 1]
          BY <3>2 DEF CostInv
        <5>2. EarliestRecord[n + 1] >= 1
          BY <1>0, EarliestIs
        <5> QED
          BY <5>1, <5>2
      <4> HIDE DEF n
      <4> QED
        BY <1>0, <1>e, <2>4, <4>1
    <3> QED
      BY <1>0, <3>1, <3>2
  <2> QED
    BY <2>1, <2>5 DEF CostInv
<1>2. CASE Deny(o)
  <2> DEFINE b == ApplyBackoff(copy[o].body, clock)
  <2>1. /\ pc[o] = "deriving" /\ pc'[o] = "denied" /\ UNCHANGED <<disk, clock, ledger>>
        /\ copy'[o].body = b
    <3>1. copy' = [copy EXCEPT ![o] = [copy[o] EXCEPT !.body = b]]
      BY <1>2 DEF Deny
    <3>2. [copy[o] EXCEPT !.body = b].body = b
      BY <1>0 DEF Header
    <3>3. pc[o] = "deriving" /\ pc'[o] = "denied" /\ UNCHANGED <<disk, clock, ledger>>
      BY <1>2, <1>0 DEF Deny, Goto, TypeOK
    <3> HIDE DEF b
    <3> QED
      BY <3>1, <3>2, <3>3, <1>0 DEF TypeOK
  <2>2. copy[o].body.attempts = Counted(n)
    BY <2>1 DEF LedgerInv
  <2>3. IncrementAttempts(copy[o].body.attempts) = Counted(n + 1)
    <3> HIDE DEF n
    <3> QED
      BY <2>2, <1>0, CounterAssumption DEF Counted, IncrementAttempts
  <2>4. b.lockout = clock + BackoffDelay(Counted(n + 1))
    BY <2>3 DEF ApplyBackoff
  <2>5. BackoffDelay(Counted(n + 1)) = WaitAfter(n + 1)
    <3> HIDE DEF n
    <3> QED
      BY <1>0, DelayIsTheWait
  <2>6. clock >= EarliestRecord[n + 1]
    BY <2>1 DEF CostInv
  <2>7. b.lockout >= EarliestRecord[n + 2]
    <3> HIDE DEF n, b
    <3> QED
      BY <2>4, <2>5, <2>6, <1>0, <1>e
  <2> HIDE DEF b
  <2> QED
    BY <2>1, <2>6, <2>7 DEF CostInv
<1>3. CASE Grant(o)
  <2>1. copy[o].body.attempts = 0
    BY <1>3, VerifiedIsUncounted DEF Grant, IInv
  <2>2. pc'[o] = "open" /\ UNCHANGED <<disk, clock, ledger, copy>>
    BY <1>3, <1>0, <2>1 DEF Grant, Goto, TypeOK
  <2> QED
    BY <2>2 DEF CostInv
<1>4. CASE Truncate(o)
  <2>1. pc[o] = "denied" /\ pc'[o] = "denying" /\ UNCHANGED <<clock, ledger, copy>>
    BY <1>4, <1>0 DEF Truncate, Goto, TypeOK, IInv, WritersCarryFailure
  <2> QED
    BY <2>1 DEF CostInv
<1>5. CASE WriteHeader(o)
  <2>1. /\ pc[o] = "denying" /\ pc'[o] = "idle" /\ ledger' = Recorded(o) /\ clock' = clock
    BY <1>5, <1>0 DEF WriteHeader, Goto, Returned, TypeOK, IInv, WritersCarryFailure
  <2>2. ledger'.failures = n + 1 /\ ledger'.until >= copy[o].body.lockout /\ ledger'.until \in Nat
    BY <2>1, <1>0 DEF Recorded, Body
  <2>3. clock >= EarliestRecord[n + 1] /\ copy[o].body.lockout >= EarliestRecord[n + 2]
    BY <2>1 DEF CostInv
  <2>4. copy[o].body.lockout \in Nat
    BY <1>0 DEF Body
  <2>5. /\ clock' >= EarliestRecord[ledger'.failures]
        /\ ledger'.until >= EarliestRecord[ledger'.failures + 1] /\ ledger'.failures > 0
    <3> HIDE DEF n
    <3> QED
      BY <2>1, <2>2, <2>3, <2>4, <1>0, <1>e
  <2>6. ledger'.failures # 0
    <3> HIDE DEF n
    <3> QED
      BY <2>2, <1>0
  <2> QED
    BY <2>1, <2>5, <2>6 DEF CostInv
<1>6. CASE WriteFails(o) \/ Close(o) \/ Crash(o)
  <2>1. pc'[o] \in {"idle", "open"} /\ UNCHANGED <<disk, clock, ledger, copy>>
    BY <1>6, <1>0 DEF WriteFails, Close, Crash, Goto, Returned, TypeOK
  <2> QED
    BY <2>1 DEF CostInv
<1> QED
  BY <1>1, <1>2, <1>3, <1>4, <1>5, <1>6 DEF OpenVault

\* One process at a time, whatever crashes and failed writes come between, has waited
\* as long as the table of delays asks for as many failures as are on record.  The
\* counter reaches the threshold before it saturates (10 and u32::MAX in the code).
THEOREM GuessesArePaidFor ==
  ASSUME NEW o, Openers = {o}, Threshold <= CounterMax
  PROVE  Spec => []BackoffBoundsGuesses
<1>1. Init => CostInv(o)
  <2> SUFFICES ASSUME Init PROVE CostInv(o)
    OBVIOUS
  <2>1. clock = 1 /\ ledger.failures = 0 /\ ledger.until = 0 /\ pc[o] = "idle"
    BY DEF Init, Idle
  <2> QED
    BY <2>1, EarliestIs DEF CostInv
<1>2. IInv /\ LedgerInv(o) /\ CostInv(o) /\ [Next]_vars => CostInv(o)'
  <2> SUFFICES ASSUME IInv, LedgerInv(o), CostInv(o), [Next]_vars PROVE CostInv(o)'
    OBVIOUS
  <2>1. CASE Tick
    <3>1. clock \in Nat /\ ledger.failures \in Nat /\ ledger.failures + 1 \in Nat
      BY DEF IInv, TypeOK
    <3>2. EarliestRecord[ledger.failures] \in Nat /\ EarliestRecord[ledger.failures + 1] \in Nat
      BY <3>1, EarliestIs
    <3>3. clock' = clock + 1 /\ UNCHANGED <<pc, copy, ledger>>
      BY <2>1 DEF Tick
    <3> QED
      BY <3>1, <3>2, <3>3 DEF CostInv
  <2>2. CASE UNCHANGED vars
    BY <2>2 DEF vars, CostInv
  <2> QED
    BY <2>1, <2>2, CostStep DEF Next
<1>3. CostInv(o) => BackoffBoundsGuesses
  BY DEF CostInv, BackoffBoundsGuesses
<1> QED
  BY <1>1, <1>2, <1>3, AlwaysInv, AlwaysLedger, PTL DEF Spec
=============================================================================
