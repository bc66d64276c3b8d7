---------------------------- MODULE VaultUnlock ----------------------------
(***************************************************************************)
(* Opening a vault: the 512-byte header file, its failed-attempt counter   *)
(* and lockout timestamp, the HMAC tag over both, and the processes that   *)
(* call open_vault on it (crates/core/src/session.rs, header.rs).          *)
(*                                                                         *)
(* open_vault reads the header into memory, spends seconds in Argon2id,    *)
(* and on failure writes its own copy back with File::create followed by   *)
(* write_all.  Nothing locks the file, so each of these is a step of its   *)
(* own here, and another opener, the clock or a crash can come between.    *)
(*                                                                         *)
(* The clock is the system time in the unit of the delays; 0 means "no     *)
(* lockout" in lockout_until, as in the code.                              *)
(***************************************************************************)
EXTENDS Integers

CONSTANTS
  Openers,          \* processes (or threads) that open the same vault
  Passwords,        \* passwords a user may type
  Master,           \* the password the header was created with
  Levels,           \* access levels with a keystore file
  Threshold,        \* DEFAULT_LOCKOUT_THRESHOLD
  LockoutDuration,  \* DEFAULT_LOCKOUT_DURATION_SECONDS
  BackoffBase,      \* BACKOFF_BASE_SECONDS
  BackoffMax,       \* BACKOFF_MAX_SECONDS
  CounterMax,       \* u32::MAX, where the counter saturates
  Torn,             \* a header file cut short by File::create
  MaxClock          \* bound of the model on the clock

ASSUME PasswordAssumption == Master \in Passwords
ASSUME CounterAssumption  == CounterMax \in Nat \ {0}
ASSUME DelayAssumption ==
  /\ Threshold \in Nat /\ MaxClock \in Nat
  /\ LockoutDuration \in Nat \ {0}
  /\ BackoffMax \in Nat \ {0}
  /\ \A n \in 0..CounterMax : BackoffBase ^ n \in Nat \ {0}

VARIABLES
  disk,       \* the header file: a header, or Torn
  clock,      \* system time
  keystorePw, \* the password of each level's keystore
  pc,         \* where each opener is in open_vault
  typed,      \* the password it was given
  copy,       \* the header it holds in memory
  ledger,     \* what was written back so far: failures and the latest lockout
  late        \* guesses each opener finished while the header now on disk forbade them

vars == <<disk, clock, keystorePw, pc, typed, copy, ledger, late>>

(***************************************************************************)
(* The header.  The tag is an HMAC keyed by the master password, so it is  *)
(* represented by the fields it was computed over: verification compares   *)
(* them with the fields now in the header.                                 *)
(***************************************************************************)
Body   == [attempts : 0..CounterMax, lockout : Nat, modified : Nat]
Header == [body : Body, tag : Body]

ASSUME TornAssumption == Torn \notin Header

FreshBody(now) == [attempts |-> 0, lockout |-> 0, modified |-> now]

IsLockedOut(body, now) == body.lockout # 0 /\ now < body.lockout

VerifyIntegrity(h, pw) == pw = Master /\ h.tag = h.body

CalculateBackoff(attempts) ==
  IF attempts = 0 THEN 0
  ELSE IF BackoffBase ^ attempts < BackoffMax THEN BackoffBase ^ attempts
  ELSE BackoffMax

\* Mutated form: a plain + 1.
IncrementAttempts_NoSaturation(attempts) == attempts + 1

IncrementAttempts(attempts) ==
  IF attempts < CounterMax THEN attempts + 1 ELSE CounterMax

\* The delay after the n-th failure in a row.
BackoffDelay(n) ==
  IF n >= Threshold THEN LockoutDuration ELSE CalculateBackoff(n)

\* Mutated form: the delay is that of the failure before this one.
ApplyBackoff_LateDelay(body, now) ==
  [attempts |-> IncrementAttempts(body.attempts),
   lockout  |-> now + BackoffDelay(body.attempts),
   modified |-> now]

\* Mutated form: each failure is counted twice.
ApplyBackoff_CountedTwice(body, now) ==
  LET n == IncrementAttempts(IncrementAttempts(body.attempts))
  IN  [attempts |-> n, lockout |-> now + BackoffDelay(n), modified |-> now]

ApplyBackoff(body, now) ==
  LET n == IncrementAttempts(body.attempts)
  IN  [attempts |-> n, lockout |-> now + BackoffDelay(n), modified |-> now]

ResetAttempts(now) == FreshBody(now)

\* The levels whose keystore the password opens; open_vault needs at least one.
UnlockedLevels(pw) == {l \in Levels : keystorePw[l] = pw}

Authenticates(h, pw) == VerifyIntegrity(h, pw) /\ UnlockedLevels(pw) # {}

-----------------------------------------------------------------------------
Idle == [o \in Openers |-> "idle"]

Init ==
  /\ clock = 1
  /\ disk = [body |-> FreshBody(clock), tag |-> FreshBody(clock)]
  /\ keystorePw \in [Levels -> Passwords]
  /\ pc = Idle
  /\ typed = [o \in Openers |-> Master]
  /\ copy = [o \in Openers |-> disk]
  /\ ledger = [failures |-> 0, until |-> 0]
  /\ late = [o \in Openers |-> 0]

Goto(o, label) == pc' = [pc EXCEPT ![o] = label]

Tick ==
  /\ clock < MaxClock
  /\ clock' = clock + 1
  /\ UNCHANGED <<disk, keystorePw, pc, typed, copy, ledger, late>>

\* Mutated form: the lockout is not looked at before the keys are derived.
ReadHeader_NoLockoutCheck(o, pw) ==
  /\ pc[o] = "idle"
  /\ disk # Torn
  /\ Goto(o, "deriving")
  /\ typed' = [typed EXCEPT ![o] = pw]
  /\ copy' = [copy EXCEPT ![o] = disk]
  /\ UNCHANGED <<disk, clock, keystorePw, ledger, late>>

\* validate_vault_structure and read_vault_header refuse a torn header; a
\* header that is locked out ends the call before any key is derived.
ReadHeader(o, pw) ==
  /\ pc[o] = "idle"
  /\ disk # Torn
  /\ ~IsLockedOut(disk.body, clock)
  /\ Goto(o, "deriving")
  /\ typed' = [typed EXCEPT ![o] = pw]
  /\ copy' = [copy EXCEPT ![o] = disk]
  /\ UNCHANGED <<disk, clock, keystorePw, ledger, late>>

\* A guess ends: the keys are derived and its answer is known.  It is late if by now the
\* header on disk, which another opener may have written since, forbids it.
EndGuess(o) ==
  late' = IF disk # Torn /\ IsLockedOut(disk.body, clock)
          THEN [late EXCEPT ![o] = @ + 1] ELSE late

\* unlock_header failed, or it passed and no keystore opened: the counter and
\* the lockout of the copy move on, the tag is left as it was read.
Deny(o) ==
  /\ pc[o] = "deriving"
  /\ ~Authenticates(copy[o], typed[o])
  /\ copy' = [copy EXCEPT ![o].body = ApplyBackoff(@, clock)]
  /\ Goto(o, "denied")
  /\ EndGuess(o)
  /\ UNCHANGED <<disk, clock, keystorePw, typed, ledger>>

\* Success writes the header only if there was a failure to forget.
Grant(o) ==
  /\ pc[o] = "deriving"
  /\ Authenticates(copy[o], typed[o])
  /\ IF copy[o].body.attempts > 0
     THEN /\ copy' = [copy EXCEPT ![o].body = ResetAttempts(clock)]
          /\ Goto(o, "granted")
     ELSE Goto(o, "open") /\ UNCHANGED copy
  /\ EndGuess(o)
  /\ UNCHANGED <<disk, clock, keystorePw, typed, ledger>>

Returned(label) == CASE label \in {"denied", "denying"}   -> "idle"
                     [] label \in {"granted", "granting"} -> "open"

\* write_vault_header, first half: File::create truncates the file.
Truncate(o) ==
  /\ pc[o] \in {"denied", "granted"}
  /\ disk' = Torn
  /\ Goto(o, IF pc[o] = "denied" THEN "denying" ELSE "granting")
  /\ UNCHANGED <<clock, keystorePw, typed, copy, ledger, late>>

Recorded(o) ==
  [failures |-> ledger.failures + 1,
   until    |-> IF copy[o].body.lockout > ledger.until
                THEN copy[o].body.lockout ELSE ledger.until]

\* write_vault_header, second half: the 512 bytes of this opener's copy.
WriteHeader(o) ==
  /\ pc[o] \in {"denying", "granting"}
  /\ disk' = copy[o]
  /\ ledger' = IF pc[o] = "denying" THEN Recorded(o)
               ELSE [failures |-> 0, until |-> 0]
  /\ late' = [q \in Openers |-> 0]
  /\ Goto(o, Returned(pc[o]))
  /\ UNCHANGED <<clock, keystorePw, typed, copy>>

\* An I/O error while writing is printed and swallowed; the call returns.
WriteFails(o) ==
  /\ pc[o] \in {"denied", "granted", "denying", "granting"}
  /\ Goto(o, Returned(pc[o]))
  /\ UNCHANGED <<disk, clock, keystorePw, typed, copy, ledger, late>>

Close(o) ==
  /\ pc[o] = "open"
  /\ Goto(o, "idle")
  /\ UNCHANGED <<disk, clock, keystorePw, typed, copy, ledger, late>>

\* The process dies; what it had put in the file stays.
Crash(o) ==
  /\ pc[o] # "idle"
  /\ Goto(o, "idle")
  /\ UNCHANGED <<disk, clock, keystorePw, typed, copy, ledger, late>>

OpenVault(o) ==
  \/ \E pw \in Passwords : ReadHeader(o, pw)
  \/ Deny(o) \/ Grant(o) \/ Truncate(o) \/ WriteHeader(o) \/ WriteFails(o)

Next == Tick \/ \E o \in Openers : OpenVault(o) \/ Close(o) \/ Crash(o)

Spec == Init /\ [][Next]_vars

-----------------------------------------------------------------------------
(***************************************************************************)
(* Properties.                                                             *)
(***************************************************************************)

\* Every header, on disk or in memory, is well formed, and the counter never
\* leaves its u32 range (increment_attempts saturates).
TypeOK ==
  /\ disk \in Header \cup {Torn}
  /\ clock \in Nat \ {0}
  /\ keystorePw \in [Levels -> Passwords]
  /\ pc \in [Openers -> {"idle", "deriving", "denied", "denying",
                         "granted", "granting", "open"}]
  /\ typed \in [Openers -> Passwords]
  /\ copy \in [Openers -> Header]
  /\ ledger \in [failures : Nat, until : Nat]
  /\ late \in [Openers -> Nat]

\* With one opener: the header records every failure written, up to where the
\* counter saturates, and the latest lockout.
LedgerExact ==
  disk # Torn =>
    /\ disk.body.lockout = ledger.until
    /\ disk.body.attempts = IF ledger.failures < CounterMax
                            THEN ledger.failures ELSE CounterMax

\* Openers write back the headers they read, over each other's: that may lose failures,
\* but no header counts one that was not written.
NoFailureInvented ==
  disk # Torn => disk.body.attempts <= ledger.failures

\* The lockout is checked on the header as read, seconds before the guess is answered.
\* However the openers overtake each other, a lockout on disk lets each of them finish
\* the one guess it had begun, and no second one before the header is written again.
OneLateGuess == \A o \in Openers : late[o] <= 1

\* What the file format says of the counter, with several openers: it was incremented
\* for every failed attempt that was written back.  Known to be violated: two openers
\* write the same count (session.rs:869).
EveryFailureCounts ==
  disk # Torn => disk.body.attempts >= IF ledger.failures < CounterMax
                                       THEN ledger.failures ELSE CounterMax

\* The earliest time at which n failures can be on record: the backoff table
\* of calculate_backoff_seconds (2, 4, 8 ... up to the maximum) and the fixed
\* lockout from the threshold on, summed.
WaitAfter(n) ==
  IF n >= Threshold THEN LockoutDuration
  ELSE IF BackoffBase ^ n < BackoffMax THEN BackoffBase ^ n ELSE BackoffMax

EarliestRecord[n \in Nat] ==
  IF n <= 1 THEN 1 ELSE EarliestRecord[n - 1] + WaitAfter(n - 1)

\* With one opener: guesses that are recorded are paid for in time.
BackoffBoundsGuesses == clock >= EarliestRecord[ledger.failures]

\* What the manual says of failed attempts: once the lockout is over, the
\* master password opens the vault, so it is never denied.
CorrectPasswordOpens ==
  \A o \in Openers :
    pc[o] = "denied" => ~(typed[o] = Master /\ UnlockedLevels(Master) # {})
=============================================================================
