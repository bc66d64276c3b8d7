-------------------------- MODULE VaultSetupProofs --------------------------
(***************************************************************************)
(* Proofs about the keys of the access levels, for every number of levels, *)
(* passwords and places the vault is mounted at, and about create_vault    *)
(* and delete_vault, for every number of processes, attempts and levels.   *)
(***************************************************************************)
EXTENDS LevelPasswords, VaultCreation, FiniteSetTheorems, SequenceTheorems, TLAPS

-----------------------------------------------------------------------------
(***************************************************************************)
(* The levels.  The inductive invariant follows the KEK of a level, and    *)
(* the entries of its keystore, through the call under way: what it is     *)
(* going to write counts as stored.                                        *)
(***************************************************************************)
Store == {"create_store", "fill_store"}
Config == {"create_config", "fill_config"}
Configs == [Levels -> LevelEntry \cup {Absent}]

\* The keystore about to be written is a whole one, wrapped under its own KEK.
StoreJob ==
  /\ job.op \in {"persist", "change", "reset", "create"}
  /\ job.text \in Keystore /\ job.text.entries \in {0, job.text.kek}
  /\ job.op \in {"reset", "create"} => config # Torn
  /\ job.op = "reset" => config[job.level] # Absent
  /\ job.op = "create" => job.level \in created

\* The configuration has been read and is not written yet.
ConfigJob ==
  /\ job.op \in {"change", "reset", "create", "delete"}
  /\ job.text \in Configs
  /\ job.step = "create_config" <=> config # Torn

\* A level about to lose its keystore has no files.
RemoveJob ==
  /\ job.op = "delete" /\ config # Torn
  /\ keystore[job.level] # Torn
  /\ keystore[job.level] # Absent => keystore[job.level].entries = 0

JobRec ==
  [op : {"none", "persist", "change", "reset", "create", "delete"},
   level : Levels \cup {Absent}, old : Passwords \cup {Absent}, new : Passwords \cup {Absent},
   step : Store \cup Config \cup {"none", "remove_store"},
   text : Keystore \cup Configs \cup {Absent}]

JobOK ==
  /\ job \in JobRec
  /\ job.op = "none" => Idle
  /\ job.step = "none" => Idle
  /\ ~Idle => job.level \in Levels
  /\ job.op \in {"change", "reset", "create"} => job.new \in Passwords
  /\ job.step \in Store => StoreJob
  /\ job.step \in Config => ConfigJob
  /\ job.step = "remove_store" => RemoveJob

\* k is stored for the level: on disk, in the session, or by the call under way.
Holds(l, k) ==
  \/ Whole(l) /\ keystore[l].kek = k
  \/ session[l] # Absent /\ session[l].kek = k
  \/ config # Torn /\ config[l] # Absent /\ config[l].kek = k
  \/ job.step \in Store /\ job.level = l /\ job.text.kek = k
  \/ job.step \in Config /\ job.text[l] # Absent /\ job.text[l].kek = k

\* A level of the vault has one KEK, wherever it is stored; the configuration has
\* none for a level that create_level made.
OneKek ==
  /\ \A l \in Levels \ created : \A j, k \in 0..MaxKek :
       Holds(l, j) /\ Holds(l, k) => j = k /\ k # 0
  /\ \A l \in created :
       /\ config # Torn /\ config[l] # Absent => config[l].kek = 0
       /\ job.step \in Config /\ job.text[l] # Absent => job.text[l].kek = 0

\* The keystore file of the level need not hold what the session does: it is being
\* written, or was not saved, or is about to be saved.
Behind(l) ==
  \/ l \in unsaved
  \/ job.level = l /\ (job.step = "fill_store" \/ job.op = "persist")

\* The call under way writes what the session holds, or took it from the file.
Carries(l) == job.step \in Store /\ job.level = l /\ (job.op = "persist" \/ l \notin unsaved)

\* The entries a session holds are in the keystore file and in the one that is
\* being written over it.
EntriesStored ==
  \A l \in Levels \ created : session[l] # Absent /\ session[l].entries # 0 =>
    /\ Carries(l) => job.text.entries = session[l].entries
    /\ ~Behind(l) => Whole(l) /\ keystore[l].entries = session[l].entries

PasswordsInv == TypeOK /\ JobOK /\ OneKek /\ EntriesStored


-----------------------------------------------------------------------------
\* The initial states: the session is closed and no call is under way.
LEMMA InitPasswords == Init => PasswordsInv
<1> SUFFICES ASSUME Init PROVE PasswordsInv
  OBVIOUS
<1>1. Cardinality(Original) \in Nat /\ Cardinality(Original) <= MaxKek
  BY LevelAssumption, FS_Subset, FS_CardinalityType
<1>2. TypeOK
  BY <1>1, LevelAssumption, ContentAssumption
  DEF Init, TypeOK, NoSession, Keystore, LevelEntry, Whole
<1>3. JobOK
  BY DEF Init, JobOK, JobRec, Idle, NoJob, Store, Config, StoreJob, ConfigJob, RemoveJob
<1>4. OneKek
  <2>1. \A l \in Levels, k \in 0..MaxKek : Holds(l, k) =>
          l \in Original /\ k = keystore[l].kek /\ k # 0
    BY <1>1, LevelAssumption, ContentAssumption
    DEF Init, Holds, Whole, NoSession, NoJob, Store, Config
  <2> QED
    BY <2>1 DEF OneKek, Init, NoJob, Config
<1>5. EntriesStored
  BY DEF Init, EntriesStored, NoSession
<1> QED
  BY <1>2, <1>3, <1>4, <1>5 DEF PasswordsInv

\* What the steps of a call under way change is of the types, and the next step of
\* the call finds what it needs.
LEMMA StatementTypes ==
  ASSUME PasswordsInv, CreateStore \/ FillStore \/ RemoveStore \/ CreateConfig \/ FillConfig
  PROVE  TypeOK' /\ JobOK'
<1> USE ContentAssumption DEF PasswordsInv
<1>1. job \in JobRec /\ job.level \in Levels
  BY DEF JobOK, Idle, NoJob, CreateStore, FillStore, RemoveStore, CreateConfig, FillConfig
<1>2. CASE CreateStore
  <2>1. job.step = "create_store" /\ StoreJob
    BY <1>2 DEF CreateStore, JobOK, Store
  <2>2. job' = [job EXCEPT !.step = "fill_store"] /\ keystore' = [keystore EXCEPT ![job.level] = Torn]
        /\ UNCHANGED <<verifies, config, place, session, kekCount, created, told, unsaved>>
    BY <1>2 DEF CreateStore
  <2>3. TypeOK'
    BY <2>2, <1>1 DEF TypeOK, Whole
  <2>4. job'.step = "fill_store" /\ job'.op = job.op /\ job'.text = job.text
        /\ job'.level = job.level /\ job'.new = job.new /\ job' \in JobRec
    BY <2>2, <1>1 DEF JobRec, Store
  <2>5. StoreJob'
    BY <2>1, <2>2, <2>4 DEF StoreJob
  <2>6. job.op # "none" /\ job'.step # "none" /\ job.new \in Passwords \cup {Absent}
        /\ (job.op \in {"change", "reset", "create"} => job.new \in Passwords)
    BY <2>1, <2>4, <1>1 DEF StoreJob, JobOK, JobRec
  <2> QED
    BY <2>3, <2>4, <2>5, <2>6, <1>1 DEF JobOK, Store, Config
<1>3. CASE FillStore
  <2>1. job.step = "fill_store" /\ StoreJob /\ job.new \in Passwords \cup {Absent}
    BY <1>1, <1>3 DEF FillStore, JobOK, Store, JobRec
  <2>2. keystore' = [keystore EXCEPT ![job.level] = job.text]
        /\ UNCHANGED <<verifies, config, place, session, kekCount, created>>
        /\ unsaved' \in SUBSET Levels
    BY <1>3 DEF FillStore, TypeOK
  <2>3. \/ job' = NoJob /\ told' \in [Levels -> Passwords \cup {Absent}]
        \/ /\ config # Torn /\ job.op \in {"change", "reset", "create"} /\ UNCHANGED told
           /\ ToConfig(NewEntry) /\ NewEntry \in LevelEntry
    <3>1. ASSUME NEW pw \in Passwords \cup {Absent}, Answer(pw)
          PROVE  job' = NoJob /\ told' \in [Levels -> Passwords \cup {Absent}]
      BY <3>1, <1>1 DEF Answer, TypeOK
    <3>2. job.op \in {"change", "reset", "create"} => job.new \in Passwords
      BY DEF JobOK
    <3>3. CASE job.op = "persist" /\ Answer(told[job.level])
      BY <3>1, <3>3, <1>1 DEF TypeOK
    <3>4. CASE job.op = "change" /\ (Answer(job.new) \/ Answer(Absent))
      BY <3>1, <3>4, <2>1
    <3>5. CASE job.op \in {"change", "reset", "create"} /\ config # Torn /\ ToConfig(NewEntry)
               /\ (job.op # "create" => config[job.level] # Absent)
      <4>1. NewEntry \in LevelEntry
        <5>1. CASE job.op = "create"
          BY <5>1, <3>2, LevelAssumption DEF NewEntry, LevelEntry
        <5>2. CASE job.op # "create"
          <6>1. config[job.level] \in LevelEntry
            BY <3>5, <5>2, <1>1 DEF TypeOK
          <6> QED
            BY <6>1, <5>2, <3>5, <3>2 DEF NewEntry, LevelEntry
        <5> QED
          BY <5>1, <5>2
      <4> QED
        BY <4>1, <3>5 DEF ToConfig
    <3> QED
      BY <1>3, <2>1, <3>3, <3>4, <3>5 DEF FillStore, HasEntry, ConfigReads, StoreJob
  <2>4. TypeOK'
    <3>1. told' \in [Levels -> Passwords \cup {Absent}]
      BY <2>3 DEF TypeOK
    <3>2. keystore' \in [Levels -> Keystore \cup {Absent, Torn}]
          /\ \A l \in Levels : Whole(l)' => keystore'[l].entries \in {0, keystore'[l].kek}
      BY <2>1, <2>2, <1>1 DEF TypeOK, Whole, StoreJob
    <3> QED
      BY <2>2, <3>1, <3>2 DEF TypeOK
  <2>5. JobOK'
    <3>1. CASE job' = NoJob
      BY <3>1 DEF JobOK, NoJob, JobRec, Idle, Store, Config
    <3>2. CASE /\ config # Torn /\ job.op \in {"change", "reset", "create"}
               /\ ToConfig(NewEntry) /\ NewEntry \in LevelEntry
      <4> DEFINE c == [config EXCEPT ![job.level] = NewEntry]
      <4>1. c \in Configs
        BY <3>2, <1>1 DEF Configs, TypeOK
      <4>2. job' = [job EXCEPT !.step = "create_config", !.text = c]
        BY <3>2 DEF ToConfig
      <4> HIDE DEF c
      <4>3. job' \in JobRec /\ job'.step = "create_config" /\ job'.text \in Configs
            /\ job'.op = job.op /\ job'.level = job.level /\ job'.new = job.new
        BY <4>1, <4>2, <1>1 DEF JobRec, Config
      <4>4. job.new \in Passwords
        BY <3>2 DEF JobOK
      <4> QED
        BY <4>3, <4>4, <3>2, <2>2, <1>1 DEF JobOK, Store, Config, ConfigJob
    <3> QED
      BY <2>3, <3>1, <3>2
  <2> QED
    BY <2>4, <2>5
<1>4. CASE RemoveStore
  <2>1. /\ RemoveJob /\ keystore' = [keystore EXCEPT ![job.level] = Absent]
        /\ UNCHANGED <<verifies, config, place, session, kekCount, created, unsaved>>
        /\ Answer(Absent) \/ ToConfig(Absent)
    BY <1>4 DEF RemoveStore, JobOK
  <2>2. TypeOK'
    <3>1. told' \in [Levels -> Passwords \cup {Absent}]
      BY <2>1, <1>1 DEF TypeOK, Answer, ToConfig
    <3> QED
      BY <2>1, <3>1, <1>1 DEF TypeOK, Whole
  <2>3. CASE Answer(Absent)
    BY <2>2, <2>3 DEF Answer, JobOK, NoJob, JobRec, Idle, Store, Config
  <2>4. CASE ToConfig(Absent)
    <3> DEFINE c == [config EXCEPT ![job.level] = Absent]
    <3>1. c \in Configs
      BY <2>1, <1>1 DEF Configs, TypeOK, RemoveJob
    <3>2. job' = [job EXCEPT !.step = "create_config", !.text = c]
      BY <2>4 DEF ToConfig
    <3> HIDE DEF c
    <3>3. job' \in JobRec /\ job'.step = "create_config" /\ job'.text \in Configs
          /\ job'.op = job.op /\ job'.level = job.level /\ job'.new = job.new
      BY <3>1, <3>2, <1>1 DEF JobRec, Config
    <3> QED
      BY <3>3, <2>1, <2>2, <1>1 DEF JobOK, Store, Config, ConfigJob, RemoveJob
  <2> QED
    BY <2>1, <2>3, <2>4
<1>5. CASE CreateConfig
  <2>1. /\ job.step = "create_config" /\ ConfigJob
        /\ config' = Torn /\ job' = [job EXCEPT !.step = "fill_config"]
        /\ UNCHANGED <<verifies, keystore, place, session, kekCount, created, told, unsaved>>
    BY <1>5 DEF CreateConfig, JobOK, Config
  <2>2. TypeOK'
    BY <2>1 DEF TypeOK, Whole
  <2>3. job' \in JobRec /\ job'.step = "fill_config" /\ job'.text = job.text
        /\ job'.op = job.op /\ job'.level = job.level /\ job'.new = job.new
    BY <2>1, <1>1 DEF JobRec, Config
  <2>4. job.op \in {"change", "reset", "create"} => job.new \in Passwords
    BY DEF JobOK
  <2> QED
    BY <2>1, <2>2, <2>3, <2>4, <1>1 DEF JobOK, Store, Config, ConfigJob
<1>6. CASE FillConfig
  <2>1. /\ ConfigJob /\ config' = job.text /\ Answer(job.new)
        /\ UNCHANGED <<verifies, keystore, place, session, kekCount, created, unsaved>>
    BY <1>6 DEF FillConfig, JobOK, Config
  <2>2. job.new \in Passwords \cup {Absent}
    BY <1>1 DEF JobRec
  <2>3. TypeOK'
    <3>1. told' \in [Levels -> Passwords \cup {Absent}]
      BY <2>1, <2>2, <1>1 DEF TypeOK, Answer
    <3> QED
      BY <2>1, <3>1 DEF TypeOK, Whole, ConfigJob, Configs
  <2> QED
    BY <2>1, <2>3 DEF Answer, JobOK, NoJob, JobRec, Idle, Store, Config
<1> QED
  BY <1>2, <1>3, <1>4, <1>5, <1>6

\* A call begins with a job its statements can carry out.
LEMMA CallTypes ==
  ASSUME PasswordsInv, NEW l \in Levels,
         \/ \E b \in BOOLEAN : PersistKeystore(l, b)
         \/ \E old, new \in Passwords : ChangePassword(l, old, new)
         \/ \E pw \in Passwords : ResetPassword(l, pw) \/ CreateLevel(l, pw)
         \/ DeleteLevel(l)
  PROVE  TypeOK' /\ JobOK'
<1> USE ContentAssumption, LevelAssumption DEF PasswordsInv
<1>1. ASSUME NEW op \in {"persist", "change", "reset", "create"},
             NEW old \in Passwords \cup {Absent}, NEW new \in Passwords \cup {Absent},
             NEW text \in Keystore, text.entries \in {0, text.kek},
             Call(op, l, old, new, "create_store", text),
             op # "persist" => new \in Passwords,
             op \in {"reset", "create"} => config # Torn,
             op = "reset" => config[l] # Absent, op = "create" => l \in created',
             UNCHANGED config
      PROVE  JobOK'
  <2>1. job' = [op |-> op, level |-> l, old |-> old, new |-> new,
                step |-> "create_store", text |-> text]
    BY <1>1 DEF Call
  <2>2. job' \in JobRec /\ job'.op = op /\ job'.level = l /\ job'.new = new
        /\ job'.step = "create_store" /\ job'.text = text
    BY <2>1 DEF JobRec, Store
  <2> QED
    BY <2>2, <1>1 DEF JobOK, Store, Config, StoreJob
<1>2. ASSUME NEW b \in BOOLEAN, PersistKeystore(l, b) PROVE TypeOK' /\ JobOK'
  <2> DEFINE ks == [session[l] EXCEPT !.entries = IF b THEN session[l].kek ELSE 0]
  <2>1. session[l] \in Keystore
    BY <1>2 DEF PersistKeystore, TypeOK
  <2>2. ks \in Keystore /\ ks.entries \in {0, ks.kek}
    BY <2>1 DEF Keystore
  <2>3. session' = [session EXCEPT ![l] = ks] /\ UNCHANGED <<files, kekCount, created, told, unsaved>>
        /\ Call("persist", l, Absent, Absent, "create_store", ks)
    BY <1>2 DEF PersistKeystore
  <2> HIDE DEF ks
  <2>4. TypeOK'
    BY <2>2, <2>3 DEF TypeOK, files, Whole
  <2> QED
    BY <2>2, <2>3, <2>4, <1>1 DEF files
<1>3. ASSUME NEW old \in Passwords, NEW new \in Passwords, ChangePassword(l, old, new)
      PROVE  TypeOK' /\ JobOK'
  <2> DEFINE ks == [keystore[l] EXCEPT !.pw = new]
  <2>1. keystore[l] \in Keystore /\ keystore[l].entries \in {0, keystore[l].kek}
    BY <1>3 DEF ChangePassword, Opens, TypeOK, Whole
  <2>2. ks \in Keystore /\ ks.entries \in {0, ks.kek}
    BY <2>1 DEF Keystore
  <2>3. UNCHANGED <<files, session, kekCount, created, told, unsaved>>
        /\ Call("change", l, old, new, "create_store", ks)
    BY <1>3 DEF ChangePassword
  <2> HIDE DEF ks
  <2>4. TypeOK'
    BY <2>3 DEF TypeOK, files, Whole
  <2> QED
    BY <2>2, <2>3, <2>4, <1>1 DEF files
<1>4. ASSUME NEW new \in Passwords, ResetPassword(l, new) PROVE TypeOK' /\ JobOK'
  <2> DEFINE ks == [pw |-> new, salt |-> "header", kek |-> config[l].kek,
                    entries |-> keystore[l].entries]
  <2>1. /\ Whole(l) /\ keystore[l] \in Keystore /\ keystore[l].entries \in {0, keystore[l].kek}
        /\ config # Torn /\ config[l] # Absent /\ config[l] \in LevelEntry /\ config[l].kek # 0
    BY <1>4 DEF ResetPassword, HasEntry, ConfigReads, TypeOK, Whole
  <2>2. keystore[l].kek = config[l].kek
    <3>1. Holds(l, keystore[l].kek) /\ Holds(l, config[l].kek)
      BY <2>1 DEF Holds
    <3>2. l \notin created
      BY <2>1 DEF OneKek
    <3>3. keystore[l].kek \in 0..MaxKek /\ config[l].kek \in 0..MaxKek
      BY <2>1 DEF Keystore, LevelEntry
    <3> QED
      BY <3>1, <3>2, <3>3 DEF OneKek
  <2>3. ks \in Keystore /\ ks.entries \in {0, ks.kek}
    BY <2>1, <2>2 DEF Keystore
  <2>4. UNCHANGED <<files, session, kekCount, created, told, unsaved>>
        /\ Call("reset", l, Absent, new, "create_store", ks)
    BY <1>4 DEF ResetPassword
  <2> HIDE DEF ks
  <2>5. TypeOK'
    BY <2>4 DEF TypeOK, files, Whole
  <2> QED
    BY <2>1, <2>3, <2>4, <2>5, <1>1 DEF files
<1>5. ASSUME NEW new \in Passwords, CreateLevel(l, new) PROVE TypeOK' /\ JobOK'
  <2> DEFINE ks == [pw |-> new, salt |-> "config", kek |-> kekCount + 1, entries |-> 0]
  <2>1. /\ config # Torn /\ kekCount < MaxKek /\ kekCount' = kekCount + 1
        /\ created' = created \cup {l} /\ UNCHANGED <<files, session, told, unsaved>>
        /\ Call("create", l, Absent, new, "create_store", ks)
    BY <1>5 DEF CreateLevel, ConfigReads
  <2>2. ks \in Keystore /\ ks.entries \in {0, ks.kek}
    BY <2>1 DEF Keystore, TypeOK
  <2> HIDE DEF ks
  <2>3. TypeOK'
    BY <2>1 DEF TypeOK, files, Whole
  <2> QED
    BY <2>1, <2>2, <2>3, <1>1 DEF files
<1>6. CASE DeleteLevel(l)
  <2>1. /\ config # Torn /\ keystore[l] # Torn /\ (keystore[l] # Absent => keystore[l].entries = 0)
        /\ UNCHANGED <<files, session, kekCount, created, told, unsaved>>
        /\ job' = [op |-> "delete", level |-> l, old |-> Absent, new |-> Absent,
                   step |-> "remove_store", text |-> Absent]
    BY <1>6 DEF DeleteLevel, ConfigReads, Call
  <2>2. TypeOK'
    BY <2>1 DEF TypeOK, files, Whole
  <2> QED
    BY <2>1, <2>2 DEF JobOK, JobRec, Idle, NoJob, Store, Config, RemoveJob, files
<1> QED
  BY <1>2, <1>3, <1>4, <1>5, <1>6

\* The session reads what is on disk; what ends it, or the process, ends the call.
LEMMA SessionTypes ==
  ASSUME PasswordsInv,
         \/ \E pw \in Passwords : OpenVault(pw) \/ FailedOpen(pw)
         \/ \E l \in Levels, pw \in Passwords : UnlockLevel(l, pw)
         \/ Close \/ \E p \in Places : Remount(p)
         \/ Crash
  PROVE  TypeOK' /\ JobOK'
<1> USE ContentAssumption, LevelAssumption DEF PasswordsInv
<1>1. CASE Crash
  <2>1. /\ session' = NoSession /\ unsaved' = {} /\ job' = NoJob
        /\ UNCHANGED <<files, kekCount, created>>
        /\ UNCHANGED told \/ told' = [told EXCEPT ![job.level] = Absent]
    BY <1>1 DEF Crash, CutOff, Answer
  <2>2. TypeOK'
    BY <2>1 DEF TypeOK, files, NoSession, Whole
  <2> QED
    BY <2>1, <2>2 DEF JobOK, JobRec, NoJob, Idle, Store, Config
<1>2. ASSUME UNCHANGED <<keystore, config, job, kekCount, created, told>>,
             verifies' \in BOOLEAN, place' \in Places, unsaved' \in SUBSET Levels,
             session' \in [Levels -> Keystore \cup {Absent}]
      PROVE  TypeOK' /\ JobOK'
  BY <1>2 DEF TypeOK, JobOK, Whole, Idle, StoreJob, ConfigJob, RemoveJob
<1>3. ASSUME NEW pw \in Passwords, OpenVault(pw) \/ FailedOpen(pw) PROVE TypeOK' /\ JobOK'
  BY <1>3, <1>2 DEF OpenVault, FailedOpen, Opens, files, TypeOK
<1>4. ASSUME NEW l \in Levels, NEW pw \in Passwords, UnlockLevel(l, pw) PROVE TypeOK' /\ JobOK'
  BY <1>4, <1>2 DEF UnlockLevel, Opens, files, TypeOK
<1>5. CASE Close \/ \E p \in Places : Remount(p)
  BY <1>5, <1>2 DEF Close, Remount, NoSession, files, TypeOK
<1> QED
  BY <1>1, <1>3, <1>4, <1>5

\* What a call that failed leaves: the files as they were, or what it was writing.
LEMMA FailedCall ==
  ASSUME PasswordsInv, IOError
  PROVE  /\ job' = NoJob /\ UNCHANGED <<verifies, place, session, kekCount, created>>
         /\ job.level \in Levels /\ job.step \in Store \cup Config \cup {"remove_store"}
         /\ \/ UNCHANGED <<keystore, config>>
            \/ /\ job.step = "fill_store" /\ StoreJob /\ UNCHANGED config
               /\ keystore' = [keystore EXCEPT ![job.level] = job.text]
            \/ /\ job.step = "fill_config" /\ ConfigJob /\ UNCHANGED keystore
               /\ config' = job.text
         /\ unsaved' = IF session[job.level] # Absent
                          /\ (job.op = "persist" \/ job.step = "fill_store")
                       THEN unsaved \cup {job.level} ELSE unsaved
<1>1. job' = NoJob /\ UNCHANGED <<verifies, place, session, kekCount, created>>
  BY DEF IOError, CutOff, Answer
<1>2. job.level \in Levels /\ job.step \in Store \cup Config \cup {"remove_store"}
  BY DEF IOError, PasswordsInv, JobOK, JobRec
<1>3. /\ job.step = "fill_store" => StoreJob
      /\ job.step = "fill_config" => ConfigJob
  BY DEF PasswordsInv, JobOK, Store, Config
<1> QED
  BY <1>1, <1>2, <1>3 DEF IOError

\* It leaves the types as they are.
LEMMA FailedTypes ==
  ASSUME PasswordsInv, IOError
  PROVE  TypeOK' /\ JobOK'
<1> USE ContentAssumption DEF PasswordsInv
<1>1. told' \in [Levels -> Passwords \cup {Absent}]
  BY FailedCall DEF IOError, CutOff, Answer, TypeOK
<1>2. keystore' \in [Levels -> Keystore \cup {Absent, Torn}]
      /\ \A l \in Levels : Whole(l)' => keystore'[l].entries \in {0, keystore'[l].kek}
  BY FailedCall DEF TypeOK, Whole, StoreJob
<1>3. config' = Torn \/ config' \in Configs
  BY FailedCall DEF TypeOK, ConfigJob, Configs
<1>4. unsaved' \in SUBSET Levels
  BY FailedCall DEF TypeOK
<1>5. TypeOK'
  BY <1>1, <1>2, <1>3, <1>4, FailedCall DEF TypeOK, Configs
<1> QED
  BY <1>5, FailedCall DEF JobOK, NoJob, JobRec, Idle, Store, Config

\* One step gives a level no other KEK than those stored for it, unless create_level
\* makes the level.
LEMMA NoNewKek ==
  ASSUME PasswordsInv, Next, NEW l \in Levels \ created', NEW k \in 0..MaxKek, Holds(l, k)'
  PROVE  Holds(l, k)
<1> USE ContentAssumption DEF PasswordsInv
<1>1. l \in Levels /\ l \notin created' /\ (job.step # "none" => ~Idle)
  BY DEF Idle, NoJob
<1>2. ASSUME NEW pw \in Passwords, OpenVault(pw) \/ FailedOpen(pw) PROVE Holds(l, k)
  BY <1>1, <1>2 DEF OpenVault, FailedOpen, Opens, Holds, Whole, files
<1>3. ASSUME NEW m \in Levels, NEW pw \in Passwords, UnlockLevel(m, pw) PROVE Holds(l, k)
  BY <1>1, <1>3 DEF UnlockLevel, Opens, Holds, Whole, files, TypeOK
<1>4. CASE Close \/ \E p \in Places : Remount(p)
  BY <1>1, <1>4 DEF Close, Remount, Holds, Whole, files, NoSession
<1>5. CASE Crash
  BY <1>1, <1>5 DEF Crash, CutOff, Answer, Holds, Whole, files, NoSession, NoJob, Store, Config
<1>6. ASSUME NEW m \in Levels, NEW b \in BOOLEAN, PersistKeystore(m, b) PROVE Holds(l, k)
  <2>1. session[m] \in Keystore
    BY <1>6 DEF PersistKeystore, TypeOK
  <2> QED
    BY <1>1, <1>6, <2>1
    DEF PersistKeystore, Call, Holds, Whole, files, Store, Config, Keystore, TypeOK
<1>7. ASSUME NEW m \in Levels, NEW old \in Passwords, NEW new \in Passwords,
             ChangePassword(m, old, new)
      PROVE  Holds(l, k)
  <2>1. keystore[m] \in Keystore /\ Whole(m)
    BY <1>7 DEF ChangePassword, Opens, TypeOK, Whole
  <2> QED
    BY <1>1, <1>7, <2>1 DEF ChangePassword, Call, Holds, Whole, files, Store, Config, Keystore
<1>8. ASSUME NEW m \in Levels, NEW new \in Passwords, ResetPassword(m, new) PROVE Holds(l, k)
  BY <1>1, <1>8
  DEF ResetPassword, HasEntry, ConfigReads, Call, Holds, Whole, files, Store, Config
<1>9. ASSUME NEW m \in Levels, NEW new \in Passwords, CreateLevel(m, new) PROVE Holds(l, k)
  BY <1>1, <1>9 DEF CreateLevel, Call, Holds, Whole, files, Store, Config
<1>10. ASSUME NEW m \in Levels, DeleteLevel(m) PROVE Holds(l, k)
  BY <1>1, <1>10 DEF DeleteLevel, Call, Holds, Whole, files, Store, Config
<1>11. CASE CreateStore
  <2>1. job \in JobRec
    BY DEF JobOK
  <2> QED
    BY <1>1, <1>11, <2>1 DEF CreateStore, Holds, Whole, Store, Config, JobRec, TypeOK
<1>12. CASE FillStore
  <2>1. /\ job \in JobRec /\ job.level \in Levels /\ job.step = "fill_store" /\ StoreJob
        /\ keystore' = [keystore EXCEPT ![job.level] = job.text]
        /\ UNCHANGED <<verifies, config, place, session, kekCount, created>>
    BY <1>1, <1>12 DEF FillStore, JobOK, Store
  <2>2. Whole(l)' /\ keystore'[l].kek = k => Holds(l, k)
    BY <2>1 DEF Holds, Whole, Store, TypeOK
  <2>3. \/ job' = NoJob
        \/ config # Torn /\ ToConfig(NewEntry) /\ (job.op # "create" => config[job.level] # Absent)
    BY <1>12, <2>1 DEF FillStore, Answer, StoreJob, HasEntry, ConfigReads
  <2>4. CASE job' = NoJob
    BY <2>1, <2>2, <2>4 DEF Holds, NoJob, Store, Config
  <2>5. CASE config # Torn /\ ToConfig(NewEntry) /\ (job.op # "create" => config[job.level] # Absent)
    <3>1. job'.step = "create_config" /\ job'.text = [config EXCEPT ![job.level] = NewEntry]
      BY <2>5, <2>1 DEF ToConfig, JobRec
    <3>2. job.op = "create" => job.level # l
      BY <1>1, <2>1 DEF StoreJob
    <3>3. job.op # "create" => NewEntry.kek = config[job.level].kek
      BY <2>5, <2>1 DEF NewEntry, TypeOK, LevelEntry
    <3>4. job'.text[l] # Absent /\ job'.text[l].kek = k => config[l] # Absent /\ config[l].kek = k
      BY <1>1, <3>1, <3>2, <3>3, <2>5 DEF TypeOK
    <3> QED
      BY <2>1, <2>2, <2>5, <3>1, <3>4 DEF Holds, Store, Config
  <2> QED
    BY <2>3, <2>4, <2>5
<1>13. CASE RemoveStore
  <2>1. /\ job \in JobRec /\ job.level \in Levels /\ RemoveJob
        /\ keystore' = [keystore EXCEPT ![job.level] = Absent]
        /\ UNCHANGED <<verifies, config, place, session, kekCount, created>>
    BY <1>1, <1>13 DEF RemoveStore, JobOK
  <2>2. Whole(l)' => Whole(l) /\ keystore'[l] = keystore[l]
    BY <2>1, <1>1 DEF Whole, TypeOK
  <2>3. CASE job' = NoJob
    BY <2>1, <2>2, <2>3 DEF Holds, NoJob, Store, Config
  <2>4. CASE ToConfig(Absent)
    <3>1. job'.step = "create_config" /\ job'.text = [config EXCEPT ![job.level] = Absent]
      BY <2>4, <2>1 DEF ToConfig, JobRec
    <3>2. job'.text[l] # Absent => config[l] = job'.text[l]
      BY <1>1, <3>1, <2>1 DEF TypeOK, RemoveJob
    <3> QED
      BY <2>1, <2>2, <3>1, <3>2 DEF Holds, Store, Config, RemoveJob
  <2> QED
    BY <1>13, <2>3, <2>4 DEF RemoveStore, Answer
<1>14. CASE CreateConfig
  BY <1>1, <1>14 DEF CreateConfig, Holds, Whole, Store, Config, JobOK, JobRec
<1>15. CASE FillConfig
  <2>1. job.step = "fill_config" /\ config' = job.text /\ job' = NoJob
        /\ UNCHANGED <<verifies, keystore, place, session, kekCount, created>>
    BY <1>15 DEF FillConfig, Answer
  <2> QED
    BY <2>1 DEF Holds, Whole, Store, Config, NoJob
<1>16. CASE IOError
  <2>1. job'.step = "none"
    BY <1>16, FailedCall DEF NoJob
  <2> QED
    BY <1>1, <1>16, <2>1, FailedCall DEF Holds, Whole, Store, Config, TypeOK
<1> QED
  BY <1>2, <1>3, <1>4, <1>5, <1>6, <1>7, <1>8, <1>9, <1>10, <1>11, <1>12, <1>13, <1>14, <1>15, <1>16
  DEF Next

\* A created level has no KEK in the configuration, and the calls write none there.
LEMMA CreatedHasNoKek ==
  ASSUME PasswordsInv, Next, NEW l \in created'
  PROVE  /\ config' # Torn /\ config'[l] # Absent => config'[l].kek = 0
         /\ job'.step \in Config /\ job'.text[l] # Absent => job'.text[l].kek = 0
<1> USE ContentAssumption DEF PasswordsInv
<1>1. l \in Levels /\ (job.step # "none" => ~Idle) /\ job \in JobRec
  <2>1. TypeOK'
    BY StatementTypes, CallTypes, SessionTypes, FailedTypes DEF Next
  <2> QED
    BY <2>1 DEF TypeOK, Idle, NoJob, JobOK
<1>2. ASSUME UNCHANGED <<config, created>>,
             job' = job \/ job'.step \notin Config
      PROVE  /\ config' # Torn /\ config'[l] # Absent => config'[l].kek = 0
             /\ job'.step \in Config /\ job'.text[l] # Absent => job'.text[l].kek = 0
  BY <1>2 DEF OneKek
<1>3. \/ \E pw \in Passwords : OpenVault(pw) \/ FailedOpen(pw)
      \/ \E m \in Levels, pw \in Passwords : UnlockLevel(m, pw)
      \/ Close \/ \E p \in Places : Remount(p)
      => UNCHANGED <<config, created, job>>
  BY DEF OpenVault, FailedOpen, UnlockLevel, Close, Remount, files
<1>4. \/ \E m \in Levels, b \in BOOLEAN : PersistKeystore(m, b)
      \/ \E m \in Levels, old, new \in Passwords : ChangePassword(m, old, new)
      \/ \E m \in Levels, new \in Passwords : ResetPassword(m, new)
      \/ \E m \in Levels : DeleteLevel(m)
      \/ CreateStore \/ Crash
      => UNCHANGED <<config, created>> /\ job'.step \notin Config
  <2>1. CreateStore => UNCHANGED <<config, created>> /\ job'.step = "fill_store"
    BY <1>1 DEF CreateStore, JobRec
  <2>2. Crash => UNCHANGED <<config, created>> /\ job'.step = "none"
    BY DEF Crash, CutOff, Answer, files, NoJob
  <2>3. ASSUME NEW m \in Levels,
               \/ \E b \in BOOLEAN : PersistKeystore(m, b)
               \/ \E old, new \in Passwords : ChangePassword(m, old, new)
               \/ \E new \in Passwords : ResetPassword(m, new)
               \/ DeleteLevel(m)
        PROVE  UNCHANGED <<config, created>> /\ job'.step \in {"create_store", "remove_store"}
    <3>1. ASSUME NEW b \in BOOLEAN, PersistKeystore(m, b)
          PROVE  UNCHANGED <<config, created>> /\ job'.step = "create_store"
      BY <3>1 DEF PersistKeystore, Call, files
    <3>2. ASSUME NEW old \in Passwords, NEW new \in Passwords,
                 ChangePassword(m, old, new) \/ ResetPassword(m, new)
          PROVE  UNCHANGED <<config, created>> /\ job'.step = "create_store"
      BY <3>2 DEF ChangePassword, ResetPassword, Call, files
    <3>3. DeleteLevel(m) => UNCHANGED <<config, created>> /\ job'.step = "remove_store"
      BY DEF DeleteLevel, Call, files
    <3> QED
      BY <2>3, <3>1, <3>2, <3>3
  <2> QED
    BY <2>1, <2>2, <2>3 DEF Config
<1>5. ASSUME NEW m \in Levels, NEW new \in Passwords, CreateLevel(m, new)
      PROVE  /\ config' # Torn /\ config'[l] # Absent => config'[l].kek = 0
             /\ job'.step \in Config /\ job'.text[l] # Absent => job'.text[l].kek = 0
  <2>1. config[m] = Absent /\ created' = created \cup {m} /\ UNCHANGED config
        /\ job'.step = "create_store"
    BY <1>5 DEF CreateLevel, Call, files
  <2> QED
    BY <2>1 DEF OneKek, Config
<1>6. CASE FillStore
  <2>1. /\ job.level \in Levels /\ job.step = "fill_store" /\ StoreJob
        /\ UNCHANGED <<config, created>>
    BY <1>1, <1>6 DEF FillStore, JobOK, Store
  <2>2. \/ job' = NoJob
        \/ config # Torn /\ ToConfig(NewEntry) /\ (job.op # "create" => config[job.level] # Absent)
    BY <1>6, <2>1 DEF FillStore, Answer, StoreJob, HasEntry, ConfigReads
  <2>3. CASE job' = NoJob
    BY <1>2, <2>1, <2>3 DEF NoJob, Config
  <2>4. CASE config # Torn /\ ToConfig(NewEntry) /\ (job.op # "create" => config[job.level] # Absent)
    <3>1. job'.step = "create_config" /\ job'.text = [config EXCEPT ![job.level] = NewEntry]
      BY <2>4, <1>1 DEF ToConfig, JobRec
    <3>2. job.op # "create" => NewEntry.kek = config[job.level].kek
      BY <2>4, <2>1 DEF NewEntry, TypeOK, LevelEntry
    <3>3. job.op = "create" => NewEntry.kek = 0
      BY DEF NewEntry
    <3>4. job'.text[l] # Absent => job'.text[l].kek = 0
      BY <1>1, <3>1, <3>2, <3>3, <2>1, <2>4 DEF OneKek, TypeOK
    <3> QED
      BY <2>1, <3>4 DEF OneKek
  <2> QED
    BY <2>2, <2>3, <2>4
<1>7. CASE RemoveStore
  <2>1. /\ job.level \in Levels /\ RemoveJob /\ UNCHANGED <<config, created>>
    BY <1>1, <1>7 DEF RemoveStore, JobOK
  <2>2. CASE job' = NoJob
    BY <1>2, <2>1, <2>2 DEF NoJob, Config
  <2>3. CASE ToConfig(Absent)
    <3>1. job'.step = "create_config" /\ job'.text = [config EXCEPT ![job.level] = Absent]
      BY <2>3, <1>1 DEF ToConfig, JobRec
    <3>2. job'.text[l] # Absent => job'.text[l] = config[l]
      BY <1>1, <3>1, <2>1 DEF TypeOK, RemoveJob
    <3> QED
      BY <2>1, <3>2 DEF OneKek, RemoveJob
  <2> QED
    BY <1>7, <2>2, <2>3 DEF RemoveStore, Answer
<1>8. CASE CreateConfig
  BY <1>1, <1>8 DEF CreateConfig, OneKek, Config, JobRec
<1>9. CASE FillConfig
  BY <1>9 DEF FillConfig, Answer, OneKek, Config, NoJob
<1>10. CASE IOError
  BY <1>10, FailedCall DEF OneKek, Config, NoJob
<1> QED
  BY <1>2, <1>3, <1>4, <1>5, <1>6, <1>7, <1>8, <1>9, <1>10 DEF Next

\* No call takes the keys of the open session's files away: a level is not deleted
\* while it has entries, and every other call writes those it has read.
LEMMA EntriesStayStored == ASSUME PasswordsInv, Next PROVE EntriesStored'
<1> SUFFICES ASSUME NEW l \in Levels \ created', session'[l] # Absent, session'[l].entries # 0
             PROVE  /\ Carries(l)' => job'.text.entries = session'[l].entries
                    /\ ~Behind(l)' => Whole(l)' /\ keystore'[l].entries = session'[l].entries
  BY DEF EntriesStored
<1> USE ContentAssumption DEF PasswordsInv
<1> DEFINE Kept == /\ Carries(l)' => job'.text.entries = session'[l].entries
                   /\ ~Behind(l)' => Whole(l)' /\ keystore'[l].entries = session'[l].entries
<1>1. l \in Levels /\ l \notin created' /\ job \in JobRec
      /\ (Idle => job = NoJob) /\ (job.step # "none" => ~Idle)
  BY DEF Idle, NoJob, JobOK
<1>n. NoJob.step = "none" /\ NoJob.op = "none" /\ NoJob.level = Absent
  BY DEF NoJob
<1>2. ASSUME NEW pw \in Passwords, OpenVault(pw) \/ FailedOpen(pw) PROVE Kept
  <2>1. job' = NoJob /\ UNCHANGED <<keystore, unsaved, created>>
    BY <1>1, <1>2 DEF OpenVault, FailedOpen, files
  <2>2. CASE OpenVault(pw)
    BY <1>n, <1>1, <2>1, <2>2 DEF OpenVault, Opens, Carries, Behind, Whole, Store
  <2>3. CASE FailedOpen(pw)
    BY <1>1, <2>3 DEF FailedOpen, NoSession
  <2> QED
    BY <1>2, <2>2, <2>3
<1>3. ASSUME NEW m \in Levels, NEW pw \in Passwords, UnlockLevel(m, pw) PROVE Kept
  <2>1. /\ job' = NoJob /\ job = NoJob /\ UNCHANGED <<keystore, unsaved, created>> /\ Opens(m, pw)
        /\ session' = [session EXCEPT ![m] = keystore[m]]
    BY <1>1, <1>3 DEF UnlockLevel, files
  <2> QED
    BY <1>1, <1>n, <2>1 DEF Opens, EntriesStored, Carries, Behind, Whole, Store, TypeOK
<1>4. CASE Close \/ Crash
  BY <1>1, <1>4 DEF Close, Crash, NoSession
<1>5. ASSUME NEW p \in Places, Remount(p) PROVE Kept
  BY <1>1, <1>5 DEF Remount, NoSession
<1>6. ASSUME NEW m \in Levels, NEW b \in BOOLEAN, PersistKeystore(m, b) PROVE Kept
  <2> DEFINE ks == [session[m] EXCEPT !.entries = IF b THEN session[m].kek ELSE 0]
  <2>1. session' = [session EXCEPT ![m] = ks] /\ job'.step = "create_store" /\ job'.op = "persist"
        /\ job'.level = m /\ job'.text = ks /\ UNCHANGED <<files, created, unsaved>> /\ job = NoJob
    BY <1>1, <1>6 DEF PersistKeystore, Call
  <2> HIDE DEF ks
  <2>2. CASE l = m
    BY <1>1, <2>1, <2>2 DEF Carries, Behind, TypeOK
  <2>3. CASE l # m
    BY <1>1, <1>n, <2>1, <2>3 DEF EntriesStored, Carries, Behind, files, Whole, TypeOK
  <2> QED
    BY <2>2, <2>3
<1>7. ASSUME NEW m \in Levels,
             UNCHANGED <<files, session, unsaved>>, created \subseteq created', job = NoJob,
             job'.level = m, job'.step \in {"create_store", "remove_store"}, job'.op # "persist",
             job'.step = "create_store" =>
               m \in created' \/ (Whole(m) /\ job'.text.entries = keystore[m].entries)
      PROVE  Kept
  <2>1. /\ ~Behind(l)' => ~Behind(l)
        /\ Carries(l)' => l = m /\ job'.step = "create_store" /\ l \notin unsaved
    BY <1>7, <1>n DEF Behind, Carries, Store
  <2>2. l \notin unsaved => Whole(l) /\ keystore[l].entries = session[l].entries
    BY <1>1, <1>7, <1>n, ContentAssumption DEF EntriesStored, Behind
  <2> QED
    BY <1>1, <1>7, <2>1, <2>2 DEF files, Whole, Behind
<1>8. ASSUME NEW m \in Levels, NEW old \in Passwords, NEW new \in Passwords,
             ChangePassword(m, old, new)
      PROVE  Kept
  <2>1. keystore[m] \in Keystore /\ Whole(m)
    BY <1>8 DEF ChangePassword, Opens, TypeOK, Whole
  <2>2. job'.text.entries = keystore[m].entries
    BY <1>8, <2>1 DEF ChangePassword, Call, Keystore
  <2> QED
    BY <1>1, <1>7, <1>8, <2>1, <2>2 DEF ChangePassword, Call
<1>9. ASSUME NEW m \in Levels, NEW new \in Passwords, ResetPassword(m, new) PROVE Kept
  BY <1>1, <1>7, <1>9 DEF ResetPassword, Call, Whole
<1>10. ASSUME NEW m \in Levels, NEW new \in Passwords, CreateLevel(m, new) PROVE Kept
  BY <1>1, <1>7, <1>10 DEF CreateLevel, Call
<1>11. ASSUME NEW m \in Levels, DeleteLevel(m) PROVE Kept
  BY <1>1, <1>7, <1>11 DEF DeleteLevel, Call
<1>12. CASE CreateStore
  <2>1. job.step = "create_store" /\ job' = [job EXCEPT !.step = "fill_store"]
        /\ keystore' = [keystore EXCEPT ![job.level] = Torn] /\ UNCHANGED <<session, created, unsaved>>
    BY <1>12 DEF CreateStore
  <2>2. job'.step = "fill_store" /\ job'.level = job.level /\ job'.op = job.op /\ job'.text = job.text
    BY <1>1, <2>1 DEF JobRec
  <2>3. ~Behind(l)' => ~Behind(l) /\ job.level # l
    BY <2>1, <2>2 DEF Behind
  <2>4. Carries(l)' => Carries(l)
    BY <2>1, <2>2 DEF Carries, Store
  <2> QED
    BY <1>1, <2>1, <2>2, <2>3, <2>4 DEF EntriesStored, Whole, TypeOK
<1>13. CASE FillStore
  <2>1. /\ job.step = "fill_store" /\ StoreJob /\ job.level \in Levels
        /\ keystore' = [keystore EXCEPT ![job.level] = job.text] /\ UNCHANGED <<session, created>>
        /\ unsaved' = IF job.op = "persist" THEN unsaved \ {job.level} ELSE unsaved
        /\ job' = NoJob \/ (ToConfig(NewEntry) /\ job.op # "persist")
    BY <1>1, <1>13 DEF FillStore, JobOK, Store, Answer
  <2>2. job'.step \notin Store /\ job'.op # "persist" /\ job'.step # "fill_store"
    <3>1. \A entry : ToConfig(entry) => job'.step = "create_config" /\ job'.op = job.op
      BY <1>1 DEF ToConfig, JobRec
    <3> QED
      BY <1>n, <2>1, <3>1 DEF Store
  <2>3. CASE l = job.level
    <3>1. ~Behind(l)' => Carries(l)
      BY <2>1, <2>3 DEF Behind, Carries, Store
    <3> QED
      BY <1>1, <2>1, <2>2, <2>3, <3>1 DEF EntriesStored, Carries, StoreJob, Whole, TypeOK
  <2>4. CASE l # job.level
    BY <1>1, <2>1, <2>2, <2>4 DEF EntriesStored, Carries, Behind, Whole, TypeOK
  <2> QED
    BY <2>3, <2>4
<1>14. CASE RemoveStore
  <2>1. /\ job.step = "remove_store" /\ RemoveJob /\ job.level \in Levels
        /\ keystore' = [keystore EXCEPT ![job.level] = Absent]
        /\ UNCHANGED <<session, created, unsaved>>
        /\ job' = NoJob \/ ToConfig(Absent)
    BY <1>1, <1>14 DEF RemoveStore, JobOK, Answer
  <2>2. job'.step \notin Store /\ job'.op # "persist" /\ job'.step # "fill_store"
    <3>1. \A entry : ToConfig(entry) => job'.step = "create_config" /\ job'.op = job.op
      BY <1>1 DEF ToConfig, JobRec
    <3> QED
      BY <1>n, <2>1, <3>1 DEF Store, RemoveJob
  <2>3. ~Behind(l)' => ~Behind(l)
    BY <2>1 DEF Behind, RemoveJob
  <2>4. l = job.level => l \in unsaved
    BY <1>1, <2>1 DEF EntriesStored, RemoveJob, Behind, Whole
  <2> QED
    BY <1>1, <2>1, <2>2, <2>3, <2>4 DEF EntriesStored, Carries, Behind, Whole, TypeOK
<1>15. CASE CreateConfig
  <2>1. /\ job.step = "create_config" /\ job.op # "persist" /\ job'.step = "fill_config"
        /\ job'.op = job.op /\ job'.level = job.level /\ UNCHANGED <<keystore, session, created, unsaved>>
    BY <1>1, <1>15 DEF CreateConfig, JobOK, ConfigJob, Config, JobRec
  <2> QED
    BY <1>1, <2>1 DEF EntriesStored, Carries, Behind, Store, Whole
<1>16. CASE FillConfig
  <2>1. /\ job.step = "fill_config" /\ job.op # "persist" /\ job' = NoJob
        /\ UNCHANGED <<keystore, session, created, unsaved>>
    BY <1>1, <1>16 DEF FillConfig, Answer, JobOK, ConfigJob, Config
  <2> QED
    BY <1>1, <1>n, <2>1 DEF EntriesStored, Carries, Behind, Store, Whole
<1>17. CASE IOError
  <2>1. ~Carries(l)'
    BY <1>n, <1>17, FailedCall DEF Carries, Store
  <2>2. unsaved \subseteq unsaved' /\ UNCHANGED <<session, created>>
    BY <1>17, FailedCall
  <2>3. ~Behind(l)' => ~Behind(l)
    BY <1>1, <1>17, <2>2, FailedCall DEF Behind
  <2>4. ~Behind(l)' => keystore'[l] = keystore[l]
    BY <1>1, <1>17, <2>3, FailedCall DEF Behind, TypeOK
  <2> QED
    BY <1>1, <2>1, <2>2, <2>3, <2>4 DEF EntriesStored, Whole
<1> QED
  BY <1>2, <1>3, <1>4, <1>5, <1>6, <1>8, <1>9, <1>10, <1>11, <1>12, <1>13, <1>14, <1>15, <1>16, <1>17
  DEF Next

\* Every step of the calls, the session and a crash keeps the invariant.
LEMMA PasswordsStep == PasswordsInv /\ [Next]_vars => PasswordsInv'
<1>1. ASSUME PasswordsInv, Next PROVE PasswordsInv'
  <2>1. TypeOK' /\ JobOK'
    BY <1>1, StatementTypes, CallTypes, SessionTypes, FailedTypes DEF Next
  <2>2. OneKek'
    <3>1. \A l \in Levels \ created' : l \in Levels \ created
      BY <1>1 DEF Next, OpenVault, FailedOpen, UnlockLevel, Close, Remount, Crash,
                  PersistKeystore, ChangePassword, ResetPassword, CreateLevel, DeleteLevel,
                  CreateStore, FillStore, RemoveStore, CreateConfig, FillConfig, IOError
    <3>2. ASSUME NEW l \in Levels \ created', NEW j \in 0..MaxKek, NEW k \in 0..MaxKek,
                 Holds(l, j)', Holds(l, k)'
          PROVE  j = k /\ k # 0
      BY <1>1, <3>1, <3>2, NoNewKek DEF PasswordsInv, OneKek
    <3>3. ASSUME NEW l \in created'
          PROVE  /\ config' # Torn /\ config'[l] # Absent => config'[l].kek = 0
                 /\ job'.step \in Config /\ job'.text[l] # Absent => job'.text[l].kek = 0
      BY <1>1, CreatedHasNoKek
    <3> QED
      BY <3>2, <3>3 DEF OneKek
  <2>3. EntriesStored'
    BY <1>1, EntriesStayStored
  <2> QED
    BY <2>1, <2>2, <2>3 DEF PasswordsInv
<1>2. ASSUME PasswordsInv, UNCHANGED vars PROVE PasswordsInv'
  BY <1>2 DEF vars, PasswordsInv, TypeOK, JobOK, OneKek, EntriesStored, Carries, Behind,
              Whole, Holds, Idle, StoreJob, ConfigJob, RemoveJob
<1> QED
  BY <1>1, <1>2

\* The invariant of the levels holds throughout.
LEMMA PasswordsAlways == Spec => []PasswordsInv
BY InitPasswords, PasswordsStep, PTL DEF Spec

\* The files hold what the calls can write: no keystore on disk has its DEK entries
\* wrapped under another KEK than its own.
THEOREM PasswordsTypeOK == Spec => []TypeOK
<1>1. PasswordsInv => TypeOK
  BY DEF PasswordsInv
<1> QED
  BY <1>1, PasswordsAlways, PTL

\* Recovery would put into a keystore the KEK that it has, whatever calls were made or
\* cut off before (access.rs, set_kek and change_password; session.rs:1094).
THEOREM RecoveryKekIsRight == Spec => []KekAgreement
<1>1. PasswordsInv => KekAgreement
  <2> SUFFICES ASSUME PasswordsInv, config # Torn, NEW l \in Levels, config[l] # Absent
               PROVE  /\ l \notin created => config[l].kek # 0
                      /\ Whole(l) /\ config[l].kek # 0 => keystore[l].kek = config[l].kek
    BY DEF KekAgreement
  <2>1. config[l].kek \in 0..MaxKek /\ Holds(l, config[l].kek)
    BY DEF PasswordsInv, TypeOK, LevelEntry, Holds
  <2>2. Whole(l) => keystore[l].kek \in 0..MaxKek /\ Holds(l, keystore[l].kek)
    BY DEF PasswordsInv, TypeOK, Keystore, Holds, Whole
  <2> QED
    BY <2>1, <2>2 DEF PasswordsInv, OneKek
<1> QED
  BY <1>1, PasswordsAlways, PTL

\* What an open session shows at a level is what a later one will find, between any two
\* calls, done, failed or cut off, unless a write of the level's keystore failed and the
\* session has not saved it since (session.rs:753, access.rs:918).
THEOREM OpenFilesStay == Spec => []SessionFilesOnDisk
<1>1. PasswordsInv => SessionFilesOnDisk
  <2> SUFFICES ASSUME PasswordsInv, NEW l \in Levels \ (created \cup unsaved),
                      Idle, session[l] # Absent, session[l].entries # 0
               PROVE  Whole(l) /\ keystore[l].entries = session[l].entries
    BY DEF SessionFilesOnDisk
  <2>1. job.step = "none" /\ job.op = "none"
    BY DEF Idle, NoJob
  <2> QED
    BY <2>1 DEF PasswordsInv, EntriesStored, Behind
<1> QED
  BY <1>1, PasswordsAlways, PTL

-----------------------------------------------------------------------------
(***************************************************************************)
(* Vaults.  fs::create_dir makes the directory "keystores" a lock: the     *)
(* attempt that has it among what it made is the only one past that        *)
(* statement, until it has removed it again.                               *)
(***************************************************************************)
Most == Len(LevelFiles)

AttemptRec ==
  [number : 0..MaxAttempts, levels : 0..Most, mode : {"idle", "making", "undoing"},
   at : Nat, half : BOOLEAN, tracked : Seq(Dirs \cup Files)]

Owns(c) == "keystores" \in Range(attempt[c].tracked)

\* Only the vault's own directory is ever made before "keystores".
InOrder(s) ==
  /\ Len(s) >= 1 => s[1] \in {"root", "keystores"}
  /\ Len(s) >= 2 /\ s[1] = "root" => s[2] = "keystores"
  /\ \A i \in 2..Len(s) : s[i] # "root" /\ (s[i] = "keystores" => i = 2 /\ s[1] = "root")

\* What an attempt has made is what comes before its statement in the plan.
Progress(c) ==
  LET a == attempt[c] IN
  /\ a.at \in 1..(9 + a.levels)
  /\ a.at <= 3 => a.tracked = <<>> \/ (a.at = 3 /\ a.tracked = <<"root">>)
  /\ \A j \in 3..(a.at - 1) : Plan(a.levels)[j] # "levels" => Plan(a.levels)[j] \in Range(a.tracked)
  /\ Range(a.tracked) \subseteq {"root"} \cup {Plan(a.levels)[j] : j \in 3..(a.at - 1)}
  /\ a.at \in 4..6 => \A f \in Range(LevelFiles) : file[f] = Absent
  /\ a.at = 9 + a.levels => "levels" \in dirs

AttemptsInv ==
  \A c \in Creators :
    /\ attempt[c].mode = "idle" \/ deleting => attempt[c] = NoAttempt
    /\ InOrder(attempt[c].tracked)
    /\ attempt[c].mode # "idle" => attempt[c].number \in Attempts /\ attempt[c].levels >= 1
    /\ attempt[c].mode = "making" => Progress(c)

LockInv ==
  \A c \in Creators : Owns(c) =>
    "keystores" \in dirs /\ \A d \in Creators : Owns(d) => d = c

BuiltInv ==
  /\ CompletedStays
  /\ built # NoAttempt => ~deleting /\ built.levels >= 1 /\ \A c \in Creators : ~Owns(c)

\* The types, with those of the attempts.
Typed ==
  /\ CreationTypeOK
  /\ attempt \in [Creators -> AttemptRec] /\ built \in AttemptRec

CreationInv == Typed /\ AttemptsInv /\ LockInv /\ BuiltInv /\ OwnPiecesStay /\ OneVault

-----------------------------------------------------------------------------
(***************************************************************************)
(* The plan of an attempt, and what is made in the course of it.           *)
(***************************************************************************)
\* The elements of a plan, in order.
LEMMA PlanSteps ==
  ASSUME NEW n \in 1..Most
  PROVE  /\ Plan(n)[1] = "look" /\ Plan(n)[2] = "root" /\ Plan(n)[3] = "keystores"
         /\ Plan(n)[4] = "blobs" /\ Plan(n)[5] = "metadata" /\ Plan(n)[6] = "header"
         /\ \A i \in 7..(6 + n) : Plan(n)[i] = LevelFiles[i - 6]
         /\ Plan(n)[7 + n] = "recovery" /\ Plan(n)[8 + n] = "levels"
         /\ Plan(n)[9 + n] = "config"
<1> DEFINE S == Dirs \cup Files \cup {"look"}
           s == <<"look", "root", "keystores", "blobs", "metadata", "header">>
           t == SubSeq(LevelFiles, 1, n)
           u == <<"recovery", "levels", "config">>
<1>1. s \in Seq(S) /\ Len(s) = 6 /\ u \in Seq(S) /\ Len(u) = 3
  BY DEF Dirs, Files
<1>2. LevelFiles \in Seq(Range(LevelFiles)) /\ Most \in Nat
  BY CreationAssumption, LenProperties DEF Most
<1>3. \A i \in 1..n : LevelFiles[i] \in S
  BY <1>2, ElementOfSeq DEF Most, Files
<1>4. t \in Seq(S) /\ Len(t) = n /\ \A i \in 1..n : t[i] = LevelFiles[i]
  <2> HIDE DEF S
  <2>1. /\ t \in Seq(S) /\ Len(t) = IF 1 <= n THEN n - 1 + 1 ELSE 0
        /\ \A i \in 1..(n - 1 + 1) : t[i] = LevelFiles[1 + i - 1]
    <3>1. 1 \in Int /\ n \in Int
      OBVIOUS
    <3> QED
      BY <3>1, <1>3, SubSeqProperties
  <2> QED
    BY <2>1
<1> HIDE DEF S, s, t, u
<1>5. /\ s \o t \in Seq(S) /\ Len(s \o t) = 6 + n
      /\ \A i \in 1..(6 + n) : (s \o t)[i] = IF i <= 6 THEN s[i] ELSE t[i - 6]
  <2>1. /\ s \o t \in Seq(S) /\ Len(s \o t) = Len(s) + Len(t)
        /\ \A i \in 1..(Len(s) + Len(t)) : (s \o t)[i] = IF i <= Len(s) THEN s[i] ELSE t[i - Len(s)]
    BY <1>1, <1>4, ConcatProperties
  <2> QED
    BY <2>1, <1>1, <1>4
<1>6. \A i \in 1..(9 + n) : ((s \o t) \o u)[i] = IF i <= 6 + n THEN (s \o t)[i] ELSE u[i - (6 + n)]
  <2> DEFINE st == s \o t
  <2> HIDE DEF st
  <2>1. \A i \in 1..(Len(st) + Len(u)) :
          (st \o u)[i] = IF i <= Len(st) THEN st[i] ELSE u[i - Len(st)]
    BY <1>1, <1>5, ConcatProperties DEF st
  <2>2. Len(st) = 6 + n /\ Len(u) = 3 /\ (6 + n) + 3 = 9 + n
    BY <1>1, <1>2, <1>5 DEF st
  <2>3. \A i \in 1..(9 + n) : (st \o u)[i] = IF i <= 6 + n THEN st[i] ELSE u[i - (6 + n)]
    BY <2>1, <2>2
  <2> QED
    BY <2>3 DEF st
<1>7. Plan(n) = (s \o t) \o u
  BY DEF Plan, s, t, u
<1>8. \A i \in 1..6 : Plan(n)[i] = s[i]
  BY <1>2, <1>5, <1>6, <1>7
<1>9. \A i \in 7..(6 + n) : Plan(n)[i] = LevelFiles[i - 6]
  BY <1>2, <1>4, <1>5, <1>6, <1>7
<1>10. Plan(n)[7 + n] = u[1] /\ Plan(n)[8 + n] = u[2] /\ Plan(n)[9 + n] = u[3]
  <2>1. 7 + n - (6 + n) = 1 /\ 8 + n - (6 + n) = 2 /\ 9 + n - (6 + n) = 3
        /\ {7 + n, 8 + n, 9 + n} \subseteq 1..(9 + n)
        /\ ~(7 + n <= 6 + n) /\ ~(8 + n <= 6 + n) /\ ~(9 + n <= 6 + n)
    BY <1>2
  <2>2. \A i \in {7 + n, 8 + n, 9 + n} : Plan(n)[i] = u[i - (6 + n)]
    BY <2>1, <1>6, <1>7
  <2> QED
    BY <2>1, <2>2
<1> QED
  BY <1>8, <1>9, <1>10 DEF s, u

\* No file or directory comes twice in a plan.
LEMMA PlanInjective ==
  ASSUME NEW n \in 1..Most, NEW j \in 1..(9 + n), NEW k \in 1..(9 + n), Plan(n)[j] = Plan(n)[k]
  PROVE  j = k
<1>1. Most \in Nat /\ LevelFiles \in Seq(Range(LevelFiles))
  BY CreationAssumption, LenProperties DEF Most
<1>2. \A i \in 7..(6 + n) : i - 6 \in 1..Most
  BY <1>1
<1>3. \A i \in 7..(6 + n) : Plan(n)[i] \in Range(LevelFiles)
  BY <1>1, <1>2, PlanSteps, ElementOfSeq DEF Most
<1>4. \A i \in 1..(9 + n) :
        i \in {1, 2, 3, 4, 5, 6, 7 + n, 8 + n, 9 + n} \/ i \in 7..(6 + n)
  BY <1>1
<1>5. CASE j \in 7..(6 + n) /\ k \in 7..(6 + n)
  <2>1. LevelFiles[j - 6] = LevelFiles[k - 6]
    BY <1>5, PlanSteps
  <2>2. j - 6 = k - 6
    BY <2>1, <1>2, <1>5, CreationAssumption DEF Most
  <2> QED
    BY <2>2, <1>1
<1>6. \A i \in 1..(9 + n) \ (7..(6 + n)) : Plan(n)[i] \notin Range(LevelFiles)
  BY <1>4, PlanSteps, CreationAssumption DEF Dirs
<1>7. CASE j \notin 7..(6 + n) /\ k \notin 7..(6 + n)
  <2> DEFINE P == Plan(n)
             Rest == {1, 2, 3, 4, 5, 6, 7 + n, 8 + n, 9 + n}
  <2>1. j \in Rest /\ k \in Rest
    BY <1>4, <1>7
  <2>2. /\ P[1] = "look" /\ P[2] = "root" /\ P[3] = "keystores" /\ P[4] = "blobs"
        /\ P[5] = "metadata" /\ P[6] = "header" /\ P[7 + n] = "recovery"
        /\ P[8 + n] = "levels" /\ P[9 + n] = "config"
    BY PlanSteps
  <2>3. P[j] = P[k]
    OBVIOUS
  <2> HIDE DEF P
  <2> QED
    BY <2>1, <2>2, <2>3
<1> QED
  BY <1>3, <1>5, <1>6, <1>7

\* Each file lies in one directory.
LEMMA Parents ==
  /\ \A f \in Range(LevelFiles) : Parent(f) = "keystores"
  /\ Parent("config") = "levels" /\ Parent("header") = "root" /\ Parent("recovery") = "root"
  /\ \A d \in Dirs \ {"root"} : Parent(d) = "root"
<1>1. {"config", "header", "recovery"} \cap Range(LevelFiles) = {}
      /\ Dirs \cap Range(LevelFiles) = {} /\ "config" \notin Dirs
  BY CreationAssumption DEF Dirs
<1> QED
  BY <1>1 DEF Parent

\* What a plan names is a directory, a file or the look for the vault's own directory.
LEMMA PlanNames ==
  ASSUME NEW n \in 1..Most, NEW j \in 1..(9 + n)
  PROVE  /\ Plan(n)[j] # "none"
         /\ Plan(n)[j] \in Range(LevelFiles) \cup Dirs \cup {"look", "header", "recovery", "config"}
<1>1. Most \in Nat /\ LevelFiles \in Seq(Range(LevelFiles))
  BY CreationAssumption, LenProperties DEF Most
<1>2. j \in {1, 2, 3, 4, 5, 6, 7 + n, 8 + n, 9 + n} \/ j \in 7..(6 + n)
  BY <1>1
<1>3. CASE j \in 7..(6 + n)
  <2>1. j - 6 \in 1..Most
    BY <1>1, <1>3
  <2>2. Plan(n)[j] = LevelFiles[j - 6] /\ LevelFiles[j - 6] \in Range(LevelFiles)
    BY <1>1, <1>3, <2>1, PlanSteps, ElementOfSeq DEF Most
  <2> QED
    BY <2>2, CreationAssumption
<1>4. CASE j \notin 7..(6 + n)
  BY <1>2, <1>4, PlanSteps DEF Dirs
<1> QED
  BY <1>3, <1>4

\* One more directory or file is tracked.
LEMMA Tracked ==
  ASSUME NEW S, NEW s \in Seq(S), NEW x \in S, InOrder(s),
         \/ s = <<>> /\ x \in {"root", "keystores"}
         \/ s = <<"root">> /\ x = "keystores"
         \/ "keystores" \in Range(s) /\ x \notin {"root", "keystores"}
  PROVE  /\ s \o <<x>> \in Seq(S) /\ InOrder(s \o <<x>>)
         /\ Range(s \o <<x>>) = Range(s) \cup {x}
<1> DEFINE t == s \o <<x>>
<1>1. <<x>> \in Seq(S) /\ Len(<<x>>) = 1 /\ <<x>>[1] = x /\ Len(s) \in Nat
  BY LenProperties
<1>2. /\ t \in Seq(S) /\ Len(t) = Len(s) + 1
      /\ \A i \in 1..(Len(s) + 1) : t[i] = IF i <= Len(s) THEN s[i] ELSE <<x>>[i - Len(s)]
  BY <1>1, ConcatProperties
<1>3. (\A i \in 1..Len(s) : t[i] = s[i]) /\ t[Len(s) + 1] = x
  BY <1>1, <1>2
<1>4. Range(t) = Range(s) \cup {x}
  <2>1. Range(s) = {s[i] : i \in 1..Len(s)} /\ Range(t) = {t[i] : i \in 1..Len(t)}
    BY <1>2, RangeEquality
  <2> QED
    BY <2>1, <1>1, <1>2, <1>3
<1>5. "keystores" \in Range(s) => Len(s) >= 1 /\ (Len(s) = 1 => s[1] = "keystores")
  <2>1. Range(s) = {s[i] : i \in 1..Len(s)}
    BY RangeEquality
  <2> QED
    BY <2>1, <1>1
<1> HIDE DEF t
<1>6. InOrder(t)
  <2>1. CASE s = <<>> /\ x \in {"root", "keystores"}
    <3>1. Len(t) = 1 /\ t[1] = x
      BY <2>1, <1>2, <1>3
    <3> QED
      BY <3>1, <2>1 DEF InOrder
  <2>2. CASE s = <<"root">> /\ x = "keystores"
    <3>1. Len(s) = 1 /\ s[1] = "root"
      BY <2>2
    <3> QED
      BY <3>1, <2>2, <1>2, <1>3 DEF InOrder
  <2>3. CASE "keystores" \in Range(s) /\ x \notin {"root", "keystores"}
    <3>1. \A i \in 2..Len(t) : i \in 2..Len(s) \/ t[i] = x
      BY <1>1, <1>2, <1>3
    <3>2. Len(t) >= 1 /\ t[1] = s[1] /\ (Len(s) >= 2 => t[2] = s[2])
      BY <1>1, <1>2, <1>3, <1>5, <2>3
    <3>3. \A i \in 2..Len(s) : t[i] = s[i]
      BY <1>1, <1>3
    <3>4. t[1] = "root" => Len(s) >= 2
      <4>1. Len(s) = 1 => t[1] # "root"
        BY <3>2, <1>1, <1>5, <2>3
      <4>2. Len(s) \in Nat /\ Len(s) >= 1
        BY <1>1, <1>5, <2>3
      <4>3. Len(s) = 1 \/ Len(s) >= 2
        <5> DEFINE m == Len(s)
        <5>1. m \in Nat /\ m >= 1
          BY <4>2
        <5> HIDE DEF m
        <5>2. m = 1 \/ m >= 2
          BY <5>1
        <5> QED
          BY <5>2 DEF m
      <4> QED
        BY <4>1, <4>3
    <3> QED
      BY <3>1, <3>2, <3>3, <3>4, <1>1, <1>5, <2>3 DEF InOrder
  <2> QED
    BY <2>1, <2>2, <2>3
<1> QED
  BY <1>2, <1>4, <1>6 DEF t

\* An attempt that does not own the directory has made at most the vault's own.
LEMMA NotOwner ==
  ASSUME NEW S, NEW s \in Seq(S), InOrder(s), "keystores" \notin Range(s)
  PROVE  Range(s) \subseteq {"root"} /\ Len(s) <= 1
<1>1. Range(s) = {s[i] : i \in 1..Len(s)} /\ Len(s) \in Nat
  BY RangeEquality, LenProperties
<1> QED
  BY <1>1 DEF InOrder

\* The last of what was made is undone.
LEMMA Undone ==
  ASSUME NEW S, NEW s \in Seq(S), s # <<>>, InOrder(s)
  PROVE  /\ Last(s) \in Range(s) /\ Last(s) \in S
         /\ Front(s) \in Seq(S) /\ InOrder(Front(s)) /\ Range(Front(s)) \subseteq Range(s)
         /\ "keystores" \in Range(Front(s)) <=>
              "keystores" \in Range(s) /\ Last(s) # "keystores"
         /\ Last(s) = "root" => "keystores" \notin Range(s)
<1> DEFINE t == Front(s)
<1>1. Len(s) \in Nat \ {0} /\ \A i \in 1..Len(s) : s[i] \in S
  BY EmptySeq, ElementOfSeq
<1>2. t \in Seq(S) /\ Len(t) = Len(s) - 1 /\ \A i \in 1..(Len(s) - 1) : t[i] = s[i]
  <2> DEFINE m == Len(s) - 1
             f == SubSeq(s, 1, m)
  <2>1. m \in Nat /\ 1 \in Int /\ m \in Int /\ \A i \in 1..m : s[i] \in S
    BY <1>1
  <2> HIDE DEF m
  <2>2. /\ f \in Seq(S) /\ Len(f) = IF 1 <= m THEN m - 1 + 1 ELSE 0
        /\ \A i \in 1..(m - 1 + 1) : f[i] = s[1 + i - 1]
    BY <2>1, SubSeqProperties
  <2> HIDE DEF f
  <2>3. f \in Seq(S) /\ Len(f) = m /\ \A i \in 1..m : f[i] = s[i]
    BY <2>1, <2>2
  <2> QED
    BY <2>3 DEF Front, f, m
<1>3. Range(s) = {s[i] : i \in 1..Len(s)} /\ Range(t) = {t[i] : i \in 1..Len(t)}
  BY <1>2, RangeEquality
<1> HIDE DEF t
<1>4. Last(s) = s[Len(s)] /\ Last(s) \in S /\ Last(s) \in Range(s)
  BY <1>1, <1>3 DEF Last
<1>5. InOrder(t)
  BY <1>1, <1>2 DEF InOrder
<1>6. Range(t) \subseteq Range(s) /\ Range(s) \subseteq Range(t) \cup {Last(s)}
  BY <1>1, <1>2, <1>3, <1>4
<1>7. Last(s) = "keystores" => "keystores" \notin Range(t)
  <2> SUFFICES ASSUME Last(s) = "keystores", "keystores" \in Range(t) PROVE FALSE
    OBVIOUS
  <2>1. PICK i \in 1..(Len(s) - 1) : s[i] = "keystores"
    BY <1>2, <1>3
  <2>2. Len(s) \in 2..Len(s) /\ s[Len(s)] = "keystores"
    BY <2>1, <1>1, <1>4
  <2>3. Len(s) = 2 /\ s[1] = "root"
    BY <2>2 DEF InOrder
  <2> QED
    BY <2>1, <2>3
<1>8. Last(s) = "root" => "keystores" \notin Range(s)
  <2> SUFFICES ASSUME Last(s) = "root" PROVE "keystores" \notin Range(s)
    OBVIOUS
  <2>1. Len(s) = 1
    <3> DEFINE m == Len(s)
    <3>1. m \notin 2..m /\ m \in Nat \ {0}
      BY <1>1, <1>4 DEF InOrder
    <3> HIDE DEF m
    <3>2. m = 1
      BY <3>1
    <3> QED
      BY <3>2 DEF m
  <2> QED
    BY <2>1, <1>3, <1>4
<1> QED
  BY <1>2, <1>4, <1>5, <1>6, <1>7, <1>8 DEF t

-----------------------------------------------------------------------------
\* Where in its plan an attempt is, told by the statement it is at; what is there has
\* not been made by it.
LEMMA StepAt ==
  ASSUME CreationInv, NEW c \in Creators, Step(c) # "none"
  PROVE  LET a == attempt[c] IN
         /\ a.mode = "making" /\ a \in AttemptRec /\ a.levels \in 1..Most /\ a.number \in Attempts
         /\ Progress(c) /\ a.at \in 1..(9 + a.levels)
         /\ Step(c) = Plan(a.levels)[a.at]
         /\ Step(c) = "look" <=> a.at = 1
         /\ Step(c) = "root" <=> a.at = 2
         /\ Step(c) = "keystores" <=> a.at = 3
         /\ Step(c) \in {"blobs", "metadata"} <=> a.at \in {4, 5}
         /\ Step(c) = "header" <=> a.at = 6
         /\ Step(c) \in Range(LevelFiles) <=> a.at \in 7..(6 + a.levels)
         /\ Step(c) = "recovery" <=> a.at = 7 + a.levels
         /\ Step(c) = "levels" <=> a.at = 8 + a.levels
         /\ Step(c) = "config" <=> a.at = 9 + a.levels
         /\ a.at # 2 => Step(c) \notin Range(a.tracked)
         /\ a.at >= 4 <=> Owns(c)
<1> DEFINE a == attempt[c]
           n == a.levels
           P == Plan(n)
<1>1. a \in AttemptRec /\ Most \in Nat /\ Most > 0 /\ LevelFiles \in Seq(Range(LevelFiles))
  BY CreationAssumption, LenProperties DEF CreationInv, Typed, Most
<1>2. a.mode = "making" /\ Step(c) = P[a.at]
  BY DEF Step
<1>3. n \in 1..Most /\ a.number \in Attempts /\ Progress(c) /\ a.at \in 1..(9 + n)
  <2>1. a.number \in Attempts /\ n >= 1 /\ Progress(c)
    BY <1>2 DEF CreationInv, AttemptsInv
  <2>2. n \in 0..Most /\ a.at \in 1..(9 + n)
    BY <1>1, <2>1 DEF AttemptRec, Progress
  <2> QED
    BY <2>1, <2>2, <1>1
<1>4. /\ P[1] = "look" /\ P[2] = "root" /\ P[3] = "keystores" /\ P[4] = "blobs"
      /\ P[5] = "metadata" /\ P[6] = "header" /\ P[7 + n] = "recovery"
      /\ P[8 + n] = "levels" /\ P[9 + n] = "config"
      /\ \A i \in 7..(6 + n) : P[i] \in Range(LevelFiles)
  <2>1. \A i \in 7..(6 + n) : i - 6 \in 1..Most /\ P[i] = LevelFiles[i - 6]
    <3>1. \A i \in 7..(6 + n) : i - 6 \in 1..Most
      BY <1>1, <1>3
    <3> QED
      BY <3>1, <1>3, PlanSteps
  <2>2. \A i \in 7..(6 + n) : P[i] \in Range(LevelFiles)
    BY <1>1, <2>1, ElementOfSeq DEF Most
  <2> QED
    BY <1>3, <2>2, PlanSteps
<1>5. \A j \in 1..(9 + n) : P[j] = P[a.at] => j = a.at
  BY <1>3, PlanInjective
<1> HIDE DEF P, n, a
<1>6. {1, 2, 3, 4, 5, 6, 7 + n, 8 + n, 9 + n} \subseteq 1..(9 + n)
  BY <1>3
<1>7. a.at \in {1, 2, 3, 4, 5, 6, 7 + n, 8 + n, 9 + n} \cup 7..(6 + n)
  BY <1>3
<1>8. P[a.at] \in Range(LevelFiles) <=> a.at \in 7..(6 + n)
  BY <1>4, <1>7, CreationAssumption DEF Dirs
<1>9. /\ P[a.at] = "look" <=> a.at = 1
      /\ P[a.at] = "root" <=> a.at = 2
      /\ P[a.at] = "keystores" <=> a.at = 3
      /\ P[a.at] \in {"blobs", "metadata"} <=> a.at \in {4, 5}
      /\ P[a.at] = "header" <=> a.at = 6
      /\ P[a.at] = "recovery" <=> a.at = 7 + n
      /\ P[a.at] = "levels" <=> a.at = 8 + n
      /\ P[a.at] = "config" <=> a.at = 9 + n
  BY <1>4, <1>5, <1>6
<1>10. a.at # 2 => P[a.at] \notin Range(a.tracked)
  <2>1. \A x \in Range(a.tracked) : x = "root" \/ \E j \in 3..(a.at - 1) : x = P[j]
    BY <1>3 DEF Progress, P, n, a
  <2>2. \A j \in 3..(a.at - 1) : j \in 1..(9 + n) /\ j # a.at
    BY <1>3
  <2> QED
    BY <2>1, <2>2, <1>5, <1>9
<1>11. a.at >= 4 <=> Owns(c)
  <2>1. a.at >= 4 => 3 \in 3..(a.at - 1) /\ P[3] # "levels"
    BY <1>3, <1>4
  <2>2. a.at >= 4 => Owns(c)
    BY <2>1, <1>3, <1>4 DEF Progress, Owns, P, n, a
  <2>3. Owns(c) => \E j \in 3..(a.at - 1) : P[j] = "keystores"
    BY <1>3 DEF Progress, Owns, P, n, a
  <2> QED
    BY <2>2, <2>3, <1>3
<1> QED
  BY <1>1, <1>2, <1>3, <1>8, <1>9, <1>10, <1>11 DEF P, n, a

\* What an attempt has made is as it made it.
PiecesOf(c) ==
  \A x \in Range(attempt[c].tracked) :
    /\ x \in Files => file[x] = attempt[c].number
    /\ x \in Dirs \ {"root"} => x \in dirs

\* One attempt makes a step.  Only the one that owns "keystores" changes a file or
\* removes a directory other than the vault's own, and nobody comes to own one
\* that is there: the other attempts, and a completed vault, stay as they are.
LEMMA OneMoves ==
  ASSUME CreationInv, NEW c \in Creators, NEW a \in AttemptRec,
         Becomes(c, a), ~deleting, UNCHANGED deleting,
         built' = built \/ (built' \in AttemptRec /\ BuiltInv'),
         attempts' \in attempts..MaxAttempts, a.number \in 0..attempts',
         a.mode = "idle" => a = NoAttempt,
         a.mode # "idle" => a.number \in Attempts /\ a.levels >= 1,
         InOrder(a.tracked),
         a.mode = "making" => (Progress(c) /\ PiecesOf(c))',
         Owns(c)' => "keystores" \in dirs' /\ (Owns(c) \/ "keystores" \notin dirs),
         dirs' \in SUBSET Dirs, file' \in [Files -> Attempts \cup {Absent, Torn}],
         \A f \in Files : file'[f] # Absent => Parent(f) \in dirs',
         "root" \notin dirs' => dirs' = {},
         Owns(c) \/ (file' = file /\ dirs \ {"root"} \subseteq dirs'),
         OneVault'
  PROVE  CreationInv'
<1>1. attempt \in [Creators -> AttemptRec] /\ attempts \in 0..MaxAttempts /\ MaxAttempts \in Nat
  BY CreationAssumption DEF CreationInv, Typed, CreationTypeOK
<1>2. attempt' \in [Creators -> AttemptRec] /\ attempt'[c] = a
      /\ \A d \in Creators \ {c} : attempt'[d] = attempt[d]
  BY <1>1 DEF Becomes
<1>3. Typed'
  <2>1. attempts' \in 0..MaxAttempts
    BY <1>1
  <2>2. \A d \in Creators :
          /\ attempt'[d].mode \in {"idle", "making", "undoing"}
          /\ attempt'[d].number \in 0..attempts'
          /\ Range(attempt'[d].tracked) \subseteq Dirs \cup Files
    <3> SUFFICES ASSUME NEW d \in Creators
                 PROVE  /\ attempt'[d].mode \in {"idle", "making", "undoing"}
                        /\ attempt'[d].number \in 0..attempts'
                        /\ Range(attempt'[d].tracked) \subseteq Dirs \cup Files
      OBVIOUS
    <3>1. attempt'[d].mode \in {"idle", "making", "undoing"}
          /\ attempt'[d].tracked \in Seq(Dirs \cup Files)
      BY <1>2 DEF AttemptRec
    <3>2. d # c => attempt'[d].number \in 0..attempts
      BY <1>2 DEF CreationInv, Typed, CreationTypeOK
    <3>3. attempt'[d].number \in 0..attempts'
      BY <1>1, <1>2, <2>1, <3>2
    <3> QED
      BY <3>1, <3>3, RangeOfSeq
  <2> QED
    BY <1>2, <2>1, <2>2 DEF CreationInv, Typed, CreationTypeOK
<1>4. ASSUME NEW d \in Creators \ {c}, Owns(d)
      PROVE  Owns(d)' /\ ~Owns(c) /\ ~Owns(c)' /\ file' = file /\ dirs \ {"root"} \subseteq dirs'
  BY <1>2, <1>4 DEF CreationInv, LockInv, Owns
<1>5. ASSUME NEW d \in Creators \ {c}, ~Owns(d), attempt[d].mode = "making"
      PROVE  attempt[d].at <= 3 /\ Range(attempt[d].tracked) \subseteq {"root"}
  <2>1. attempt[d].tracked \in Seq(Dirs \cup Files) /\ InOrder(attempt[d].tracked)
    BY <1>1 DEF AttemptRec, CreationInv, AttemptsInv
  <2>2. Step(d) # "none"
    <3>1. Progress(d) /\ attempt[d].levels \in 1..Most /\ attempt[d].at \in Nat
      <4>1. attempt[d].levels \in 0..Most /\ attempt[d].levels >= 1 /\ attempt[d].at \in Nat
        BY <1>1, <1>5 DEF CreationInv, AttemptsInv, AttemptRec
      <4> QED
        BY <4>1, <1>5, CreationAssumption, LenProperties DEF CreationInv, AttemptsInv, Most
    <3> QED
      BY <3>1, <1>5, PlanNames DEF Step, Progress
  <2>3. ~(attempt[d].at >= 4) /\ attempt[d].at \in Nat
    BY <1>1, <1>5, <2>2, StepAt DEF AttemptRec
  <2> QED
    BY <1>5, <2>1, <2>3, NotOwner DEF Owns
<1>6. AttemptsInv'
  <2> SUFFICES ASSUME NEW d \in Creators \ {c}, attempt[d].mode = "making" PROVE Progress(d)'
    BY <1>2 DEF CreationInv, AttemptsInv
  <2>1. Progress(d)
    BY DEF CreationInv, AttemptsInv
  <2>2. CASE Owns(d)
    <3>1. attempt'[d] = attempt[d] /\ file' = file /\ ("levels" \in dirs => "levels" \in dirs')
      BY <1>2, <1>4, <2>2
    <3> DEFINE b == attempt[d]
    <3> HIDE DEF b
    <3>2. attempt'[d] = b /\ attempt[d] = b
      BY <3>1 DEF b
    <3> QED
      BY <2>1, <3>1, <3>2 DEF Progress
  <2>3. CASE ~Owns(d)
    <3>1. attempt[d].at <= 3 /\ attempt[d].at \in Nat /\ attempt[d].levels \in Nat
      BY <1>1, <1>5, <2>3 DEF AttemptRec
    <3>2. attempt[d].at \notin 4..6 /\ attempt[d].at # 9 + attempt[d].levels
      BY <3>1
    <3>3. attempt'[d] = attempt[d]
      BY <1>2
    <3> DEFINE b == attempt[d]
    <3>4. /\ b.at \in 1..(9 + b.levels)
          /\ b.at <= 3 => b.tracked = <<>> \/ (b.at = 3 /\ b.tracked = <<"root">>)
          /\ \A j \in 3..(b.at - 1) :
               Plan(b.levels)[j] # "levels" => Plan(b.levels)[j] \in Range(b.tracked)
          /\ Range(b.tracked) \subseteq {"root"} \cup {Plan(b.levels)[j] : j \in 3..(b.at - 1)}
      BY <2>1 DEF Progress
    <3> HIDE DEF b
    <3> QED
      BY <3>2, <3>3, <3>4 DEF Progress, b
  <2> QED
    BY <2>2, <2>3
<1>7. LockInv'
  <2>1. ASSUME NEW d \in Creators \ {c}, Owns(d)' PROVE Owns(d)
    BY <1>2, <2>1 DEF Owns
  <2> QED
    BY <1>4, <2>1 DEF CreationInv, LockInv
<1>8. BuiltInv'
  <2> SUFFICES ASSUME built # NoAttempt, built' = built PROVE BuiltInv'
    BY DEF BuiltInv, CompletedStays
  <2>1. ~Owns(c) /\ dirs = Dirs /\ \A d \in Creators : ~Owns(d)
    BY DEF CreationInv, BuiltInv, CompletedStays
  <2>2. file' = file /\ dirs' = Dirs /\ ~Owns(c)'
    BY <2>1 DEF Dirs
  <2>3. \A d \in Creators : ~Owns(d)'
    BY <1>2, <2>1, <2>2 DEF Owns
  <2> QED
    BY <2>2, <2>3 DEF CreationInv, BuiltInv, CompletedStays
<1>9. OwnPiecesStay'
  <2> SUFFICES ASSUME NEW d \in Creators \ {c}, attempt[d].mode = "making" PROVE PiecesOf(d)'
    BY <1>2 DEF OwnPiecesStay, PiecesOf
  <2>1. PiecesOf(d)
    BY DEF CreationInv, OwnPiecesStay, PiecesOf
  <2>2. CASE Owns(d)
    BY <1>2, <1>4, <2>1, <2>2 DEF PiecesOf
  <2>3. CASE ~Owns(d)
    BY <1>2, <1>5, <2>3, CreationAssumption DEF PiecesOf, Files, Dirs
  <2> QED
    BY <2>2, <2>3
<1> QED
  BY <1>3, <1>6, <1>7, <1>8, <1>9 DEF CreationInv

-----------------------------------------------------------------------------
(***************************************************************************)
(* The steps of one attempt.                                               *)
(***************************************************************************)
\* An attempt that is not there has made nothing.
LEMMA NoAttemptFacts ==
  NoAttempt \in AttemptRec /\ InOrder(NoAttempt.tracked) /\ Range(NoAttempt.tracked) = {}
  /\ NoAttempt.mode = "idle" /\ NoAttempt.number = 0 /\ MaxAttempts \in Nat /\ Most \in Nat
<1>1. <<>> \in Seq(Dirs \cup Files) /\ Len(<<>>) = 0 /\ Range(<<>>) = {}
  <2>1. <<>> \in Seq(Dirs \cup Files) /\ Len(<<>>) = 0
    BY EmptySeq
  <2>2. Range(<<>>) = {<<>>[i] : i \in 1..Len(<<>>)}
    BY <2>1, RangeEquality
  <2> QED
    BY <2>1, <2>2
<1>2. MaxAttempts \in Nat /\ Most \in Nat
  BY CreationAssumption, LenProperties DEF Most
<1>3. InOrder(<<>>)
  BY <1>1 DEF InOrder
<1> QED
  BY <1>1, <1>2, <1>3 DEF NoAttempt, AttemptRec

\* An attempt that is under way, and what holds of its record.
LEMMA UnderWay ==
  ASSUME CreationInv, NEW c \in Creators, attempt[c] # NoAttempt
  PROVE  /\ attempt[c] \in AttemptRec /\ ~deleting /\ InOrder(attempt[c].tracked)
         /\ attempt[c].mode \in {"making", "undoing"}
         /\ attempt[c].number \in Attempts /\ attempt[c].number \in 0..attempts
         /\ attempt[c].levels \in 1..Most
         /\ attempts \in 0..MaxAttempts /\ attempts \in attempts..MaxAttempts
         /\ dirs \in SUBSET Dirs /\ file \in [Files -> Attempts \cup {Absent, Torn}]
         /\ \A f \in Files : file[f] # Absent => Parent(f) \in dirs
         /\ "root" \notin dirs => dirs = {}
         /\ Owns(c) => "keystores" \in dirs
<1>1. attempt[c] \in AttemptRec /\ CreationTypeOK
  BY DEF CreationInv, Typed
<1>2. ~deleting /\ attempt[c].mode # "idle"
  BY DEF CreationInv, AttemptsInv
<1>3. attempt[c].levels \in 1..Most /\ attempt[c].number \in Attempts
  <2>1. attempt[c].levels >= 1 /\ attempt[c].number \in Attempts
    BY <1>2 DEF CreationInv, AttemptsInv
  <2> QED
    BY <1>1, <2>1, NoAttemptFacts DEF AttemptRec
<1>4. attempts \in attempts..MaxAttempts
  BY <1>1, NoAttemptFacts DEF CreationTypeOK
<1> QED
  BY <1>1, <1>2, <1>3, <1>4 DEF CreationInv, CreationTypeOK, AttemptRec, AttemptsInv, LockInv

\* An attempt that ends, or gives up and begins to undo, changes nothing at the path.
LEMMA Stops ==
  ASSUME CreationInv, NEW c \in Creators, attempt[c] # NoAttempt,
         Undoing(c) \/ Becomes(c, NoAttempt),
         UNCHANGED <<dirs, file, attempts, deleting, built>>
  PROVE  CreationInv'
<1> DEFINE a == attempt[c]
<1>1. a \in AttemptRec /\ InOrder(a.tracked) /\ ~deleting
  BY UnderWay
<1>2. OneVault'
  BY DEF CreationInv, OneVault
<1>3. CASE Undoing(c)
  <2> DEFINE b == [a EXCEPT !.mode = "undoing"]
  <2>1. b \in AttemptRec /\ b.tracked = a.tracked /\ b.number = a.number
        /\ b.levels = a.levels /\ b.mode = "undoing"
    BY <1>1 DEF AttemptRec
  <2>2. Becomes(c, b)
    BY <1>3 DEF Undoing
  <2>3. attempt'[c] = b
    BY <2>2 DEF Becomes, CreationInv, Typed
  <2>4. Owns(c)' => Owns(c)
    BY <2>1, <2>3 DEF Owns
  <2>5. b.levels >= 1
    <3>1. a.levels \in 1..Most
      BY UnderWay
    <3> QED
      BY <2>1, <3>1, NoAttemptFacts
  <2> HIDE DEF b
  <2> QED
    BY <1>1, <1>2, <2>1, <2>2, <2>4, <2>5, UnderWay, OneMoves
<1>4. CASE Becomes(c, NoAttempt)
  <2>1. attempt'[c] = NoAttempt
    BY <1>4 DEF Becomes, CreationInv, Typed
  <2>2. ~Owns(c)'
    BY <2>1, NoAttemptFacts DEF Owns
  <2>3. 0 \in 0..attempts
    BY UnderWay, NoAttemptFacts
  <2> QED
    BY <1>1, <1>2, <1>4, <2>2, <2>3, NoAttemptFacts, UnderWay, OneMoves
<1> QED
  BY <1>3, <1>4

\* A statement that makes a directory or a file is done, and the piece tracked.
LEMMA NextPiece ==
  ASSUME CreationInv, NEW c \in Creators,
         Step(c) \notin {"none", "look", "levels", "config"},
         NextStep(c, <<Step(c)>>),
         attempt[c].at \in 3..5 => \A f \in Range(LevelFiles) : file'[f] = Absent
  PROVE  /\ attempt'[c] \in AttemptRec /\ Becomes(c, attempt'[c])
         /\ attempt'[c].mode = "making" /\ attempt'[c].number = attempt[c].number
         /\ attempt'[c].levels = attempt[c].levels
         /\ InOrder(attempt'[c].tracked)
         /\ Range(attempt'[c].tracked) = Range(attempt[c].tracked) \cup {Step(c)}
         /\ Progress(c)'
<1> DEFINE a == attempt[c]
           n == a.levels
           x == Step(c)
           t == a.tracked \o <<x>>
           b == [a EXCEPT !.at = @ + 1, !.half = FALSE, !.tracked = @ \o <<x>>]
<1>1. /\ a.mode = "making" /\ a \in AttemptRec /\ n \in 1..Most /\ a.at \in 1..(9 + n)
      /\ Progress(c) /\ x = Plan(n)[a.at] /\ Most \in Nat
      /\ x = "root" <=> a.at = 2
      /\ x = "keystores" <=> a.at = 3
      /\ a.at # 1 /\ a.at # 8 + n /\ a.at # 9 + n
      /\ a.at >= 4 <=> Owns(c)
  BY StepAt, NoAttemptFacts
<1>2. x \in Dirs \cup Files
  <2>1. x \in Range(LevelFiles) \cup Dirs \cup {"look", "header", "recovery", "config"}
    BY <1>1, PlanNames
  <2> QED
    BY <2>1 DEF Files
<1>3. a.tracked \in Seq(Dirs \cup Files) /\ InOrder(a.tracked)
  BY <1>1 DEF AttemptRec, CreationInv, AttemptsInv
<1>4. attempt'[c] = b /\ Becomes(c, b)
  BY DEF NextStep, Becomes, CreationInv, Typed
<1>5. \/ a.at = 2 /\ a.tracked = <<>>
      \/ a.at = 3 /\ a.tracked \in {<<>>, <<"root">>}
      \/ a.at >= 4
  <2>1. a.at <= 3 => a.tracked = <<>> \/ (a.at = 3 /\ a.tracked = <<"root">>)
    BY <1>1 DEF Progress
  <2>2. a.at \in Nat /\ a.at # 0 /\ a.at # 1
    BY <1>1 DEF AttemptRec
  <2>3. a.at = 2 \/ a.at = 3 \/ a.at >= 4
    BY <2>2
  <2> QED
    BY <2>1, <2>3
<1>6. \/ a.tracked = <<>> /\ x \in {"root", "keystores"}
      \/ a.tracked = <<"root">> /\ x = "keystores"
      \/ "keystores" \in Range(a.tracked) /\ x \notin {"root", "keystores"}
  BY <1>1, <1>5 DEF Owns
<1>7. t \in Seq(Dirs \cup Files) /\ InOrder(t) /\ Range(t) = Range(a.tracked) \cup {x}
  BY <1>2, <1>3, <1>6, Tracked
<1>8. a.at = 2 => t = <<"root">>
  <2> SUFFICES ASSUME a.at = 2 PROVE t = <<"root">>
    OBVIOUS
  <2>1. x = "root" /\ a.tracked = <<>> /\ <<x>> \in Seq(Dirs \cup Files)
    BY <1>1, <1>2, <1>5
  <2> QED
    BY <2>1, ConcatEmptySeq
<1> HIDE DEF t
<1>9. /\ b \in AttemptRec /\ b.mode = "making" /\ b.number = a.number /\ b.levels = n
      /\ b.at = a.at + 1 /\ b.tracked = t
  <2>1. b = [a EXCEPT !.at = a.at + 1, !.half = FALSE, !.tracked = t]
    BY DEF t
  <2>2. a \in AttemptRec /\ t \in Seq(Dirs \cup Files)
    BY <1>1, <1>7
  <2>3. a.mode = "making"
    BY <1>1
  <2> HIDE DEF b, a
  <2>4. a.at + 1 \in Nat
    BY <2>2 DEF AttemptRec
  <2>5. b \in AttemptRec
    BY <2>1, <2>2, <2>4 DEF AttemptRec
  <2> QED
    BY <2>1, <2>2, <2>3, <2>5 DEF AttemptRec
<1> HIDE DEF x, b, n, a
<1>10. Progress(c)'
  <2>1. b.at \in 1..(9 + n)
    BY <1>1, <1>9
  <2>2. b.at <= 3 => b.tracked = <<>> \/ (b.at = 3 /\ b.tracked = <<"root">>)
    BY <1>1, <1>5, <1>8, <1>9
  <2>3. \A j \in 3..(b.at - 1) : j = a.at \/ j \in 3..(a.at - 1)
    BY <1>1, <1>9
  <2>4. \A j \in 3..(b.at - 1) : Plan(n)[j] # "levels" => Plan(n)[j] \in Range(b.tracked)
    BY <1>1, <1>7, <1>9, <2>3 DEF Progress, n, a
  <2>5. Range(b.tracked) \subseteq {"root"} \cup {Plan(n)[j] : j \in 3..(b.at - 1)}
    <3>1. Range(a.tracked) \subseteq {"root"} \cup {Plan(n)[j] : j \in 3..(a.at - 1)}
      BY <1>1 DEF Progress, n, a
    <3>2. \A j \in 3..(a.at - 1) : j \in 3..(b.at - 1)
      BY <1>1, <1>9
    <3>3. x = "root" \/ a.at \in 3..(b.at - 1)
      BY <1>1, <1>5, <1>9
    <3> QED
      BY <1>1, <1>7, <1>9, <3>1, <3>2, <3>3
  <2>6. b.at \in 4..6 => \A f \in Range(LevelFiles) : file'[f] = Absent
    <3>1. b.at \in 4..6 => a.at \in 3..5
      BY <1>1, <1>9
    <3> QED
      BY <3>1 DEF a
  <2>7. b.at # 9 + n
    BY <1>1, <1>9
  <2> QED
    BY <1>4, <1>9, <2>1, <2>2, <2>4, <2>5, <2>6, <2>7 DEF Progress
<1> QED
  BY <1>4, <1>7, <1>9, <1>10 DEF n, a, x

\* Starting an attempt keeps the invariant.
LEMMA StartStep == ASSUME CreationInv, NEW c \in Creators, NEW n \in 1..Most, Start(c, n) PROVE CreationInv'
<1> DEFINE b == [NoAttempt EXCEPT !.number = attempts + 1, !.levels = n, !.mode = "making", !.at = 1]
<1>1. /\ attempts < MaxAttempts /\ attempts' = attempts + 1 /\ Becomes(c, b)
      /\ ~deleting /\ UNCHANGED <<dirs, file, deleting, built>>
  BY DEF Start
<1>2. attempts \in 0..MaxAttempts /\ MaxAttempts \in Nat /\ Most \in Nat
  BY NoAttemptFacts DEF CreationInv, Typed, CreationTypeOK
<1>3. attempts + 1 \in Attempts /\ attempts + 1 \in 0..MaxAttempts /\ attempts + 1 \in attempts..MaxAttempts
      /\ attempts + 1 \in 0..(attempts + 1)
  BY <1>1, <1>2 DEF Attempts
<1>4. /\ b \in AttemptRec /\ b.number = attempts + 1 /\ b.levels = n /\ b.mode = "making"
      /\ b.at = 1 /\ b.tracked = <<>> /\ NoAttempt.tracked = <<>>
  <2>1. NoAttempt \in AttemptRec /\ n \in 0..Most
    BY <1>2, NoAttemptFacts
  <2>2. /\ b \in AttemptRec /\ b.number = attempts + 1 /\ b.levels = n /\ b.mode = "making"
        /\ b.at = 1 /\ b.tracked = NoAttempt.tracked
    BY <1>3, <2>1 DEF AttemptRec
  <2>3. NoAttempt.tracked = <<>>
    BY DEF NoAttempt
  <2> QED
    BY <2>2, <2>3
<1>5. attempt'[c] = b
  BY <1>1 DEF Becomes, CreationInv, Typed
<1> HIDE DEF b
<1>6. Range(b.tracked) = {} /\ InOrder(b.tracked)
  BY <1>4, NoAttemptFacts
<1>7. Progress(c)'
  BY <1>2, <1>4, <1>5, <1>6 DEF Progress
<1>8. PiecesOf(c)' /\ ~Owns(c)'
  BY <1>5, <1>6 DEF PiecesOf, Owns
<1>9. OneVault'
  BY <1>1 DEF CreationInv, OneVault
<1> QED
  BY <1>1, <1>2, <1>3, <1>4, <1>6, <1>7, <1>8, <1>9, OneMoves
  DEF CreationInv, Typed, CreationTypeOK

\* Looking whether there is something at the path keeps the invariant.
LEMMA LookStep == ASSUME CreationInv, NEW c \in Creators, LookForRoot(c) PROVE CreationInv'
<1> DEFINE a == attempt[c]
           b == [a EXCEPT !.at = IF "root" \in dirs THEN 3 ELSE 2]
<1>1. Becomes(c, b) /\ UNCHANGED <<dirs, file, attempts, deleting, built>> /\ Step(c) = "look"
  BY DEF LookForRoot
<1>2. /\ a.mode = "making" /\ a \in AttemptRec /\ a.levels \in 1..Most /\ a.at = 1
      /\ Progress(c) /\ a.number \in Attempts /\ Most \in Nat
  BY <1>1, StepAt, NoAttemptFacts
<1>3. a.tracked = <<>> /\ NoAttempt.tracked = <<>> /\ NoAttempt.mode = "idle"
  BY <1>2 DEF Progress, NoAttempt
<1>4. /\ b \in AttemptRec /\ b.mode = "making" /\ b.number = a.number /\ b.levels = a.levels
      /\ b.at \in {2, 3} /\ b.tracked = <<>>
  BY <1>2, <1>3 DEF AttemptRec
<1>5. attempt'[c] = b /\ attempt[c] # NoAttempt
  BY <1>1, <1>2, <1>3 DEF Becomes, CreationInv, Typed
<1> HIDE DEF b
<1>6. Range(b.tracked) = {} /\ InOrder(b.tracked)
  BY <1>3, <1>4, NoAttemptFacts
<1>7. Progress(c)'
  <2>1. \A j \in 3..(b.at - 1) : FALSE
    BY <1>4
  <2>2. b.at \in 1..(9 + b.levels) /\ b.at \notin 4..6 /\ b.at # 9 + b.levels
    BY <1>2, <1>4
  <2> QED
    BY <1>4, <1>5, <1>6, <2>1, <2>2 DEF Progress
<1>8. PiecesOf(c)' /\ ~Owns(c)'
  BY <1>5, <1>6 DEF PiecesOf, Owns
<1>9. OneVault'
  BY <1>1 DEF CreationInv, OneVault
<1>10. b.levels >= 1
  BY <1>2, <1>4
<1> HIDE DEF a
<1> QED
  BY <1>1, <1>2, <1>4, <1>5, <1>6, <1>7, <1>8, <1>9, <1>10, OneMoves, UnderWay DEF a

\* A directory of the vault is made and tracked.  When it is "keystores", there was
\* none, so no keystore either.
LEMMA MakeStep ==
  ASSUME CreationInv, NEW c \in Creators,
         MakeRoot(c) \/ (MakeDir(c) /\ "root" \in dirs /\ Step(c) \notin dirs)
  PROVE  CreationInv'
<1> DEFINE x == Step(c)
           b == attempt'[c]
<1>1. /\ dirs' = dirs \cup {x} /\ NextStep(c, <<x>>) /\ x \in {"root", "keystores", "blobs", "metadata"}
      /\ UNCHANGED <<file, attempts, deleting, built>>
      /\ x # "root" => "root" \in dirs /\ x \notin dirs
  BY DEF MakeRoot, MakeDir
<1>2. /\ attempt[c].mode = "making" /\ Progress(c)
      /\ x = "root" <=> attempt[c].at = 2
      /\ x = "keystores" <=> attempt[c].at = 3
      /\ x \in {"blobs", "metadata"} <=> attempt[c].at \in {4, 5}
      /\ attempt[c].at >= 4 <=> Owns(c)
      /\ attempt[c].at \in Nat
  BY <1>1, StepAt DEF AttemptRec
<1>3. attempt[c] # NoAttempt
  BY <1>2, NoAttemptFacts
<1>4. attempt[c].at \in 3..5 => \A f \in Range(LevelFiles) : file'[f] = Absent
  <2>1. CASE attempt[c].at = 3
    <3>1. \A f \in Range(LevelFiles) : f \in Files /\ Parent(f) = "keystores"
      BY Parents DEF Files
    <3> QED
      BY <1>1, <1>2, <1>3, <2>1, <3>1, UnderWay
  <2>2. CASE attempt[c].at \in {4, 5}
    BY <1>1, <1>2, <2>2 DEF Progress
  <2> QED
    BY <1>2, <2>1, <2>2
<1>5. /\ b \in AttemptRec /\ Becomes(c, b) /\ b.mode = "making" /\ b.number = attempt[c].number
      /\ b.levels = attempt[c].levels /\ InOrder(b.tracked)
      /\ Range(b.tracked) = Range(attempt[c].tracked) \cup {x} /\ Progress(c)'
  BY <1>1, <1>4, NextPiece
<1>6. PiecesOf(c)'
  <2>1. PiecesOf(c)
    BY <1>2 DEF CreationInv, OwnPiecesStay, PiecesOf
  <2>2. x \notin Files
    BY <1>1, CreationAssumption DEF Files, Dirs
  <2> QED
    BY <1>1, <1>5, <2>1, <2>2 DEF PiecesOf
<1>7. Owns(c)' => "keystores" \in dirs' /\ (Owns(c) \/ "keystores" \notin dirs)
  BY <1>1, <1>3, <1>5, UnderWay DEF Owns
<1>8. OneVault'
  BY <1>1 DEF CreationInv, OneVault
<1>9. dirs' \in SUBSET Dirs /\ ("root" \notin dirs' => dirs' = {})
  BY <1>1, <1>3, UnderWay DEF Dirs
<1>10. b.levels >= 1
  <2>1. attempt[c].levels \in 1..Most
    BY <1>3, UnderWay
  <2> QED
    BY <1>5, <2>1, NoAttemptFacts
<1> HIDE DEF b, x
<1> QED
  BY <1>1, <1>3, <1>5, <1>6, <1>7, <1>8, <1>9, <1>10, OneMoves, UnderWay DEF b

\* So does making sure of the directory of the levels.
LEMMA LevelsDirStep == ASSUME CreationInv, NEW c \in Creators, EnsureLevelsDir(c) PROVE CreationInv'
<1> DEFINE a == attempt[c]
           b == [a EXCEPT !.at = a.at + 1, !.half = FALSE, !.tracked = a.tracked]
<1>1. /\ dirs' = dirs \cup {"root", "levels"} /\ NextStep(c, <<>>) /\ Step(c) = "levels"
      /\ UNCHANGED <<file, attempts, deleting, built>>
  BY DEF EnsureLevelsDir
<1>2. /\ a.mode = "making" /\ Progress(c) /\ a \in AttemptRec /\ a.levels \in 1..Most
      /\ a.at = 8 + a.levels /\ Step(c) = Plan(a.levels)[a.at] /\ (a.at >= 4 => Owns(c))
      /\ Most \in Nat
  BY <1>1, StepAt, NoAttemptFacts
<1>3. a # NoAttempt /\ Owns(c)
  BY <1>2, NoAttemptFacts
<1>4. Becomes(c, b)
  <2>1. a.tracked \in Seq(Dirs \cup Files)
    BY <1>2 DEF AttemptRec
  <2>2. a.tracked \o <<>> = a.tracked
    BY <2>1, ConcatEmptySeq
  <2> QED
    BY <1>1, <2>2 DEF NextStep
<1>5. attempt'[c] = b
  BY <1>4 DEF Becomes, CreationInv, Typed
<1>6. /\ b \in AttemptRec /\ b.mode = "making" /\ b.number = a.number /\ b.levels = a.levels
      /\ b.at = a.at + 1 /\ b.tracked = a.tracked
  <2>1. a.at + 1 \in Nat
    BY <1>2 DEF AttemptRec
  <2> HIDE DEF a
  <2> QED
    BY <2>1, <1>2 DEF AttemptRec
<1> HIDE DEF b
<1>7. Progress(c)'
  <2>1. /\ b.at \in 1..(9 + b.levels) /\ ~(b.at <= 3) /\ b.at \notin 4..6
        /\ \A j \in 3..(b.at - 1) : j = a.at \/ j \in 3..(a.at - 1)
        /\ \A j \in 3..(a.at - 1) : j \in 3..(b.at - 1)
    BY <1>2, <1>6
  <2>2. "levels" \in dirs'
    BY <1>1
  <2> HIDE DEF a
  <2>3. \A j \in 3..(b.at - 1) :
          Plan(b.levels)[j] # "levels" => Plan(b.levels)[j] \in Range(b.tracked)
    BY <1>1, <1>2, <1>6, <2>1 DEF Progress, a
  <2>4. Range(b.tracked) \subseteq {"root"} \cup {Plan(b.levels)[j] : j \in 3..(b.at - 1)}
    BY <1>2, <1>6, <2>1 DEF Progress, a
  <2> QED
    BY <1>5, <2>1, <2>2, <2>3, <2>4 DEF Progress
<1>8. PiecesOf(c)'
  <2>1. PiecesOf(c)
    BY <1>2 DEF CreationInv, OwnPiecesStay, PiecesOf
  <2> HIDE DEF a
  <2> QED
    BY <1>1, <1>5, <1>6, <2>1 DEF PiecesOf, a
<1>9. OneVault'
  BY <1>1 DEF CreationInv, OneVault
<1>10. /\ dirs' \in SUBSET Dirs /\ "root" \in dirs' /\ "keystores" \in dirs'
       /\ InOrder(b.tracked) /\ b.levels >= 1
  BY <1>1, <1>2, <1>3, <1>6, UnderWay DEF Dirs
<1> HIDE DEF a
<1> QED
  BY <1>1, <1>3, <1>4, <1>5, <1>6, <1>7, <1>8, <1>9, <1>10, OneMoves, UnderWay DEF a

\* Where the owner of "keystores" writes a file, all it needs is there.
LEMMA FileStep ==
  ASSUME CreationInv, NEW c \in Creators, Step(c) \in Files
  PROVE  /\ Owns(c) /\ attempt[c] # NoAttempt /\ Parent(Step(c)) \in dirs
         /\ attempt[c].mode = "making" /\ attempt[c].at # 2
         /\ Step(c) \notin Range(attempt[c].tracked)
         /\ Step(c) = "header" => \A f \in Range(LevelFiles) : file[f] = Absent
         /\ Step(c) \in Range(LevelFiles) => file["header"] = attempt[c].number
         /\ attempt[c].at \in 4..6 => Step(c) = "header"
<1> DEFINE a == attempt[c]
<1>1. Step(c) # "none" /\ Step(c) # "look" /\ Step(c) \notin Dirs
  BY CreationAssumption DEF Files, Dirs
<1>2. /\ a.mode = "making" /\ Progress(c) /\ a \in AttemptRec /\ a.levels \in 1..Most
      /\ a.at \in 1..(9 + a.levels) /\ Step(c) = Plan(a.levels)[a.at]
      /\ Step(c) = "look" <=> a.at = 1
      /\ Step(c) = "root" <=> a.at = 2
      /\ Step(c) = "keystores" <=> a.at = 3
      /\ Step(c) \in {"blobs", "metadata"} <=> a.at \in {4, 5}
      /\ Step(c) = "header" <=> a.at = 6
      /\ Step(c) \in Range(LevelFiles) <=> a.at \in 7..(6 + a.levels)
      /\ Step(c) = "config" <=> a.at = 9 + a.levels
      /\ a.at # 2 => Step(c) \notin Range(a.tracked)
      /\ a.at >= 4 <=> Owns(c)
      /\ Most \in Nat
  BY <1>1, StepAt, NoAttemptFacts
<1>3. a.at \in Nat /\ a.at \notin {1, 2, 3, 4, 5}
  BY <1>1, <1>2 DEF Dirs, AttemptRec
<1>4. a.at >= 6 /\ Owns(c) /\ a # NoAttempt
  BY <1>2, <1>3, NoAttemptFacts
<1>5. "keystores" \in dirs /\ "root" \in dirs
  BY <1>4, UnderWay
<1>6. Step(c) = "config" => "levels" \in dirs
  BY <1>2 DEF Progress
<1>7. Parent(Step(c)) \in dirs
  BY <1>5, <1>6, Parents DEF Files
<1>8. Step(c) = "header" => \A f \in Range(LevelFiles) : file[f] = Absent
  BY <1>2 DEF Progress
<1>9. Step(c) \in Range(LevelFiles) => file["header"] = a.number
  <2>1. SUFFICES ASSUME Step(c) \in Range(LevelFiles) PROVE file["header"] = a.number
    OBVIOUS
  <2>2. 6 \in 3..(a.at - 1)
    BY <1>2, <2>1
  <2>3. "header" \in Range(a.tracked)
    BY <1>2, <2>2, PlanSteps DEF Progress
  <2> QED
    BY <1>2, <2>3 DEF CreationInv, OwnPiecesStay, Files
<1>10. a.at \in 4..6 => Step(c) = "header"
  BY <1>2, <1>3
<1> QED
  BY <1>2, <1>3, <1>4, <1>7, <1>8, <1>9, <1>10

\* A file is truncated by the owner, before it has tracked it.
LEMMA CreateFileStep ==
  ASSUME CreationInv, NEW c \in Creators, CreateFile(c) PROVE CreationInv'
<1> DEFINE a == attempt[c]
           b == [a EXCEPT !.half = TRUE]
<1>1. /\ Owns(c) /\ a # NoAttempt /\ Parent(Step(c)) \in dirs /\ Step(c) \in Files
      /\ a.mode = "making" /\ Step(c) \notin Range(a.tracked)
      /\ a.at \in 4..6 => Step(c) = "header"
  BY FileStep DEF CreateFile
<1>2. /\ file' = [file EXCEPT ![Step(c)] = Torn] /\ Becomes(c, b)
      /\ UNCHANGED <<dirs, attempts, deleting, built, history>>
  BY <1>1 DEF CreateFile
<1>3. a \in AttemptRec /\ file \in [Files -> Attempts \cup {Absent, Torn}]
  BY <1>1, UnderWay
<1>4. /\ b \in AttemptRec /\ b.mode = "making" /\ b.number = a.number /\ b.levels = a.levels
      /\ b.at = a.at /\ b.tracked = a.tracked /\ attempt'[c] = b
  BY <1>1, <1>2, <1>3 DEF AttemptRec, Becomes, CreationInv, Typed
<1> HIDE DEF b
<1>5. Progress(c)'
  <2>1. Progress(c)
    BY <1>1 DEF CreationInv, AttemptsInv
  <2>2. "header" \notin Range(LevelFiles)
    BY CreationAssumption
  <2>3. a.at \in 4..6 => \A f \in Range(LevelFiles) : file'[f] = Absent
    BY <1>1, <1>2, <1>3, <2>1, <2>2 DEF Progress, Files
  <2> HIDE DEF a
  <2> QED
    BY <1>2, <1>4, <2>1, <2>3 DEF Progress, a
<1>6. PiecesOf(c)'
  <2>1. PiecesOf(c)
    BY <1>1 DEF CreationInv, OwnPiecesStay, PiecesOf
  <2> QED
    BY <1>1, <1>2, <1>3, <1>4, <2>1 DEF PiecesOf
<1>7. OneVault'
  <2>1. OneVault /\ Torn \notin Attempts /\ "header" \in Files /\ Range(LevelFiles) \subseteq Files
    BY CreationAssumption DEF CreationInv, Files
  <2> QED
    BY <1>1, <1>2, <1>3, <2>1 DEF OneVault
<1>8. /\ file' \in [Files -> Attempts \cup {Absent, Torn}]
      /\ \A f \in Files : file'[f] # Absent => Parent(f) \in dirs'
  BY <1>1, <1>2, <1>3, UnderWay
<1>9. b.levels >= 1 /\ InOrder(b.tracked) /\ "keystores" \in dirs'
  <2>1. a.levels \in 1..Most /\ InOrder(a.tracked) /\ "keystores" \in dirs
    BY <1>1, UnderWay
  <2> QED
    BY <1>2, <1>4, <2>1, NoAttemptFacts
<1> HIDE DEF a
<1> QED
  BY <1>1, <1>2, <1>4, <1>5, <1>6, <1>7, <1>8, <1>9, OneMoves, UnderWay DEF a

\* A file is written by the owner: the header before any keystore, and a keystore
\* beside its own header.
LEMMA FillFileStep ==
  ASSUME CreationInv, NEW c \in Creators, FillFile(c) PROVE CreationInv'
<1> DEFINE a == attempt[c]
           b == attempt'[c]
           x == Step(c)
<1>1. /\ Owns(c) /\ a # NoAttempt /\ Parent(x) \in dirs /\ x \in Files \ {"config"}
      /\ a.mode = "making" /\ x \notin Range(a.tracked)
      /\ x = "header" => \A f \in Range(LevelFiles) : file[f] = Absent
      /\ x \in Range(LevelFiles) => file["header"] = a.number
      /\ a.at \in 4..6 => x = "header"
  BY FileStep DEF FillFile
<1>2. /\ file' = [file EXCEPT ![x] = a.number] /\ NextStep(c, <<x>>)
      /\ UNCHANGED <<dirs, attempts, deleting, built, history>>
  BY <1>1 DEF FillFile
<1>3. /\ a \in AttemptRec /\ file \in [Files -> Attempts \cup {Absent, Torn}]
      /\ a.number \in Attempts /\ a.number # Absent
  BY <1>1, UnderWay, CreationAssumption
<1>4. a.at \notin 3..5
  <2>1. x # "none" /\ x \notin Dirs
    BY <1>1, CreationAssumption DEF Files, Dirs
  <2>2. x = "keystores" <=> a.at = 3
    BY <2>1, StepAt
  <2>3. x \in {"blobs", "metadata"} <=> a.at \in {4, 5}
    BY <2>1, StepAt
  <2> QED
    BY <2>1, <2>2, <2>3, <1>3 DEF Dirs, AttemptRec
<1>5. x \notin {"none", "look", "levels", "config"}
  BY <1>1, CreationAssumption DEF Files, Dirs
<1>6. /\ b \in AttemptRec /\ Becomes(c, b) /\ b.mode = "making" /\ b.number = a.number
      /\ b.levels = a.levels /\ InOrder(b.tracked)
      /\ Range(b.tracked) = Range(a.tracked) \cup {x} /\ Progress(c)'
  BY <1>2, <1>4, <1>5, NextPiece
<1>7. PiecesOf(c)'
  <2>1. PiecesOf(c)
    BY <1>1 DEF CreationInv, OwnPiecesStay, PiecesOf
  <2>2. x \notin Dirs
    BY <1>1, CreationAssumption DEF Files, Dirs
  <2> QED
    BY <1>1, <1>2, <1>3, <1>6, <2>1, <2>2 DEF PiecesOf
<1>8. OneVault'
  <2>1. OneVault /\ "header" \in Files /\ Range(LevelFiles) \subseteq Files
        /\ "header" \notin Range(LevelFiles)
    BY CreationAssumption DEF CreationInv, Files
  <2> QED
    BY <1>1, <1>2, <1>3, <2>1 DEF OneVault
<1>9. /\ file' \in [Files -> Attempts \cup {Absent, Torn}]
      /\ \A f \in Files : file'[f] # Absent => Parent(f) \in dirs'
  BY <1>1, <1>2, <1>3, UnderWay
<1>10. b.levels >= 1 /\ "keystores" \in dirs'
  <2>1. a.levels \in 1..Most /\ "keystores" \in dirs
    BY <1>1, UnderWay
  <2> QED
    BY <1>2, <1>6, <2>1, NoAttemptFacts
<1> HIDE DEF a, b, x
<1> QED
  BY <1>1, <1>2, <1>6, <1>7, <1>8, <1>9, <1>10, OneMoves, UnderWay DEF a, b

\* The last of what an attempt made is undone; another attempt than the owner has at
\* most made the vault's own directory.
LEMMA UndoStep ==
  ASSUME CreationInv, NEW c \in Creators, Undo(c) PROVE CreationInv'
<1> DEFINE a == attempt[c]
           s == a.tracked
           b == [a EXCEPT !.tracked = Front(s)]
           x == Last(s)
<1>1. /\ a.mode = "undoing" /\ s # <<>> /\ Becomes(c, b)
      /\ dirs' = (IF x \in Dirs /\ Empty(x) THEN dirs \ {x} ELSE dirs)
      /\ file' = (IF x \in Files THEN [file EXCEPT ![x] = Absent] ELSE file)
      /\ UNCHANGED <<attempts, deleting, built>>
  BY DEF Undo
<1>2. a # NoAttempt
  BY <1>1, NoAttemptFacts
<1>3. /\ a \in AttemptRec /\ InOrder(s) /\ ~deleting /\ a.number \in Attempts
      /\ a.number \in 0..attempts /\ a.levels \in 1..Most /\ s \in Seq(Dirs \cup Files)
      /\ attempts \in attempts..MaxAttempts
      /\ dirs \in SUBSET Dirs /\ file \in [Files -> Attempts \cup {Absent, Torn}]
      /\ \A f \in Files : file[f] # Absent => Parent(f) \in dirs
      /\ "root" \notin dirs => dirs = {}
      /\ Owns(c) => "keystores" \in dirs
  BY <1>2, UnderWay DEF AttemptRec
<1>4. /\ x \in Range(s) /\ Front(s) \in Seq(Dirs \cup Files) /\ InOrder(Front(s))
      /\ "keystores" \in Range(Front(s)) <=> "keystores" \in Range(s) /\ x # "keystores"
      /\ x = "root" => "keystores" \notin Range(s)
  BY <1>1, <1>3, Undone
<1>5. /\ b \in AttemptRec /\ b.mode = "undoing" /\ b.number = a.number /\ b.levels = a.levels
      /\ b.tracked = Front(s) /\ attempt'[c] = b
  BY <1>1, <1>3, <1>4 DEF AttemptRec, Becomes, CreationInv, Typed
<1> HIDE DEF b
<1>6. Owns(c)' => "keystores" \in dirs' /\ Owns(c)
  BY <1>1, <1>3, <1>4, <1>5 DEF Owns
<1>7. Owns(c) \/ (file' = file /\ dirs \ {"root"} \subseteq dirs')
  <2>1. ~Owns(c) => x = "root"
    BY <1>3, <1>4, NotOwner DEF Owns
  <2>2. "root" \notin Files
    BY CreationAssumption DEF Files, Dirs
  <2> QED
    BY <1>1, <2>1, <2>2
<1>8. dirs' \in SUBSET Dirs /\ file' \in [Files -> Attempts \cup {Absent, Torn}]
  BY <1>1, <1>3
<1>9. \A f \in Files : file'[f] # Absent => Parent(f) \in dirs'
  BY <1>1, <1>3 DEF Empty
<1>10. "root" \notin dirs' => dirs' = {}
  BY <1>1, <1>3 DEF Empty
<1>11. OneVault'
  <2>1. OneVault /\ "header" \in Files /\ Range(LevelFiles) \subseteq Files /\ Absent \notin Attempts
    BY CreationAssumption DEF CreationInv, Files
  <2> QED
    BY <1>1, <1>3, <2>1 DEF OneVault
<1>12. b.levels >= 1
  BY <1>3, <1>5, NoAttemptFacts
<1> HIDE DEF a, x
<1> QED
  BY <1>1, <1>3, <1>4, <1>5, <1>6, <1>7, <1>8, <1>9, <1>10, <1>11, <1>12, OneMoves DEF a

\* The configuration is written last: all of the vault is there, and whole.
LEMMA CompleteStep ==
  ASSUME CreationInv, NEW c \in Creators, FillLevelsConfig(c) PROVE CreationInv'
<1> DEFINE a == attempt[c]
           n == a.levels
<1>1. /\ Step(c) = "config" /\ file' = [file EXCEPT !["config"] = a.number] /\ built' = a
      /\ Becomes(c, NoAttempt) /\ UNCHANGED <<dirs, attempts, deleting>>
  BY DEF FillLevelsConfig, Ends
<1>2. /\ a.mode = "making" /\ a \in AttemptRec /\ n \in 1..Most /\ a.number \in Attempts
      /\ Progress(c) /\ a.at = 9 + n /\ Most \in Nat
  BY <1>1, StepAt, NoAttemptFacts
<1>3. Owns(c) /\ a # NoAttempt /\ Parent("config") \in dirs
  BY <1>1, FileStep DEF Files
<1>4. /\ ~deleting /\ attempts \in attempts..MaxAttempts /\ 0 \in 0..attempts
      /\ dirs \in SUBSET Dirs /\ file \in [Files -> Attempts \cup {Absent, Torn}]
      /\ \A f \in Files : file[f] # Absent => Parent(f) \in dirs
      /\ "root" \notin dirs => dirs = {}
      /\ "keystores" \in dirs
  BY <1>3, UnderWay, NoAttemptFacts
<1>5. PiecesOf(c)
  BY <1>2 DEF CreationInv, OwnPiecesStay, PiecesOf
<1>6. \A j \in 3..(8 + n) : Plan(n)[j] # "levels" => Plan(n)[j] \in Range(a.tracked)
  <2>1. 9 + n - 1 = 8 + n
    BY <1>2
  <2> QED
    BY <1>2, <2>1 DEF Progress
<1>7. {3, 4, 5, 6, 7 + n} \subseteq 3..(8 + n) /\ \A i \in 1..n : 6 + i \in 7..(6 + n) /\ 6 + i - 6 = i
  BY <1>2
<1>8. {"keystores", "blobs", "metadata", "header", "recovery"} \subseteq Range(a.tracked)
  BY <1>2, <1>6, <1>7, PlanSteps
<1>9. dirs' = Dirs
  <2>1. "levels" \in dirs
    BY <1>2 DEF Progress
  <2>2. {"blobs", "metadata"} \subseteq dirs
    BY <1>5, <1>8 DEF PiecesOf, Dirs
  <2> QED
    BY <1>1, <1>4, <2>1, <2>2 DEF Dirs
<1>10. \A i \in 1..n : LevelFiles[i] \in Range(LevelFiles) /\ file[LevelFiles[i]] = a.number
  <2> SUFFICES ASSUME NEW i \in 1..n
               PROVE  LevelFiles[i] \in Range(LevelFiles) /\ file[LevelFiles[i]] = a.number
    OBVIOUS
  <2>1. i \in 1..Most /\ LevelFiles \in Seq(Range(LevelFiles))
    BY <1>2, CreationAssumption
  <2>2. LevelFiles[i] \in Range(LevelFiles)
    BY <2>1, ElementOfSeq DEF Most
  <2>3. Plan(n)[6 + i] = LevelFiles[i]
    BY <1>2, <1>7, PlanSteps
  <2>4. 6 + i \in 3..(8 + n) /\ LevelFiles[i] # "levels"
    BY <1>2, <2>2, CreationAssumption DEF Dirs
  <2> QED
    BY <1>5, <1>6, <2>2, <2>3, <2>4 DEF PiecesOf, Files
<1>11. Range(SubSeq(LevelFiles, 1, n)) \subseteq {LevelFiles[i] : i \in 1..n}
  <2> DEFINE S == Range(LevelFiles)
             t == SubSeq(LevelFiles, 1, n)
  <2>1. 1 \in Int /\ n \in Int /\ \A i \in 1..n : LevelFiles[i] \in S
    BY <1>2, <1>10
  <2> HIDE DEF S
  <2>2. /\ t \in Seq(S) /\ Len(t) = IF 1 <= n THEN n - 1 + 1 ELSE 0
        /\ \A i \in 1..(n - 1 + 1) : t[i] = LevelFiles[1 + i - 1]
    BY <2>1, SubSeqProperties
  <2> HIDE DEF t
  <2>3. t \in Seq(S) /\ Len(t) = n /\ \A i \in 1..n : t[i] = LevelFiles[i]
    BY <2>2, <1>2
  <2>4. Range(t) = {t[i] : i \in 1..n}
    BY <2>3, RangeEquality
  <2> QED
    BY <2>3, <2>4 DEF t
<1>12. \A f \in Pieces(n) : f \in Files /\ file'[f] = a.number
  <2>1. file["header"] = a.number /\ file["recovery"] = a.number
    BY <1>5, <1>8 DEF PiecesOf, Files
  <2>2. \A f \in Range(SubSeq(LevelFiles, 1, n)) : f \in Range(LevelFiles) /\ file[f] = a.number
    BY <1>10, <1>11
  <2> QED
    BY <1>1, <1>4, <2>1, <2>2 DEF Pieces, Files
<1>13. \A d \in Creators : ~Owns(d)'
  <2>1. attempt \in [Creators -> AttemptRec]
    BY DEF CreationInv, Typed
  <2>2. \A d \in Creators : attempt'[d] = IF d = c THEN NoAttempt ELSE attempt[d]
    BY <1>1, <2>1 DEF Becomes
  <2> QED
    BY <1>3, <2>2, NoAttemptFacts DEF Owns, CreationInv, LockInv
<1>14. BuiltInv'
  <2>1. a.levels >= 1
    BY <1>2
  <2> QED
    BY <1>1, <1>4, <1>9, <1>12, <1>13, <2>1 DEF BuiltInv, CompletedStays
<1>15. OneVault'
  <2>1. OneVault /\ "config" \in Files /\ Range(LevelFiles) \subseteq Files
        /\ "config" \notin Range(LevelFiles)
    BY CreationAssumption DEF CreationInv, Files
  <2> QED
    BY <1>1, <1>4, <2>1 DEF OneVault
<1>16. /\ file' \in [Files -> Attempts \cup {Absent, Torn}]
       /\ \A f \in Files : file'[f] # Absent => Parent(f) \in dirs'
  BY <1>1, <1>2, <1>3, <1>4
<1> HIDE DEF a, n
<1>17. built' \in AttemptRec
  BY <1>1, <1>2
<1>18. attempts' \in attempts..MaxAttempts /\ 0 \in 0..attempts'
  BY <1>1, <1>4
<1>19. dirs' \in SUBSET Dirs /\ "root" \in dirs'
  BY <1>9 DEF Dirs
<1> QED
  BY <1>1, <1>3, <1>4, <1>13, <1>14, <1>15, <1>16, <1>17, <1>18, <1>19, NoAttemptFacts, OneMoves

-----------------------------------------------------------------------------
(***************************************************************************)
(* Deletion.                                                               *)
(***************************************************************************)
\* delete_vault begins when no attempt is under way, and takes away from the path only.
LEMMA DeleteStep ==
  ASSUME CreationInv, StartDelete \/ DeleteOne \/ EndDelete PROVE CreationInv'
<1>1. NoAttempt \in AttemptRec
  BY NoAttemptFacts
<1>2. \A c \in Creators : attempt[c] = NoAttempt /\ attempt'[c] = NoAttempt
  BY DEF StartDelete, DeleteOne, EndDelete, NoneCreates, CreationInv, AttemptsInv
<1>3. \A c \in Creators : ~Owns(c)' /\ attempt'[c].mode # "making" /\ attempt'[c].mode = "idle"
        /\ InOrder(attempt'[c].tracked)
  BY <1>2, NoAttemptFacts DEF Owns
<1>4. AttemptsInv' /\ LockInv' /\ OwnPiecesStay'
  BY <1>2, <1>3 DEF AttemptsInv, LockInv, OwnPiecesStay
<1>5. built' = NoAttempt
  BY DEF StartDelete, DeleteOne, EndDelete, CreationInv, BuiltInv
<1>6. BuiltInv'
  BY <1>5 DEF BuiltInv, CompletedStays
<1>7. OneVault /\ "header" \in Files /\ Range(LevelFiles) \subseteq Files
      /\ file \in [Files -> Attempts \cup {Absent, Torn}] /\ Absent \notin Attempts
  BY CreationAssumption DEF CreationInv, Typed, CreationTypeOK, Files
<1>8. CASE StartDelete \/ EndDelete
  <2>1. UNCHANGED <<dirs, file, attempt, attempts>> /\ deleting' \in BOOLEAN
    BY <1>8 DEF StartDelete, EndDelete
  <2>2. Typed'
    BY <1>1, <1>5, <2>1 DEF CreationInv, Typed, CreationTypeOK
  <2>3. OneVault'
    BY <1>7, <2>1 DEF OneVault
  <2> QED
    BY <1>4, <1>6, <2>2, <2>3 DEF CreationInv
<1>9. CASE DeleteOne
  <2>1. UNCHANGED <<attempt, attempts, deleting, built>>
    BY <1>9 DEF DeleteOne
  <2>2. CASE \E f \in Files : file[f] # Absent /\ file' = [file EXCEPT ![f] = Absent] /\ dirs' = dirs
    <3>1. PICK f \in Files : file' = [file EXCEPT ![f] = Absent] /\ dirs' = dirs
      BY <2>2
    <3>2. OneVault'
      BY <1>7, <3>1 DEF OneVault
    <3>3. CreationTypeOK'
      BY <1>7, <2>1, <3>1 DEF CreationInv, Typed, CreationTypeOK
    <3>4. Typed'
      BY <2>1, <3>3 DEF CreationInv, Typed
    <3> QED
      BY <1>4, <1>6, <3>2, <3>4 DEF CreationInv
  <2>3. CASE \E d \in dirs : Empty(d) /\ dirs' = dirs \ {d} /\ file' = file
    <3>1. PICK d \in dirs : Empty(d) /\ dirs' = dirs \ {d} /\ file' = file
      BY <2>3
    <3>2. OneVault'
      BY <1>7, <3>1 DEF OneVault
    <3>3. CreationTypeOK'
      BY <2>1, <3>1 DEF CreationInv, Typed, CreationTypeOK, Empty
    <3>4. Typed'
      BY <2>1, <3>3 DEF CreationInv, Typed
    <3> QED
      BY <1>4, <1>6, <3>2, <3>4 DEF CreationInv
  <2> QED
    BY <1>9, <2>2, <2>3 DEF DeleteOne
<1> QED
  BY <1>8, <1>9

-----------------------------------------------------------------------------
(***************************************************************************)
(* The specification.                                                      *)
(***************************************************************************)
\* Nothing is at the path but possibly the directory.
LEMMA InitCreation == CreationInit => CreationInv
<1> SUFFICES ASSUME CreationInit PROVE CreationInv
  OBVIOUS
<1>1. \A c \in Creators : attempt[c] = NoAttempt
  BY DEF CreationInit
<1>2. \A c \in Creators : ~Owns(c) /\ attempt[c].mode # "making" /\ InOrder(attempt[c].tracked)
        /\ attempt[c].mode = "idle"
  BY <1>1, NoAttemptFacts DEF Owns
<1>3. AttemptsInv /\ LockInv /\ OwnPiecesStay
  BY <1>1, <1>2 DEF AttemptsInv, LockInv, OwnPiecesStay
<1>4. BuiltInv
  BY DEF CreationInit, BuiltInv, CompletedStays
<1>5. OneVault
  BY CreationAssumption DEF CreationInit, OneVault, Files
<1>6. Typed
  <2>1. dirs \in SUBSET Dirs /\ ("root" \notin dirs => dirs = {})
    BY DEF CreationInit, Dirs
  <2>2. \A f \in Files : file[f] = Absent
    BY DEF CreationInit
  <2>3. file \in [Files -> Attempts \cup {Absent, Torn}] /\ deleting \in BOOLEAN
    BY DEF CreationInit
  <2>6. attempts \in 0..MaxAttempts
    BY NoAttemptFacts DEF CreationInit
  <2>4. \A c \in Creators : attempt[c].number \in 0..attempts /\ Range(attempt[c].tracked) = {}
    BY <1>1, NoAttemptFacts DEF CreationInit
  <2>5. attempt \in [Creators -> AttemptRec] /\ built \in AttemptRec
    BY NoAttemptFacts DEF CreationInit
  <2> QED
    BY <1>2, <2>1, <2>2, <2>3, <2>4, <2>5, <2>6 DEF Typed, CreationTypeOK
<1> QED
  BY <1>3, <1>4, <1>5, <1>6 DEF CreationInv

\* Every step of create_vault, delete_vault and of a crash keeps the invariant.
LEMMA CreationStep == CreationInv /\ [CreationNext]_creationVars => CreationInv'
<1> SUFFICES ASSUME CreationInv, [CreationNext]_creationVars PROVE CreationInv'
  OBVIOUS
<1>1. ASSUME NEW c \in Creators, CreateVault(c) \/ CrashCreation(c) PROVE CreationInv'
  <2>1. ASSUME NEW n \in 1..Len(LevelFiles), Start(c, n) PROVE CreationInv'
    BY <2>1, StartStep DEF Most
  <2>2. CASE LookForRoot(c)
    BY <2>2, LookStep
  <2>3. CASE MakeRoot(c)
    BY <2>3, MakeStep
  <2>4. ASSUME Step(c) # "none" PROVE attempt[c] # NoAttempt
    BY <2>4, NoAttemptFacts DEF Step
  <2>5. CASE MakeDir(c)
    <3>1. CASE "root" \in dirs /\ Step(c) \notin dirs
      BY <2>5, <3>1, MakeStep
    <3>2. CASE ~("root" \in dirs /\ Step(c) \notin dirs)
      BY <2>4, <2>5, <3>2, Stops DEF MakeDir
    <3> QED
      BY <3>1, <3>2
  <2>6. CASE EnsureLevelsDir(c)
    BY <2>6, LevelsDirStep
  <2>7. CASE CreateFile(c)
    BY <2>7, CreateFileStep
  <2>8. CASE FillFile(c)
    BY <2>8, FillFileStep
  <2>9. CASE FillLevelsConfig(c)
    BY <2>9, CompleteStep
  <2>10. CASE Fail(c)
    BY <2>10, NoAttemptFacts, Stops DEF Fail
  <2>11. CASE FailRandom(c)
    BY <2>4, <2>11, Stops DEF FailRandom, Ends
  <2>12. CASE Undo(c)
    BY <2>12, UndoStep
  <2>13. CASE GiveUp(c)
    BY <2>13, NoAttemptFacts, Stops DEF GiveUp, Ends
  <2>14. CASE CrashCreation(c)
    BY <2>14, Stops DEF CrashCreation, Ends
  <2> QED
    BY <1>1, <2>1, <2>2, <2>3, <2>5, <2>6, <2>7, <2>8, <2>9, <2>10, <2>11, <2>12, <2>13, <2>14
    DEF CreateVault
<1>2. CASE StartDelete \/ DeleteOne \/ EndDelete
  BY <1>2, DeleteStep
<1>3. CASE UNCHANGED creationVars
  <2> USE <1>3 DEF creationVars, CreationInv
  <2>1. Typed'
    BY DEF Typed, CreationTypeOK
  <2>2. \A c \in Creators : Progress(c) => Progress(c)'
    BY DEF Progress
  <2>3. AttemptsInv'
    BY <2>2 DEF AttemptsInv
  <2>4. LockInv' /\ BuiltInv'
    BY DEF LockInv, BuiltInv, CompletedStays, Owns
  <2>5. OwnPiecesStay' /\ OneVault'
    BY DEF OwnPiecesStay, OneVault
  <2> QED
    BY <2>1, <2>3, <2>4, <2>5
<1> QED
  BY <1>1, <1>2, <1>3 DEF CreationNext

\* The invariant holds in every state of every run.
LEMMA CreationAlways == CreationSpec => []CreationInv
<1> QED
  BY InitCreation, CreationStep, PTL DEF CreationSpec

\* Each variable has its type, every file lies in a directory that is there, and the
\* vault's own directory is the last to go.
THEOREM CreationTypesHold == CreationSpec => []CreationTypeOK
<1>1. CreationInv => CreationTypeOK
  BY DEF CreationInv, Typed
<1> QED
  BY <1>1, CreationAlways, PTL

\* "Existing vaults are never overwritten": whatever other calls of create_vault do
\* at the path at the same time, and wherever they die, a vault that has been made stays.
THEOREM ExistingVaultStays == CreationSpec => []CompletedStays
<1>1. CreationInv => CompletedStays
  BY DEF CreationInv, BuiltInv
<1> QED
  BY <1>1, CreationAlways, PTL

\* The rollback of one attempt takes nothing of another that is under way.
THEOREM RollbackIsOwn == CreationSpec => []OwnPiecesStay
<1>1. CreationInv => OwnPiecesStay
  BY DEF CreationInv
<1> QED
  BY <1>1, CreationAlways, PTL

\* A whole header never stands beside a keystore another attempt wrote.
THEOREM VaultIsOfOneAttempt == CreationSpec => []OneVault
<1>1. CreationInv => OneVault
  BY DEF CreationInv
<1> QED
  BY <1>1, CreationAlways, PTL
=============================================================================
