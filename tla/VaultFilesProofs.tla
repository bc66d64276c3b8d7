--------------------------- MODULE VaultFilesProofs ---------------------------
(***************************************************************************)
(* Proofs about the files of a vault, for every number of files, levels,   *)
(* directories and names: what an error or a crash leaves, at whichever    *)
(* statement it comes, and that the operations implement the catalogue.    *)
(*                                                                         *)
(* A file no operation is at is as the user was told, on disk and in the   *)
(* session.  The file of the operation under way is described statement by *)
(* statement: which keystores name it, in memory and on disk, and what its *)
(* blob and its metadata hold.                                             *)
(***************************************************************************)
EXTENDS VaultFiles, TLAPS

Operation == {"import", "delete", "relocate", "set_level", "assign"}

JobRec ==
  [op : Operation, file : Files, from : Levels, to : Levels, path : Path \cup {Absent},
   at : 1..5, half : BOOLEAN, text : MetaRec \cup {Absent}]

\* The operation under way is one that its checks let through.
JobOK ==
  job # NoJob =>
    /\ job \in JobRec /\ job.at <= Len(Plan[job.op])
    /\ job.file \in drawn /\ {job.from, job.to} \subseteq unlocked
    /\ job.op \in {"import", "relocate"} => job.path \in Path
    /\ job.from = job.to <=> job.op \in {"import", "delete", "relocate"}

\* Nothing is promised of a file an operation has failed on, or that was never drawn.
LedgerOK ==
  \A f \in Files :
    /\ cut[f] # "none" => known[f] = Absent
    /\ f \notin drawn => known[f] = Absent /\ cut[f] = "none"

Text(l, p) == [key |-> l, level |-> l, path |-> p]

OnDisk(f, l) == store[l] # Torn /\ f \in store[l]

Gone(f) ==
  /\ blob[f] = "absent" /\ meta[f] = Absent
  /\ \A l \in Levels : f \notin mem[l] /\ ~OnDisk(f, l)

Kept(f, e) ==
  /\ blob[f] = "whole" /\ meta[f] = Text(e.level, e.path)
  /\ \A l \in unlocked : f \in mem[l] <=> l = e.level
  /\ \A l \in Levels : store[l] # Torn => (f \in store[l] <=> l = e.level)

Sound(f) ==
  \A l \in Levels : f \in mem[l] \/ OnDisk(f, l) => blob[f] = "whole" /\ Readable(f, l)

\* A file no operation is at: as the user was told, or what a cut import leaves.
Settled(f) ==
  /\ cut[f] = "none" /\ known[f] = Absent => Gone(f)
  /\ cut[f] = "none" /\ known[f] # Absent => Kept(f, known[f])
  /\ cut[f] = "import" => Sound(f)

\* The levels whose keystores name the file of the operation, in memory and on disk,
\* at each of its statements.
MemLevels ==
  CASE job.op = "import"   -> IF job.at <= 3 THEN {} ELSE {job.to}
    [] job.op = "delete"   -> IF job.at <= 3 THEN {job.from} ELSE {}
    [] job.op = "relocate" -> {job.from}
    [] job.op = "assign"   -> IF job.at = 1 THEN {job.from}
                              ELSE IF job.at = 2 THEN {} ELSE {job.to}

StoreLevels ==
  CASE job.op = "import" -> {}
    [] job.op \in {"delete", "relocate"} -> {job.from}
    [] job.op = "assign" -> IF job.at <= 3 THEN {job.from}
                            ELSE IF job.at = 4 THEN {} ELSE {job.to}

\* set_access_level stops at the metadata of a file that has one: its key is wrong.
Placing ==
  LET f == job.file IN
  cut[f] \in {"none", "import"} /\ job.op # "set_level" =>
    /\ \A l \in Levels : f \in mem[l] => l \in MemLevels
    /\ \A l \in Levels : OnDisk(f, l) => l \in StoreLevels
    /\ cut[f] = "none" =>
         /\ \A l \in MemLevels : f \in mem[l]
         /\ \A l \in StoreLevels : store[l] # Torn => f \in store[l]

Writing ==
  LET f == job.file
      half == At("meta") /\ job.half
  IN
  /\ job.op = "import" =>
       /\ cut[f] = "none" /\ known[f] = Absent
       /\ job.at >= 2 => blob[f] = "whole"
       /\ half => job.text = Text(job.to, job.path)
       /\ job.at >= 3 => meta[f] = Text(job.to, job.path)
  /\ job.op = "delete" =>
       /\ job.at >= 2 => blob[f] = "absent"
       /\ job.at >= 3 => meta[f] = Absent
  /\ cut[f] = "none" /\ job.op # "import" => known[f] # Absent /\ known[f].level = job.from
  /\ cut[f] \in {"none", "import"} /\ job.op \in {"relocate", "assign"} =>
       /\ blob[f] = "whole"
       /\ ~half => Readable(f, job.from)
       /\ half => job.text \in MetaRec /\ job.text.key = job.to
  /\ cut[f] \in {"none", "import"} /\ job.op = "set_level" => ~half /\ Readable(f, job.from)
  /\ cut[f] = "none" /\ job.op \in {"relocate", "assign"} =>
       /\ ~half => meta[f] = Text(job.from, known[f].path)
       /\ half => job.text = Text(job.to, IF job.op = "relocate" THEN job.path
                                           ELSE known[f].path)

FilesInv ==
  /\ TypeOK /\ JobOK /\ LedgerOK
  /\ \A f \in Files \ {job.file} : Settled(f)
  /\ job # NoJob => Placing /\ Writing

-----------------------------------------------------------------------------
(***************************************************************************)
(* The plans, and the job record.                                          *)
(***************************************************************************)
\* Which statement of which operation each step is.
LEMMA PlanSteps ==
  /\ DOMAIN Plan = Operation
  /\ Len(Plan["import"]) = 4 /\ Plan["import"][1] = "blob" /\ Plan["import"][2] = "meta"
  /\ Plan["import"][3] = "add_to" /\ Plan["import"][4] = "persist_to"
  /\ Len(Plan["delete"]) = 4 /\ Plan["delete"][1] = "unblob" /\ Plan["delete"][2] = "unmeta"
  /\ Plan["delete"][3] = "remove_from" /\ Plan["delete"][4] = "persist_from"
  /\ Len(Plan["relocate"]) = 1 /\ Plan["relocate"][1] = "meta"
  /\ Len(Plan["set_level"]) = 5 /\ Plan["set_level"][1] = "add_to"
  /\ Plan["set_level"][2] = "persist_to" /\ Plan["set_level"][3] = "remove_from"
  /\ Plan["set_level"][4] = "persist_from" /\ Plan["set_level"][5] = "meta"
  /\ Len(Plan["assign"]) = 5 /\ Plan["assign"][1] = "remove_from"
  /\ Plan["assign"][2] = "add_to" /\ Plan["assign"][3] = "persist_from"
  /\ Plan["assign"][4] = "persist_to" /\ Plan["assign"][5] = "meta"
  BY DEF Plan, ImportPlan, DeletePlan, SetLevelPlan, AssignPlan, Operation

\* No operation is under way when the job is NoJob.
LEMMA NoJobFacts ==
  /\ NoJob.file = Absent /\ NoJob.op = "none" /\ NoJob.at \in 0..5 /\ NoJob.half \in BOOLEAN
  /\ Absent \notin Files /\ NoJob \notin JobRec
  BY FileAssumption DEF NoJob, JobRec

\* At which statements of which operations a step is taken.
LEMMA StepAt ==
  ASSUME JobOK, NEW s, At(s)
  PROVE  /\ job # NoJob /\ job \in JobRec /\ job.op \in Operation /\ job.file \in Files
         /\ job.from \in Levels /\ job.to \in Levels
         /\ job.at \in 1..Len(Plan[job.op])
         /\ s = "blob" => job.op = "import" /\ job.at = 1
         /\ s = "unblob" => job.op = "delete" /\ job.at = 1
         /\ s = "unmeta" => job.op = "delete" /\ job.at = 2
         /\ s = "add_to" => \/ job.op = "import" /\ job.at = 3
                            \/ job.op = "set_level" /\ job.at = 1
                            \/ job.op = "assign" /\ job.at = 2
         /\ s = "remove_from" => \/ job.op = "delete" /\ job.at = 3
                                 \/ job.op = "set_level" /\ job.at = 3
                                 \/ job.op = "assign" /\ job.at = 1
         /\ s = "persist_from" => \/ job.op = "delete" /\ job.at = 4
                                  \/ job.op = "set_level" /\ job.at = 4
                                  \/ job.op = "assign" /\ job.at = 3
         /\ s = "persist_to" => \/ job.op = "import" /\ job.at = 4
                                \/ job.op = "set_level" /\ job.at = 2
                                \/ job.op = "assign" /\ job.at = 4
         /\ s = "meta" => \/ job.op = "import" /\ job.at = 2
                          \/ job.op = "relocate" /\ job.at = 1
                          \/ job.op = "set_level" /\ job.at = 5
                          \/ job.op = "assign" /\ job.at = 5
<1>1. /\ job # NoJob /\ job \in JobRec /\ job.op \in Operation /\ job.file \in Files
      /\ job.from \in Levels /\ job.to \in Levels /\ job.at \in 1..5
      /\ job.at <= Len(Plan[job.op]) /\ Plan[job.op][job.at] = s
  BY DEF JobOK, At, JobRec
<1>2. CASE job.op = "import"
  <2>1. job.at \in 1..4
    BY <1>1, <1>2, PlanSteps
  <2> QED
    BY <1>1, <1>2, <2>1, PlanSteps
<1>3. CASE job.op = "delete"
  <2>1. job.at \in 1..4
    BY <1>1, <1>3, PlanSteps
  <2> QED
    BY <1>1, <1>3, <2>1, PlanSteps
<1>4. CASE job.op = "relocate"
  <2>1. job.at \in 1..1
    BY <1>1, <1>4, PlanSteps
  <2> QED
    BY <1>1, <1>4, <2>1, PlanSteps
<1>5. CASE job.op = "set_level"
  BY <1>1, <1>5, PlanSteps
<1>6. CASE job.op = "assign"
  BY <1>1, <1>6, PlanSteps
<1> QED
  BY <1>1, <1>2, <1>3, <1>4, <1>5, <1>6 DEF Operation

\* A job as each call begins it.
LEMMA Begun ==
  ASSUME NEW op \in Operation, NEW f \in Files, NEW from \in Levels, NEW to \in Levels,
         NEW path \in Path \cup {Absent}, Begin(op, f, from, to, path)
  PROVE  /\ job' \in JobRec /\ job'.op = op /\ job'.file = f /\ job'.from = from
         /\ job'.to = to /\ job'.path = path /\ job'.at = 1 /\ job'.half = FALSE
<1>1. job' = [op |-> op, file |-> f, from |-> from, to |-> to, path |-> path,
              at |-> 1, half |-> FALSE, text |-> Absent]
  BY DEF Begin, NoJob
<1> QED
  BY <1>1 DEF JobRec

\* The step after File::create is the one that writes.
LEMMA Opened ==
  ASSUME job \in JobRec, NEW text \in MetaRec \cup {Absent}, Truncated(text)
  PROVE  /\ job' \in JobRec /\ job'.op = job.op /\ job'.file = job.file /\ job'.from = job.from
         /\ job'.to = job.to /\ job'.path = job.path /\ job'.at = job.at /\ job'.half = TRUE
         /\ job'.text = text
  BY DEF Truncated, JobRec

\* A statement is done; after the last, the call returns Ok.
LEMMA Advanced ==
  ASSUME JobOK, job # NoJob, Advance, job.at < Len(Plan[job.op])
  PROVE  /\ job' \in JobRec /\ job'.op = job.op /\ job'.file = job.file /\ job'.from = job.from
         /\ job'.to = job.to /\ job'.path = job.path /\ job'.at = job.at + 1
         /\ job'.half = FALSE /\ job'.text = job.text
         /\ UNCHANGED <<drawn, known, cut>>
<1>1. job \in JobRec /\ job.at + 1 \in 1..5
  <2>1. job \in JobRec
    BY DEF JobOK
  <2> DEFINE m == Len(Plan[job.op])
  <2>2. m \in {1, 4, 5} /\ job.at \in 1..5 /\ job.at < m
    BY <2>1, PlanSteps DEF JobRec, Operation
  <2> HIDE DEF m
  <2> QED
    BY <2>1, <2>2
<1> QED
  BY <1>1 DEF Advance, JobRec

-----------------------------------------------------------------------------
(***************************************************************************)
(* The shapes of a step: one that leaves a file alone, one in the middle   *)
(* of an operation, and one that ends it.                                  *)
(***************************************************************************)
\* A step that leaves a file alone: a keystore read or saved names it as before.
Untouched(f) ==
  /\ blob'[f] = blob[f] /\ meta'[f] = meta[f] /\ known'[f] = known[f] /\ cut'[f] = cut[f]
  /\ \A l \in unlocked' :
       IF l \in unlocked THEN f \in mem'[l] <=> f \in mem[l]
       ELSE store[l] # Torn /\ (f \in mem'[l] <=> f \in store[l])
  /\ \A l \in Levels : store'[l] # Torn =>
       \/ store[l] # Torn /\ (f \in store'[l] <=> f \in store[l])
       \/ l \in unlocked /\ (f \in store'[l] <=> f \in mem[l])

\* A settled file that a step leaves alone stays settled.
LEMMA StaysSettled ==
  ASSUME TypeOK, TypeOK', NEW f \in Files, Settled(f), Untouched(f)
  PROVE  Settled(f)'
<1>1. \A l \in Levels : f \in mem'[l] => f \in mem[l] \/ OnDisk(f, l)
  BY DEF TypeOK, Untouched, OnDisk
<1>2. \A l \in Levels : OnDisk(f, l)' => f \in mem[l] \/ OnDisk(f, l)
  BY DEF TypeOK, Untouched, OnDisk
<1>3. Gone(f) => Gone(f)'
  BY <1>1, <1>2 DEF Gone, Untouched
<1>4. ASSUME NEW e, Kept(f, e)
      PROVE  Kept(f, e)'
  <2>1. \A l \in unlocked' : f \in mem'[l] <=> l = e.level
    BY <1>4 DEF Kept, Untouched, TypeOK
  <2>2. \A l \in Levels : store'[l] # Torn => (f \in store'[l] <=> l = e.level)
    BY <1>4 DEF Kept, Untouched, TypeOK
  <2> QED
    BY <1>4, <2>1, <2>2 DEF Kept, Untouched
<1>5. Sound(f) => Sound(f)'
  BY <1>1, <1>2 DEF Sound, Untouched, Readable
<1> QED
  BY <1>3, <1>4, <1>5 DEF Settled, Untouched

\* A step in the middle of an operation.
LEMMA MiddleStep ==
  ASSUME FilesInv, job # NoJob, TypeOK', job' \in JobRec, job'.at <= Len(Plan[job.op]),
         job'.op = job.op, job'.file = job.file, job'.from = job.from, job'.to = job.to,
         job'.path = job.path, UNCHANGED <<unlocked, drawn, known, cut>>,
         \A f \in Files \ {job.file} : Untouched(f),
         Placing', Writing'
  PROVE  FilesInv'
<1>1. JobOK'
  BY DEF FilesInv, JobOK
<1>2. LedgerOK'
  BY DEF FilesInv, LedgerOK
<1>3. \A f \in Files \ {job'.file} : Settled(f)'
  BY StaysSettled DEF FilesInv
<1> QED
  BY <1>1, <1>2, <1>3 DEF FilesInv

\* A step that ends an operation.
LEMMA LastStep ==
  ASSUME FilesInv, job # NoJob, TypeOK', job' = NoJob, drawn' = drawn,
         NEW g \in Files, g = job.file, known'[g] # Absent => cut'[g] = "none",
         \A f \in Files \ {g} : Untouched(f), Settled(g)'
  PROVE  FilesInv'
<1>1. JobOK'
  BY DEF JobOK
<1>2. LedgerOK'
  <2>1. job.file \in drawn
    BY DEF FilesInv, JobOK
  <2>2. \A f \in Files \ {job.file} : known'[f] = known[f] /\ cut'[f] = cut[f]
    BY DEF Untouched
  <2> QED
    BY <2>1, <2>2 DEF FilesInv, LedgerOK
<1>3. \A f \in Files : Settled(f)'
  BY StaysSettled DEF FilesInv
<1> QED
  BY <1>1, <1>2, <1>3 DEF FilesInv

\* An operation is cut off, or refused: nothing is promised of its file any more, and
\* a cut import left no keystore that names it, or a whole file.
LEMMA EndStep ==
  ASSUME FilesInv, job # NoJob, TypeOK', NEW error \in Operation \cup {"refused", "failed"},
         EndsIn(error), NEW g \in Files, g = job.file,
         \A f \in Files \ {g} :
           known'[f] = known[f] /\ cut'[f] = cut[f] => Untouched(f),
         error = "import" => Sound(g)'
  PROVE  FilesInv'
<1>1. /\ job.file \in Files /\ cut \in [Files -> Operation \cup {"none", "refused", "failed"}]
      /\ known \in [Files -> Entry \cup {Absent}]
  BY PlanSteps DEF FilesInv, JobOK, JobRec, TypeOK
<1>2. /\ job' = NoJob /\ drawn' = drawn /\ cut'[job.file] = error /\ known'[job.file] = Absent
      /\ \A f \in Files \ {job.file} : known'[f] = known[f] /\ cut'[f] = cut[f]
  BY <1>1 DEF EndsIn
<1>3. error # "none"
  BY DEF Operation
<1>4. Settled(g)'
  BY <1>2, <1>3 DEF Settled
<1> QED
  BY <1>2, <1>4, LastStep

\* The last statement is done: the call returns Ok.
LEMMA Finished ==
  ASSUME JobOK, job # NoJob, Advance, ~(job.at < Len(Plan[job.op]))
  PROVE  job' = NoJob /\ known' = Told /\ UNCHANGED <<drawn, cut>>
  BY DEF Advance

\* A job under way, and its file.
LEMMA UnderWay ==
  ASSUME FilesInv, job # NoJob
  PROVE  /\ job \in JobRec /\ job.op \in Operation /\ job.file \in Files /\ job.file \in drawn
         /\ job.from \in Levels /\ job.to \in Levels /\ job.from \in unlocked /\ job.to \in unlocked
         /\ job.at \in 1..5 /\ job.at <= Len(Plan[job.op])
         /\ unlocked \subseteq Levels /\ Placing /\ Writing
  BY DEF FilesInv, JobOK, JobRec, TypeOK

-----------------------------------------------------------------------------
(***************************************************************************)
(* The statements.                                                         *)
(***************************************************************************)
\* An entry is added in memory.
LEMMA AddStep == ASSUME FilesInv, AddDek PROVE FilesInv'
<1> DEFINE g == job.file
<1>1. /\ job # NoJob /\ At("add_to") /\ Advance
      /\ mem' = [mem EXCEPT ![job.to] = @ \cup {g}]
      /\ UNCHANGED <<blob, meta, store, unlocked>>
  BY DEF AddDek, At, disk
<1>2. /\ job \in JobRec /\ g \in Files /\ job.to \in unlocked /\ job.to \in Levels
      /\ unlocked \subseteq Levels /\ Placing /\ Writing /\ JobOK /\ TypeOK
      /\ mem \in [Levels -> SUBSET Files]
  BY <1>1, UnderWay DEF FilesInv, TypeOK
<1>3. \/ job.op = "import" /\ job.at = 3
      \/ job.op = "set_level" /\ job.at = 1
      \/ job.op = "assign" /\ job.at = 2
  BY <1>1, <1>2, StepAt
<1>4. job.at < Len(Plan[job.op])
  BY <1>3, PlanSteps
<1>5. /\ job' \in JobRec /\ job'.op = job.op /\ job'.file = g /\ job'.from = job.from
      /\ job'.to = job.to /\ job'.path = job.path /\ job'.at = job.at + 1
      /\ job'.half = FALSE /\ job'.text = job.text /\ UNCHANGED <<drawn, known, cut>>
  BY <1>1, <1>2, <1>4, Advanced
<1>6. TypeOK'
  BY <1>1, <1>2, <1>5 DEF TypeOK, JobRec
<1>7. \A f \in Files \ {g} : Untouched(f)
  BY <1>1, <1>2, <1>5 DEF Untouched
<1>8. Placing'
  <2>1. CASE job.op = "import"
    BY <1>1, <1>2, <1>3, <1>5, <2>1 DEF Placing, MemLevels, StoreLevels, OnDisk
  <2>2. CASE job.op = "set_level"
    BY <1>5, <2>2 DEF Placing
  <2>3. CASE job.op = "assign"
    BY <1>1, <1>2, <1>3, <1>5, <2>3 DEF Placing, MemLevels, StoreLevels, OnDisk
  <2> QED
    BY <1>3, <2>1, <2>2, <2>3
<1>9. Writing'
  <2>1. CASE job.op = "import"
    BY <1>1, <1>2, <1>3, <1>5, <2>1 DEF Writing, Readable, At
  <2>2. CASE job.op = "set_level"
    BY <1>1, <1>2, <1>3, <1>5, <2>2 DEF Writing, Readable, At
  <2>3. CASE job.op = "assign"
    BY <1>1, <1>2, <1>3, <1>5, <2>3 DEF Writing, Readable, At
  <2> QED
    BY <1>3, <2>1, <2>2, <2>3
<1>10. job'.at <= Len(Plan[job.op])
  BY <1>3, <1>5, PlanSteps
<1> HIDE DEF g
<1> QED
  BY <1>1, <1>5, <1>6, <1>7, <1>8, <1>9, <1>10, MiddleStep DEF g

\* An entry is removed in memory.
LEMMA RemoveStep == ASSUME FilesInv, RemoveDek PROVE FilesInv'
<1> DEFINE g == job.file
<1>1. /\ job # NoJob /\ At("remove_from") /\ Advance
      /\ mem' = [mem EXCEPT ![job.from] = @ \ {g}]
      /\ UNCHANGED <<blob, meta, store, unlocked>>
  BY DEF RemoveDek, At, disk
<1>2. /\ job \in JobRec /\ g \in Files /\ job.from \in unlocked /\ job.from \in Levels
      /\ unlocked \subseteq Levels /\ Placing /\ Writing /\ JobOK /\ TypeOK
      /\ mem \in [Levels -> SUBSET Files]
  BY <1>1, UnderWay DEF FilesInv, TypeOK
<1>3. \/ job.op = "delete" /\ job.at = 3
      \/ job.op = "set_level" /\ job.at = 3
      \/ job.op = "assign" /\ job.at = 1
  BY <1>1, <1>2, StepAt
<1>4. job.at < Len(Plan[job.op])
  BY <1>3, PlanSteps
<1>5. /\ job' \in JobRec /\ job'.op = job.op /\ job'.file = g /\ job'.from = job.from
      /\ job'.to = job.to /\ job'.path = job.path /\ job'.at = job.at + 1
      /\ job'.half = FALSE /\ job'.text = job.text /\ UNCHANGED <<drawn, known, cut>>
  BY <1>1, <1>2, <1>4, Advanced
<1>6. TypeOK'
  BY <1>1, <1>2, <1>5 DEF TypeOK, JobRec
<1>7. \A f \in Files \ {g} : Untouched(f)
  BY <1>1, <1>2, <1>5 DEF Untouched
<1>8. Placing'
  <2>1. CASE job.op = "delete"
    BY <1>1, <1>2, <1>3, <1>5, <2>1 DEF Placing, MemLevels, StoreLevels, OnDisk
  <2>2. CASE job.op = "set_level"
    BY <1>5, <2>2 DEF Placing
  <2>3. CASE job.op = "assign"
    BY <1>1, <1>2, <1>3, <1>5, <2>3 DEF Placing, MemLevels, StoreLevels, OnDisk
  <2> QED
    BY <1>3, <2>1, <2>2, <2>3
<1>9. Writing'
  <2>1. CASE job.op = "delete"
    BY <1>1, <1>2, <1>3, <1>5, <2>1 DEF Writing, Readable, At
  <2>2. CASE job.op = "set_level"
    BY <1>1, <1>2, <1>3, <1>5, <2>2 DEF Writing, Readable, At
  <2>3. CASE job.op = "assign"
    BY <1>1, <1>2, <1>3, <1>5, <2>3 DEF Writing, Readable, At
  <2> QED
    BY <1>3, <2>1, <2>2, <2>3
<1>10. job'.at <= Len(Plan[job.op])
  BY <1>3, <1>5, PlanSteps
<1> HIDE DEF g
<1> QED
  BY <1>1, <1>5, <1>6, <1>7, <1>8, <1>9, <1>10, MiddleStep DEF g

\* The blob is created.
LEMMA CreateBlobStep == ASSUME FilesInv, CreateBlob PROVE FilesInv'
<1> DEFINE g == job.file
<1>1. /\ job # NoJob /\ At("blob") /\ Truncated(Absent)
      /\ blob' = [blob EXCEPT ![g] = "torn"]
      /\ UNCHANGED <<meta, store, unlocked, mem, drawn, known, cut>>
  BY DEF CreateBlob, Truncated, At, session, ledger
<1>2. /\ job \in JobRec /\ g \in Files /\ Placing /\ Writing /\ JobOK /\ TypeOK
      /\ job.at <= Len(Plan[job.op])
  BY <1>1, UnderWay DEF FilesInv
<1>3. job.op = "import" /\ job.at = 1
  BY <1>1, <1>2, StepAt
<1>4. /\ job' \in JobRec /\ job'.op = job.op /\ job'.file = g /\ job'.from = job.from
      /\ job'.to = job.to /\ job'.path = job.path /\ job'.at = job.at
  BY <1>1, <1>2, Opened
<1>5. TypeOK'
  BY <1>1, <1>2, <1>4 DEF TypeOK, JobRec
<1>6. \A f \in Files \ {g} : Untouched(f)
  BY <1>1, <1>2 DEF Untouched, TypeOK
<1>7. Placing'
  BY <1>1, <1>2, <1>3, <1>4 DEF Placing, MemLevels, StoreLevels, OnDisk
<1>8. Writing'
  <2>1. ~At("meta")'
    BY <1>3, <1>4, PlanSteps DEF At
  <2> QED
    BY <1>1, <1>2, <1>3, <1>4, <2>1 DEF Writing
<1> HIDE DEF g
<1> QED
  BY <1>1, <1>2, <1>4, <1>5, <1>6, <1>7, <1>8, MiddleStep DEF g

\* The blob is written, before any keystore names the file.
LEMMA FillBlobStep == ASSUME FilesInv, FillBlob PROVE FilesInv'
<1> DEFINE g == job.file
<1>1. /\ job # NoJob /\ At("blob") /\ (Advance \/ EndsIn(job.op))
      /\ blob' = [blob EXCEPT ![g] = "whole"]
      /\ UNCHANGED <<meta, store, unlocked, mem>>
  BY DEF FillBlob, At, session, CutOff
<1>2. /\ job \in JobRec /\ g \in Files /\ Placing /\ Writing /\ JobOK /\ TypeOK
      /\ job.at <= Len(Plan[job.op]) /\ job.op \in Operation
  BY <1>1, UnderWay DEF FilesInv
<1>3. job.op = "import" /\ job.at = 1
  BY <1>1, <1>2, StepAt
<1>4. \A f \in Files \ {g} : known'[f] = known[f] /\ cut'[f] = cut[f] => Untouched(f)
  BY <1>1, <1>2 DEF Untouched, TypeOK
<1>5. CASE Advance
  <2>1. /\ job' \in JobRec /\ job'.op = job.op /\ job'.file = g /\ job'.from = job.from
        /\ job'.to = job.to /\ job'.path = job.path /\ job'.at = 2 /\ job'.half = FALSE
        /\ UNCHANGED <<drawn, known, cut>> /\ job'.at <= Len(Plan[job.op])
    <3>1. job.at < Len(Plan[job.op]) /\ 2 <= Len(Plan[job.op]) /\ job.at + 1 = 2
      BY <1>3, PlanSteps
    <3> QED
      BY <1>1, <1>2, <1>5, <3>1, Advanced
  <2>2. TypeOK'
    BY <1>1, <1>2, <2>1 DEF TypeOK, JobRec
  <2>3. Placing'
    BY <1>1, <1>2, <1>3, <2>1 DEF Placing, MemLevels, StoreLevels, OnDisk
  <2>4. Writing'
    BY <1>1, <1>2, <1>3, <2>1 DEF Writing, TypeOK
  <2> HIDE DEF g
  <2> QED
    BY <1>1, <1>4, <2>1, <2>2, <2>3, <2>4, MiddleStep DEF g
<1>6. CASE EndsIn(job.op)
  <2>1. TypeOK'
    BY <1>1, <1>2, <1>6, NoJobFacts, PlanSteps DEF TypeOK, EndsIn, Operation, NoJob
  <2>2. PICK h \in Files : h = g
    BY <1>2
  <2>3. Sound(h)'
    BY <1>1, <1>2, <1>3, <2>2 DEF Placing, Writing, MemLevels, StoreLevels, OnDisk, Sound
  <2>4. \A f \in Files \ {h} : known'[f] = known[f] /\ cut'[f] = cut[f] => Untouched(f)
    BY <1>4, <2>2
  <2> QED
    BY <1>1, <1>2, <1>6, <2>1, <2>2, <2>3, <2>4, EndStep
<1> QED
  BY <1>1, <1>5, <1>6

\* The metadata is created: what it is to hold has been read from what it held.
LEMMA CreateMetaStep == ASSUME FilesInv, CreateMeta PROVE FilesInv'
<1> DEFINE g == job.file
<1>1. /\ job # NoJob /\ At("meta") /\ Truncated(NewText)
      /\ job.op = "import" \/ Readable(g, ReadKey)
      /\ meta' = [meta EXCEPT ![g] = Torn]
      /\ UNCHANGED <<blob, store, unlocked, mem, drawn, known, cut>>
  BY DEF CreateMeta, Truncated, At, session, ledger
<1>2. /\ job \in JobRec /\ g \in Files /\ Placing /\ Writing /\ JobOK /\ TypeOK
      /\ job.at <= Len(Plan[job.op])
  BY <1>1, UnderWay DEF FilesInv
<1>3. \/ job.op = "import" /\ job.at = 2
      \/ job.op = "relocate" /\ job.at = 1
      \/ job.op = "set_level" /\ job.at = 5
      \/ job.op = "assign" /\ job.at = 5
  BY <1>1, <1>2, StepAt
<1>4. job.to \in Levels /\ job.from \in Levels
      /\ (job.op \in {"import", "relocate"} => job.path \in Path)
      /\ (job.from = job.to <=> job.op \in {"import", "delete", "relocate"})
  BY <1>1, <1>2 DEF JobOK, JobRec
<1>5. job.op # "import" => meta[g] \in MetaRec /\ meta[g].key = ReadKey
  BY <1>1, <1>2 DEF Readable, TypeOK
<1>6. /\ NewText \in MetaRec
      /\ job.op = "import" => NewText = Text(job.to, job.path)
      /\ job.op = "relocate" => NewText.key = meta[g].key /\ NewText.level = meta[g].level
                                /\ NewText.path = job.path
      /\ job.op \in {"set_level", "assign"} =>
           NewText.key = job.to /\ NewText.level = job.to /\ NewText.path = meta[g].path
  <2>1. CASE job.op = "import"
    BY <1>4, <2>1 DEF NewText, Text, MetaRec
  <2>2. CASE job.op = "relocate"
    BY <1>4, <1>5, <2>2 DEF NewText, Text, MetaRec
  <2>3. CASE job.op \in {"set_level", "assign"}
    BY <1>3, <1>4, <1>5, <2>3 DEF NewText, Text, MetaRec
  <2> QED
    BY <1>3, <2>1, <2>2, <2>3
<1>7. /\ job' \in JobRec /\ job'.op = job.op /\ job'.file = g /\ job'.from = job.from
      /\ job'.to = job.to /\ job'.path = job.path /\ job'.at = job.at /\ job'.half = TRUE
      /\ job'.text = NewText
  BY <1>1, <1>2, <1>6, Opened
<1>8. TypeOK'
  BY <1>1, <1>2, <1>7 DEF TypeOK, JobRec
<1>9. \A f \in Files \ {g} : Untouched(f)
  BY <1>1, <1>2 DEF Untouched, TypeOK
<1>10. Placing'
  BY <1>1, <1>2, <1>3, <1>7 DEF Placing, MemLevels, StoreLevels, OnDisk
<1>11. Writing'
  <2>1. CASE job.op = "import"
    BY <1>1, <1>2, <1>3, <1>6, <1>7, <2>1 DEF Writing
  <2>2. CASE job.op = "relocate"
    <3>1. cut[g] = "none" => NewText = Text(job.to, job.path)
      <4>1. cut[g] = "none" => meta[g].level = job.to /\ meta[g].key = job.to
        <5>1. cut[g] = "none" /\ ~job.half => meta[g] = Text(job.from, known[g].path)
          BY <1>2, <2>2 DEF Writing
        <5> QED
          BY <1>4, <2>2, <5>1 DEF Text, CreateMeta
      <4> QED
        BY <1>6, <2>2, <4>1 DEF MetaRec, Text
    <3>2. job'.text = NewText /\ NewText \in MetaRec /\ (At("meta") /\ job.half)' /\ NewText.key = job.to
      BY <1>1, <1>4, <1>5, <1>6, <1>7, <2>2, NoJobFacts DEF At, ReadKey
    <3>3. /\ cut[g] = "none" => known[g] # Absent /\ known[g].level = job.from
          /\ cut[g] \in {"none", "import"} => blob[g] = "whole"
      BY <1>2, <2>2 DEF Writing
    <3> HIDE DEF g
    <3>4. job'.op = "relocate" /\ job'.file = g /\ job'.from = job.from /\ job'.to = job.to
          /\ job'.path = job.path /\ UNCHANGED <<blob, known, cut>>
      BY <1>1, <1>7, <2>2
    <3> QED
      BY <3>1, <3>2, <3>3, <3>4 DEF Writing
  <2>3. CASE job.op = "set_level"
    <3>1. meta[g].key = job.to /\ job.from # job.to
      BY <1>4, <1>5, <2>3 DEF ReadKey
    <3>2. cut[g] \notin {"none", "import"}
      BY <1>2, <2>3, <3>1 DEF Writing, Readable
    <3> QED
      BY <1>1, <1>2, <1>7, <2>3, <3>2 DEF Writing
  <2>4. CASE job.op = "assign"
    <3>1. cut[g] = "none" => NewText = Text(job.to, known[g].path)
      <4>1. cut[g] = "none" => meta[g].path = known[g].path
        <5>1. cut[g] = "none" /\ ~job.half => meta[g] = Text(job.from, known[g].path)
          BY <1>2, <2>4 DEF Writing
        <5> QED
          BY <5>1 DEF Text, CreateMeta
      <4> QED
        BY <1>6, <2>4, <4>1 DEF MetaRec, Text
    <3>2. job'.text = NewText /\ NewText \in MetaRec /\ (At("meta") /\ job.half)' /\ NewText.key = job.to
      BY <1>1, <1>4, <1>5, <1>6, <1>7, <2>4, NoJobFacts DEF At, ReadKey
    <3>3. /\ cut[g] = "none" => known[g] # Absent /\ known[g].level = job.from
          /\ cut[g] \in {"none", "import"} => blob[g] = "whole"
      BY <1>2, <2>4 DEF Writing
    <3> HIDE DEF g
    <3>4. job'.op = "assign" /\ job'.file = g /\ job'.from = job.from /\ job'.to = job.to
          /\ job'.path = job.path /\ UNCHANGED <<blob, known, cut>>
      BY <1>1, <1>7, <2>4
    <3> QED
      BY <3>1, <3>2, <3>3, <3>4 DEF Writing
  <2> QED
    BY <1>3, <2>1, <2>2, <2>3, <2>4
<1> HIDE DEF g
<1> QED
  BY <1>1, <1>2, <1>7, <1>8, <1>9, <1>10, <1>11, MiddleStep DEF g

\* What the user is told when an operation returns Ok.
LEMMA ToldFacts ==
  ASSUME FilesInv, job # NoJob, NEW g \in Files, g = job.file
  PROVE  /\ \A f \in Files \ {g} : Told[f] = known[f]
         /\ cut[g] # "none" => Told[g] = Absent
         /\ cut[g] = "none" =>
              /\ job.op = "import" => Told[g] = [level |-> job.to, path |-> job.path]
              /\ job.op = "delete" => Told[g] = Absent
              /\ job.op = "relocate" => Told[g] = [level |-> job.from, path |-> job.path]
              /\ job.op \in {"set_level", "assign"} =>
                   Told[g] = [level |-> job.to, path |-> known[g].path]
         /\ Told \in [Files -> Entry \cup {Absent}]
         /\ cut[g] = "none" /\ job.op # "delete" => Told[g] \in Entry
<1>1. /\ known \in [Files -> Entry \cup {Absent}] /\ job \in JobRec /\ Writing
      /\ job.op \in Operation /\ job.to \in Levels /\ job.from \in Levels
      /\ job.op \in {"import", "relocate"} => job.path \in Path
      /\ cut[g] # "none" => known[g] = Absent
  BY UnderWay DEF FilesInv, TypeOK, JobOK, LedgerOK
<1>2. cut[g] = "none" /\ job.op # "import" => known[g] \in Entry /\ known[g].level = job.from
  BY <1>1 DEF Writing
<1>3. CASE cut[g] # "none"
  BY <1>1, <1>3 DEF Told
<1>4. CASE cut[g] = "none" /\ job.op = "import"
  BY <1>1, <1>4 DEF Told, Entry
<1>5. CASE cut[g] = "none" /\ job.op = "delete"
  BY <1>1, <1>5 DEF Told
<1>6. CASE cut[g] = "none" /\ job.op = "relocate"
  <2>1. Told = [known EXCEPT ![g] = [known[g] EXCEPT !.path = job.path]]
    BY <1>1, <1>6 DEF Told
  <2>2. [known[g] EXCEPT !.path = job.path] = [level |-> job.from, path |-> job.path]
    BY <1>1, <1>2, <1>6 DEF Entry
  <2>3. [level |-> job.from, path |-> job.path] \in Entry
    BY <1>1, <1>6 DEF Entry
  <2> QED
    BY <1>1, <1>6, <2>1, <2>2, <2>3
<1>7. CASE cut[g] = "none" /\ job.op \in {"set_level", "assign"}
  <2>1. Told = [known EXCEPT ![g] = [known[g] EXCEPT !.level = job.to]]
    BY <1>1, <1>7 DEF Told
  <2>2. [known[g] EXCEPT !.level = job.to] = [level |-> job.to, path |-> known[g].path]
    BY <1>1, <1>2, <1>7 DEF Entry
  <2>3. [level |-> job.to, path |-> known[g].path] \in Entry
    BY <1>1, <1>2, <1>7 DEF Entry
  <2> QED
    BY <1>1, <1>7, <2>1, <2>2, <2>3
<1> QED
  BY <1>1, <1>3, <1>4, <1>5, <1>6, <1>7 DEF Operation

\* The metadata is written: the last statement of all but an import.
LEMMA FillMetaStep == ASSUME FilesInv, FillMeta PROVE FilesInv'
<1>1. PICK g : g = job.file
  OBVIOUS
<1>2. /\ job # NoJob /\ At("meta") /\ job.half /\ (Advance \/ EndsIn(job.op))
      /\ meta' = [meta EXCEPT ![g] = job.text]
      /\ UNCHANGED <<blob, store, unlocked, mem>>
  BY <1>1 DEF FillMeta, At, session, CutOff
<1>3. /\ job \in JobRec /\ g \in Files /\ Placing /\ Writing /\ JobOK /\ TypeOK
      /\ job.at <= Len(Plan[job.op]) /\ job.op \in Operation
      /\ job.to \in Levels /\ job.from \in Levels
      /\ unlocked \subseteq Levels
      /\ job.from = job.to <=> job.op \in {"import", "delete", "relocate"}
      /\ {job.from, job.to} \subseteq unlocked
  BY <1>1, <1>2, UnderWay DEF FilesInv, JobOK
<1>4. \/ job.op = "import" /\ job.at = 2
      \/ job.op = "relocate" /\ job.at = 1
      \/ job.op = "set_level" /\ job.at = 5
      \/ job.op = "assign" /\ job.at = 5
  BY <1>2, <1>3, StepAt
<1>5. \A f \in Files \ {g} : known'[f] = known[f] /\ cut'[f] = cut[f] => Untouched(f)
  BY <1>2, <1>3 DEF Untouched, TypeOK
<1>6. job.text \in MetaRec \cup {Absent} /\ meta' \in [Files -> MetaRec \cup {Absent, Torn}]
      /\ meta'[g] = job.text
  BY <1>2, <1>3 DEF TypeOK, JobRec
<1>7. CASE Advance /\ job.op = "import"
  <2>1. /\ job' \in JobRec /\ job'.op = job.op /\ job'.file = g /\ job'.from = job.from
        /\ job'.to = job.to /\ job'.path = job.path /\ job'.at = 3 /\ job'.half = FALSE
        /\ UNCHANGED <<drawn, known, cut>> /\ job'.at <= Len(Plan[job.op])
    <3>1. job.at < Len(Plan[job.op]) /\ 3 <= Len(Plan[job.op]) /\ job.at + 1 = 3
      BY <1>4, <1>7, PlanSteps
    <3> QED
      BY <1>1, <1>2, <1>3, <1>7, <3>1, Advanced
  <2>2. TypeOK'
    BY <1>2, <1>3, <1>6, <2>1 DEF TypeOK, JobRec
  <2>3. Placing'
    BY <1>1, <1>2, <1>3, <1>4, <1>7, <2>1 DEF Placing, MemLevels, StoreLevels, OnDisk
  <2>4. Writing'
    BY <1>1, <1>2, <1>3, <1>4, <1>6, <1>7, <2>1 DEF Writing
  <2> QED
    BY <1>1, <1>2, <1>5, <2>1, <2>2, <2>3, <2>4, MiddleStep
<1>8. CASE Advance /\ job.op # "import"
  <2>1. job' = NoJob /\ known' = Told /\ UNCHANGED <<drawn, cut>>
    <3>1. ~(job.at < Len(Plan[job.op]))
      <4> DEFINE m == Len(Plan[job.op])
      <4>1. m = job.at /\ job.at \in 1..5
        BY <1>3, <1>4, <1>8, PlanSteps DEF JobRec
      <4> HIDE DEF m
      <4>2. ~(job.at < m)
        BY <4>1
      <4> QED
        BY <4>2 DEF m
    <3> QED
      BY <1>2, <1>3, <1>8, <3>1, Finished
  <2>2. /\ Told \in [Files -> Entry \cup {Absent}] /\ \A f \in Files \ {g} : Told[f] = known[f]
        /\ cut[g] # "none" => Told[g] = Absent
        /\ cut[g] = "none" =>
             /\ job.op = "relocate" => Told[g] = [level |-> job.from, path |-> job.path]
             /\ job.op \in {"set_level", "assign"} =>
                  Told[g] = [level |-> job.to, path |-> known[g].path]
             /\ job.op # "delete" => Told[g] \in Entry
    BY <1>1, <1>2, <1>3, ToldFacts
  <2>3. TypeOK'
    <3>1. job'.at \in 0..5 /\ job'.half \in BOOLEAN
      BY <2>1, NoJobFacts
    <3>2. known' \in [Files -> Entry \cup {Absent}]
      BY <2>1, <2>2
    <3> QED
      BY <1>2, <1>3, <1>6, <2>1, <3>1, <3>2 DEF TypeOK
  <2>4. \A f \in Files \ {g} : Untouched(f)
    BY <1>5, <2>1, <2>2
  <2>5. ASSUME job.op \in {"relocate", "assign"} PROVE Settled(g)'
    <3>1. PICK e : e = Told[g]
      OBVIOUS
    <3>2. ASSUME cut[g] = "none" PROVE Kept(g, e)' /\ e # Absent
      <4>1. e.level = job.to /\ e = [level |-> job.to, path |-> IF job.op = "relocate" THEN job.path ELSE known[g].path]
        BY <1>3, <2>2, <2>5, <3>1, <3>2
      <4>2. e # Absent
        BY <2>2, <2>5, <3>1, <3>2, FileAssumption
      <4>3. job.text = Text(job.to, IF job.op = "relocate" THEN job.path ELSE known[g].path)
            /\ blob[g] = "whole"
        BY <1>1, <1>2, <1>3, <2>5, <3>2 DEF Writing
      <4>4. /\ \A l \in Levels : g \in mem[l] <=> l = job.to
            /\ \A l \in Levels : store[l] # Torn => (g \in store[l] <=> l = job.to)
        BY <1>1, <1>3, <1>4, <2>5, <3>2 DEF Placing, MemLevels, StoreLevels, OnDisk
      <4>5. Kept(g, e)'
        BY <1>2, <1>3, <1>6, <4>1, <4>3, <4>4 DEF Kept, Text
      <4> QED
        BY <4>2, <4>5
    <3>3. cut[g] = "import" => Sound(g)'
      <4> SUFFICES ASSUME cut[g] = "import" PROVE Sound(g)'
        OBVIOUS
      <4>1. job.text \in MetaRec /\ job.text.key = job.to /\ blob[g] = "whole"
        BY <1>1, <1>2, <1>3, <2>5 DEF Writing
      <4>2. \A l \in Levels : g \in mem[l] \/ OnDisk(g, l) => l = job.to
        BY <1>1, <1>3, <1>4, <2>5 DEF Placing, MemLevels, StoreLevels
      <4> QED
        BY <1>2, <1>6, <4>1, <4>2, FileAssumption DEF Sound, Readable, OnDisk
    <3> QED
      BY <2>1, <2>2, <3>1, <3>2, <3>3 DEF Settled
  <2>6. ASSUME job.op = "set_level" PROVE Settled(g)'
    <3>1. cut[g] \notin {"none", "import"}
      BY <1>1, <1>2, <1>3, <2>6 DEF Writing
    <3> QED
      BY <2>1, <3>1 DEF Settled
  <2>7. Settled(g)'
    BY <1>4, <1>8, <2>5, <2>6
  <2> QED
    BY <1>1, <1>2, <1>3, <2>1, <2>2, <2>3, <2>4, <2>7, LastStep
<1>9. CASE EndsIn(job.op)
  <2>1. TypeOK'
    BY <1>1, <1>2, <1>3, <1>6, <1>9, NoJobFacts, PlanSteps DEF TypeOK, EndsIn, Operation, NoJob
  <2>2. job.op = "import" => Sound(g)'
    BY <1>1, <1>2, <1>3, <1>4 DEF Placing, Writing, MemLevels, StoreLevels, OnDisk, Sound
  <2> QED
    BY <1>1, <1>2, <1>3, <1>5, <1>9, <2>1, <2>2, EndStep
<1> QED
  BY <1>2, <1>7, <1>8, <1>9

\* The blob is removed.
LEMMA RemoveBlobStep == ASSUME FilesInv, RemoveBlob PROVE FilesInv'
<1>1. PICK g : g = job.file
  OBVIOUS
<1>2. /\ job # NoJob /\ At("unblob") /\ Advance
      /\ blob' = [blob EXCEPT ![g] = "absent"]
      /\ UNCHANGED <<meta, store, unlocked, mem>>
  BY <1>1 DEF RemoveBlob, At, session
<1>3. job \in JobRec /\ g \in Files /\ Placing /\ Writing /\ JobOK /\ TypeOK
  BY <1>1, <1>2, UnderWay DEF FilesInv
<1>4. job.op = "delete" /\ job.at = 1
  BY <1>2, <1>3, StepAt
<1>5. /\ job' \in JobRec /\ job'.op = job.op /\ job'.file = g /\ job'.from = job.from
      /\ job'.to = job.to /\ job'.path = job.path /\ job'.at = 2 /\ job'.half = FALSE
      /\ UNCHANGED <<drawn, known, cut>> /\ job'.at <= Len(Plan[job.op])
  <2>1. job.at < Len(Plan[job.op]) /\ 2 <= Len(Plan[job.op]) /\ job.at + 1 = 2
    BY <1>4, PlanSteps
  <2> QED
    BY <1>1, <1>2, <1>3, <2>1, Advanced
<1>6. TypeOK'
  BY <1>2, <1>3, <1>5 DEF TypeOK, JobRec
<1>7. \A f \in Files \ {g} : Untouched(f)
  BY <1>2, <1>3, <1>5 DEF Untouched, TypeOK
<1>8. Placing'
  BY <1>1, <1>2, <1>3, <1>4, <1>5 DEF Placing, MemLevels, StoreLevels, OnDisk
<1>9. Writing'
  BY <1>1, <1>2, <1>3, <1>4, <1>5 DEF Writing, TypeOK
<1> QED
  BY <1>1, <1>2, <1>5, <1>6, <1>7, <1>8, <1>9, MiddleStep

\* The metadata is removed.
LEMMA RemoveMetaStep == ASSUME FilesInv, RemoveMeta PROVE FilesInv'
<1>1. PICK g : g = job.file
  OBVIOUS
<1>2. /\ job # NoJob /\ At("unmeta") /\ Advance
      /\ meta' = [meta EXCEPT ![g] = Absent]
      /\ UNCHANGED <<blob, store, unlocked, mem>>
  BY <1>1 DEF RemoveMeta, At, session
<1>3. job \in JobRec /\ g \in Files /\ Placing /\ Writing /\ JobOK /\ TypeOK
  BY <1>1, <1>2, UnderWay DEF FilesInv
<1>4. job.op = "delete" /\ job.at = 2
  BY <1>2, <1>3, StepAt
<1>5. /\ job' \in JobRec /\ job'.op = job.op /\ job'.file = g /\ job'.from = job.from
      /\ job'.to = job.to /\ job'.path = job.path /\ job'.at = 3 /\ job'.half = FALSE
      /\ UNCHANGED <<drawn, known, cut>> /\ job'.at <= Len(Plan[job.op])
  <2>1. job.at < Len(Plan[job.op]) /\ 3 <= Len(Plan[job.op]) /\ job.at + 1 = 3
    BY <1>4, PlanSteps
  <2> QED
    BY <1>1, <1>2, <1>3, <2>1, Advanced
<1>6. TypeOK'
  BY <1>2, <1>3, <1>5 DEF TypeOK, JobRec
<1>7. \A f \in Files \ {g} : Untouched(f)
  BY <1>2, <1>3, <1>5 DEF Untouched, TypeOK
<1>8. Placing'
  BY <1>1, <1>2, <1>3, <1>4, <1>5 DEF Placing, MemLevels, StoreLevels, OnDisk
<1>9. Writing'
  BY <1>1, <1>2, <1>3, <1>4, <1>5 DEF Writing, TypeOK
<1> QED
  BY <1>1, <1>2, <1>5, <1>6, <1>7, <1>8, <1>9, MiddleStep

\* An operation ends early and changes nothing on disk: it is refused, a file cannot
\* be made or removed, or the process dies.
LEMMA EndsAlone ==
  ASSUME FilesInv, job # NoJob, NEW error \in Operation \cup {"refused", "failed"}, EndsIn(error),
         error = "import" => job.op = "import", UNCHANGED disk,
         UNCHANGED session \/ (unlocked' = {} /\ mem' = EmptyMemory)
  PROVE  FilesInv'
<1>1. PICK g : g = job.file
  OBVIOUS
<1>2. /\ job \in JobRec /\ g \in Files /\ Placing /\ Writing /\ JobOK /\ TypeOK
      /\ job.at \in 1..5 /\ unlocked \subseteq Levels
  BY <1>1, UnderWay DEF FilesInv
<1>3. /\ mem' \in [Levels -> SUBSET Files] /\ unlocked' \subseteq unlocked
      /\ \A l \in Levels \ unlocked' : mem'[l] = {}
      /\ \A l \in Levels : mem'[l] \subseteq mem[l]
      /\ \A l \in unlocked' : mem'[l] = mem[l]
  BY <1>2 DEF TypeOK, EmptyMemory, session
<1>4. TypeOK'
  <2>1. job' = NoJob /\ drawn' = drawn
    BY DEF EndsIn
  <2>2. job'.at \in 0..5 /\ job'.half \in BOOLEAN
    BY <2>1, NoJobFacts
  <2>3. known' \in [Files -> Entry \cup {Absent}]
        /\ cut' \in [Files -> DOMAIN Plan \cup {"none", "refused", "failed"}]
    BY <1>1, <1>2, PlanSteps DEF EndsIn, TypeOK
  <2> QED
    BY <1>2, <1>3, <2>1, <2>2, <2>3 DEF TypeOK, disk
<1>5. \A f \in Files \ {g} : known'[f] = known[f] /\ cut'[f] = cut[f] => Untouched(f)
  BY <1>2, <1>3 DEF Untouched, disk
<1>6. job.op = "import" => Sound(g)
  <2> SUFFICES ASSUME job.op = "import" PROVE Sound(g)
    OBVIOUS
  <2>1. /\ \A l \in Levels : g \in mem[l] => l = job.to /\ job.at > 3
        /\ \A l \in Levels : ~OnDisk(g, l)
    BY <1>1, <1>2 DEF Placing, Writing, MemLevels, StoreLevels
  <2>2. job.at > 3 => blob[g] = "whole" /\ Readable(g, job.to)
    <3>1. job.to \in Levels /\ job.path \in Path
      BY <1>2 DEF JobOK, JobRec
    <3>2. Text(job.to, job.path) \in MetaRec
      BY <3>1 DEF Text, MetaRec
    <3>3. job.at > 3 => job.at >= 2 /\ job.at >= 3
      BY <1>2
    <3> QED
      BY <1>1, <1>2, <3>2, <3>3, FileAssumption DEF Writing, Readable, Text
  <2> QED
    BY <2>1, <2>2 DEF Sound
<1>7. error = "import" => Sound(g)'
  BY <1>3, <1>6 DEF Sound, OnDisk, Readable, disk
<1> QED
  BY <1>1, <1>2, <1>4, <1>5, <1>7, EndStep

\* The metadata to change does not decrypt, or there is none to delete.
LEMMA RefuseStep == ASSUME FilesInv, Refuse PROVE FilesInv'
<1>1. job # NoJob /\ UNCHANGED <<disk, session>>
  BY DEF Refuse, At
<1>2. EndsIn("refused") \/ EndsIn("failed")
  BY DEF Refuse
<1> QED
  BY <1>1, <1>2, EndsAlone DEF Operation

\* A file cannot be created, written or removed.
LEMMA ErrorStep == ASSUME FilesInv, IOError PROVE FilesInv'
<1>1. job # NoJob /\ UNCHANGED <<disk, session>> /\ EndsIn(job.op) /\ job.op \in Operation
  BY UnderWay DEF IOError, CutOff
<1> QED
  BY <1>1, EndsAlone

\* A session with no operation under way is opened, extended or closed.
LEMMA SessionStep ==
  ASSUME FilesInv, job = NoJob, UNCHANGED <<disk, job, ledger>>, TypeOK',
         \A f \in Files : \A l \in unlocked' :
           IF l \in unlocked THEN f \in mem'[l] <=> f \in mem[l]
           ELSE store[l] # Torn /\ (f \in mem'[l] <=> f \in store[l])
  PROVE  FilesInv'
<1>1. JobOK' /\ LedgerOK'
  BY DEF FilesInv, JobOK, LedgerOK, ledger
<1>2. \A f \in Files : Untouched(f)
  BY DEF Untouched, disk, ledger
<1>3. \A f \in Files \ {job'.file} : Settled(f)'
  BY <1>2, StaysSettled DEF FilesInv
<1> QED
  BY <1>1, <1>3 DEF FilesInv

\* The process dies.
LEMMA CrashStep == ASSUME FilesInv, Crash PROVE FilesInv'
<1>1. unlocked' = {} /\ mem' = EmptyMemory /\ UNCHANGED disk
  BY DEF Crash
<1>2. CASE job = NoJob
  <2>1. TypeOK'
    BY <1>1, <1>2 DEF Crash, FilesInv, TypeOK, EmptyMemory, disk, ledger
  <2> QED
    BY <1>1, <1>2, <2>1, SessionStep DEF Crash
<1>3. CASE job # NoJob
  BY <1>1, <1>3, UnderWay, EndsAlone DEF Crash, CutOff
<1> QED
  BY <1>2, <1>3

\* Which keystore is saved, and when.
LEMMA Saving ==
  ASSUME FilesInv, At("persist_from") \/ At("persist_to")
  PROVE  /\ job # NoJob /\ SavedLevel \in unlocked /\ SavedLevel \in Levels
         /\ \/ job.op = "delete" /\ job.at = 4 /\ SavedLevel = job.from
            \/ job.op = "import" /\ job.at = 4 /\ SavedLevel = job.to
            \/ job.op = "set_level" /\ job.at \in {2, 4}
            \/ job.op = "assign" /\ job.at = 3 /\ SavedLevel = job.from
            \/ job.op = "assign" /\ job.at = 4 /\ SavedLevel = job.to
         /\ ~At("meta")
<1>1. job # NoJob /\ JobOK
  BY DEF At, FilesInv
<1>2. job \in JobRec /\ {job.from, job.to} \subseteq unlocked /\ unlocked \subseteq Levels
  BY <1>1, UnderWay
<1>3. ~At("meta")
  BY <1>1 DEF At
<1>4. CASE At("persist_from")
  BY <1>1, <1>2, <1>3, <1>4, StepAt DEF SavedLevel
<1>5. CASE At("persist_to")
  <2>1. ~At("persist_from")
    BY <1>5 DEF At
  <2> QED
    BY <1>1, <1>2, <1>3, <1>5, <2>1, StepAt DEF SavedLevel
<1> QED
  BY <1>4, <1>5

\* A keystore is created, torn until it is written.
LEMMA CreateStoreStep == ASSUME FilesInv, CreateStore PROVE FilesInv'
<1>1. PICK g : g = job.file
  OBVIOUS
<1>2. PICK s : s = SavedLevel
  OBVIOUS
<1>3. /\ job # NoJob /\ Truncated(Absent) /\ store' = [store EXCEPT ![s] = Torn]
      /\ UNCHANGED <<blob, meta, unlocked, mem, drawn, known, cut>> /\ ~At("meta")
      /\ s \in Levels
  BY <1>2, Saving DEF CreateStore, Truncated, session, ledger
<1>4. /\ job \in JobRec /\ g \in Files /\ Placing /\ Writing /\ JobOK /\ TypeOK
      /\ job.at <= Len(Plan[job.op])
  BY <1>1, <1>3, UnderWay DEF FilesInv
<1>5. /\ job' \in JobRec /\ job'.op = job.op /\ job'.file = g /\ job'.from = job.from
      /\ job'.to = job.to /\ job'.path = job.path /\ job'.at = job.at
  BY <1>1, <1>3, <1>4, Opened
<1>6. TypeOK'
  <2>1. store' \in [Levels -> (SUBSET Files) \cup {Torn}]
    BY <1>3, <1>4 DEF TypeOK
  <2>2. job'.at \in 0..5 /\ job'.half \in BOOLEAN
    BY <1>5 DEF JobRec
  <2> QED
    BY <1>3, <1>4, <2>1, <2>2 DEF TypeOK
<1>7. \A f \in Files \ {g} : Untouched(f)
  BY <1>3, <1>4 DEF Untouched, TypeOK
<1>8. Placing'
  <2>1. MemLevels' = MemLevels /\ StoreLevels' = StoreLevels
    BY <1>5 DEF MemLevels, StoreLevels
  <2>2. \A l \in Levels : store'[l] # Torn => store[l] # Torn /\ store'[l] = store[l]
    BY <1>3, <1>4 DEF TypeOK
  <2>3. cut[g] = "none" /\ job.op # "set_level" => StoreLevels \subseteq Levels
    BY <1>1, <1>4 DEF StoreLevels, JobRec, Operation
  <2> HIDE DEF MemLevels, StoreLevels
  <2> QED
    BY <1>1, <1>3, <1>4, <1>5, <2>1, <2>2, <2>3 DEF Placing, OnDisk
<1>9. Writing'
  <2>1. ~At("meta")'
    BY <1>3, <1>4, <1>5 DEF At
  <2> QED
    BY <1>1, <1>3, <1>4, <1>5, <2>1 DEF Writing, Readable
<1> QED
  BY <1>1, <1>3, <1>4, <1>5, <1>6, <1>7, <1>8, <1>9, MiddleStep

\* A keystore is written: it names on disk what it names in the session.
LEMMA FillStoreStep == ASSUME FilesInv, FillStore PROVE FilesInv'
<1>1. PICK g : g = job.file
  OBVIOUS
<1>2. PICK s : s = SavedLevel
  OBVIOUS
<1>3. /\ job # NoJob /\ (Advance \/ EndsIn(job.op)) /\ store' = [store EXCEPT ![s] = mem[s]]
      /\ UNCHANGED <<blob, meta, unlocked, mem>> /\ ~At("meta")
      /\ s \in Levels /\ s \in unlocked
      /\ \/ job.op = "delete" /\ job.at = 4 /\ s = job.from
         \/ job.op = "import" /\ job.at = 4 /\ s = job.to
         \/ job.op = "set_level" /\ job.at \in {2, 4}
         \/ job.op = "assign" /\ job.at = 3 /\ s = job.from
         \/ job.op = "assign" /\ job.at = 4 /\ s = job.to
  BY <1>2, Saving DEF FillStore, CutOff, session
<1>4. /\ job \in JobRec /\ g \in Files /\ Placing /\ Writing /\ JobOK /\ TypeOK
      /\ job.at <= Len(Plan[job.op]) /\ job.op \in Operation
      /\ job.to \in Levels /\ job.from \in Levels /\ job.to \in unlocked /\ job.from \in unlocked
      /\ unlocked \subseteq Levels
      /\ job.from = job.to <=> job.op \in {"import", "delete", "relocate"}
  BY <1>1, <1>3, UnderWay DEF FilesInv, JobOK
<1>5. /\ mem \in [Levels -> SUBSET Files] /\ store \in [Levels -> (SUBSET Files) \cup {Torn}]
      /\ store' \in [Levels -> (SUBSET Files) \cup {Torn}]
      /\ store'[s] = mem[s] /\ mem[s] # Torn
      /\ \A l \in Levels \ {s} : store'[l] = store[l]
  BY <1>3, <1>4, FileAssumption DEF TypeOK
<1>6. \A f \in Files \ {g} : known'[f] = known[f] /\ cut'[f] = cut[f] => Untouched(f)
  BY <1>3, <1>4, <1>5 DEF Untouched
<1>7. CASE Advance /\ job.op \in {"set_level", "assign"}
  <2>1. /\ job' \in JobRec /\ job'.op = job.op /\ job'.file = g /\ job'.from = job.from
        /\ job'.to = job.to /\ job'.path = job.path /\ job'.at = job.at + 1 /\ job'.half = FALSE
        /\ UNCHANGED <<drawn, known, cut>> /\ job'.at <= Len(Plan[job.op])
    <3>1. job.at < Len(Plan[job.op]) /\ job.at + 1 <= Len(Plan[job.op])
      BY <1>3, <1>7, PlanSteps
    <3> QED
      BY <1>1, <1>3, <1>4, <1>7, <3>1, Advanced
  <2>2. TypeOK'
    BY <1>3, <1>4, <1>5, <2>1 DEF TypeOK, JobRec
  <2>3. Placing'
    BY <1>1, <1>3, <1>4, <1>5, <1>7, <2>1 DEF Placing, MemLevels, StoreLevels, OnDisk
  <2>4. Writing'
    <3>1. ~(At("meta") /\ job.half)'
      BY <2>1
    <3> QED
      BY <1>1, <1>3, <1>4, <1>7, <2>1, <3>1 DEF Writing, Readable
  <2> QED
    BY <1>1, <1>3, <1>4, <1>6, <2>1, <2>2, <2>3, <2>4, MiddleStep
<1>8. CASE Advance /\ job.op \in {"import", "delete"}
  <2>1. job' = NoJob /\ known' = Told /\ UNCHANGED <<drawn, cut>>
    <3>1. ~(job.at < Len(Plan[job.op]))
      <4>1. Len(Plan[job.op]) = 4 /\ job.at = 4
        BY <1>3, <1>8, PlanSteps
      <4> QED
        BY <4>1
    <3> QED
      BY <1>3, <1>4, <1>8, <3>1, Finished
  <2>2. PICK e : e = Told[g]
    OBVIOUS
  <2>3. /\ Told \in [Files -> Entry \cup {Absent}] /\ \A f \in Files \ {g} : Told[f] = known[f]
        /\ cut[g] # "none" => e = Absent
        /\ cut[g] = "none" =>
             /\ job.op = "import" => e = [level |-> job.to, path |-> job.path] /\ e \in Entry
             /\ job.op = "delete" => e = Absent
    BY <1>1, <1>3, <1>4, <2>2, ToldFacts
  <2>4. TypeOK'
    <3>1. job'.at \in 0..5 /\ job'.half \in BOOLEAN
      BY <2>1, NoJobFacts
    <3>2. known' \in [Files -> Entry \cup {Absent}]
      BY <2>1, <2>3
    <3> QED
      BY <1>3, <1>4, <1>5, <2>1, <3>1, <3>2 DEF TypeOK
  <2>5. \A f \in Files \ {g} : Untouched(f)
    BY <1>6, <2>1, <2>3
  <2>6. ASSUME job.op = "import" PROVE Settled(g)'
    <3>1. cut[g] = "none" /\ blob[g] = "whole" /\ meta[g] = Text(job.to, job.path)
      BY <1>1, <1>3, <1>4, <2>6 DEF Writing
    <3>2. /\ \A l \in Levels : g \in mem[l] <=> l = job.to
          /\ \A l \in Levels : ~OnDisk(g, l)
      BY <1>1, <1>3, <1>4, <2>6, <3>1 DEF Placing, MemLevels, StoreLevels
    <3>3. \A l \in Levels : store'[l] # Torn => (g \in store'[l] <=> l = job.to)
      BY <1>3, <1>5, <2>6, <3>2 DEF OnDisk
    <3>4. e.level = job.to /\ e.path = job.path /\ e # Absent
      BY <2>3, <2>6, <3>1, FileAssumption
    <3>5. Kept(g, e)'
      BY <1>3, <1>4, <3>1, <3>2, <3>3, <3>4 DEF Kept, Text
    <3> QED
      BY <2>1, <2>2, <3>1, <3>4, <3>5 DEF Settled
  <2>7. ASSUME job.op = "delete" PROVE Settled(g)'
    <3>1. blob[g] = "absent" /\ meta[g] = Absent
      BY <1>1, <1>3, <1>4, <2>7 DEF Writing
    <3>2. cut[g] \in {"none", "import"} =>
            /\ \A l \in Levels : g \notin mem[l]
            /\ \A l \in Levels : OnDisk(g, l) => l = job.from
      BY <1>1, <1>3, <1>4, <2>7 DEF Placing, MemLevels, StoreLevels
    <3>3. cut[g] \in {"none", "import"} => \A l \in Levels : ~OnDisk(g, l)'
      BY <1>3, <1>5, <2>7, <3>2 DEF OnDisk
    <3>4. cut[g] \in {"none", "import"} => Gone(g)' /\ Sound(g)'
      BY <1>3, <3>1, <3>2, <3>3 DEF Gone, Sound
    <3>5. e = Absent
      BY <2>3, <2>7
    <3> QED
      BY <2>1, <2>2, <3>4, <3>5 DEF Settled
  <2>8. Settled(g)'
    BY <1>8, <2>6, <2>7
  <2> QED
    BY <1>1, <1>3, <1>4, <2>1, <2>2, <2>3, <2>4, <2>5, <2>8, LastStep
<1>9. CASE EndsIn(job.op)
  <2>1. TypeOK'
    BY <1>1, <1>3, <1>4, <1>5, <1>9, NoJobFacts, PlanSteps DEF TypeOK, EndsIn, Operation, NoJob
  <2>2. ASSUME job.op = "import" PROVE Sound(g)'
    <3>1. cut[g] = "none" /\ blob[g] = "whole" /\ meta[g] = Text(job.to, job.path)
      BY <1>1, <1>3, <1>4, <2>2 DEF Writing
    <3>2. /\ \A l \in Levels : g \in mem[l] => l = job.to
          /\ \A l \in Levels : ~OnDisk(g, l)
      BY <1>1, <1>3, <1>4, <2>2, <3>1 DEF Placing, MemLevels, StoreLevels
    <3>3. Readable(g, job.to)
      <4>1. job.to \in Levels /\ job.path \in Path
        BY <1>3, <1>4, <2>2 DEF JobOK
      <4>2. Text(job.to, job.path) \in MetaRec
        BY <4>1 DEF Text, MetaRec
      <4> QED
        BY <3>1, <4>2, FileAssumption DEF Readable, Text
    <3> QED
      BY <1>3, <1>5, <2>2, <3>1, <3>2, <3>3 DEF Sound, OnDisk, Readable
  <2> QED
    BY <1>1, <1>3, <1>4, <1>6, <1>9, <2>1, <2>2, EndStep
<1> QED
  BY <1>3, <1>4, <1>7, <1>8, <1>9

-----------------------------------------------------------------------------
(***************************************************************************)
(* The session, and the calls.                                             *)
(***************************************************************************)
\* open_vault, unlocking a level and closing read keystores that are whole.
LEMMA OpenStep ==
  ASSUME FilesInv, OpenVault \/ Close \/ \E l \in Levels : UnlockLevel(l) PROVE FilesInv'
<1>1. TypeOK /\ mem \in [Levels -> SUBSET Files] /\ store \in [Levels -> (SUBSET Files) \cup {Torn}]
      /\ unlocked \subseteq Levels /\ \A l \in Levels \ unlocked : mem[l] = {}
  BY DEF FilesInv, TypeOK
<1>2. job = NoJob
  <2>1. ASSUME OpenVault, job # NoJob PROVE FALSE
    BY <2>1, UnderWay DEF OpenVault
  <2> QED
    BY <2>1 DEF Close, UnlockLevel, Ready
<1>3. UNCHANGED <<disk, job, ledger>>
  BY DEF OpenVault, Close, UnlockLevel
<1>4. CASE OpenVault
  <2>1. /\ unlocked = {} /\ unlocked' = MasterLevels /\ MasterLevels \subseteq Levels
        /\ mem' = [l \in Levels |-> IF l \in MasterLevels THEN store[l] ELSE {}]
        /\ \A l \in Levels : store[l] # Torn
    BY <1>4, LevelAssumption DEF OpenVault
  <2>2. TypeOK'
    BY <1>1, <1>3, <2>1 DEF TypeOK, disk, ledger
  <2> QED
    BY <1>1, <1>2, <1>3, <2>1, <2>2, SessionStep
<1>5. CASE Close
  <2>1. unlocked' = {} /\ mem' = EmptyMemory
    BY <1>5 DEF Close
  <2>2. TypeOK'
    BY <1>1, <1>3, <2>1 DEF TypeOK, EmptyMemory, disk, ledger
  <2> QED
    BY <1>2, <1>3, <2>1, <2>2, SessionStep
<1>6. ASSUME NEW l \in Levels, UnlockLevel(l) PROVE FilesInv'
  <2>1. /\ l \notin unlocked /\ store[l] # Torn /\ unlocked' = unlocked \cup {l}
        /\ mem' = [mem EXCEPT ![l] = store[l]]
    BY <1>6 DEF UnlockLevel
  <2>2. TypeOK'
    BY <1>1, <1>3, <2>1 DEF TypeOK, disk, ledger
  <2> QED
    BY <1>1, <1>2, <1>3, <2>1, <2>2, SessionStep
<1> QED
  BY <1>4, <1>5, <1>6

\* A file that a keystore in memory names is one the user was told of at that level, or
\* one that a failed operation left; a cut import left it whole.
LEMMA FoundFile ==
  ASSUME FilesInv, job = NoJob, NEW g \in Files, NEW l \in Levels, g \in mem[l]
  PROVE  /\ l \in unlocked /\ g \in drawn
         /\ cut[g] = "none" => known[g] # Absent /\ known[g].level = l /\ Kept(g, known[g])
         /\ cut[g] \in {"none", "import"} =>
              /\ blob[g] = "whole" /\ Readable(g, l)
              /\ \A k \in Levels : g \in mem[k] \/ OnDisk(g, k) => k = l
<1>1. Settled(g) /\ TypeOK /\ LedgerOK
  BY NoJobFacts DEF FilesInv
<1>2. l \in unlocked
  BY <1>1 DEF TypeOK
<1>3. cut[g] = "none" => known[g] # Absent /\ known[g].level = l /\ Kept(g, known[g])
  BY <1>1, <1>2 DEF Settled, Gone, Kept
<1>4. g \in drawn
  BY <1>1, <1>3 DEF LedgerOK
<1>5. ASSUME cut[g] = "none"
      PROVE  /\ blob[g] = "whole" /\ Readable(g, l)
             /\ \A k \in Levels : g \in mem[k] \/ OnDisk(g, k) => k = l
  <2>1. known[g] \in Entry
    BY <1>1, <1>3, <1>5 DEF TypeOK
  <2>2. meta[g] = Text(l, known[g].path) /\ blob[g] = "whole"
    BY <1>3, <1>5 DEF Kept
  <2>3. Text(l, known[g].path) \in MetaRec
    BY <2>1 DEF Entry, MetaRec, Text
  <2>4. Readable(g, l)
    BY <2>2, <2>3, FileAssumption DEF Readable, Text
  <2> QED
    BY <1>1, <1>3, <1>5, <2>2, <2>4 DEF Kept, OnDisk, TypeOK
<1>6. ASSUME cut[g] = "import"
      PROVE  /\ blob[g] = "whole" /\ Readable(g, l)
             /\ \A k \in Levels : g \in mem[k] \/ OnDisk(g, k) => k = l
  BY <1>1, <1>6 DEF Settled, Sound, Readable
<1> QED
  BY <1>2, <1>3, <1>4, <1>5, <1>6

\* A call other than import goes to work on a file it found.
LEMMA CallStep ==
  ASSUME FilesInv, job = NoJob, NEW op \in Operation \ {"import"}, NEW g \in Files,
         NEW from \in Levels, NEW to \in unlocked, NEW path \in Path \cup {Absent},
         Begin(op, g, from, to, path), g \in mem[from],
         from = to <=> op \in {"delete", "relocate"},
         op = "relocate" => path \in Path /\ Readable(g, from),
         UNCHANGED <<disk, session, ledger>>
  PROVE  FilesInv'
<1>1. TypeOK /\ unlocked \subseteq Levels
  BY DEF FilesInv, TypeOK
<1>2. /\ from \in unlocked /\ g \in drawn
      /\ cut[g] = "none" => known[g] # Absent /\ known[g].level = from /\ Kept(g, known[g])
      /\ cut[g] \in {"none", "import"} =>
           /\ blob[g] = "whole" /\ Readable(g, from)
           /\ \A k \in Levels : g \in mem[k] \/ OnDisk(g, k) => k = from
  BY FoundFile
<1>3. /\ job' \in JobRec /\ job'.op = op /\ job'.file = g /\ job'.from = from
      /\ job'.to = to /\ job'.path = path /\ job'.at = 1 /\ job'.half = FALSE
  BY <1>1, Begun
<1>4. JobOK'
  <2>1. 1 <= Len(Plan[op])
    BY PlanSteps DEF Operation
  <2> QED
    BY <1>2, <1>3, <2>1 DEF JobOK, session, ledger, Operation
<1>5. LedgerOK' /\ TypeOK'
  <2>1. job'.at \in 0..5
    BY <1>3
  <2> QED
    BY <1>3, <2>1 DEF FilesInv, LedgerOK, TypeOK, disk, session, ledger
<1>6. \A f \in Files : Settled(f)'
  <2>1. \A f \in Files : Settled(f)
    BY NoJobFacts DEF FilesInv
  <2>2. \A f \in Files : Untouched(f)
    BY DEF Untouched, disk, session, ledger
  <2> QED
    BY <1>1, <1>5, <2>1, <2>2, StaysSettled
<1>7. Placing'
  <2> SUFFICES ASSUME cut[g] \in {"none", "import"}, op # "set_level"
               PROVE  /\ \A l \in Levels : g \in mem[l] \/ OnDisk(g, l) => l = from
                      /\ MemLevels' = {from} /\ StoreLevels' = {from}
                      /\ cut[g] = "none" /\ store[from] # Torn => g \in store[from]
    BY <1>3 DEF Placing, OnDisk, disk, session, ledger
  <2>1. MemLevels' = {from} /\ StoreLevels' = {from}
    BY <1>3 DEF MemLevels, StoreLevels, Operation
  <2> QED
    BY <1>2, <2>1 DEF Kept
<1>8. Writing'
  <2>1. cut[g] = "none" => meta[g] = Text(from, known[g].path)
    BY <1>2 DEF Kept
  <2>2. ~(At("meta") /\ job.half)'
    BY <1>3
  <2>3. UNCHANGED <<blob, meta, known, cut>>
    BY DEF disk, ledger
  <2> QED
    BY <1>2, <1>3, <2>1, <2>2, <2>3 DEF Writing, Readable
<1> QED
  BY <1>4, <1>5, <1>6, <1>7, <1>8 DEF FilesInv

\* import_file draws a uuid that no file has had.
LEMMA ImportStep ==
  ASSUME FilesInv, NEW g \in Files, NEW l \in Levels, NEW p \in Path, Import(g, l, p)
  PROVE  FilesInv'
<1>1. /\ job = NoJob /\ g \notin drawn /\ l \in unlocked /\ Begin("import", g, l, l, p)
      /\ drawn' = drawn \cup {g} /\ UNCHANGED <<blob, meta, store, unlocked, mem, known, cut>>
  BY DEF Import, Ready, disk, session
<1>2. known[g] = Absent /\ cut[g] = "none" /\ Gone(g)
  BY <1>1, NoJobFacts DEF FilesInv, LedgerOK, Settled
<1>3. /\ job' \in JobRec /\ job'.op = "import" /\ job'.file = g /\ job'.from = l
      /\ job'.to = l /\ job'.path = p /\ job'.at = 1 /\ job'.half = FALSE
  BY <1>1, Begun DEF Operation
<1>4. JobOK'
  <2>1. 1 <= Len(Plan["import"])
    BY PlanSteps
  <2> QED
    BY <1>1, <1>3, <2>1 DEF JobOK
<1>5. LedgerOK' /\ TypeOK'
  <2>1. job'.at \in 0..5
    BY <1>3
  <2> QED
    BY <1>1, <1>2, <1>3, <2>1 DEF FilesInv, LedgerOK, TypeOK
<1>6. \A f \in Files : Settled(f)'
  <2>1. \A f \in Files : Settled(f)
    BY <1>1, NoJobFacts DEF FilesInv
  <2>2. \A f \in Files : Untouched(f)
    BY <1>1 DEF Untouched
  <2> QED
    BY <1>5, <2>1, <2>2, StaysSettled DEF FilesInv
<1>7. Placing'
  <2>1. MemLevels' = {} /\ StoreLevels' = {}
    BY <1>3 DEF MemLevels, StoreLevels
  <2> QED
    BY <1>1, <1>2, <1>3, <2>1 DEF Placing, Gone, OnDisk
<1>8. Writing'
  <2>1. ~(At("meta") /\ job.half)'
    BY <1>3
  <2> QED
    BY <1>1, <1>2, <1>3, <2>1 DEF Writing
<1> QED
  BY <1>4, <1>5, <1>6, <1>7, <1>8 DEF FilesInv

\* Every call that begins an operation.
LEMMA CallsStep == ASSUME FilesInv, Call PROVE FilesInv'
<1>1. PICK g \in Files :
        \/ \E l \in Levels, p \in Path : Import(g, l, p)
        \/ Delete(g)
        \/ \E n \in Names : Rename(g, n)
        \/ \E p \in Path : Move(g, p)
        \/ \E l \in Levels : SetAccessLevel(g, l) \/ AssignFileLevel(g, l)
  BY DEF Call
<1>2. ASSUME NEW l \in Levels, NEW p \in Path, Import(g, l, p) PROVE FilesInv'
  BY <1>2, ImportStep
<1>3. CASE Delete(g)
  <2>1. PICK l \in Levels : FoundAt(g, l) /\ Begin("delete", g, l, l, Absent)
    BY <1>3 DEF Delete
  <2>2. job = NoJob /\ UNCHANGED <<disk, session, ledger>> /\ g \in mem[l] /\ l \in unlocked
    BY <1>3, <2>1 DEF Delete, Ready, FoundAt
  <2> QED
    BY <2>1, <2>2, CallStep DEF Operation
<1>4. ASSUME NEW n \in Names, Rename(g, n) PROVE FilesInv'
  <2>1. PICK l \in Levels : FoundAt(g, l) /\ Readable(g, l)
                            /\ Begin("relocate", g, l, l, [meta[g].path EXCEPT !.name = n])
    BY <1>4 DEF Rename
  <2>2. job = NoJob /\ UNCHANGED <<disk, session, ledger>> /\ g \in mem[l] /\ l \in unlocked
    BY <1>4, <2>1 DEF Rename, Ready, FoundAt
  <2>3. [meta[g].path EXCEPT !.name = n] \in Path
    <3>1. meta[g] \in MetaRec
      BY <2>1 DEF FilesInv, TypeOK, Readable
    <3>2. meta[g].path \in Path
      BY <3>1 DEF MetaRec
    <3> QED
      BY <3>2 DEF Path
  <2> QED
    BY <2>1, <2>2, <2>3, CallStep DEF Operation
<1>5. ASSUME NEW p \in Path, Move(g, p) PROVE FilesInv'
  <2>1. PICK l \in Levels : FoundAt(g, l) /\ Readable(g, l) /\ Begin("relocate", g, l, l, p)
    BY <1>5 DEF Move
  <2>2. job = NoJob /\ UNCHANGED <<disk, session, ledger>> /\ g \in mem[l] /\ l \in unlocked
    BY <1>5, <2>1 DEF Move, Ready, FoundAt
  <2> QED
    BY <2>1, <2>2, CallStep DEF Operation
<1>6. ASSUME NEW target \in Levels, SetAccessLevel(g, target) PROVE FilesInv'
  <2>1. PICK l \in Levels : FoundAt(g, l) /\ l # target /\ Begin("set_level", g, l, target, Absent)
    BY <1>6 DEF SetAccessLevel
  <2>2. /\ job = NoJob /\ UNCHANGED <<disk, session, ledger>> /\ g \in mem[l]
        /\ target \in unlocked
    BY <1>6, <2>1 DEF SetAccessLevel, Ready, FoundAt
  <2> QED
    BY <2>1, <2>2, CallStep DEF Operation
<1>7. ASSUME NEW target \in Levels, AssignFileLevel(g, target) PROVE FilesInv'
  <2>1. PICK l \in unlocked : g \in mem[l] /\ l # target /\ Begin("assign", g, l, target, Absent)
    BY <1>7 DEF AssignFileLevel
  <2>2. /\ job = NoJob /\ UNCHANGED <<disk, session, ledger>> /\ target \in unlocked
        /\ l \in Levels
    BY <1>7, <2>1 DEF AssignFileLevel, Ready, FilesInv, TypeOK
  <2> QED
    BY <2>1, <2>2, CallStep DEF Operation
<1> QED
  BY <1>1, <1>2, <1>3, <1>4, <1>5, <1>6, <1>7

-----------------------------------------------------------------------------
(***************************************************************************)
(* The specification.                                                      *)
(***************************************************************************)
\* A new vault has no files, and no session is open.
LEMMA InitFiles == Init => FilesInv
<1> SUFFICES ASSUME Init PROVE FilesInv
  OBVIOUS
<1>1. TypeOK
  BY NoJobFacts DEF Init, TypeOK, EmptyMemory
<1>2. JobOK /\ LedgerOK
  BY DEF Init, JobOK, LedgerOK
<1>3. \A f \in Files : Settled(f)
  BY DEF Init, Settled, Gone, OnDisk, EmptyMemory
<1> QED
  BY <1>1, <1>2, <1>3 DEF FilesInv, Init

\* Every step keeps the invariant, at whichever statement an operation ends.
LEMMA FilesStep == FilesInv /\ [Next]_vars => FilesInv'
<1> SUFFICES ASSUME FilesInv, [Next]_vars PROVE FilesInv'
  OBVIOUS
<1>1. CASE OpenVault \/ Close \/ \E l \in Levels : UnlockLevel(l)
  BY <1>1, OpenStep
<1>2. CASE Call
  BY <1>2, CallsStep
<1>3. CASE Work
  BY <1>3, AddStep, RemoveStep, CreateBlobStep, FillBlobStep, CreateMetaStep, FillMetaStep,
    RemoveBlobStep, RemoveMetaStep, RefuseStep, CreateStoreStep, FillStoreStep DEF Work
<1>4. CASE IOError
  BY <1>4, ErrorStep
<1>5. CASE Crash
  BY <1>5, CrashStep
<1>6. CASE UNCHANGED vars
  <2> USE <1>6 DEF vars, disk, session, ledger
  <2>1. TypeOK' /\ JobOK' /\ LedgerOK'
    BY DEF FilesInv, TypeOK, JobOK, LedgerOK
  <2>2. \A f \in Files : Settled(f) => Settled(f)'
    BY DEF Settled, Gone, Kept, Sound, OnDisk, Readable
  <2>3. Placing => Placing'
    BY DEF Placing, MemLevels, StoreLevels, OnDisk
  <2>4. Writing => Writing'
    BY DEF Writing, At, Readable
  <2> QED
    BY <2>1, <2>2, <2>3, <2>4 DEF FilesInv
<1> QED
  BY <1>1, <1>2, <1>3, <1>4, <1>5, <1>6 DEF Next

\* The invariant holds in every state of every run.
LEMMA FilesAlways == Spec => []FilesInv
  BY InitFiles, FilesStep, PTL DEF Spec

\* Every file on disk and every keystore in memory is one the code can write.
THEOREM FilesTypeOK == Spec => []TypeOK
<1>1. FilesInv => TypeOK
  BY DEF FilesInv
<1> QED
  BY <1>1, FilesAlways, PTL

\* An operation that ends in an error, or with the process, at whichever statement,
\* damages its own file and at most the keystore it was writing.
THEOREM ErrorsAreLocal == Spec => []DamageIsLocal
<1>1. FilesInv => DamageIsLocal
  BY DEF FilesInv, DamageIsLocal, Promised, Settled, Kept, Text, LedgerOK
<1> QED
  BY <1>1, FilesAlways, PTL

\* A session shows the files the user was told of, whatever became of the keystores
\* on disk since it read them.
THEOREM SessionIsRight == Spec => []SessionSeesPromised
<1>1. FilesInv => SessionSeesPromised
  BY DEF FilesInv, SessionSeesPromised, Promised, Settled, Kept, LedgerOK
<1> QED
  BY <1>1, FilesAlways, PTL

\* Import and delete leave nothing on disk that the user was not told of.
THEOREM NoOrphans == Spec => []NothingUnaccounted
<1>1. FilesInv => NothingUnaccounted
  BY DEF FilesInv, NothingUnaccounted, Settled, Gone, OnDisk
<1> QED
  BY <1>1, FilesAlways, PTL

\* No keystore names a file whose import was cut off before all of it was written.
THEOREM ImportIsAllOrNothing == Spec => []ImportAllOrNothing
<1>1. FilesInv => ImportAllOrNothing
  BY DEF FilesInv, ImportAllOrNothing, Settled, Sound, OnDisk
<1> QED
  BY <1>1, FilesAlways, PTL

-----------------------------------------------------------------------------
(***************************************************************************)
(* What the user is told, and the catalogue.                               *)
(***************************************************************************)
\* Only the operation under way changes what the user knows, and only where it ends.
LEMMA Outcome ==
  ASSUME FilesInv, [Next]_vars
  PROVE  \/ UNCHANGED <<known, cut>>
         \/ job # NoJob /\ known' = Told /\ cut' = cut
         \/ job # NoJob /\ \E e \in Operation \cup {"refused", "failed"} : EndsIn(e)
<1>1. CASE job # NoJob /\ Advance
  BY <1>1 DEF Advance
<1>2. CASE job # NoJob /\ EndsIn(job.op)
  BY <1>2, UnderWay
<1>3. CASE UNCHANGED ledger
  BY <1>3 DEF ledger
<1>4. Refuse => job # NoJob /\ (EndsIn("refused") \/ EndsIn("failed"))
  BY DEF Refuse, At
<1>5. IOError \/ Crash => UNCHANGED ledger \/ (job # NoJob /\ EndsIn(job.op))
  BY DEF IOError, Crash, CutOff
<1>6. Work => Refuse \/ (job # NoJob /\ Advance) \/ UNCHANGED ledger \/ (job # NoJob /\ EndsIn(job.op))
  BY DEF Work, AddDek, RemoveDek, CreateBlob, FillBlob, CreateMeta, FillMeta, RemoveBlob,
    RemoveMeta, CreateStore, FillStore, Truncated, CutOff, At
<1>7. Call => UNCHANGED <<known, cut>>
  BY DEF Call, Import, Delete, Rename, Move, SetAccessLevel, AssignFileLevel, ledger
<1>8. OpenVault \/ Close \/ (\E l \in Levels : UnlockLevel(l)) => UNCHANGED ledger
  BY DEF OpenVault, Close, UnlockLevel
<1>9. UNCHANGED vars => UNCHANGED ledger
  BY DEF vars
<1> QED
  BY <1>1, <1>2, <1>3, <1>4, <1>5, <1>6, <1>7, <1>8, <1>9 DEF Next

\* A call goes to work on a file the session's keystores name, or on a new one.
LEMMA Chosen ==
  ASSUME FilesInv, [Next]_vars, NEW f \in Files, f # job.file, job'.file = f
  PROVE  f \notin drawn \/ \E l \in Levels : f \in mem[l]
<1>1. ASSUME NEW op, NEW g \in Files, NEW from, NEW to, NEW path, Begin(op, g, from, to, path)
      PROVE  job'.file = g
  BY <1>1 DEF Begin, NoJob
<1>2. CASE Call
  <2>1. PICK g \in Files :
          \/ \E l \in Levels, p \in Path : Import(g, l, p)
          \/ Delete(g)
          \/ \E n \in Names : Rename(g, n)
          \/ \E p \in Path : Move(g, p)
          \/ \E l \in Levels : SetAccessLevel(g, l) \/ AssignFileLevel(g, l)
    BY <1>2 DEF Call
  <2>2. ASSUME NEW l \in Levels, NEW p \in Path, Import(g, l, p)
        PROVE  job'.file = g /\ g \notin drawn
    BY <1>1, <2>2 DEF Import
  <2>3. ASSUME Delete(g) PROVE job'.file = g /\ \E l \in Levels : g \in mem[l]
    BY <1>1, <2>3 DEF Delete, FoundAt
  <2>4. ASSUME NEW n \in Names, Rename(g, n) PROVE job'.file = g /\ \E l \in Levels : g \in mem[l]
    BY <1>1, <2>4 DEF Rename, FoundAt
  <2>5. ASSUME NEW p \in Path, Move(g, p) PROVE job'.file = g /\ \E l \in Levels : g \in mem[l]
    BY <1>1, <2>5 DEF Move, FoundAt
  <2>6. ASSUME NEW t \in Levels, SetAccessLevel(g, t)
        PROVE  job'.file = g /\ \E l \in Levels : g \in mem[l]
    BY <1>1, <2>6 DEF SetAccessLevel, FoundAt
  <2>7. ASSUME NEW t \in Levels, AssignFileLevel(g, t)
        PROVE  job'.file = g /\ \E l \in Levels : g \in mem[l]
    <3>1. unlocked \subseteq Levels
      BY DEF FilesInv, TypeOK
    <3> QED
      BY <1>1, <2>7, <3>1 DEF AssignFileLevel
  <2> QED
    BY <2>1, <2>2, <2>3, <2>4, <2>5, <2>6, <2>7
<1>3. ASSUME Work \/ IOError \/ Crash PROVE FALSE
  <2>1. CASE job = NoJob
    BY <1>3, <2>1 DEF Work, AddDek, RemoveDek, CreateBlob, FillBlob, CreateMeta, FillMeta, RemoveBlob,
      RemoveMeta, Refuse, CreateStore, FillStore, At, IOError, Crash
  <2>2. CASE job # NoJob
    <3>1. job \in JobRec
      BY <2>2, UnderWay
    <3>2. \/ Advance \/ \E e : EndsIn(e)
          \/ \E t : Truncated(t)
          \/ job' = job
      BY <1>3 DEF Work, AddDek, RemoveDek, CreateBlob, FillBlob, CreateMeta, FillMeta, RemoveBlob,
        RemoveMeta, Refuse, CreateStore, FillStore, IOError, Crash, CutOff
    <3>3. job' = NoJob \/ job'.file = job.file
      BY <3>1, <3>2 DEF Advance, EndsIn, Truncated, JobRec
    <3> QED
      BY <3>3, NoJobFacts
  <2> QED
    BY <2>1, <2>2
<1>4. ASSUME OpenVault \/ Close \/ \E l \in Levels : UnlockLevel(l) PROVE job' = job
  BY <1>4 DEF OpenVault, Close, UnlockLevel
<1>5. UNCHANGED vars => job' = job
  BY DEF vars
<1> QED
  BY <1>2, <1>3, <1>4, <1>5 DEF Next

\* A file that an operation is not at, and that the user was told nothing about, stays
\* gone: no keystore brings it back.
THEOREM DeletedFilesStay == Spec => DeletedStaysDeleted
<1>1. FilesInv /\ FilesInv' /\ [Next]_vars =>
        [\A f \in drawn :
           known[f] = Absent /\ cut[f] = "none" /\ f # job.file
             => /\ known'[f] = Absent
                /\ \A l \in Levels : f \notin mem'[l]]_vars
  <2> SUFFICES ASSUME FilesInv, FilesInv', [Next]_vars, NEW f \in drawn,
                      known[f] = Absent, cut[f] = "none", f # job.file
               PROVE  known'[f] = Absent /\ \A l \in Levels : f \notin mem'[l]
    OBVIOUS
  <2>1. f \in Files /\ Gone(f)
    BY DEF FilesInv, TypeOK, Settled
  <2>2. known'[f] = Absent /\ cut'[f] = "none"
    <3>1. ASSUME job # NoJob, known' = Told PROVE known'[f] = known[f]
      BY <2>1, <3>1, UnderWay, ToldFacts
    <3>2. ASSUME NEW e, EndsIn(e) PROVE known'[f] = known[f] /\ cut'[f] = cut[f]
      BY <2>1, <3>2 DEF EndsIn, FilesInv, TypeOK
    <3> QED
      BY <3>1, <3>2, Outcome
  <2>3. f # job'.file
    BY <2>1, Chosen DEF Gone
  <2>4. Gone(f)'
    BY <2>1, <2>2, <2>3 DEF FilesInv, Settled
  <2> QED
    BY <2>2, <2>4 DEF Gone
<1> QED
  BY <1>1, FilesAlways, PTL DEF Spec, DeletedStaysDeleted

\* Read off the disk and the session's memory, a file is what the user was told.
LEMMA SeenIsTold ==
  FilesInv => SeenFile = [f \in Files |-> IF cut[f] # "none" THEN Torn ELSE known[f]]
<1> SUFFICES ASSUME FilesInv, NEW f \in Files, cut[f] = "none", f # job.file PROVE Seen(f) = known[f]
  BY DEF SeenFile
<1>1. TypeOK /\ Settled(f)
  BY DEF FilesInv
<1>2. CASE known[f] = Absent
  <2>1. Gone(f)
    BY <1>1, <1>2 DEF Settled
  <2>2. HeldAt(f) = {} /\ meta[f] = Absent /\ blob[f] # "whole"
    BY <2>1 DEF Gone, HeldAt, OnDisk
  <2> QED
    BY <1>2, <2>2 DEF Seen
<1>3. CASE known[f] # Absent
  <2>1. PICK e \in Entry : known[f] = e
    BY <1>1, <1>3 DEF TypeOK
  <2>2. Kept(f, e) /\ e.level \in Levels /\ e.path \in Path /\ e = [level |-> e.level, path |-> e.path]
    BY <1>1, <1>3, <2>1 DEF Settled, Entry
  <2>3. /\ blob[f] = "whole" /\ meta[f] = Text(e.level, e.path) /\ meta[f] \in MetaRec
        /\ meta[f].key = e.level /\ meta[f].level = e.level /\ meta[f].path = e.path
    BY <2>2 DEF Kept, Text, MetaRec
  <2>4. e.level \in HeldAt(f) \cup TornLevels /\ HeldAt(f) \subseteq {e.level}
    BY <1>1, <2>2 DEF Kept, HeldAt, TornLevels, TypeOK
  <2>5. meta[f] # Absent
    BY <2>3, FileAssumption
  <2>6. Seen(f) = [level |-> e.level, path |-> e.path]
    BY <2>3, <2>4, <2>5 DEF Seen
  <2> QED
    BY <2>1, <2>2, <2>6
<1> QED
  BY <1>2, <1>3

\* A step of a session is at most one step of the catalogue, on one file.
LEMMA CatalogStep ==
  ASSUME FilesInv, FilesInv', [Next]_vars
  PROVE  [Catalog!CatalogNext]_SeenFile
<1> DEFINE File == [f \in Files |-> IF cut[f] # "none" THEN Torn ELSE known[f]]
<1>1. SeenFile = File /\ SeenFile' = File'
  <2>1. (FilesInv => SeenFile = File)'
    BY SeenIsTold, PTL
  <2> QED
    BY <2>1, SeenIsTold
<1>2. CASE UNCHANGED <<known, cut>>
  <2>1. File' = File
    BY <1>2
  <2> QED
    BY <1>1, <2>1
<1>3. ASSUME job # NoJob, NEW e \in Operation \cup {"refused", "failed"}, EndsIn(e)
      PROVE  [Catalog!CatalogNext]_SeenFile
  <2>1. PICK g \in Files : g = job.file
    BY <1>3, UnderWay
  <2>2. /\ cut' = [cut EXCEPT ![g] = e] /\ known' = [known EXCEPT ![g] = Absent]
        /\ cut \in [Files -> DOMAIN Plan \cup {"none", "refused", "failed"}]
        /\ known \in [Files -> Entry \cup {Absent}] /\ e # "none"
    BY <1>3, <2>1 DEF EndsIn, FilesInv, TypeOK, Operation
  <2>3. File' = [File EXCEPT ![g] = Torn]
    BY <2>2
  <2>4. Catalog!Spoil(g, Torn)
    BY <1>1, <2>3 DEF Catalog!Spoil
  <2> QED
    BY <2>4 DEF Catalog!CatalogNext
<1>4. ASSUME job # NoJob, known' = Told, cut' = cut PROVE [Catalog!CatalogNext]_SeenFile
  <2>1. PICK g \in Files : g = job.file
    BY <1>4, UnderWay
  <2>2. /\ \A f \in Files \ {g} : known'[f] = known[f]
        /\ cut[g] # "none" => known'[g] = Absent /\ known[g] = Absent
        /\ cut[g] = "none" /\ job.op = "import" => known[g] = Absent
        /\ cut[g] = "none" /\ job.op # "import" => known[g] \in Entry
        /\ cut[g] = "none" /\ job.op = "delete" => known'[g] = Absent
        /\ cut[g] = "none" /\ job.op # "delete" => known'[g] \in Entry
    <3>1. Writing /\ TypeOK /\ LedgerOK
      BY <1>4 DEF FilesInv
    <3> QED
      BY <1>4, <2>1, <3>1, ToldFacts DEF Writing, TypeOK, LedgerOK
  <2>3. CASE cut[g] # "none"
    <3>1. File' = File
      BY <1>4, <2>2, <2>3
    <3> QED
      BY <1>1, <3>1
  <2>4. CASE cut[g] = "none"
    <3>1. File' = [File EXCEPT ![g] = known'[g]] /\ File[g] = known[g]
      BY <1>4, <2>2, <2>4
    <3>2. CASE job.op = "import"
      <4>1. Catalog!Add(g, known'[g])
        BY <1>1, <2>2, <2>4, <3>1, <3>2 DEF Catalog!Add
      <4> QED
        BY <2>2, <2>4, <3>2, <4>1 DEF Catalog!CatalogNext
    <3>3. CASE job.op = "delete"
      <4>1. Catalog!Remove(g)
        BY <1>1, <2>2, <2>4, <3>1, <3>3, FileAssumption DEF Catalog!Remove
      <4> QED
        BY <4>1 DEF Catalog!CatalogNext
    <3>4. CASE job.op \notin {"import", "delete"}
      <4>1. Catalog!Alter(g, known'[g])
        BY <1>1, <2>2, <2>4, <3>1, <3>4 DEF Catalog!Alter
      <4> QED
        BY <2>2, <2>4, <3>4, <4>1 DEF Catalog!CatalogNext
    <3> QED
      BY <3>2, <3>3, <3>4
  <2> QED
    BY <2>3, <2>4
<1> QED
  BY <1>2, <1>3, <1>4, Outcome

\* files.rs implements the catalogue: each operation takes effect in one step when it
\* returns Ok, on its own file, and one that fails spoils that file only.
THEOREM FilesAreACatalog == Spec => ImplementsCatalog
<1>1. Init => Catalog!CatalogInit
  <2> SUFFICES ASSUME Init PROVE Catalog!CatalogInit
    OBVIOUS
  <2>1. FilesInv
    BY InitFiles
  <2>2. SeenFile = [f \in Files |-> Absent]
    BY <2>1, SeenIsTold DEF Init
  <2> QED
    BY <2>2 DEF Catalog!CatalogInit
<1>2. FilesInv /\ FilesInv' /\ [Next]_vars => [Catalog!CatalogNext]_SeenFile
  BY CatalogStep
<1> QED
  BY <1>1, <1>2, FilesAlways, PTL DEF Spec, ImplementsCatalog, Catalog!CatalogSpec
=============================================================================
