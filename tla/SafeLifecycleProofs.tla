------------------------ MODULE SafeLifecycleProofs ------------------------
(***************************************************************************)
(* What the life cycle of a storage promises, for any number of processes, *)
(* keys and records, and for deaths anywhere inside create and rebuild.    *)
(*                                                                         *)
(* The invariant follows the writer through the steps of a create or a     *)
(* rebuild (Creating, Rebuilding): how far he is says which files are open *)
(* and truncated, which have their hash record, and that the state file,   *)
(* empty until the end, cannot let anybody in who would miss records.      *)
(* Readers matter only in that they hold the files and have found them to  *)
(* match.                                                                  *)
(*                                                                         *)
(* Types and Good hold whatever callers do.  That the counters and the     *)
(* entries of index and log are not behind the last WRITE that returned    *)
(* (Sound) needs callers that take a new object for each open (NoReuse)    *)
(* and never open with CREATE but without WR (Strict): such an object      *)
(* writes and does not save its state.  Between two saves of the state     *)
(* (commits, rollbacks, a WRITE cut short) the object runs ahead of its    *)
(* file, but never past the sequence of a WRITE that returned.             *)
(***************************************************************************)
EXTENDS SafeLifecycle, TLAPS

(***************************************************************************)
(* The steps of create and rebuild.                                        *)
(***************************************************************************)
RebuildSteps == CreateSteps("rebuild") \o
                << Do("replay", "data"), Do("finish", "state") >>

(* steps are those of the plan from the k-th on.                           *)
AtPlan(steps, plan, k) ==
    /\ k \in 1 .. Len(plan)
    /\ Len(steps) = Len(plan) + 1 - k
    /\ \A i \in 1 .. Len(steps) : steps[i] = plan[k + i - 1]

(* All plans begin by opening the four files and asking for the key.       *)
Opening(plan) ==
    /\ plan[1] = Do("open", "data")
    /\ plan[2] = Do("open", "index")
    /\ plan[3] = Do("open", "log")
    /\ plan[4] = Do("open", "state")
    /\ plan[5] = Do("key", "data")

(* A create writes hash records to all files.                              *)
LEMMA CreatePlan ==
    LET plan == CreateSteps("standard")
    IN  /\ plan \in Seq(Step) /\ Len(plan) = 9
        /\ Opening(plan)
        /\ plan[6] = Do("hash", "data")
        /\ plan[7] = Do("hash", "log")
        /\ plan[8] = Do("hash", "index")
        /\ plan[9] = Do("hash", "state")
<1> DEFINE plan == CreateSteps("standard")
<1>1. /\ Len(plan) = 9
      /\ Opening(plan)
      /\ plan[6] = Do("hash", "data")
      /\ plan[7] = Do("hash", "log")
      /\ plan[8] = Do("hash", "index")
      /\ plan[9] = Do("hash", "state")
  BY DEF CreateSteps, OpenSteps, HashSteps, Opening
<1>2. plan \in Seq(Step)
  <2>1. /\ OpenSteps \in Seq(Step) /\ HashSteps \in Seq(Step)
        /\ << Do("hash", "data") >> \in Seq(Step)
    BY DEF OpenSteps, HashSteps, Do, Step, File
  <2> QED
    BY <2>1 DEF CreateSteps
<1> QED
  BY <1>1, <1>2

(* One in rebuild mode leaves the data file out.                           *)
LEMMA RecreatePlan ==
    LET plan == CreateSteps("rebuild")
    IN  /\ plan \in Seq(Step) /\ Len(plan) = 8
        /\ Opening(plan)
        /\ plan[6] = Do("hash", "log")
        /\ plan[7] = Do("hash", "index")
        /\ plan[8] = Do("hash", "state")
<1> DEFINE plan == CreateSteps("rebuild")
<1>1. /\ Len(plan) = 8
      /\ Opening(plan)
      /\ plan[6] = Do("hash", "log")
      /\ plan[7] = Do("hash", "index")
      /\ plan[8] = Do("hash", "state")
  BY DEF CreateSteps, OpenSteps, HashSteps, Opening
<1>2. plan \in Seq(Step)
  <2>1. OpenSteps \in Seq(Step) /\ HashSteps \in Seq(Step)
    BY DEF OpenSteps, HashSteps, Do, Step, File
  <2> QED
    BY <2>1 DEF CreateSteps
<1> QED
  BY <1>1, <1>2

(* A rebuild goes on with the records of the data file.                    *)
LEMMA RebuildPlan ==
    /\ RebuildSteps \in Seq(Step) /\ Len(RebuildSteps) = 10
    /\ Opening(RebuildSteps)
    /\ RebuildSteps[6] = Do("hash", "log")
    /\ RebuildSteps[7] = Do("hash", "index")
    /\ RebuildSteps[8] = Do("hash", "state")
    /\ RebuildSteps[9] = Do("replay", "data")
    /\ RebuildSteps[10] = Do("finish", "state")
<1>1. /\ Len(RebuildSteps) = 10
      /\ Opening(RebuildSteps)
      /\ RebuildSteps[6] = Do("hash", "log")
      /\ RebuildSteps[7] = Do("hash", "index")
      /\ RebuildSteps[8] = Do("hash", "state")
      /\ RebuildSteps[9] = Do("replay", "data")
      /\ RebuildSteps[10] = Do("finish", "state")
  BY DEF RebuildSteps, CreateSteps, OpenSteps, HashSteps, Opening
<1>2. RebuildSteps \in Seq(Step)
  <2>1. << Do("replay", "data"), Do("finish", "state") >> \in Seq(Step)
    BY DEF Do, Step, File
  <2> QED
    BY <2>1, RecreatePlan DEF RebuildSteps
<1> QED
  BY <1>1, <1>2

(* At the k-th step of a plan.                                             *)
LEMMA PlanStep ==
    ASSUME NEW steps \in Seq(Step), NEW plan \in Seq(Step), NEW k,
           AtPlan(steps, plan, k)
    PROVE  /\ k \in 1 .. Len(plan)
           /\ steps # << >> /\ Head(steps) = plan[k]
           /\ Len(steps) = 1 <=> k = Len(plan)
           /\ k # Len(plan) => AtPlan(Tail(steps), plan, k + 1)
<1>1. /\ k \in 1 .. Len(plan) /\ Len(steps) = Len(plan) + 1 - k
      /\ Len(steps) \in Nat \ {0} /\ Len(plan) \in Nat
  BY DEF AtPlan
<1>2. steps # << >> /\ Head(steps) = steps[1]
  BY <1>1
<1>3. steps[1] = plan[k]
  BY <1>1 DEF AtPlan
<1>4. ASSUME k # Len(plan)
      PROVE  AtPlan(Tail(steps), plan, k + 1)
  <2>1. Len(Tail(steps)) = Len(steps) - 1
    BY <1>2
  <2>2. ASSUME NEW i \in 1 .. Len(Tail(steps))
        PROVE  Tail(steps)[i] = plan[k + 1 + i - 1]
    <3>1. Tail(steps)[i] = steps[i + 1]
      BY <1>2, <2>1
    <3>2. steps[i + 1] = plan[k + (i + 1) - 1]
      BY <1>1, <2>1 DEF AtPlan
    <3>3. k + (i + 1) - 1 = k + 1 + i - 1
      BY <1>1
    <3> QED
      BY <3>1, <3>2, <3>3
  <2> QED
    BY <1>1, <1>4, <2>1, <2>2 DEF AtPlan
<1> QED
  BY <1>1, <1>2, <1>3, <1>4

(* At the beginning of a plan.                                             *)
LEMMA PlanStart ==
    ASSUME NEW plan \in Seq(Step), plan # << >>
    PROVE  AtPlan(plan, plan, 1)
<1>1. Len(plan) \in Nat \ {0}
  OBVIOUS
<1> QED
  BY <1>1 DEF AtPlan

(***************************************************************************)
(* The state in the object and in its file.                                *)
(***************************************************************************)
Disks == [File -> Content]

(* saveState changes only the state file, and only a writer's.             *)
LEMMA SavedState ==
    ASSUME NEW o \in Object, NEW d \in Disks
    PROVE  /\ Saved(o, d) \in Disks
           /\ \A f \in File \ {"state"} : Saved(o, d)[f] = d[f]
           /\ \/ Saved(o, d) = d
              \/ /\ o.mode = "standard" /\ o.rdwr /\ o.fd["state"] = "rw"
                 /\ Saved(o, d)["state"] =
                       [there |-> TRUE, hash |-> o.key, n |-> o.last_sequence]
           /\ o.mode = "standard" /\ o.rdwr /\ o.fd["state"] = "rw" =>
                 Saved(o, d)["state"] =
                       [there |-> TRUE, hash |-> o.key, n |-> o.last_sequence]
<1>1. [there |-> TRUE, hash |-> o.key, n |-> o.last_sequence] \in Content
  BY DEF Content, Object
<1> QED
  BY <1>1 DEF Saved, Disks, File

(* loadState changes the key and the counters, together or not at all.     *)
LEMMA LoadedObject ==
    ASSUME NEW o \in Object, NEW d \in Disks
    PROVE  /\ Loaded(o, d) \in Object
           /\ Loaded(o, d).fd = o.fd /\ Loaded(o, d).rdwr = o.rdwr
           /\ Loaded(o, d).mode = o.mode
           /\ IF o.fd["state"] # "closed" /\ d["state"].hash # NoHash
              THEN /\ Loaded(o, d).key = d["state"].hash
                   /\ Loaded(o, d).last_sequence = d["state"].n
              ELSE Loaded(o, d) = o
<1>1. d["state"] \in Content
  BY DEF Disks, File
<1>2. d["state"].hash # NoHash => d["state"].hash \in Keys \cup {ZeroKey}
  BY <1>1 DEF Content
<1> QED
  BY <1>1, <1>2 DEF Loaded, Object, Content

(* A new object, and one that opens the files.                             *)
LEMMA Objects ==
    /\ NewObject \in Object
    /\ NewObject.mode = "standard" /\ ~NewObject.rdwr
    /\ NewObject.key = ZeroKey /\ NewObject.last_sequence = 0
    /\ \A f \in File : NewObject.fd[f] = "closed"
    /\ \A o \in Object, fl \in Flags :
          /\ OpenFiles(o, fl) \in Object
          /\ OpenFiles(o, fl).mode = o.mode /\ OpenFiles(o, fl).key = o.key
          /\ OpenFiles(o, fl).last_sequence = o.last_sequence
          /\ OpenFiles(o, fl).rdwr = IsWr(fl)
          /\ \A f \in File : OpenFiles(o, fl).fd[f] = FdMode(fl)
    /\ \A o \in Object :
          /\ Closed(o) \in Object
          /\ Closed(o).mode = o.mode /\ Closed(o).key = o.key
          /\ Closed(o).rdwr = o.rdwr
          /\ \A f \in File : Closed(o).fd[f] = "closed"
<1>1. 0 \in 0 .. MaxRecords
  BY MaxRecordsAssumption
<1>2. [f \in File |-> "closed"] \in [File -> {"closed", "ro", "rw"}]
  OBVIOUS
<1>3. ZeroKey \in Keys \cup {ZeroKey}
  OBVIOUS
<1>4. NewObject \in Object
  BY <1>1, <1>2, <1>3 DEF NewObject, Object
<1>5. ASSUME NEW o \in Object, NEW fl \in Flags
      PROVE  OpenFiles(o, fl) \in Object
  <2>1. IsWr(fl) \in BOOLEAN /\ FdMode(fl) \in {"closed", "ro", "rw"}
    BY DEF IsWr, FdMode
  <2> QED
    BY <2>1 DEF OpenFiles, Object
<1>6. ASSUME NEW o \in Object PROVE Closed(o) \in Object
  BY <1>2 DEF Closed, Object
<1> QED
  BY <1>4, <1>5, <1>6, Zenon DEF NewObject, OpenFiles, Closed, Object

(***************************************************************************)
(* Types.                                                                  *)
(***************************************************************************)
Jobs == [flags : Flags \cup {"read"}, key : Keys \cup {ZeroKey}, steps : Seq(Step)]

Tips == [record : 0 .. MaxRecords, write : 0 .. MaxRecords]

Callers == {"new", "busy", "open", "failed", "closed"}

Types ==
    /\ disk \in Disks
    /\ obj \in [Procs -> Object]
    /\ job \in [Procs -> Jobs]
    /\ caller \in [Procs -> Callers]
    /\ tip \in Tips

(* Initially there are no files and no jobs.                               *)
LEMMA InitTypes == Init => Types
<1>1. Absent \in Content /\ << >> \in Seq(Step)
  BY MaxRecordsAssumption DEF Absent, Content
<1>2. NoJob \in Jobs
  BY <1>1 DEF NoJob, Jobs
<1>3. NoTip \in Tips
  BY MaxRecordsAssumption DEF NoTip, Tips
<1> QED
  BY <1>1, <1>2, <1>3, Objects DEF Init, Types, Disks, Callers

(* The steps of a plan are taken one by one.                               *)
LEMMA StepDoneTypes ==
    ASSUME Types, NEW p \in Procs, StepDone(p), ~Idle(p)
    PROVE  job' \in [Procs -> Jobs] /\ caller' \in [Procs -> Callers]
<1>1. job[p] \in Jobs /\ job[p].steps \in Seq(Step) /\ job[p].steps # << >>
  BY DEF Types, Jobs, Idle
<1>2. Tail(job[p].steps) \in Seq(Step) /\ << >> \in Seq(Step)
  BY <1>1
<1>3. NoJob \in Jobs /\ [job[p] EXCEPT !.steps = Tail(job[p].steps)] \in Jobs
  BY <1>1, <1>2 DEF NoJob, Jobs
<1>4. job' \in [Procs -> Jobs]
  BY <1>3 DEF StepDone, Types
<1>5. caller' \in [Procs -> Callers]
  BY DEF StepDone, Types, Callers
<1> QED
  BY <1>4, <1>5

(***************************************************************************)
(* Records that go through writeFiles.                                     *)
(***************************************************************************)

(* What a call makes of an object, the files and the tip, before the       *)
(* bounds are looked at.                                                   *)
Loose ==
    [o : [fd   : [File -> {"closed", "ro", "rw"}],
          rdwr : BOOLEAN,
          mode : {"standard", "rebuild"},
          key  : Keys \cup {ZeroKey},
          last_sequence : Nat],
     d : [File -> [there : BOOLEAN, hash : Keys \cup {ZeroKey, NoHash}, n : Nat]],
     t : [record : Nat, write : Nat]]

(* Records go to the files the object has open for writing, and the state  *)
(* to its file if the object may save it.                                  *)
Moves(s1, s2) ==
    /\ s2.o.fd = s1.o.fd /\ s2.o.rdwr = s1.o.rdwr
    /\ s2.o.mode = s1.o.mode /\ s2.o.key = s1.o.key
    /\ s1.o.last_sequence <= s2.o.last_sequence
    /\ s1.d["data"].n <= s2.d["data"].n
    /\ \A f \in {"data", "index", "log"} :
          /\ s2.d[f].hash = s1.d[f].hash /\ s2.d[f].there = s1.d[f].there
          /\ s2.d[f] = s1.d[f] \/ s1.o.fd[f] = "rw"
    /\ s1.o.mode # "standard" => s2.d["data"] = s1.d["data"]
    /\ \A f \in {"index", "log"} :
          s2.d[f] = s1.d[f] \/ s2.d[f].n <= s2.o.last_sequence
    /\ \/ s2.d["state"] = s1.d["state"]
       \/ /\ s1.o.mode = "standard" /\ s1.o.rdwr /\ s1.o.fd["state"] = "rw"
          /\ s2.d["state"].there /\ s2.d["state"].hash = s1.o.key
          /\ s2.d["state"].n <= s2.o.last_sequence
    /\ \/ s2.t = s1.t
       \/ s1.o.mode = "standard" /\ s1.o.fd["data"] = "rw" /\ s2.d["data"].n > 0
    /\ s2.t.record = s1.t.record \/ s2.t.record <= s2.o.last_sequence
    /\ s2.t.write = s1.t.write \/ s2.t.write <= s2.o.last_sequence

(* The object and the last record are not behind the last WRITE, nor is    *)
(* the file f.                                                             *)
Ahead(s) == s.t.write <= s.o.last_sequence /\ s.t.write <= s.t.record
KeepsUp(s, f) == s.t.write <= s.d[f].n

(* Who appends to the data file makes his entries in f.                    *)
Fit(o, f) == Appends(o) => o.fd[f] = "rw" /\ (f = "state" => o.rdwr)

Rises(s1, s2) ==
    Ahead(s1) =>
        /\ Ahead(s2)
        /\ \A f \in {"index", "log", "state"} :
              Fit(s1.o, f) /\ KeepsUp(s1, f) => KeepsUp(s2, f)

(* One thing after the other.                                              *)
LEMMA GoOn ==
    ASSUME NEW s1 \in Loose, NEW s2 \in Loose, NEW s3 \in Loose,
           Moves(s1, s2), Rises(s1, s2), Moves(s2, s3), Rises(s2, s3)
    PROVE  Moves(s1, s3) /\ Rises(s1, s3)
<1>1. /\ s1.o.last_sequence \in Nat /\ s2.o.last_sequence \in Nat
      /\ s3.o.last_sequence \in Nat
      /\ s1.t.record \in Nat /\ s2.t.record \in Nat /\ s3.t.record \in Nat
      /\ s1.t.write \in Nat /\ s2.t.write \in Nat /\ s3.t.write \in Nat
      /\ \A f \in File : s1.d[f].n \in Nat /\ s2.d[f].n \in Nat /\ s3.d[f].n \in Nat
      /\ "data" \in File /\ "index" \in File /\ "log" \in File /\ "state" \in File
  BY DEF Loose, File
<1>2. Moves(s1, s3)
  BY <1>1 DEF Moves
<1>3. \A f \in {"index", "log", "state"} : Fit(s1.o, f) => Fit(s2.o, f)
  BY DEF Moves, Fit, Appends
<1>4. Rises(s1, s3)
  BY <1>3 DEF Rises
<1> QED
  BY <1>2, <1>4

(* Nothing at all.                                                         *)
LEMMA GoNowhere ==
    ASSUME NEW s \in Loose
    PROVE  Moves(s, s) /\ Rises(s, s)
<1>1. s.o.last_sequence \in Nat /\ s.d["data"].n \in Nat
  BY DEF Loose, File
<1> QED
  BY <1>1 DEF Moves, Rises

(* A record for the data file,                                             *)
LEMMA AddedGoes ==
    ASSUME NEW s \in Loose
    PROVE  /\ Added(s) \in Loose /\ Moves(s, Added(s)) /\ Rises(s, Added(s))
           /\ Added(s).o.last_sequence = s.o.last_sequence + 1
           /\ Appends(s.o) => Added(s).d["data"].n = s.d["data"].n + 1
           /\ Appends(s.o) => Added(s).t.record = Added(s).o.last_sequence
<1>1. PICK o, d, t : o = s.o /\ d = s.d /\ t = s.t
  OBVIOUS
<1>2. /\ s = [o |-> o, d |-> d, t |-> t]
      /\ o \in [fd : [File -> {"closed", "ro", "rw"}], rdwr : BOOLEAN,
                mode : {"standard", "rebuild"}, key : Keys \cup {ZeroKey},
                last_sequence : Nat]
      /\ d \in [File -> [there : BOOLEAN, hash : Keys \cup {ZeroKey, NoHash}, n : Nat]]
      /\ t \in [record : Nat, write : Nat]
  BY <1>1 DEF Loose
<1>3. PICK o2, d2, t2 : /\ o2 = [o EXCEPT !.last_sequence = @ + 1]
                        /\ d2 = [d EXCEPT !["data"].n = @ + 1]
                        /\ t2 = [t EXCEPT !.record = o.last_sequence + 1]
  OBVIOUS
<1>4. /\ o2 \in [fd : [File -> {"closed", "ro", "rw"}], rdwr : BOOLEAN,
                 mode : {"standard", "rebuild"}, key : Keys \cup {ZeroKey},
                 last_sequence : Nat]
      /\ o2.fd = o.fd /\ o2.rdwr = o.rdwr /\ o2.mode = o.mode /\ o2.key = o.key
      /\ o2.last_sequence = o.last_sequence + 1
  BY <1>2, <1>3
<1>5. /\ d2 \in [File -> [there : BOOLEAN, hash : Keys \cup {ZeroKey, NoHash}, n : Nat]]
      /\ d2["data"].n = d["data"].n + 1
      /\ d2["data"].hash = d["data"].hash /\ d2["data"].there = d["data"].there
      /\ d2["index"] = d["index"] /\ d2["log"] = d["log"] /\ d2["state"] = d["state"]
  BY <1>2, <1>3 DEF File
<1>6. /\ t2 \in [record : Nat, write : Nat]
      /\ t2.record = o.last_sequence + 1 /\ t2.write = t.write
  BY <1>2, <1>3
<1>7. /\ Appends(o) => Added(s) = [o |-> o2, d |-> d2, t |-> t2]
      /\ ~Appends(o) => Added(s) = [o |-> o2, d |-> d, t |-> t]
  BY <1>1, <1>2, <1>3 DEF Added
<1>8. /\ o.last_sequence \in Nat /\ t.record \in Nat /\ t.write \in Nat
      /\ d["data"].n \in Nat /\ d["index"].n \in Nat /\ d["log"].n \in Nat
      /\ d["state"].n \in Nat
  BY <1>2 DEF File
<1>9. CASE Appends(o)
  <2>1. PICK s2 : s2 = Added(s) /\ s2 = [o |-> o2, d |-> d2, t |-> t2]
    BY <1>7, <1>9
  <2>2. s2 \in Loose /\ s2.o = o2 /\ s2.d = d2 /\ s2.t = t2
    BY <1>4, <1>5, <1>6, <2>1 DEF Loose
  <2>3. o.mode = "standard" /\ o.fd["data"] = "rw"
    BY <1>9 DEF Appends
  <2>4. Moves(s, s2)
    BY <1>1, <1>4, <1>5, <1>6, <1>8, <2>2, <2>3 DEF Moves
  <2>5. Rises(s, s2)
    BY <1>1, <1>4, <1>5, <1>6, <1>8, <2>2 DEF Rises, Ahead, KeepsUp
  <2> QED
    BY <1>1, <1>4, <1>5, <1>6, <2>1, <2>2, <2>4, <2>5
<1>10. CASE ~Appends(o)
  <2>1. PICK s2 : s2 = Added(s) /\ s2 = [o |-> o2, d |-> d, t |-> t]
    BY <1>7, <1>10
  <2>2. s2 \in Loose /\ s2.o = o2 /\ s2.d = d /\ s2.t = t
    BY <1>2, <1>4, <2>1 DEF Loose
  <2>3. Moves(s, s2)
    BY <1>1, <1>4, <1>8, <2>2 DEF Moves
  <2>4. Rises(s, s2)
    BY <1>1, <1>4, <1>8, <2>2 DEF Rises, Ahead, KeepsUp
  <2> QED
    BY <1>1, <1>4, <1>10, <2>1, <2>2, <2>3, <2>4
<1> QED
  BY <1>9, <1>10

(* its entry in the index or the log,                                      *)
LEMMA EnteredGoes ==
    ASSUME NEW s \in Loose, NEW f \in {"index", "log"}
    PROVE  /\ Entered(f, s) \in Loose /\ Moves(s, Entered(f, s))
           /\ Rises(s, Entered(f, s))
           /\ Entered(f, s).o = s.o /\ Entered(f, s).t = s.t
           /\ \A g \in File \ {f} : Entered(f, s).d[g] = s.d[g]
           /\ s.o.fd[f] = "rw" => Entered(f, s).d[f].n = s.o.last_sequence
<1>1. CASE s.o.fd[f] # "rw"
  <2>1. Entered(f, s) = s
    BY <1>1 DEF Entered
  <2> QED
    BY <1>1, <2>1, GoNowhere
<1>2. CASE s.o.fd[f] = "rw"
  <2>1. PICK o, d, t : o = s.o /\ d = s.d /\ t = s.t
    OBVIOUS
  <2>2. /\ s = [o |-> o, d |-> d, t |-> t] /\ f \in File
        /\ d \in [File -> [there : BOOLEAN, hash : Keys \cup {ZeroKey, NoHash}, n : Nat]]
        /\ t \in [record : Nat, write : Nat] /\ o.last_sequence \in Nat
    BY <2>1 DEF Loose, File
  <2>3. PICK d2 : d2 = [d EXCEPT ![f].n = o.last_sequence]
    OBVIOUS
  <2>4. /\ d2 \in [File -> [there : BOOLEAN, hash : Keys \cup {ZeroKey, NoHash}, n : Nat]]
        /\ \A g \in File \ {f} : d2[g] = d[g]
        /\ d2[f].n = o.last_sequence
        /\ d2[f].hash = d[f].hash /\ d2[f].there = d[f].there
    BY <2>2, <2>3
  <2>5. PICK s2 : s2 = Entered(f, s) /\ s2 = [o |-> o, d |-> d2, t |-> t]
    BY <1>2, <2>1, <2>2, <2>3 DEF Entered
  <2>6. s2 \in Loose /\ s2.o = o /\ s2.d = d2 /\ s2.t = t
    BY <2>1, <2>2, <2>4, <2>5 DEF Loose
  <2>7. /\ d2["data"] = d["data"] /\ d2["state"] = d["state"]
        /\ \A g \in {"index", "log"} : g = f \/ d2[g] = d[g]
        /\ d["data"].n \in Nat
    BY <2>2, <2>4 DEF File
  <2>8. Moves(s, s2)
    BY <1>2, <2>1, <2>2, <2>4, <2>6, <2>7 DEF Moves
  <2>9. Rises(s, s2)
    BY <2>1, <2>2, <2>4, <2>6, <2>7 DEF Rises, Ahead, KeepsUp
  <2> QED
    BY <2>1, <2>4, <2>5, <2>6, <2>8, <2>9
<1> QED
  BY <1>1, <1>2

(* and the state.                                                          *)
LEMMA StateSavedGoes ==
    ASSUME NEW s \in Loose
    PROVE  /\ StateSaved(s) \in Loose /\ Moves(s, StateSaved(s))
           /\ Rises(s, StateSaved(s))
           /\ StateSaved(s).o = s.o /\ StateSaved(s).t = s.t
           /\ \A f \in File \ {"state"} : StateSaved(s).d[f] = s.d[f]
           /\ s.o.mode = "standard" /\ s.o.rdwr /\ s.o.fd["state"] = "rw" =>
                 StateSaved(s).d["state"].n = s.o.last_sequence
<1>1. PICK o, d, t : o = s.o /\ d = s.d /\ t = s.t
  OBVIOUS
<1>2. /\ s = [o |-> o, d |-> d, t |-> t]
      /\ d \in [File -> [there : BOOLEAN, hash : Keys \cup {ZeroKey, NoHash}, n : Nat]]
      /\ t \in [record : Nat, write : Nat] /\ o.last_sequence \in Nat
      /\ o.key \in Keys \cup {ZeroKey} /\ d["data"].n \in Nat
  BY <1>1 DEF Loose, File
<1>3. PICK d2 : d2 = Saved(o, d)
  OBVIOUS
<1>4. PICK s2 : s2 = StateSaved(s) /\ s2 = [o |-> o, d |-> d2, t |-> t]
  <2>1. StateSaved(s) = [s EXCEPT !.d = d2]
    BY <1>1, <1>3 DEF StateSaved
  <2> QED
    BY <1>2, <2>1
<1>5. CASE ~(o.mode = "standard" /\ o.rdwr /\ o.fd["state"] = "rw")
  <2>1. d2 = d
    BY <1>3, <1>5 DEF Saved
  <2>2. s2 = s
    BY <1>2, <1>4, <2>1
  <2> QED
    BY <1>1, <1>4, <1>5, <2>2, GoNowhere
<1>6. CASE o.mode = "standard" /\ o.rdwr /\ o.fd["state"] = "rw"
  <2>1. PICK r : r = [there |-> TRUE, hash |-> o.key, n |-> o.last_sequence]
    OBVIOUS
  <2>2. /\ r.there /\ r.hash = o.key /\ r.n = o.last_sequence
        /\ r \in [there : BOOLEAN, hash : Keys \cup {ZeroKey, NoHash}, n : Nat]
    BY <1>2, <2>1
  <2>3. d2 = [d EXCEPT !["state"] = r]
    BY <1>3, <1>6, <2>1 DEF Saved
  <2>4. /\ d2 \in [File -> [there : BOOLEAN, hash : Keys \cup {ZeroKey, NoHash}, n : Nat]]
        /\ \A f \in File \ {"state"} : d2[f] = d[f]
        /\ d2["state"] = r
    BY <1>2, <2>2, <2>3 DEF File
  <2>5. s2 \in Loose /\ s2.o = o /\ s2.d = d2 /\ s2.t = t
    BY <1>1, <1>2, <1>4, <2>4 DEF Loose
  <2>6. d2["data"] = d["data"] /\ d2["index"] = d["index"] /\ d2["log"] = d["log"]
    BY <2>4 DEF File
  <2>7. Moves(s, s2)
    BY <1>1, <1>2, <1>6, <2>2, <2>4, <2>5, <2>6 DEF Moves
  <2>8. Rises(s, s2)
    BY <1>1, <1>2, <2>2, <2>4, <2>5, <2>6 DEF Rises, Ahead, KeepsUp
  <2> QED
    BY <1>1, <1>4, <2>2, <2>4, <2>5, <2>7, <2>8
<1> QED
  BY <1>5, <1>6

(* A record with its entry in the log, a COMMIT or a STATUS for instance.   *)
LEMMA MarkGoes ==
    ASSUME NEW s \in Loose
    PROVE  /\ MarkRecord(s) \in Loose
           /\ Moves(s, MarkRecord(s)) /\ Rises(s, MarkRecord(s))
<1>1. PICK s1 : s1 = Added(s)
  OBVIOUS
<1>2. PICK s2 : s2 = Entered("log", s1)
  OBVIOUS
<1>3. s1 \in Loose /\ Moves(s, s1) /\ Rises(s, s1)
  BY <1>1, AddedGoes
<1>4. s2 \in Loose /\ Moves(s1, s2) /\ Rises(s1, s2)
  BY <1>2, <1>3, EnteredGoes
<1>5. Moves(s, s2) /\ Rises(s, s2)
  BY <1>3, <1>4, GoOn
<1>6. MarkRecord(s) = s2
  BY <1>1, <1>2 DEF MarkRecord
<1> QED
  BY <1>4, <1>5, <1>6

LEMMA StatusGoes ==
    ASSUME NEW s \in Loose, NEW status \in BOOLEAN
    PROVE  /\ StatusAfter(s, status) \in Loose
           /\ Moves(s, StatusAfter(s, status)) /\ Rises(s, StatusAfter(s, status))
<1>1. CASE ~status
  <2>1. StatusAfter(s, status) = s
    BY <1>1 DEF StatusAfter
  <2> QED
    BY <2>1, GoNowhere
<1>2. CASE status
  <2>1. PICK s1 : s1 = MarkRecord(s)
    OBVIOUS
  <2>2. PICK s2 : s2 = StateSaved(s1)
    OBVIOUS
  <2>3. s1 \in Loose /\ Moves(s, s1) /\ Rises(s, s1)
    BY <2>1, MarkGoes
  <2>4. s2 \in Loose /\ Moves(s1, s2) /\ Rises(s1, s2)
    BY <2>2, <2>3, StateSavedGoes
  <2>5. Moves(s, s2) /\ Rises(s, s2)
    BY <2>3, <2>4, GoOn
  <2>6. StatusAfter(s, status) = s2
    BY <1>2, <2>1, <2>2 DEF StatusAfter, MarkRecord
  <2> QED
    BY <2>4, <2>5, <2>6
<1> QED
  BY <1>1, <1>2

(* The record of a WRITE that returns.                                     *)
LEMMA WriteGoes ==
    ASSUME NEW s \in Loose
    PROVE  /\ Returned(WriteRecord(s)) \in Loose
           /\ Moves(s, Returned(WriteRecord(s))) /\ Rises(s, Returned(WriteRecord(s)))
<1>1. PICK s1 : s1 = Added(s)
  OBVIOUS
<1>2. PICK s2 : s2 = StateSaved(s1)
  OBVIOUS
<1>3. PICK s3 : s3 = Entered("log", s2)
  OBVIOUS
<1>4. PICK s4 : s4 = Entered("index", s3)
  OBVIOUS
<1>5. /\ s1 \in Loose /\ Moves(s, s1) /\ Rises(s, s1)
      /\ Appends(s.o) => s1.t.record = s1.o.last_sequence
  BY <1>1, AddedGoes
<1>6. /\ s2 \in Loose /\ Moves(s1, s2) /\ Rises(s1, s2)
      /\ s2.o = s1.o /\ s2.t = s1.t
      /\ s1.o.mode = "standard" /\ s1.o.rdwr /\ s1.o.fd["state"] = "rw" =>
            s2.d["state"].n = s1.o.last_sequence
  BY <1>2, <1>5, StateSavedGoes
<1>7. /\ s3 \in Loose /\ Moves(s2, s3) /\ Rises(s2, s3)
      /\ s3.o = s2.o /\ s3.t = s2.t /\ s3.d["state"] = s2.d["state"]
      /\ s2.o.fd["log"] = "rw" => s3.d["log"].n = s2.o.last_sequence
  BY <1>3, <1>6, EnteredGoes DEF File
<1>8. /\ s4 \in Loose /\ Moves(s3, s4) /\ Rises(s3, s4)
      /\ s4.o = s3.o /\ s4.t = s3.t
      /\ s4.d["state"] = s3.d["state"] /\ s4.d["log"] = s3.d["log"]
      /\ s3.o.fd["index"] = "rw" => s4.d["index"].n = s3.o.last_sequence
  BY <1>4, <1>7, EnteredGoes DEF File
<1>9. Moves(s, s4) /\ Rises(s, s4)
  <2>1. Moves(s, s2) /\ Rises(s, s2)
    BY <1>5, <1>6, GoOn
  <2>2. Moves(s, s3) /\ Rises(s, s3)
    BY <1>6, <1>7, <2>1, GoOn
  <2> QED
    BY <1>7, <1>8, <2>2, GoOn
<1>10. WriteRecord(s) = s4
  BY <1>1, <1>2, <1>3, <1>4 DEF WriteRecord
<1>11. CASE ~Appends(s4.o)
  <2>1. Returned(s4) = s4
    BY <1>11 DEF Returned
  <2> QED
    BY <1>8, <1>9, <1>10, <2>1
<1>12. CASE Appends(s4.o)
  <2>1. PICK o, d, t : o = s4.o /\ d = s4.d /\ t = s4.t
    OBVIOUS
  <2>2. /\ s4 = [o |-> o, d |-> d, t |-> t]
        /\ t \in [record : Nat, write : Nat] /\ o.last_sequence \in Nat
    BY <1>8, <2>1 DEF Loose
  <2>3. PICK t2 : t2 = [t EXCEPT !.write = o.last_sequence]
    OBVIOUS
  <2>4. /\ t2 \in [record : Nat, write : Nat]
        /\ t2.write = o.last_sequence /\ t2.record = t.record
    BY <2>2, <2>3
  <2>5. PICK s5 : s5 = Returned(s4) /\ s5 = [o |-> o, d |-> d, t |-> t2]
    <3>1. Returned(s4) = [s4 EXCEPT !.t.write = s4.o.last_sequence]
      BY <1>12 DEF Returned
    <3> QED
      BY <2>1, <2>2, <2>3, <3>1
  <2>6. s5 \in Loose /\ s5.o = o /\ s5.d = d /\ s5.t = t2
    BY <1>8, <2>1, <2>4, <2>5 DEF Loose
  <2>7. /\ s.o.mode = "standard" /\ s.o.fd["data"] = "rw" /\ s.o.fd = s4.o.fd
        /\ s.o.rdwr = s4.o.rdwr /\ s4.o.mode = "standard" /\ Appends(s.o)
    BY <1>9, <1>12 DEF Moves, Appends
  <2>8. s4.d["data"].n > 0
    <3>1. s1.d["data"].n > 0
      <4>1. s1.d["data"].n = s.d["data"].n + 1 /\ s.d["data"].n \in Nat
        BY <1>1, <2>7, AddedGoes DEF Loose, File
      <4> QED
        BY <4>1
    <3>2. /\ s1.d["data"].n \in Nat /\ s2.d["data"].n \in Nat
          /\ s3.d["data"].n \in Nat /\ s4.d["data"].n \in Nat
      BY <1>5, <1>6, <1>7, <1>8 DEF Loose, File
    <3> QED
      BY <1>6, <1>7, <1>8, <3>1, <3>2 DEF Moves
  <2>9. Moves(s, s5)
    BY <1>9, <2>1, <2>2, <2>4, <2>6, <2>7, <2>8 DEF Moves
  <2>10. Rises(s, s5)
    <3>1. Ahead(s5)
      <4>1. s4.t.record = o.last_sequence
        BY <1>5, <1>6, <1>7, <1>8, <2>1, <2>7
      <4> QED
        BY <2>1, <2>2, <2>4, <2>6, <4>1 DEF Ahead
    <3>2. ASSUME NEW f \in {"index", "log", "state"}, Fit(s.o, f)
          PROVE  KeepsUp(s5, f)
      <4>1. s.o.fd[f] = "rw" /\ (f = "state" => s.o.rdwr)
        BY <2>7, <3>2 DEF Fit
      <4>2. /\ s1.o = s4.o /\ s2.o = s4.o /\ s3.o = s4.o
        BY <1>6, <1>7, <1>8
      <4>3. s4.d[f].n = o.last_sequence
        <5>1. CASE f = "index"
          BY <1>8, <2>1, <2>7, <4>1, <4>2, <5>1
        <5>2. CASE f = "log"
          BY <1>7, <1>8, <2>1, <2>7, <4>1, <4>2, <5>2
        <5>3. CASE f = "state"
          BY <1>6, <1>7, <1>8, <2>1, <2>7, <4>1, <4>2, <5>3
        <5> QED
          BY <5>1, <5>2, <5>3
      <4> QED
        BY <2>1, <2>2, <2>4, <2>6, <4>3 DEF KeepsUp
    <3> QED
      BY <3>1, <3>2 DEF Rises
  <2> QED
    BY <1>10, <2>5, <2>6, <2>9, <2>10
<1> QED
  BY <1>11, <1>12

(* A call, or a death inside one, does such things.                        *)
Records(p) == Write(p) \/ Commit(p) \/ Rollback(p)

(* What comes of it, as a step of p.                                       *)
Recorded(p, s) ==
    /\ s \in Loose /\ Moves(Now(p), s) /\ Rises(Now(p), s)
    /\ s.o.last_sequence <= MaxRecords /\ s.d["data"].n <= MaxRecords
    /\ Idle(p)
    /\ disk' = s.d /\ tip' = s.t /\ job' = job
    /\ \/ /\ obj' = [obj EXCEPT ![p] = s.o] /\ caller' = caller
          /\ caller[p] = "open" \/ "reuse" \in Allowed
       \/ /\ obj' = [obj EXCEPT ![p] = NewObject]
          /\ caller' = [caller EXCEPT ![p] = "new"]
          /\ Appends(obj[p]) /\ caller[p] = "open"

LEMMA NowLoose ==
    ASSUME Types, NEW p \in Procs
    PROVE  /\ Now(p) \in Loose
           /\ Now(p).o = obj[p] /\ Now(p).d = disk /\ Now(p).t = tip
<1>1. /\ obj[p] \in Object /\ disk \in Disks /\ tip \in Tips
      /\ \A n \in 0 .. MaxRecords : n \in Nat
  BY DEF Types
<1>2. PICK s : s = Now(p)
  OBVIOUS
<1>3. s.o = obj[p] /\ s.d = disk /\ s.t = tip
  BY <1>2 DEF Now
<1>4. s = [o |-> obj[p], d |-> disk, t |-> tip]
  BY <1>2 DEF Now
<1>5. obj[p] \in [fd : [File -> {"closed", "ro", "rw"}], rdwr : BOOLEAN,
                  mode : {"standard", "rebuild"}, key : Keys \cup {ZeroKey},
                  last_sequence : Nat]
  BY <1>1 DEF Object
<1>6. disk \in [File -> [there : BOOLEAN, hash : Keys \cup {ZeroKey, NoHash}, n : Nat]]
  BY <1>1 DEF Disks, Content
<1>7. tip \in [record : Nat, write : Nat]
  BY <1>1 DEF Tips
<1> QED
  BY <1>2, <1>3, <1>4, <1>5, <1>6, <1>7 DEF Loose

LEMMA Recording ==
    ASSUME Types, NEW p \in Procs, Records(p) \/ DiesWriting(p)
    PROVE  \E s : Recorded(p, s)
<1>1. PICK s0 \in Loose : s0 = Now(p)
  BY NowLoose
<1>2. ASSUME NEW s \in Loose, Moves(s0, s), Rises(s0, s), Becomes(p, s)
      PROVE  Recorded(p, s)
  BY <1>1, <1>2 DEF Becomes, Recorded
<1>3. CASE Write(p)
  <2>1. CASE AppendFails(obj[p])
    <3>1. PICK s : s = Added(s0)
      OBVIOUS
    <3>2. Becomes(p, s)
      BY <1>1, <1>3, <2>1, <3>1 DEF Write
    <3>3. s \in Loose /\ Moves(s0, s) /\ Rises(s0, s)
      BY <3>1, AddedGoes
    <3> QED
      BY <1>2, <3>2, <3>3
  <2>2. CASE ~AppendFails(obj[p])
    <3>1. PICK s1 : s1 = Returned(WriteRecord(s0))
      OBVIOUS
    <3>2. PICK status \in BOOLEAN : Becomes(p, StatusAfter(s1, status))
      BY <1>1, <1>3, <2>2, <3>1 DEF Write
    <3>3. PICK s : s = StatusAfter(s1, status)
      OBVIOUS
    <3>4. s1 \in Loose /\ Moves(s0, s1) /\ Rises(s0, s1)
      BY <3>1, WriteGoes
    <3>5. s \in Loose /\ Moves(s1, s) /\ Rises(s1, s)
      BY <3>3, <3>4, StatusGoes
    <3>6. Moves(s0, s) /\ Rises(s0, s)
      BY <3>4, <3>5, GoOn
    <3> QED
      BY <1>2, <3>2, <3>3, <3>5, <3>6
  <2> QED
    BY <2>1, <2>2
<1>4. ASSUME NEW s \in Loose, Moves(s0, s), Rises(s0, s), NEW status \in BOOLEAN
      PROVE  /\ StatusAfter(MarkRecord(s), status) \in Loose
             /\ Moves(s0, StatusAfter(MarkRecord(s), status))
             /\ Rises(s0, StatusAfter(MarkRecord(s), status))
  <2>1. PICK s1 : s1 = MarkRecord(s)
    OBVIOUS
  <2>2. PICK s2 : s2 = StatusAfter(s1, status)
    OBVIOUS
  <2>3. s1 \in Loose /\ Moves(s, s1) /\ Rises(s, s1)
    BY <2>1, MarkGoes
  <2>4. s2 \in Loose /\ Moves(s1, s2) /\ Rises(s1, s2)
    BY <2>2, <2>3, StatusGoes
  <2>5. Moves(s0, s1) /\ Rises(s0, s1)
    BY <1>4, <2>3, GoOn
  <2>6. Moves(s0, s2) /\ Rises(s0, s2)
    BY <2>3, <2>4, <2>5, GoOn
  <2> QED
    BY <2>1, <2>2, <2>4, <2>6
<1>5. CASE Commit(p)
  <2>1. PICK status \in BOOLEAN : Becomes(p, StatusAfter(MarkRecord(s0), status))
    BY <1>1, <1>5 DEF Commit
  <2>2. PICK s : s = StatusAfter(MarkRecord(s0), status)
    OBVIOUS
  <2>3. s \in Loose /\ Moves(s0, s) /\ Rises(s0, s)
    BY <1>4, <2>2, GoNowhere
  <2> QED
    BY <1>2, <2>1, <2>2, <2>3
<1>6. CASE Rollback(p)
  <2>1. PICK status1 \in BOOLEAN, status2 \in BOOLEAN :
           Becomes(p, StatusAfter(MarkRecord(StatusAfter(MarkRecord(s0), status1)),
                                  status2))
    BY <1>1, <1>6 DEF Rollback
  <2>2. PICK s1 : s1 = StatusAfter(MarkRecord(s0), status1)
    OBVIOUS
  <2>3. PICK s : s = StatusAfter(MarkRecord(s1), status2)
    OBVIOUS
  <2>4. s1 \in Loose /\ Moves(s0, s1) /\ Rises(s0, s1)
    BY <1>4, <2>2, GoNowhere
  <2>5. s \in Loose /\ Moves(s0, s) /\ Rises(s0, s)
    BY <1>4, <2>3, <2>4
  <2> QED
    BY <1>2, <2>1, <2>2, <2>3, <2>5
<1>7. CASE DiesWriting(p)
  <2>1. PICK s1 : s1 = Added(s0)
    OBVIOUS
  <2>2. PICK s2 : s2 = StateSaved(s1)
    OBVIOUS
  <2>3. PICK s3 : s3 = Entered("log", s2)
    OBVIOUS
  <2>4. s1 \in Loose /\ Moves(s0, s1) /\ Rises(s0, s1)
    BY <2>1, AddedGoes
  <2>5. /\ s2 \in Loose /\ Moves(s1, s2) /\ Rises(s1, s2)
        /\ s2.o = s1.o /\ s2.t = s1.t /\ s2.d["data"] = s1.d["data"]
    BY <2>2, <2>4, StateSavedGoes DEF File
  <2>6. /\ s3 \in Loose /\ Moves(s2, s3) /\ Rises(s2, s3)
        /\ s3.o = s2.o /\ s3.t = s2.t /\ s3.d["data"] = s2.d["data"]
    BY <2>3, <2>5, EnteredGoes DEF File
  <2>7. Moves(s0, s2) /\ Rises(s0, s2)
    BY <2>4, <2>5, GoOn
  <2>8. Moves(s0, s3) /\ Rises(s0, s3)
    BY <2>5, <2>6, <2>7, GoOn
  <2>9. /\ disk' \in {s1.d, s2.d, s3.d} /\ tip' = s1.t
        /\ s1.o.last_sequence <= MaxRecords /\ s1.d["data"].n <= MaxRecords
        /\ Idle(p) /\ caller[p] = "open" /\ Appends(obj[p]) /\ job' = job
        /\ obj' = [obj EXCEPT ![p] = NewObject]
        /\ caller' = [caller EXCEPT ![p] = "new"]
    BY <1>1, <1>7, <2>1, <2>2, <2>3 DEF DiesWriting
  <2>10. PICK s \in {s1, s2, s3} : disk' = s.d
    BY <2>9
  <2>11. /\ s \in Loose /\ Moves(s0, s) /\ Rises(s0, s)
         /\ s.o = s1.o /\ s.t = s1.t /\ s.d["data"] = s1.d["data"]
    BY <2>4, <2>5, <2>6, <2>7, <2>8, <2>10
  <2>12. Recorded(p, s)
    BY <1>1, <2>9, <2>10, <2>11 DEF Recorded
  <2> QED
    BY <2>12
<1> QED
  BY <1>3, <1>5, <1>6, <1>7 DEF Records

(* Bounded as they are, the files, the object and the tip keep their types. *)
LEMMA RecordedTypes ==
    ASSUME Types, NEW p \in Procs, NEW s, Recorded(p, s)
    PROVE  /\ Types' /\ s.o \in Object
           /\ Moves([o |-> obj[p], d |-> disk, t |-> tip], s)
           /\ Rises([o |-> obj[p], d |-> disk, t |-> tip], s)
<1>1. PICK s0 \in Loose : /\ s0 = Now(p) /\ s0.o = obj[p] /\ s0.d = disk /\ s0.t = tip
                          /\ s0 = [o |-> obj[p], d |-> disk, t |-> tip]
  BY NowLoose DEF Now
<1>2. /\ s \in Loose /\ Moves(s0, s) /\ Rises(s0, s)
      /\ s.o.last_sequence <= MaxRecords /\ s.d["data"].n <= MaxRecords
      /\ disk' = s.d /\ tip' = s.t /\ job' = job
      /\ \/ obj' = [obj EXCEPT ![p] = s.o] /\ caller' = caller
         \/ /\ obj' = [obj EXCEPT ![p] = NewObject]
            /\ caller' = [caller EXCEPT ![p] = "new"]
  BY <1>1 DEF Recorded
<1>3. /\ disk \in Disks /\ obj[p] \in Object /\ tip \in Tips
      /\ \A f \in File : disk[f] \in Content /\ disk[f].n \in 0 .. MaxRecords
      /\ tip.record \in 0 .. MaxRecords /\ tip.write \in 0 .. MaxRecords
  BY DEF Types, Disks, Content, Tips
<1>4. \A n \in Nat : n <= MaxRecords => n \in 0 .. MaxRecords
  BY MaxRecordsAssumption
<1>5. s.o \in Object
  <2>1. s.o.last_sequence \in 0 .. MaxRecords
    BY <1>2, <1>4 DEF Loose
  <2> QED
    BY <1>2, <2>1 DEF Loose, Object
<1>6. s.d \in Disks
  <2>1. \A f \in File : s.d[f].n \in Nat
    BY <1>2 DEF Loose
  <2>2. s.o.last_sequence \in Nat
    BY <1>2 DEF Loose
  <2>3. s.d["data"].n \in 0 .. MaxRecords
    BY <1>2, <1>4, <2>1 DEF File
  <2>4. ASSUME NEW f \in {"index", "log", "state"}
        PROVE  s.d[f].n \in 0 .. MaxRecords
    <3>1. s.d[f] = disk[f] \/ s.d[f].n <= s.o.last_sequence
      BY <1>1, <1>2 DEF Moves
    <3>2. f \in File
      BY DEF File
    <3>3. s.d[f].n <= s.o.last_sequence => s.d[f].n <= MaxRecords
      BY <1>2, <2>1, <2>2, <3>2, MaxRecordsAssumption
    <3> QED
      BY <1>3, <1>4, <2>1, <3>1, <3>2, <3>3
  <2>5. \A f \in File : s.d[f].n \in 0 .. MaxRecords
    BY <2>3, <2>4 DEF File
  <2> QED
    BY <1>2, <2>5 DEF Loose, Disks, Content
<1>7. s.t \in Tips
  <2>1. s.t.record \in Nat /\ s.t.write \in Nat /\ s.o.last_sequence \in Nat
    BY <1>2 DEF Loose
  <2>2. /\ s.t.record = tip.record \/ s.t.record <= s.o.last_sequence
        /\ s.t.write = tip.write \/ s.t.write <= s.o.last_sequence
    BY <1>1, <1>2 DEF Moves
  <2>3. s.t.record \in 0 .. MaxRecords /\ s.t.write \in 0 .. MaxRecords
    BY <1>2, <1>3, <2>1, <2>2, MaxRecordsAssumption
  <2> QED
    BY <1>2, <2>3 DEF Loose, Tips
<1>8. obj' \in [Procs -> Object] /\ caller' \in [Procs -> Callers]
  BY <1>2, <1>5, Objects DEF Types, Callers
<1>9. Types'
  BY <1>2, <1>6, <1>7, <1>8 DEF Types
<1> QED
  BY <1>1, <1>2, <1>5, <1>9

(* Each action keeps the types.                                            *)
LEMMA NextTypes == Types /\ [Next]_vars => Types'
<1> SUFFICES ASSUME Types, [Next]_vars
             PROVE  Types'
  OBVIOUS
<1> USE DEF Types
<1>1. ASSUME NEW p \in Procs, NEW fl \in Flags, OpenRefused(p, fl)
      PROVE  Types'
  <2>1. IsWr(fl) \in BOOLEAN
    BY DEF IsWr
  <2>2. obj' \in [Procs -> Object]
    BY <1>1, <2>1, ZenonT(60) DEF OpenRefused, Object
  <2> QED
    BY <1>1, <2>2 DEF OpenRefused, Callers
<1>2. ASSUME NEW p \in Procs, NEW fl \in Flags,
             OpenExisting(p, fl) \/ OpenMismatch(p, fl)
      PROVE  Types'
  <2>1. PICK o : o = Loaded(OpenFiles(obj[p], fl), disk)
    OBVIOUS
  <2>2. o \in Object
    BY <2>1, LoadedObject, Objects
  <2>3. Saved(o, disk) \in Disks /\ Closed(o) \in Object
    BY <2>2, SavedState, Objects
  <2> QED
    BY <1>2, <2>1, <2>2, <2>3 DEF OpenExisting, OpenMismatch, Callers
<1>3. ASSUME NEW p \in Procs, NEW fl \in Flags, NEW key \in Keys,
             OpenCreate(p, fl, key)
      PROVE  Types'
  <2>1. IsWr(fl) \in BOOLEAN
    BY DEF IsWr
  <2>2. obj' \in [Procs -> Object]
    BY <1>3, <2>1, ZenonT(60) DEF OpenCreate, Object
  <2>3. CreateSteps(obj[p].mode) \in Seq(Step)
    BY CreatePlan, RecreatePlan DEF Object
  <2>4. job' \in [Procs -> Jobs]
    BY <1>3, <2>3 DEF OpenCreate, Jobs
  <2> QED
    BY <1>3, <2>2, <2>4 DEF OpenCreate, Callers
<1>4. ASSUME NEW p \in Procs, NEW fl \in Flags, Rebuild(p, fl)
      PROVE  Types'
  <2>1. obj' \in [Procs -> Object]
    BY <1>4, ZenonT(60) DEF Rebuild, Object
  <2>2. job' = [job EXCEPT ![p] = [flags |-> fl, key |-> ZeroKey,
                                   steps |-> RebuildSteps]]
    BY <1>4 DEF Rebuild, RebuildSteps
  <2>3. job' \in [Procs -> Jobs]
    BY <2>2, RebuildPlan DEF Jobs
  <2> QED
    BY <1>4, <2>1, <2>3 DEF Rebuild, Callers
<1>5. ASSUME NEW p \in Procs, Records(p) \/ DiesWriting(p)
      PROVE  Types'
  <2>1. PICK s : Recorded(p, s)
    BY <1>5, Recording
  <2> QED
    BY <2>1, RecordedTypes
<1>6. ASSUME NEW p \in Procs, Read(p)
      PROVE  Types'
  BY <1>6, LoadedObject DEF Read
<1>7. ASSUME NEW p \in Procs, Close(p) \/ Delete(p) \/ Crash(p)
      PROVE  Types'
  <2>1. /\ Saved(obj[p], disk) \in Disks /\ Closed(obj[p]) \in Object
        /\ NewObject \in Object
    BY SavedState, Objects
  <2>2. << >> \in Seq(Step)
    OBVIOUS
  <2>3. NoJob \in Jobs
    BY <2>2 DEF NoJob, Jobs
  <2> QED
    BY <1>7, <2>1, <2>3 DEF Close, Delete, Crash, Callers
<1>8. ASSUME NEW p \in Procs, OpenStep(p)
      PROVE  Types'
  <2>1. ~Idle(p) /\ StepDone(p)
    BY <1>8 DEF OpenStep, AtStep
  <2>2. PICK f \in File : f = Head(job[p].steps).file
    <3>1. job[p].steps \in Seq(Step) /\ job[p].steps # << >>
      BY <2>1 DEF Jobs, Idle
    <3>2. Head(job[p].steps) \in Step
      BY <3>1
    <3> QED
      BY <3>2 DEF Step
  <2>3. /\ \/ disk' = disk
           \/ disk' = [disk EXCEPT ![f].there = TRUE]
           \/ disk' = [disk EXCEPT ![f] = Empty]
        /\ \E m \in {"closed", "ro", "rw"} : obj' = [obj EXCEPT ![p].fd[f] = m]
        /\ tip' = tip \/ tip' = NoTip
    BY <1>8, <2>2 DEF OpenStep, FdMode
  <2>7. PICK m \in {"closed", "ro", "rw"} : obj' = [obj EXCEPT ![p].fd[f] = m]
    BY <2>3
  <2>4. Empty \in Content /\ NoTip \in Tips
    BY MaxRecordsAssumption DEF Empty, Content, NoTip, Tips
  <2>5. disk' \in Disks
    BY <2>3, <2>4, ZenonT(60) DEF Disks, Content
  <2>6. obj' \in [Procs -> Object]
    <3>1. obj[p] \in Object
      OBVIOUS
    <3>2. [obj[p].fd EXCEPT ![f] = m] \in [File -> {"closed", "ro", "rw"}]
      BY <3>1 DEF Object
    <3>3. [obj[p] EXCEPT !.fd = [obj[p].fd EXCEPT ![f] = m]] \in Object
      BY <3>1, <3>2 DEF Object
    <3>4. obj' = [obj EXCEPT ![p] = [obj[p] EXCEPT !.fd = [obj[p].fd EXCEPT ![f] = m]]]
      BY <2>7
    <3> QED
      BY <3>3, <3>4
  <2> QED
    BY <2>1, <2>3, <2>4, <2>5, <2>6, StepDoneTypes
<1>9. ASSUME NEW p \in Procs, KeyStep(p)
      PROVE  Types'
  <2>1. job[p].steps \in Seq(Step) /\ job[p].steps # << >>
    BY <1>9 DEF KeyStep, AtStep, Jobs, Idle
  <2>2. Tail(job[p].steps) \in Seq(Step)
    BY <2>1
  <2>3. ReadHash("data", ZeroKey) \in Keys \cup {ZeroKey}
    BY DEF ReadHash, Disks, Content, File
  <2>4. \E key \in Keys \cup {ZeroKey} :
           job' = [job EXCEPT ![p].steps = Tail(@), ![p].key = key]
    BY <1>9, <2>3, Zenon DEF KeyStep, Jobs
  <2>5. job' \in [Procs -> Jobs]
    <3>1. PICK key \in Keys \cup {ZeroKey} :
             job' = [job EXCEPT ![p].steps = Tail(@), ![p].key = key]
      BY <2>4, Zenon
    <3>2. job[p] \in Jobs
      OBVIOUS
    <3>3. [job[p] EXCEPT !.steps = Tail(job[p].steps), !.key = key] \in Jobs
      BY <2>2, <3>2 DEF Jobs
    <3>4. job' = [job EXCEPT ![p] =
                     [job[p] EXCEPT !.steps = Tail(job[p].steps), !.key = key]]
      BY <3>1
    <3> QED
      BY <3>3, <3>4
  <2> QED
    BY <1>9, <2>5 DEF KeyStep
<1>10. ASSUME NEW p \in Procs, HashStep(p)
       PROVE  Types'
  <2>1. ~Idle(p) /\ StepDone(p)
    BY <1>10 DEF HashStep, AtStep
  <2>2. PICK f \in File : f = Head(job[p].steps).file
    <3>1. job[p].steps \in Seq(Step) /\ job[p].steps # << >>
      BY <2>1 DEF Jobs, Idle
    <3>2. Head(job[p].steps) \in Step
      BY <3>1
    <3> QED
      BY <3>2 DEF Step
  <2>3. PICK o : o = [obj[p] EXCEPT !.key = job[p].key]
    OBVIOUS
  <2>4. o \in Object /\ job[p].key \in Keys \cup {ZeroKey}
    BY <2>3, ZenonT(60) DEF Object, Jobs
  <2>5. \/ disk' = Saved(o, disk) /\ obj' = [obj EXCEPT ![p] = o]
        \/ disk' = [disk EXCEPT ![f].hash = job[p].key] /\ obj' = obj
    BY <1>10, <2>2, <2>3 DEF HashStep
  <2>6. disk' \in Disks
    <3>1. [disk EXCEPT ![f].hash = job[p].key] \in Disks
      BY <2>4 DEF Disks, Content
    <3> QED
      BY <2>4, <2>5, <3>1, SavedState, ZenonT(60)
  <2> QED
    BY <1>10, <2>1, <2>4, <2>5, <2>6, StepDoneTypes DEF HashStep
<1>11. ASSUME NEW p \in Procs, ReplayStep(p)
       PROVE  Types'
  <2>1. ~Idle(p) /\ StepDone(p)
    BY <1>11 DEF ReplayStep, AtStep
  <2>2. CASE disk' = disk /\ obj' = obj
    BY <1>11, <2>1, <2>2, StepDoneTypes DEF ReplayStep
  <2>3. CASE \E status \in {0, 1} :
                /\ tip.record + status <= MaxRecords
                /\ disk' = [disk EXCEPT !["index"].n = tip.record,
                                        !["log"].n = tip.record + status]
                /\ obj' = [obj EXCEPT ![p].last_sequence = tip.record + status]
    <3>1. PICK i, l : /\ i \in 0 .. MaxRecords /\ l \in 0 .. MaxRecords
                      /\ disk' = [disk EXCEPT !["index"].n = i, !["log"].n = l]
                      /\ obj' = [obj EXCEPT ![p].last_sequence = l]
      <4>1. PICK status \in {0, 1} :
               /\ tip.record + status <= MaxRecords
               /\ disk' = [disk EXCEPT !["index"].n = tip.record,
                                       !["log"].n = tip.record + status]
               /\ obj' = [obj EXCEPT ![p].last_sequence = tip.record + status]
        BY <2>3
      <4>2. PICK l : l = tip.record + status
        OBVIOUS
      <4>3. tip.record \in 0 .. MaxRecords
        BY DEF Tips
      <4>4. l \in 0 .. MaxRecords
        BY <4>1, <4>2, <4>3, MaxRecordsAssumption
      <4> QED
        BY <4>1, <4>2, <4>3, <4>4
    <3>2. disk' \in Disks
      BY <3>1 DEF Disks, Content, File
    <3>3. [obj[p] EXCEPT !.last_sequence = l] \in Object
      BY <3>1 DEF Object
    <3>4. obj' = [obj EXCEPT ![p] = [obj[p] EXCEPT !.last_sequence = l]]
      BY <3>1
    <3> QED
      BY <1>11, <2>1, <3>2, <3>3, <3>4, StepDoneTypes DEF ReplayStep
  <2> QED
    BY <1>11, <2>2, <2>3 DEF ReplayStep
<1>12. ASSUME NEW p \in Procs, ReplayFails(p)
       PROVE  Types'
  <2>1. << >> \in Seq(Step)
    OBVIOUS
  <2>2. NoJob \in Jobs
    BY <2>1 DEF NoJob, Jobs
  <2> QED
    BY <1>12, <2>2 DEF ReplayFails, Callers
<1>13. ASSUME NEW p \in Procs, FinishStep(p)
       PROVE  Types'
  <2>1. ~Idle(p) /\ StepDone(p)
    BY <1>13 DEF FinishStep, AtStep
  <2>2. PICK o : o = [obj[p] EXCEPT !.mode = "standard"]
    OBVIOUS
  <2>3. o \in Object
    BY <2>2 DEF Object
  <2>4. disk' = Saved(o, disk) /\ obj' = [obj EXCEPT ![p] = o]
    BY <1>13, <2>2 DEF FinishStep
  <2>5. disk' \in Disks
    <3>1. Saved(o, disk) \in Disks
      BY <2>3, SavedState
    <3> QED
      BY <2>4, <3>1
  <2>6. obj' \in [Procs -> Object] /\ tip' = tip
    BY <1>13, <2>3, <2>4 DEF FinishStep
  <2>7. job' \in [Procs -> Jobs] /\ caller' \in [Procs -> Callers]
    BY <2>1, StepDoneTypes
  <2> QED
    BY <2>5, <2>6, <2>7
<1>14. ASSUME RemoveFiles \/ (\E f \in File : Lose(f))
       PROVE  Types'
  <2>1. Absent \in Content /\ NoTip \in Tips
    BY MaxRecordsAssumption DEF Absent, Content, NoTip, Tips
  <2> QED
    BY <1>14, <2>1 DEF RemoveFiles, Lose, Disks
<1>15. ASSUME NEW f \in File, NEW key \in Keys, Foreign(f, key)
       PROVE  Types'
  <2>1. MaxRecords \in 0 .. MaxRecords
    BY MaxRecordsAssumption
  <2>2. [there |-> TRUE, hash |-> key, n |-> MaxRecords] \in Content
    BY <2>1 DEF Content
  <2>3. [record |-> MaxRecords, write |-> MaxRecords] \in Tips
    BY <2>1 DEF Tips
  <2> QED
    BY <1>15, <2>2, <2>3 DEF Foreign, Disks
<1>16. CASE UNCHANGED vars
  BY <1>16 DEF vars
<1> QED
  BY <1>1, <1>2, <1>3, <1>4, <1>5, <1>6, <1>7, <1>8, <1>9, <1>10, <1>11, <1>12,
     <1>13, <1>14, <1>15, <1>16 DEF Next, Call, Work, Records

(* Files, objects and the steps of creates and rebuilds keep their types,  *)
(* whatever the callers do and wherever processes die.                     *)
THEOREM TypeCorrect == Spec => []TypeOK
<1>1. Types => TypeOK
  BY DEF Types, Disks, Jobs, Callers, Tips, TypeOK
<1> QED
  BY <1>1, InitTypes, NextTypes, PTL DEF Spec

(***************************************************************************)
(* The invariant.                                                          *)
(***************************************************************************)

(* The hash record of the data file, and files that do not contradict it.  *)
InData == ReadHash("data", ZeroKey)
Matches(f) == disk[f].hash \in {NoHash, InData}

(* The files that are open at the k-th step of a plan, data apart.         *)
OpenedBy(k) ==
    /\ k > 2 => obj[Writer].fd["index"] = "rw"
    /\ k > 3 => obj[Writer].fd["log"] = "rw"
    /\ k > 4 => obj[Writer].fd["state"] = "rw"

(* At the k-th step of a create: no file holds a record, and none a hash   *)
(* record before the data file does.                                       *)
Creating(k) ==
    /\ AtPlan(job[Writer].steps, CreateSteps("standard"), k)
    /\ obj[Writer].mode = "standard"
    /\ job[Writer].key \in Keys
    /\ OpenedBy(k)
    /\ k > 1 => obj[Writer].fd["data"] = "rw"
    /\ \A f \in File : disk[f].n = 0
    /\ disk["state"].hash = NoHash
    /\ k <= 6 => \A f \in File : disk[f].hash = NoHash
    /\ k > 6 => disk["data"].hash = job[Writer].key
    /\ Matches("index") /\ Matches("log")

(* At the k-th step of a plan that leaves the data file out: index and log *)
(* match once they are truncated, and the state file is empty for good.    *)
Rebuilding(plan, k) ==
    /\ AtPlan(job[Writer].steps, plan, k)
    /\ obj[Writer].mode = "rebuild"
    /\ OpenedBy(k)
    /\ k > 1 => Holds(Writer, "data") \/ disk["data"].hash = NoHash
    /\ k > 2 => Matches("index")
    /\ k > 3 => Matches("log")
    /\ k > 4 => disk["state"].hash = NoHash
    /\ k > 5 => job[Writer].key = InData
    /\ k > 8 => obj[Writer].key = InData
    /\ k > 9 => Holds(Writer, "data")

(* A create by an object that a failed rebuild has left in rebuild mode.   *)
Recreating(k) ==
    /\ Rebuilding(CreateSteps("rebuild"), k)
    /\ IsCreate(job[Writer].flags)
    /\ k > 1 => Holds(Writer, "data")

Working ==
    \/ \E k \in 1 .. 9 : Creating(k)
    \/ \E k \in 1 .. 8 : Recreating(k)
    \/ \E k \in 1 .. 10 : Rebuilding(RebuildSteps, k)

(* Callers that take a new object for each open.                           *)
NoReuse == "reuse" \notin Allowed

(* What the caller of a process was told last says about its object.       *)
Session(p) ==
    /\ \A f \in File : Holds(p, f) => disk[f].there
    /\ caller[p] = "new" /\ NoReuse => obj[p] = NewObject
    /\ caller[p] = "open" => /\ \A f \in File : Holds(p, f)
                             /\ Matches("index") /\ Matches("log")
    /\ caller[p] \in {"new", "failed", "closed"} =>
           obj[p].mode = "rebuild" \/ \A f \in File : ~Holds(p, f)

Reader(p) ==
    /\ Idle(p) /\ caller[p] # "busy"
    /\ obj[p].mode = "standard" /\ ~obj[p].rdwr
    /\ \A f \in File : obj[p].fd[f] # "rw"
    /\ Session(p)

WriterGood ==
    /\ Session(Writer)
    /\ Idle(Writer) =>
          /\ caller[Writer] # "busy"
          /\ caller[Writer] = "open" => /\ obj[Writer].key = InData
                                        /\ Matches("state")
    /\ ~Idle(Writer) => caller[Writer] = "busy" /\ Working

DiskGood ==
    /\ \A f \in File : disk[f].there \/ disk[f] = Absent
    /\ disk["data"].hash # ZeroKey

Good ==
    /\ Types
    /\ DiskGood
    /\ \A p \in Procs \ {Writer} : Reader(p)
    /\ WriterGood

(* Nothing but its own steps and the loss of files concerns a reader, as   *)
(* long as no step makes an index or a log that matched contradict.        *)
LEMMA ReadersStay ==
    ASSUME Good, NEW q \in Procs \ {Writer},
           obj'[q] = obj[q], job'[q] = job[q], caller'[q] = caller[q],
           \A f \in File : disk[f].there => disk'[f].there,
           \A f \in {"index", "log"} : Matches(f) => Matches(f)'
    PROVE  Reader(q)'
<1>1. Reader(q)
  BY DEF Good
<1>2. Idle(q)' /\ \A f \in File : Holds(q, f)' = Holds(q, f)
  BY <1>1 DEF Reader, Idle, Holds
<1>3. Session(q)'
  BY <1>1, <1>2 DEF Reader, Session
<1> QED
  BY <1>1, <1>2, <1>3 DEF Reader

(* Steps of readers do not concern the writer.                             *)
LEMMA WriterStays ==
    ASSUME WriterGood, disk' = disk, obj'[Writer] = obj[Writer],
           job'[Writer] = job[Writer], caller'[Writer] = caller[Writer]
    PROVE  WriterGood'
<1>1. /\ InData' = InData /\ Idle(Writer)' = Idle(Writer)
      /\ \A f \in File : Holds(Writer, f)' = Holds(Writer, f)
      /\ \A f \in File : Matches(f)' = Matches(f)
  BY DEF InData, ReadHash, Idle, Holds, Matches
<1>2. Session(Writer)'
  BY <1>1 DEF WriterGood, Session, Matches
<1>3. \A k : Creating(k) => Creating(k)'
  BY <1>1 DEF Creating, OpenedBy, Matches, File
<1>4. \A plan, k : Rebuilding(plan, k) => Rebuilding(plan, k)'
  BY <1>1 DEF Rebuilding, OpenedBy, Matches, File
<1>5. \A k : Recreating(k) => Recreating(k)'
  BY <1>1, <1>4 DEF Recreating, File
<1>6. Working => Working'
  BY <1>3, <1>4, <1>5 DEF Working
<1> QED
  BY <1>1, <1>2, <1>6 DEF WriterGood, Matches

(* An open that succeeds has found an index and a log that match.          *)
LEMMA AgreedMatch ==
    ASSUME NEW o, HashesAgree(o)
    PROVE  /\ Matches("index") /\ Matches("log")
           /\ Loaded(o, disk).key = InData
  BY DEF HashesAgree, Matches, InData, ReadHash

(* Without files everything is as it should be.                            *)
LEMMA InitGood == Init => Good
<1> SUFFICES ASSUME Init PROVE Good
  OBVIOUS
<1>1. Types
  BY InitTypes
<1>2. /\ \A f \in File : disk[f] = Absent
      /\ \A p \in Procs : /\ obj[p] = NewObject /\ caller[p] = "new" /\ Idle(p)
  BY DEF Init, Idle, NoJob
<1>3. DiskGood
  BY <1>2, KeysAssumption DEF DiskGood, Absent, File
<1>7. \A p \in Procs : /\ obj[p].mode = "standard" /\ ~obj[p].rdwr
                         /\ \A f \in File : obj[p].fd[f] = "closed"
  BY <1>2, Objects, ZenonT(60)
<1>4. \A p \in Procs : Session(p)
  BY <1>2, <1>7, Zenon DEF Session, Holds
<1>5. \A p \in Procs \ {Writer} : Reader(p)
  BY <1>2, <1>4, <1>7, Zenon DEF Reader
<1>6. WriterGood
  BY <1>2, <1>4, WriterAssumption DEF WriterGood
<1> QED
  BY <1>1, <1>3, <1>5, <1>6 DEF Good

(* What a reader does leaves the files as they are.                        *)
LEMMA ReaderStep ==
    ASSUME Good, NEW p \in Procs \ {Writer},
           Call(p) \/ Crash(p) \/ DiesWriting(p)
    PROVE  /\ disk' = disk /\ tip' = tip
           /\ \A q \in Procs \ {p} : /\ obj'[q] = obj[q] /\ job'[q] = job[q]
                                      /\ caller'[q] = caller[q]
           /\ Reader(p)'
<1>1. /\ disk \in Disks /\ obj \in [Procs -> Object] /\ job \in [Procs -> Jobs]
      /\ caller \in [Procs -> Callers] /\ p \in Procs /\ obj[p] \in Object
      /\ Reader(p)
  BY DEF Good, Types
<1>2. Saved(obj[p], disk) = disk
  BY <1>1, SavedState DEF Reader
<1>3. ASSUME NEW fl \in Flags, OpenRefused(p, fl)
      PROVE  /\ disk' = disk /\ tip' = tip
             /\ \A q \in Procs \ {p} : /\ obj'[q] = obj[q] /\ job'[q] = job[q]
                                        /\ caller'[q] = caller[q]
             /\ Reader(p)'
  <2>1. /\ ~IsWr(fl) /\ Missing # {}
        /\ obj' = [obj EXCEPT ![p].rdwr = IsWr(fl)]
        /\ caller' = [caller EXCEPT ![p] = "failed"]
        /\ disk' = disk /\ tip' = tip /\ job' = job
    BY <1>3 DEF OpenRefused, MayOpen
  <2>2. caller[p] # "open"
    BY <1>1, <2>1 DEF Missing, Reader, Session
  <2>3. \A f \in File : obj[p].fd[f] = "closed"
    BY <1>1, <2>2 DEF Reader, Session, Holds, Callers
  <2>4. /\ obj'[p].fd = obj[p].fd /\ ~obj'[p].rdwr
        /\ obj'[p].mode = obj[p].mode /\ caller'[p] = "failed"
    BY <1>1, <2>1 DEF Object
  <2>5. Reader(p)'
    BY <1>1, <2>1, <2>3, <2>4 DEF Reader, Session, Holds, Idle
  <2> QED
    BY <1>1, <2>1, <2>5
<1>4. ASSUME NEW fl \in Flags, OpenExisting(p, fl)
      PROVE  /\ disk' = disk /\ tip' = tip
             /\ \A q \in Procs \ {p} : /\ obj'[q] = obj[q] /\ job'[q] = job[q]
                                        /\ caller'[q] = caller[q]
             /\ Reader(p)'
  <2>1. PICK o : o = OpenFiles(obj[p], fl)
    OBVIOUS
  <2>2. /\ ~IsWr(fl) /\ ~IsCreate(fl) /\ Missing = {} /\ HashesAgree(Loaded(o, disk))
        /\ obj' = [obj EXCEPT ![p] = Loaded(o, disk)]
        /\ caller' = [caller EXCEPT ![p] = "open"]
        /\ disk' = disk /\ tip' = tip /\ job' = job
    BY <1>4, <2>1 DEF OpenExisting, MayOpen
  <2>3. /\ o \in Object /\ o.mode = "standard" /\ ~o.rdwr
        /\ \A f \in File : o.fd[f] = "ro"
    BY <1>1, <2>1, <2>2, Objects DEF Reader, FdMode
  <2>4. /\ obj'[p].mode = "standard" /\ ~obj'[p].rdwr /\ caller'[p] = "open"
        /\ \A f \in File : obj'[p].fd[f] = "ro"
    BY <1>1, <2>2, <2>3, LoadedObject
  <2>5. Matches("index") /\ Matches("log") /\ \A f \in File : disk[f].there
    BY <2>2, AgreedMatch DEF Missing
  <2>6. Matches("index")' /\ Matches("log")'
    BY <2>2, <2>5 DEF Matches, InData, ReadHash
  <2>7. Reader(p)'
    BY <1>1, <2>2, <2>4, <2>5, <2>6 DEF Reader, Session, Holds, Idle
  <2> QED
    BY <1>1, <2>2, <2>7
<1>5. ASSUME NEW fl \in Flags, OpenMismatch(p, fl)
      PROVE  /\ disk' = disk /\ tip' = tip
             /\ \A q \in Procs \ {p} : /\ obj'[q] = obj[q] /\ job'[q] = job[q]
                                        /\ caller'[q] = caller[q]
             /\ Reader(p)'
  <2>1. PICK o : o = Loaded(OpenFiles(obj[p], fl), disk)
    OBVIOUS
  <2>2. /\ ~IsWr(fl)
        /\ obj' = [obj EXCEPT ![p] = Closed(o)]
        /\ caller' = [caller EXCEPT ![p] = "failed"]
        /\ disk' = Saved(o, disk) /\ tip' = tip /\ job' = job
    BY <1>5, <2>1 DEF OpenMismatch, MayOpen
  <2>3. o \in Object /\ o.mode = "standard" /\ ~o.rdwr
    <3>1. PICK o1 : o1 = OpenFiles(obj[p], fl)
      OBVIOUS
    <3>2. o1 \in Object /\ o1.mode = "standard" /\ ~o1.rdwr
      BY <1>1, <2>2, <3>1, Objects DEF Reader
    <3> QED
      BY <1>1, <2>1, <3>1, <3>2, LoadedObject
  <2>4. /\ obj'[p].mode = "standard" /\ ~obj'[p].rdwr /\ caller'[p] = "failed"
        /\ \A f \in File : obj'[p].fd[f] = "closed"
    BY <1>1, <2>2, <2>3, Objects
  <2>5. disk' = disk
    BY <1>1, <2>2, <2>3, SavedState
  <2>6. Reader(p)'
    BY <1>1, <2>2, <2>4 DEF Reader, Session, Holds, Idle
  <2> QED
    BY <1>1, <2>2, <2>5, <2>6
<1>6. ASSUME Records(p) \/ DiesWriting(p)
      PROVE  /\ disk' = disk /\ tip' = tip
             /\ \A q \in Procs \ {p} : /\ obj'[q] = obj[q] /\ job'[q] = job[q]
                                        /\ caller'[q] = caller[q]
             /\ Reader(p)'
  <2>1. Types
    BY DEF Good
  <2>2. PICK s : Recorded(p, s)
    BY <1>1, <1>6, <2>1, Recording
  <2>3. /\ s.o \in Object /\ Moves([o |-> obj[p], d |-> disk, t |-> tip], s)
        /\ disk' \in Disks
    BY <1>1, <2>1, <2>2, RecordedTypes DEF Types
  <2>4. /\ \A f \in File : s.d[f] = disk[f]
        /\ s.t = tip /\ s.o.fd = obj[p].fd /\ s.o.rdwr = obj[p].rdwr
        /\ s.o.mode = obj[p].mode
    BY <1>1, <2>3 DEF Reader, Moves, File
  <2>5. ~Appends(obj[p])
    BY <1>1 DEF Reader, Appends, File
  <2>6. /\ disk' = s.d /\ tip' = tip /\ job' = job /\ caller' = caller
        /\ obj' = [obj EXCEPT ![p] = s.o]
        /\ caller[p] = "open" \/ ~NoReuse
    BY <2>2, <2>4, <2>5 DEF Recorded, NoReuse
  <2>7. disk' = disk
    BY <1>1, <2>3, <2>4, <2>6 DEF Disks
  <2>8. obj'[p].fd = obj[p].fd /\ obj'[p].rdwr = obj[p].rdwr /\ obj'[p].mode = obj[p].mode
    BY <1>1, <2>4, <2>6
  <2>9. Matches("index")' = Matches("index") /\ Matches("log")' = Matches("log")
    BY <2>7 DEF Matches, InData, ReadHash
  <2>10. Reader(p)'
    BY <1>1, <2>6, <2>7, <2>8, <2>9 DEF Reader, Session, Holds, Idle
  <2> QED
    BY <1>1, <2>6, <2>7, <2>10
<1>7. ASSUME Read(p)
      PROVE  /\ disk' = disk /\ tip' = tip
             /\ \A q \in Procs \ {p} : /\ obj'[q] = obj[q] /\ job'[q] = job[q]
                                        /\ caller'[q] = caller[q]
             /\ Reader(p)'
  <2>1. /\ caller[p] = "open" /\ obj' = [obj EXCEPT ![p] = Loaded(obj[p], disk)]
        /\ disk' = disk /\ tip' = tip /\ job' = job /\ caller' = caller
    BY <1>7 DEF Read
  <2>2. /\ obj'[p].fd = obj[p].fd /\ obj'[p].rdwr = obj[p].rdwr
        /\ obj'[p].mode = obj[p].mode
    BY <1>1, <2>1, LoadedObject
  <2>3. Matches("index")' = Matches("index") /\ Matches("log")' = Matches("log")
    BY <2>1 DEF Matches, InData, ReadHash
  <2>4. Reader(p)'
    BY <1>1, <2>1, <2>2, <2>3 DEF Reader, Session, Holds, Idle
  <2> QED
    BY <1>1, <2>1, <2>4
<1>8. ASSUME Close(p) \/ Delete(p) \/ Crash(p)
      PROVE  /\ disk' = disk /\ tip' = tip
             /\ \A q \in Procs \ {p} : /\ obj'[q] = obj[q] /\ job'[q] = job[q]
                                        /\ caller'[q] = caller[q]
             /\ Reader(p)'
  <2>1. /\ disk' = disk /\ tip' = tip
        /\ \A q \in Procs \ {p} : /\ obj'[q] = obj[q] /\ job'[q] = job[q]
                                   /\ caller'[q] = caller[q]
        /\ job'[p] \in {job[p], NoJob}
        /\ \/ obj'[p] = Closed(obj[p]) /\ caller'[p] = "closed"
           \/ obj'[p] = NewObject /\ caller'[p] = "new"
    BY <1>1, <1>2, <1>8 DEF Close, Delete, Crash
  <2>2. /\ obj'[p].mode = "standard" /\ ~obj'[p].rdwr
        /\ \A f \in File : obj'[p].fd[f] = "closed"
    BY <1>1, <2>1, Objects DEF Reader
  <2>3. Idle(p)'
    BY <1>1, <2>1 DEF Reader, Idle, NoJob
  <2>4. Reader(p)'
    BY <2>1, <2>2, <2>3 DEF Reader, Session, Holds
  <2> QED
    BY <2>1, <2>4
<1>9. \A fl \in Flags : ~Rebuild(p, fl) /\ \A key \in Keys : ~OpenCreate(p, fl, key)
  BY DEF Rebuild, OpenCreate, MayOpen
<1> QED
  BY <1>3, <1>4, <1>5, <1>6, <1>7, <1>8, <1>9 DEF Call, Records

(* So they keep the invariant.                                             *)
LEMMA ReaderGood ==
    ASSUME Good, Types', NEW p \in Procs \ {Writer},
           Call(p) \/ Crash(p) \/ DiesWriting(p)
    PROVE  Good'
<1>1. /\ disk' = disk
      /\ \A q \in Procs \ {p} : /\ obj'[q] = obj[q] /\ job'[q] = job[q]
                                 /\ caller'[q] = caller[q]
      /\ Reader(p)'
  BY ReaderStep
<1>2. \A f \in {"index", "log"} : Matches(f)' = Matches(f)
  BY <1>1 DEF Matches, InData, ReadHash
<1>3. \A q \in Procs \ {Writer} : Reader(q)'
  BY <1>1, <1>2, ReadersStay
<1>4. WriterGood'
  BY <1>1, WriterAssumption, WriterStays DEF Good
<1>5. DiskGood'
  BY <1>1 DEF Good, DiskGood
<1> QED
  BY <1>3, <1>4, <1>5 DEF Good

(***************************************************************************)
(* Calls of the writer.                                                    *)
(***************************************************************************)

(* What keeps the readers content, and the invariant otherwise, in a step  *)
(* of the writer.                                                          *)
Quiet ==
    /\ DiskGood'
    /\ \A f \in File : disk[f].there => disk'[f].there
    /\ \A f \in {"index", "log"} : Matches(f) => Matches(f)'

WriterOnly ==
    \A q \in Procs \ {Writer} :
        obj'[q] = obj[q] /\ job'[q] = job[q] /\ caller'[q] = caller[q]

(* So a step of the writer that is quiet keeps the invariant of all.       *)
LEMMA WriterStep ==
    ASSUME Good, Types', WriterOnly, Quiet, WriterGood'
    PROVE  Good'
<1>1. \A q \in Procs \ {Writer} : Reader(q)'
  BY ReadersStay DEF WriterOnly, Quiet
<1> QED
  BY <1>1 DEF Good, Quiet

(* Such are the steps that write no hash records but that of the state.    *)
LEMMA CalmDisk ==
    ASSUME DiskGood,
           \A f \in File \ {"state"} :
              /\ disk'[f].hash = disk[f].hash /\ disk'[f].there = disk[f].there
              /\ disk'[f] = disk[f] \/ disk[f].there,
           disk'["state"] = disk["state"] \/ disk'["state"].there
    PROVE  /\ Quiet /\ InData' = InData
           /\ \A f \in {"index", "log"} : Matches(f)' = Matches(f)
<1>1. disk'["data"].hash = disk["data"].hash
  BY DEF File
<1>2. InData' = InData
  BY <1>1 DEF InData, ReadHash
<1>3. \A f \in {"index", "log"} : Matches(f)' = Matches(f)
  BY <1>2 DEF Matches, File
<1>4. DiskGood'
  BY <1>1 DEF DiskGood
<1>5. \A f \in File : disk[f].there => disk'[f].there
  OBVIOUS
<1> QED
  BY <1>2, <1>3, <1>4, <1>5 DEF Quiet

(* In particular one that saves the state.                                 *)
LEMMA SavedQuiet ==
    ASSUME Good, NEW o \in Object, disk' = Saved(o, disk)
    PROVE  /\ Quiet /\ InData' = InData
           /\ \A f \in {"index", "log"} : Matches(f)' = Matches(f)
           /\ \A f \in File : disk[f].there => disk'[f].there
<1>1. disk \in Disks /\ DiskGood
  BY DEF Good, Types
<1>2. \A f \in File \ {"state"} : disk'[f] = disk[f]
  BY <1>1, SavedState
<1>3. disk'["state"] = disk["state"] \/ disk'["state"].there
  <2>1. [there |-> TRUE, hash |-> o.key, n |-> o.last_sequence].there
    OBVIOUS
  <2> QED
    BY <1>1, <2>1, SavedState
<1>4. /\ Quiet /\ InData' = InData
      /\ \A f \in {"index", "log"} : Matches(f)' = Matches(f)
  BY <1>1, <1>2, <1>3, CalmDisk
<1> QED
  BY <1>4 DEF Quiet

(* Opens that fail.                                                        *)
LEMMA WriterRefused ==
    ASSUME Good, Types', NEW fl \in Flags, OpenRefused(Writer, fl)
    PROVE  Good'
<1>1. /\ Types /\ obj[Writer] \in Object /\ Writer \in Procs /\ WriterGood
      /\ DiskGood
  BY WriterAssumption DEF Good, Types
<1>2. /\ Idle(Writer) /\ Missing # {}
      /\ obj' = [obj EXCEPT ![Writer].rdwr = IsWr(fl)]
      /\ caller' = [caller EXCEPT ![Writer] = "failed"]
      /\ disk' = disk /\ job' = job
  BY DEF OpenRefused, MayOpen
<1>3. caller[Writer] \in {"new", "failed", "closed"}
  BY <1>1, <1>2 DEF Missing, WriterGood, Session, Types, Callers
<1>4. /\ obj'[Writer].fd = obj[Writer].fd /\ obj'[Writer].mode = obj[Writer].mode
      /\ caller'[Writer] = "failed"
  BY <1>1, <1>2 DEF Object, Types
<1>5. Session(Writer)' /\ Idle(Writer)'
  BY <1>1, <1>2, <1>3, <1>4 DEF WriterGood, Session, Holds, Idle
<1>6. Quiet
  BY <1>1, <1>2, CalmDisk
<1>7. WriterOnly
  BY <1>1, <1>2 DEF WriterOnly, Types
<1>8. WriterGood'
  BY <1>4, <1>5 DEF WriterGood
<1> QED
  BY <1>6, <1>7, <1>8, WriterStep

(* What a failed open saves does not change hash records others rely on.   *)
LEMMA WriterMismatch ==
    ASSUME Good, Types', NEW fl \in Flags, OpenMismatch(Writer, fl)
    PROVE  Good'
<1>1. /\ Types /\ obj[Writer] \in Object /\ Writer \in Procs /\ WriterGood
      /\ DiskGood /\ disk \in Disks
  BY WriterAssumption DEF Good, Types
<1>2. PICK o : o = Loaded(OpenFiles(obj[Writer], fl), disk)
  OBVIOUS
<1>3. /\ Idle(Writer)
      /\ obj' = [obj EXCEPT ![Writer] = Closed(o)]
      /\ caller' = [caller EXCEPT ![Writer] = "failed"]
      /\ disk' = Saved(o, disk) /\ job' = job
  BY <1>2 DEF OpenMismatch, MayOpen
<1>4. o \in Object
  BY <1>1, <1>2, Objects, LoadedObject
<1>5. \A f \in File : obj'[Writer].fd[f] = "closed"
  BY <1>1, <1>3, <1>4, Objects DEF Types
<1>6. Session(Writer)' /\ Idle(Writer)' /\ caller'[Writer] = "failed"
  BY <1>1, <1>3, <1>5 DEF Session, Holds, Idle, Types
<1>7. Quiet
  BY <1>3, <1>4, SavedQuiet
<1>8. WriterOnly
  BY <1>1, <1>3 DEF WriterOnly, Types
<1>9. WriterGood'
  BY <1>6 DEF WriterGood
<1> QED
  BY <1>7, <1>8, <1>9, WriterStep

(* One that succeeds.                                                      *)
LEMMA WriterExisting ==
    ASSUME Good, Types', NEW fl \in Flags, OpenExisting(Writer, fl)
    PROVE  Good'
<1>1. /\ Types /\ obj[Writer] \in Object /\ Writer \in Procs /\ WriterGood
      /\ DiskGood /\ disk \in Disks
  BY WriterAssumption DEF Good, Types
<1>2. PICK o : o = OpenFiles(obj[Writer], fl)
  OBVIOUS
<1>3. /\ Idle(Writer) /\ Missing = {} /\ HashesAgree(Loaded(o, disk))
      /\ obj' = [obj EXCEPT ![Writer] = Loaded(o, disk)]
      /\ caller' = [caller EXCEPT ![Writer] = "open"]
      /\ disk' = disk /\ job' = job
  BY <1>2 DEF OpenExisting, MayOpen
<1>4. o \in Object /\ \A f \in File : o.fd[f] # "closed"
  BY <1>1, <1>2, Objects DEF FdMode
<1>5. PICK o1 : o1 = Loaded(o, disk)
  OBVIOUS
<1>6. /\ o1 \in Object /\ \A f \in File : o1.fd[f] # "closed"
      /\ disk["state"].hash # NoHash => o1.key = disk["state"].hash
  BY <1>1, <1>4, <1>5, LoadedObject DEF File
<1>7. Matches("index") /\ Matches("log") /\ Loaded(o1, disk).key = InData
  BY <1>3, <1>5, AgreedMatch
<1>8. o1.key = InData /\ Matches("state")
  <2>1. Loaded(o1, disk).key = o1.key
    BY <1>1, <1>6, LoadedObject
  <2> QED
    BY <1>6, <1>7, <2>1 DEF Matches
<1>9. /\ InData' = InData
      /\ Matches("index")' /\ Matches("log")' /\ Matches("state")'
  BY <1>3, <1>7, <1>8 DEF Matches, InData, ReadHash
<1>10. obj'[Writer] = o1 /\ caller'[Writer] = "open"
  BY <1>1, <1>3, <1>5 DEF Types
<1>11. \A f \in File : disk'[f].there /\ Holds(Writer, f)'
  BY <1>3, <1>6, <1>10 DEF Missing, Holds
<1>12. Session(Writer)'
  BY <1>9, <1>10, <1>11 DEF Session
<1>13. Idle(Writer)' /\ obj'[Writer].key = InData'
  BY <1>3, <1>8, <1>9, <1>10 DEF Idle
<1>14. WriterGood'
  BY <1>9, <1>10, <1>12, <1>13 DEF WriterGood
<1>15. Quiet
  BY <1>1, <1>3, CalmDisk
<1>16. WriterOnly
  BY <1>1, <1>3 DEF WriterOnly, Types
<1> QED
  BY <1>14, <1>15, <1>16, WriterStep

(* The begin of a create.                                                  *)
LEMMA WriterCreate ==
    ASSUME Good, Types', NEW fl \in Flags, NEW key \in Keys,
           OpenCreate(Writer, fl, key)
    PROVE  Good'
<1>1. /\ Types /\ obj[Writer] \in Object /\ Writer \in Procs /\ WriterGood
      /\ DiskGood /\ disk \in Disks
  BY WriterAssumption DEF Good, Types
<1>2. PICK plan : plan = CreateSteps(obj[Writer].mode)
  OBVIOUS
<1>3. /\ Idle(Writer) /\ Missing = File /\ IsCreate(fl)
      /\ obj' = [obj EXCEPT ![Writer].rdwr = IsWr(fl)]
      /\ job' = [job EXCEPT ![Writer] = [flags |-> fl, key |-> key, steps |-> plan]]
      /\ caller' = [caller EXCEPT ![Writer] = "busy"]
      /\ disk' = disk
  BY <1>2 DEF OpenCreate, MayOpen
<1>4. /\ obj'[Writer].fd = obj[Writer].fd /\ obj'[Writer].mode = obj[Writer].mode
      /\ caller'[Writer] = "busy"
      /\ job'[Writer] = [flags |-> fl, key |-> key, steps |-> plan]
  BY <1>1, <1>3 DEF Object, Types
<1>5. \A f \in File : /\ disk'[f] = disk[f] /\ disk[f].hash = NoHash
                      /\ disk[f].n = 0
  BY <1>1, <1>3 DEF Missing, DiskGood, Absent
<1>6. Session(Writer)'
  BY <1>1, <1>3, <1>4 DEF WriterGood, Session, Holds
<1>7. /\ plan \in Seq(Step) /\ plan # << >>
      /\ obj[Writer].mode \in {"standard", "rebuild"}
  <2>1. obj[Writer].mode \in {"standard", "rebuild"}
    BY <1>1 DEF Object
  <2>2. plan \in Seq(Step) /\ Len(plan) # 0
    BY <1>2, <2>1, CreatePlan, RecreatePlan
  <2>3. Len(<< >>) = 0
    OBVIOUS
  <2> QED
    BY <2>1, <2>2, <2>3
<1>8. AtPlan(plan, plan, 1)
  BY <1>7, PlanStart
<1>9. ASSUME obj[Writer].mode = "standard"
      PROVE  WriterGood'
  <2>1. plan = CreateSteps("standard")
    BY <1>2, <1>9
  <2>2. /\ job'[Writer].steps = plan /\ job'[Writer].key = key
    BY <1>4
  <2>3. Matches("index")' /\ Matches("log")'
    BY <1>3, <1>5 DEF Matches, File
  <2>4. AtPlan(job'[Writer].steps, CreateSteps("standard"), 1)
    BY <1>8, <2>1, <2>2
  <2>5. disk'["state"].hash = NoHash
    BY <1>5 DEF File
  <2>6. \A k : k = 1 => Creating(k)'
    BY <1>4, <1>5, <1>9, <2>2, <2>3, <2>4, <2>5 DEF Creating, OpenedBy
  <2>7. Working'
    BY <2>6 DEF Working
  <2>8. ~Idle(Writer)'
    BY <1>7, <2>2 DEF Idle
  <2> QED
    BY <1>4, <1>6, <2>7, <2>8 DEF WriterGood
<1>10. ASSUME obj[Writer].mode = "rebuild"
       PROVE  WriterGood'
  <2>1. plan = CreateSteps("rebuild")
    BY <1>2, <1>10
  <2>2. job'[Writer].steps = plan /\ job'[Writer].flags = fl
    BY <1>4
  <2>3. AtPlan(job'[Writer].steps, CreateSteps("rebuild"), 1)
    BY <1>8, <2>1, <2>2
  <2>4. \A k : k = 1 => Recreating(k)'
    BY <1>3, <1>4, <1>10, <2>2, <2>3 DEF Recreating, Rebuilding, OpenedBy
  <2>5. Working'
    BY <2>4 DEF Working
  <2>6. ~Idle(Writer)'
    BY <1>7, <2>2 DEF Idle
  <2> QED
    BY <1>4, <1>6, <2>5, <2>6 DEF WriterGood
<1>11. WriterGood'
  BY <1>7, <1>9, <1>10
<1>12. Quiet
  BY <1>1, <1>3, CalmDisk
<1>13. WriterOnly
  BY <1>1, <1>3 DEF WriterOnly, Types
<1> QED
  BY <1>11, <1>12, <1>13, WriterStep

(* The begin of a rebuild.                                                 *)
LEMMA WriterRebuild ==
    ASSUME Good, Types', NEW fl \in Flags, Rebuild(Writer, fl)
    PROVE  Good' /\ \A k : k = 1 => Rebuilding(RebuildSteps, k)'
<1>1. /\ Types /\ obj[Writer] \in Object /\ Writer \in Procs /\ WriterGood
      /\ DiskGood /\ disk \in Disks
  BY WriterAssumption DEF Good, Types
<1>2. /\ Idle(Writer)
      /\ obj' = [obj EXCEPT ![Writer].mode = "rebuild"]
      /\ job' = [job EXCEPT ![Writer] = [flags |-> fl, key |-> ZeroKey,
                                        steps |-> RebuildSteps]]
      /\ caller' = [caller EXCEPT ![Writer] = "busy"]
      /\ disk' = disk
  BY DEF Rebuild, MayOpen, RebuildSteps
<1>3. /\ obj'[Writer].fd = obj[Writer].fd /\ obj'[Writer].mode = "rebuild"
      /\ caller'[Writer] = "busy" /\ job'[Writer].steps = RebuildSteps
  BY <1>1, <1>2 DEF Object, Types
<1>4. RebuildSteps \in Seq(Step) /\ RebuildSteps # << >>
  <2>1. RebuildSteps \in Seq(Step) /\ Len(RebuildSteps) # 0
    BY RebuildPlan
  <2>2. Len(<< >>) = 0
    OBVIOUS
  <2> QED
    BY <2>1, <2>2
<1>5. AtPlan(job'[Writer].steps, RebuildSteps, 1)
  BY <1>3, <1>4, PlanStart
<1>6. Session(Writer)'
  BY <1>1, <1>2, <1>3 DEF WriterGood, Session, Holds
<1>7. \A k : k = 1 => Rebuilding(RebuildSteps, k)'
  BY <1>3, <1>5 DEF Rebuilding, OpenedBy
<1>8. Working' /\ ~Idle(Writer)'
  BY <1>3, <1>4, <1>7 DEF Working, Idle
<1>9. WriterGood'
  BY <1>3, <1>6, <1>8 DEF WriterGood
<1>10. Quiet
  BY <1>1, <1>2, CalmDisk
<1>11. WriterOnly
  BY <1>1, <1>2 DEF WriterOnly, Types
<1> QED
  BY <1>7, <1>9, <1>10, <1>11, WriterStep

(* Records, and a death among them.                                        *)
LEMMA WriterRecords ==
    ASSUME Good, Types', Records(Writer) \/ DiesWriting(Writer)
    PROVE  Good'
<1>1. /\ Types /\ obj[Writer] \in Object /\ Writer \in Procs /\ WriterGood
      /\ DiskGood /\ disk \in Disks
  BY WriterAssumption DEF Good, Types
<1>2. PICK s : Recorded(Writer, s)
  BY <1>1, Recording
<1>3. s.o \in Object /\ Moves([o |-> obj[Writer], d |-> disk, t |-> tip], s)
  BY <1>1, <1>2, RecordedTypes
<1>4. /\ Idle(Writer) /\ disk' = s.d /\ job' = job
      /\ \/ /\ obj' = [obj EXCEPT ![Writer] = s.o] /\ caller' = caller
            /\ caller[Writer] = "open" \/ ~NoReuse
         \/ /\ obj' = [obj EXCEPT ![Writer] = NewObject]
            /\ caller' = [caller EXCEPT ![Writer] = "new"]
  BY <1>2 DEF Recorded, NoReuse
<1>5. /\ s.o.fd = obj[Writer].fd /\ s.o.mode = obj[Writer].mode
      /\ s.o.key = obj[Writer].key
  BY <1>3 DEF Moves
<1>6. \A f \in File : Holds(Writer, f) => disk[f].there
  BY <1>1 DEF WriterGood, Session
<1>7. \A f \in File \ {"state"} :
          /\ disk'[f].hash = disk[f].hash /\ disk'[f].there = disk[f].there
          /\ disk'[f] = disk[f] \/ disk[f].there
  <2>1. \A f \in {"data", "index", "log"} :
          /\ disk'[f].hash = disk[f].hash /\ disk'[f].there = disk[f].there
          /\ disk'[f] = disk[f] \/ obj[Writer].fd[f] = "rw"
    BY <1>3, <1>4 DEF Moves
  <2> QED
    BY <1>6, <2>1 DEF Holds, File
<1>8. \/ disk'["state"] = disk["state"]
      \/ disk'["state"].there /\ disk'["state"].hash = obj[Writer].key
  BY <1>3, <1>4 DEF Moves
<1>9. /\ Quiet /\ InData' = InData
      /\ \A f \in {"index", "log"} : Matches(f)' = Matches(f)
  BY <1>1, <1>7, <1>8, CalmDisk
<1>10. \A f \in File : disk[f].there => disk'[f].there
  BY <1>9 DEF Quiet
<1>11. WriterOnly
  BY <1>1, <1>4 DEF WriterOnly, Types
<1>12. Idle(Writer)'
  BY <1>4 DEF Idle
<1>13. CASE /\ obj' = [obj EXCEPT ![Writer] = s.o] /\ caller' = caller
            /\ caller[Writer] = "open" \/ ~NoReuse
  <2>1. obj'[Writer] = s.o
    BY <1>1, <1>13 DEF Types
  <2>2. \A f \in File : Holds(Writer, f)' = Holds(Writer, f)
    BY <1>5, <2>1 DEF Holds
  <2>3. Session(Writer)'
    BY <1>1, <1>5, <1>9, <1>10, <1>13, <2>1, <2>2 DEF WriterGood, Session
  <2>4. caller[Writer] = "open" => obj'[Writer].key = InData' /\ Matches("state")'
    BY <1>1, <1>4, <1>5, <1>8, <1>9, <2>1 DEF WriterGood, Matches
  <2>5. WriterGood'
    BY <1>1, <1>4, <1>12, <1>13, <2>3, <2>4 DEF WriterGood
  <2> QED
    BY <1>9, <1>11, <2>5, WriterStep
<1>14. CASE /\ obj' = [obj EXCEPT ![Writer] = NewObject]
            /\ caller' = [caller EXCEPT ![Writer] = "new"]
  <2>1. obj'[Writer] = NewObject /\ caller'[Writer] = "new"
    BY <1>1, <1>14 DEF Types
  <2>2. \A f \in File : ~Holds(Writer, f)'
    BY <2>1, Objects DEF Holds
  <2>3. Session(Writer)'
    BY <2>1, <2>2 DEF Session
  <2>4. WriterGood'
    BY <1>12, <2>1, <2>3 DEF WriterGood
  <2> QED
    BY <1>9, <1>11, <2>4, WriterStep
<1> QED
  BY <1>4, <1>13, <1>14

(* A read, which loads the state.                                          *)
LEMMA WriterRead ==
    ASSUME Good, Types', Read(Writer)
    PROVE  Good'
<1>1. /\ Types /\ obj[Writer] \in Object /\ Writer \in Procs /\ WriterGood
      /\ DiskGood /\ disk \in Disks
  BY WriterAssumption DEF Good, Types
<1>2. PICK o : o = Loaded(obj[Writer], disk)
  OBVIOUS
<1>3. /\ Idle(Writer) /\ caller[Writer] = "open"
      /\ obj' = [obj EXCEPT ![Writer] = o]
      /\ disk' = disk /\ job' = job /\ caller' = caller
  BY <1>2 DEF Read
<1>4. /\ obj'[Writer] = o /\ o.fd = obj[Writer].fd /\ o.mode = obj[Writer].mode
      /\ \/ o.key = disk["state"].hash /\ disk["state"].hash # NoHash
         \/ o.key = obj[Writer].key
  BY <1>1, <1>2, <1>3, LoadedObject DEF Types
<1>5. o.key = InData /\ Matches("state")
  BY <1>1, <1>3, <1>4 DEF WriterGood, Matches
<1>6. /\ Quiet /\ InData' = InData
      /\ \A f \in {"index", "log"} : Matches(f)' = Matches(f)
  BY <1>1, <1>3, CalmDisk
<1>7. Session(Writer)'
  BY <1>1, <1>3, <1>4, <1>6 DEF WriterGood, Session, Holds
<1>8. WriterGood'
  BY <1>3, <1>4, <1>5, <1>6, <1>7 DEF WriterGood, Idle, Matches
<1>9. WriterOnly
  BY <1>1, <1>3 DEF WriterOnly, Types
<1> QED
  BY <1>6, <1>8, <1>9, WriterStep

(* A close, the end of an object, or of the process wherever it is.        *)
LEMMA WriterEnds ==
    ASSUME Good, Types', Close(Writer) \/ Delete(Writer) \/ Crash(Writer)
    PROVE  Good'
<1>1. /\ Types /\ obj[Writer] \in Object /\ Writer \in Procs /\ WriterGood
      /\ DiskGood /\ disk \in Disks
  BY WriterAssumption DEF Good, Types
<1>2. /\ \/ obj'[Writer] = Closed(obj[Writer]) /\ caller'[Writer] = "closed"
         \/ obj'[Writer] = NewObject /\ caller'[Writer] = "new"
      /\ disk' = disk \/ disk' = Saved(obj[Writer], disk)
      /\ WriterOnly /\ Idle(Writer)'
  BY <1>1 DEF Close, Delete, Crash, Types, WriterOnly, Idle, NoJob
<1>3. \A f \in File : obj'[Writer].fd[f] = "closed"
  BY <1>1, <1>2, Objects
<1>4. Session(Writer)'
  BY <1>2, <1>3 DEF Session, Holds
<1>5. Quiet
  <2>1. CASE disk' = disk
    BY <1>1, <2>1, CalmDisk
  <2>2. CASE disk' = Saved(obj[Writer], disk)
    BY <1>1, <2>2, SavedQuiet
  <2> QED
    BY <1>2, <2>1, <2>2
<1>6. WriterGood'
  BY <1>2, <1>4 DEF WriterGood
<1> QED
  BY <1>2, <1>5, <1>6, WriterStep

(***************************************************************************)
(* The steps of a create or rebuild.                                       *)
(***************************************************************************)

(* The next step is that of the plan.                                      *)
LEMMA NextStep ==
    ASSUME Types, NEW plan \in Seq(Step), NEW k,
           AtPlan(job[Writer].steps, plan, k)
    PROVE  /\ k \in 1 .. Len(plan) /\ Len(plan) \in Nat
           /\ ~Idle(Writer) /\ Head(job[Writer].steps) = plan[k]
<1>1. job[Writer].steps \in Seq(Step)
  BY WriterAssumption DEF Types, Jobs
<1> QED
  BY <1>1, PlanStep DEF Idle

(* And when it is done, the one after it is, or the caller is told.        *)
LEMMA StepTaken ==
    ASSUME Types, caller[Writer] = "busy", NEW plan \in Seq(Step), NEW k,
           AtPlan(job[Writer].steps, plan, k), StepDone(Writer)
    PROVE  /\ \A q \in Procs \ {Writer} : job'[q] = job[q] /\ caller'[q] = caller[q]
           /\ k # Len(plan) =>
                 /\ AtPlan(job'[Writer].steps, plan, k + 1)
                 /\ ~Idle(Writer)' /\ caller'[Writer] = "busy"
                 /\ job'[Writer].flags = job[Writer].flags
                 /\ job'[Writer].key = job[Writer].key
           /\ k = Len(plan) => Idle(Writer)' /\ caller'[Writer] = "open"
<1>1. /\ job[Writer].steps \in Seq(Step) /\ job[Writer] \in Jobs
      /\ job \in [Procs -> Jobs] /\ caller \in [Procs -> Callers]
      /\ Writer \in Procs
  BY WriterAssumption DEF Types, Jobs
<1>2. /\ Len(job[Writer].steps) = 1 <=> k = Len(plan)
      /\ k # Len(plan) => AtPlan(Tail(job[Writer].steps), plan, k + 1)
  BY <1>1, PlanStep
<1>3. \A q \in Procs \ {Writer} : job'[q] = job[q] /\ caller'[q] = caller[q]
  BY <1>1 DEF StepDone
<1>4. ASSUME k # Len(plan)
      PROVE  /\ AtPlan(job'[Writer].steps, plan, k + 1)
             /\ ~Idle(Writer)' /\ caller'[Writer] = "busy"
             /\ job'[Writer].flags = job[Writer].flags
             /\ job'[Writer].key = job[Writer].key
  <2>1. Len(job[Writer].steps) # 1
    BY <1>2, <1>4
  <2>2. /\ job'[Writer] = [job[Writer] EXCEPT !.steps = Tail(job[Writer].steps)]
        /\ caller'[Writer] = "busy"
    BY <1>1, <2>1 DEF StepDone
  <2>3. /\ job'[Writer].steps = Tail(job[Writer].steps)
        /\ job'[Writer].flags = job[Writer].flags
        /\ job'[Writer].key = job[Writer].key
    BY <1>1, <2>2 DEF Jobs
  <2>4. AtPlan(job'[Writer].steps, plan, k + 1)
    BY <1>2, <1>4, <2>3
  <2>5. job'[Writer].steps # << >>
    <3>1. PICK t, j : t = Tail(job[Writer].steps) /\ j = k + 1
      OBVIOUS
    <3>2. job[Writer].steps # << >>
      BY <1>1, PlanStep
    <3>3. t \in Seq(Step)
      BY <1>1, <3>1, <3>2
    <3>4. AtPlan(t, plan, j)
      BY <1>2, <1>4, <3>1
    <3> QED
      BY <2>3, <3>1, <3>3, <3>4, PlanStep, ZenonT(60)
  <2> QED
    BY <2>2, <2>3, <2>4, <2>5 DEF Idle
<1>5. ASSUME k = Len(plan)
      PROVE  Idle(Writer)' /\ caller'[Writer] = "open"
  <2>1. Len(job[Writer].steps) = 1
    BY <1>2, <1>5
  <2> QED
    BY <1>1, <2>1 DEF StepDone, Idle, NoJob
<1> QED
  BY <1>3, <1>4, <1>5

(* What an open step does to the object and the files.                     *)
LEMMA OpenEffect ==
    ASSUME Types, NEW f \in File, OpenStep(Writer),
           Head(job[Writer].steps).file = f
    PROVE  /\ \A q \in Procs \ {Writer} : obj'[q] = obj[q]
           /\ obj'[Writer].mode = obj[Writer].mode
           /\ obj'[Writer].rdwr = obj[Writer].rdwr
           /\ obj'[Writer].key = obj[Writer].key
           /\ obj'[Writer].last_sequence = obj[Writer].last_sequence
           /\ \A g \in File \ {f} : /\ obj'[Writer].fd[g] = obj[Writer].fd[g]
                                    /\ disk'[g] = disk[g]
           /\ IF f = "data" /\ obj[Writer].mode = "rebuild"
              THEN \/ /\ ~disk[f].there /\ ~IsCreate(job[Writer].flags)
                      /\ obj'[Writer].fd[f] = "closed" /\ disk' = disk
                   \/ /\ obj'[Writer].fd[f] = FdMode(job[Writer].flags)
                      /\ disk'[f].there /\ disk'[f].hash = disk[f].hash
                      /\ disk'[f].n = disk[f].n
              ELSE obj'[Writer].fd[f] = "rw" /\ disk'[f] = Empty
           /\ StepDone(Writer)
<1>1. /\ obj[Writer] \in Object /\ obj \in [Procs -> Object] /\ disk \in Disks
      /\ Writer \in Procs
  BY WriterAssumption DEF Types
<1>2. PICK m : /\ obj' = [obj EXCEPT ![Writer].fd[f] = m]
               /\ IF f = "data" /\ obj[Writer].mode = "rebuild"
                  THEN \/ /\ ~disk[f].there /\ ~IsCreate(job[Writer].flags)
                          /\ m = "closed" /\ disk' = disk
                       \/ /\ m = FdMode(job[Writer].flags)
                          /\ disk' = [disk EXCEPT ![f].there = TRUE]
                  ELSE m = "rw" /\ disk' = [disk EXCEPT ![f] = Empty]
  <2>1. CASE f = "data" /\ obj[Writer].mode = "rebuild"
    BY <2>1 DEF OpenStep, KeepsData
  <2>2. CASE ~(f = "data" /\ obj[Writer].mode = "rebuild")
    BY <2>2 DEF OpenStep, KeepsData
  <2> QED
    BY <2>1, <2>2
<1>3. obj' = [obj EXCEPT ![Writer] =
                 [obj[Writer] EXCEPT !.fd = [obj[Writer].fd EXCEPT ![f] = m]]]
  BY <1>2
<1>4. /\ \A q \in Procs \ {Writer} : obj'[q] = obj[q]
      /\ obj'[Writer].mode = obj[Writer].mode
      /\ obj'[Writer].rdwr = obj[Writer].rdwr
      /\ obj'[Writer].key = obj[Writer].key
      /\ obj'[Writer].last_sequence = obj[Writer].last_sequence
      /\ \A g \in File \ {f} : obj'[Writer].fd[g] = obj[Writer].fd[g]
      /\ obj'[Writer].fd[f] = m
  BY <1>1, <1>3 DEF Object
<1>5. \A g \in File \ {f} : disk'[g] = disk[g]
  BY <1>1, <1>2 DEF Disks
<1>6. IF f = "data" /\ obj[Writer].mode = "rebuild"
      THEN \/ /\ ~disk[f].there /\ ~IsCreate(job[Writer].flags)
              /\ m = "closed" /\ disk' = disk
           \/ /\ m = FdMode(job[Writer].flags)
              /\ disk'[f].there /\ disk'[f].hash = disk[f].hash
              /\ disk'[f].n = disk[f].n
      ELSE m = "rw" /\ disk'[f] = Empty
  BY <1>1, <1>2 DEF Disks, Content
<1>7. StepDone(Writer)
  BY DEF OpenStep
<1> QED
  BY <1>4, <1>5, <1>6, <1>7

(* What the step that fixes the key does.                                  *)
LEMMA KeyEffect ==
    ASSUME Types, NEW plan \in Seq(Step), NEW k,
           AtPlan(job[Writer].steps, plan, k), k # Len(plan), KeyStep(Writer)
    PROVE  /\ WriterOnly /\ disk' = disk /\ obj' = obj /\ caller' = caller
           /\ AtPlan(job'[Writer].steps, plan, k + 1) /\ ~Idle(Writer)'
           /\ job'[Writer].flags = job[Writer].flags
           /\ job'[Writer].key =
                 IF obj[Writer].mode # "rebuild" THEN job[Writer].key
                 ELSE IF Holds(Writer, "data") THEN InData ELSE ZeroKey
<1>1. /\ job[Writer].steps \in Seq(Step) /\ job[Writer] \in Jobs
      /\ job \in [Procs -> Jobs] /\ Writer \in Procs
  BY WriterAssumption DEF Types, Jobs
<1>2. PICK t, j, h :
        /\ t = Tail(job[Writer].steps) /\ j = k + 1
        /\ h = IF obj[Writer].mode # "rebuild" THEN job[Writer].key
               ELSE IF Holds(Writer, "data") THEN InData ELSE ZeroKey
  OBVIOUS
<1>3. job[Writer].steps # << >> /\ AtPlan(t, plan, j)
  BY <1>1, <1>2, PlanStep
<1>4. t \in Seq(Step)
  BY <1>1, <1>2, <1>3
<1>5. t # << >>
  BY <1>3, <1>4, PlanStep
<1>6. /\ job' = [job EXCEPT ![Writer].steps = t, ![Writer].key = h]
      /\ disk' = disk /\ obj' = obj /\ caller' = caller
  <2>1. /\ disk' = disk /\ obj' = obj /\ caller' = caller
    BY DEF KeyStep
  <2>2. CASE obj[Writer].mode = "rebuild"
    BY <1>1, <1>2, <2>2 DEF KeyStep, InData, Jobs
  <2>3. CASE obj[Writer].mode # "rebuild"
    BY <1>1, <1>2, <2>3 DEF KeyStep, Jobs
  <2> QED
    BY <2>1, <2>2, <2>3
<1>7. job' = [job EXCEPT ![Writer] = [job[Writer] EXCEPT !.steps = t, !.key = h]]
  BY <1>1, <1>6
<1>8. /\ job'[Writer].steps = t /\ job'[Writer].key = h
      /\ job'[Writer].flags = job[Writer].flags
  BY <1>1, <1>7 DEF Jobs
<1>9. WriterOnly
  BY <1>1, <1>6, <1>7 DEF WriterOnly
<1>10. AtPlan(job'[Writer].steps, plan, k + 1) /\ ~Idle(Writer)'
  BY <1>2, <1>3, <1>5, <1>8 DEF Idle
<1> QED
  BY <1>2, <1>6, <1>8, <1>9, <1>10

(* What a step that writes a hash record does.                             *)
LEMMA HashEffect ==
    ASSUME Types, NEW f \in File, HashStep(Writer),
           Head(job[Writer].steps).file = f
    PROVE  /\ StepDone(Writer)
           /\ \A q \in Procs \ {Writer} : obj'[q] = obj[q]
           /\ obj'[Writer] \in Object
           /\ obj'[Writer].fd = obj[Writer].fd
           /\ obj'[Writer].mode = obj[Writer].mode
           /\ obj'[Writer].rdwr = obj[Writer].rdwr
           /\ obj'[Writer].last_sequence = obj[Writer].last_sequence
           /\ IF f = "state"
              THEN /\ obj'[Writer].key = job[Writer].key
                   /\ disk' = Saved(obj'[Writer], disk)
              ELSE /\ obj' = obj
                   /\ \A g \in File \ {f} : disk'[g] = disk[g]
                   /\ disk'[f].hash = job[Writer].key
                   /\ disk'[f].there = disk[f].there /\ disk'[f].n = disk[f].n
<1>1. /\ obj[Writer] \in Object /\ obj \in [Procs -> Object] /\ disk \in Disks
      /\ Writer \in Procs /\ job[Writer].key \in Keys \cup {ZeroKey}
  BY WriterAssumption DEF Types, Jobs
<1>2. PICK o : o = [obj[Writer] EXCEPT !.key = job[Writer].key]
  OBVIOUS
<1>3. /\ o \in Object /\ o.fd = obj[Writer].fd /\ o.mode = obj[Writer].mode
      /\ o.rdwr = obj[Writer].rdwr /\ o.key = job[Writer].key
      /\ o.last_sequence = obj[Writer].last_sequence
  BY <1>1, <1>2 DEF Object
<1>4. /\ StepDone(Writer)
      /\ IF f = "state"
         THEN obj' = [obj EXCEPT ![Writer] = o] /\ disk' = Saved(o, disk)
         ELSE disk' = [disk EXCEPT ![f].hash = job[Writer].key] /\ obj' = obj
  BY <1>2 DEF HashStep
<1>5. CASE f = "state"
  <2>1. obj'[Writer] = o /\ \A q \in Procs \ {Writer} : obj'[q] = obj[q]
    BY <1>1, <1>4, <1>5
  <2> QED
    BY <1>3, <1>4, <1>5, <2>1
<1>6. CASE f # "state"
  <2>1. /\ \A g \in File \ {f} : disk'[g] = disk[g]
        /\ disk'[f].hash = job[Writer].key
        /\ disk'[f].there = disk[f].there /\ disk'[f].n = disk[f].n
    BY <1>1, <1>4, <1>6 DEF Disks, Content
  <2> QED
    BY <1>1, <1>4, <1>6, <2>1
<1> QED
  BY <1>5, <1>6

(* The writer holds only files that are there, at any step.                *)
LEMMA BusySession ==
    ASSUME caller'[Writer] = "busy",
           \A f \in File : Holds(Writer, f)' => disk'[f].there
    PROVE  Session(Writer)'
  BY DEF Session

(* The steps of a create are told apart by what they do.                   *)
LEMMA CreateDoes ==
    ASSUME NEW k \in 1 .. 9, NEW s, s = CreateSteps("standard")[k]
    PROVE  /\ s.do = "open" => \/ k = 1 /\ s.file = "data"
                               \/ k = 2 /\ s.file = "index"
                               \/ k = 3 /\ s.file = "log"
                               \/ k = 4 /\ s.file = "state"
           /\ s.do = "key" => k = 5
           /\ s.do = "hash" => \/ k = 6 /\ s.file = "data"
                               \/ k = 7 /\ s.file = "log"
                               \/ k = 8 /\ s.file = "index"
                               \/ k = 9 /\ s.file = "state"
           /\ s.do \notin {"replay", "finish"}
<1> DEFINE plan == CreateSteps("standard")
<1>1. /\ plan[1] = Do("open", "data") /\ plan[2] = Do("open", "index")
      /\ plan[3] = Do("open", "log") /\ plan[4] = Do("open", "state")
      /\ plan[5] = Do("key", "data") /\ plan[6] = Do("hash", "data")
      /\ plan[7] = Do("hash", "log") /\ plan[8] = Do("hash", "index")
      /\ plan[9] = Do("hash", "state")
  BY CreatePlan DEF Opening
<1>2. s = plan[k] /\ k \in {1, 2, 3, 4, 5, 6, 7, 8, 9}
  OBVIOUS
<1> HIDE DEF plan
<1> QED
  BY <1>1, <1>2 DEF Do

(* A create opens and empties its files,                                   *)
LEMMA CreatingOpen ==
    ASSUME Good, Types', NEW k \in 1 .. 9, Creating(k), ~Idle(Writer),
           OpenStep(Writer)
    PROVE  Good'
<1> DEFINE plan == CreateSteps("standard")
<1>1. /\ Types /\ WriterGood /\ caller[Writer] = "busy" /\ Session(Writer)
      /\ disk \in Disks /\ DiskGood /\ Writer \in Procs
  BY WriterAssumption DEF Good, Types, WriterGood
<1>2. plan \in Seq(Step) /\ Len(plan) = 9 /\ AtPlan(job[Writer].steps, plan, k)
  BY CreatePlan DEF Creating
<1>3. Head(job[Writer].steps) = plan[k]
  BY <1>1, <1>2, NextStep
<1>4. PICK f \in File :
         /\ Head(job[Writer].steps).file = f
         /\ \/ k = 1 /\ f = "data"
            \/ k = 2 /\ f = "index"
            \/ k = 3 /\ f = "log"
            \/ k = 4 /\ f = "state"
  <2>1. PICK s : s = plan[k]
    OBVIOUS
  <2>2. s.do = "open" /\ Head(job[Writer].steps) = s
    BY <1>3, <2>1 DEF OpenStep, AtStep
  <2> QED
    BY <2>1, <2>2, CreateDoes DEF File
<1>5. /\ \A q \in Procs \ {Writer} : obj'[q] = obj[q]
      /\ obj'[Writer].mode = "standard"
      /\ obj'[Writer].fd[f] = "rw" /\ disk'[f] = Empty
      /\ \A g \in File \ {f} : /\ obj'[Writer].fd[g] = obj[Writer].fd[g]
                               /\ disk'[g] = disk[g]
      /\ StepDone(Writer)
  BY <1>1, <1>4, OpenEffect DEF Creating
<1>6. /\ \A q \in Procs \ {Writer} : job'[q] = job[q] /\ caller'[q] = caller[q]
      /\ AtPlan(job'[Writer].steps, plan, k + 1)
      /\ ~Idle(Writer)' /\ caller'[Writer] = "busy"
      /\ job'[Writer].key = job[Writer].key
  <2> HIDE DEF plan
  <2>1. k # Len(plan)
    BY <1>2, <1>4
  <2> QED
    BY <1>1, <1>2, <1>5, <2>1, StepTaken
<1>7. \A g \in File : /\ disk'[g].n = 0 /\ disk'[g].hash = NoHash
                      /\ disk[g].there => disk'[g].there
                      /\ Holds(Writer, g)' => disk'[g].there
                      /\ disk'[g].there \/ disk'[g] = Absent
  <2>1. \A g \in File : disk[g].n = 0 /\ disk[g].hash = NoHash
    BY <1>4 DEF Creating
  <2>2. \A g \in File \ {f} : Holds(Writer, g)' => disk[g].there
    BY <1>1, <1>5 DEF Session, Holds
  <2> QED
    BY <1>1, <1>5, <2>1, <2>2 DEF DiskGood, Empty
<1>8. /\ InData' = ZeroKey
      /\ Matches("index")' /\ Matches("log")'
  BY <1>7 DEF InData, ReadHash, Matches, File
<1>9. Session(Writer)'
  BY <1>6, <1>7, BusySession
<1>10. \A j : j = k + 1 => Creating(j)'
  <2>1. /\ OpenedBy(k) /\ job[Writer].key \in Keys
        /\ k > 1 => obj[Writer].fd["data"] = "rw"
    BY DEF Creating
  <2>2. \A j : j = k + 1 =>
           /\ OpenedBy(j)'
           /\ j > 1 => obj'[Writer].fd["data"] = "rw"
    <3>1. /\ k > 1 => obj[Writer].fd["data"] = "rw"
          /\ k > 2 => obj[Writer].fd["index"] = "rw"
          /\ k > 3 => obj[Writer].fd["log"] = "rw"
      BY <2>1 DEF OpenedBy
    <3>2. \A g \in {"data", "index", "log", "state"} :
             g # f => obj'[Writer].fd[g] = obj[Writer].fd[g]
      BY <1>5 DEF File
    <3>3. /\ obj'[Writer].fd["data"] = "rw"
          /\ k > 1 => obj'[Writer].fd["index"] = "rw"
          /\ k > 2 => obj'[Writer].fd["log"] = "rw"
          /\ k > 3 => obj'[Writer].fd["state"] = "rw"
      BY <1>4, <1>5, <3>1, <3>2
    <3> QED
      BY <1>4, <3>3 DEF OpenedBy
  <2>3. \A j : j = k + 1 => AtPlan(job'[Writer].steps, plan, j)
    BY <1>6
  <2> QED
    BY <1>4, <1>5, <1>6, <1>7, <1>8, <2>1, <2>2, <2>3 DEF Creating, File
<1>11. Working'
  BY <1>4, <1>10 DEF Working
<1>12. WriterGood'
  BY <1>6, <1>9, <1>11 DEF WriterGood
<1>13. Quiet
  BY <1>7, <1>8, KeysAssumption DEF Quiet, DiskGood, File
<1>14. WriterOnly
  BY <1>5, <1>6 DEF WriterOnly
<1> QED
  BY <1>12, <1>13, <1>14, WriterStep

(* keeps the key it has,                                                   *)
LEMMA CreatingKey ==
    ASSUME Good, Types', NEW k \in 1 .. 9, Creating(k), ~Idle(Writer),
           KeyStep(Writer)
    PROVE  Good'
<1> DEFINE plan == CreateSteps("standard")
<1>1. /\ Types /\ WriterGood /\ caller[Writer] = "busy" /\ Session(Writer)
      /\ disk \in Disks /\ DiskGood /\ Writer \in Procs
  BY WriterAssumption DEF Good, Types, WriterGood
<1>2. plan \in Seq(Step) /\ Len(plan) = 9 /\ AtPlan(job[Writer].steps, plan, k)
  BY CreatePlan DEF Creating
<1>3. k = 5
  <2>1. PICK s : s = plan[k]
    OBVIOUS
  <2>2. s.do = "key"
    BY <1>1, <1>2, <2>1, NextStep DEF KeyStep, AtStep
  <2> QED
    BY <2>1, <2>2, CreateDoes
<1>4. /\ WriterOnly /\ disk' = disk /\ obj' = obj /\ caller' = caller
      /\ AtPlan(job'[Writer].steps, plan, k + 1) /\ ~Idle(Writer)'
      /\ job'[Writer].key = job[Writer].key
  <2> HIDE DEF plan
  <2>1. k # Len(plan) /\ obj[Writer].mode # "rebuild"
    BY <1>2, <1>3 DEF Creating
  <2> QED
    BY <1>1, <1>2, <2>1, KeyEffect
<1>5. /\ Quiet /\ InData' = InData
      /\ \A f \in {"index", "log"} : Matches(f)' = Matches(f)
  BY <1>1, <1>4, CalmDisk
<1>6. Session(Writer)'
  BY <1>1, <1>4, BusySession DEF Session, Holds
<1>7. \A j : j = k + 1 => Creating(j)'
  <2>1. \A j : j = k + 1 => AtPlan(job'[Writer].steps, plan, j)
    BY <1>4
  <2> QED
    BY <1>3, <1>4, <1>5, <2>1 DEF Creating, OpenedBy, File
<1>8. WriterGood'
  BY <1>1, <1>3, <1>4, <1>6, <1>7 DEF WriterGood, Working
<1> QED
  BY <1>4, <1>5, <1>8, WriterStep

(* and writes the hash records, that of the data file first and that of    *)
(* the state last.                                                         *)
LEMMA CreatingHash ==
    ASSUME Good, Types', NEW k \in 1 .. 9, Creating(k), ~Idle(Writer),
           HashStep(Writer)
    PROVE  Good'
<1> DEFINE plan == CreateSteps("standard")
<1>1. /\ Types /\ WriterGood /\ caller[Writer] = "busy" /\ Session(Writer)
      /\ disk \in Disks /\ DiskGood /\ Writer \in Procs
  BY WriterAssumption DEF Good, Types, WriterGood
<1>2. plan \in Seq(Step) /\ Len(plan) = 9 /\ AtPlan(job[Writer].steps, plan, k)
  BY CreatePlan DEF Creating
<1>3. PICK f \in File :
         /\ Head(job[Writer].steps).file = f
         /\ \/ k = 6 /\ f = "data"
            \/ k = 7 /\ f = "log"
            \/ k = 8 /\ f = "index"
            \/ k = 9 /\ f = "state"
  <2>1. PICK s : s = plan[k]
    OBVIOUS
  <2>2. s.do = "hash" /\ Head(job[Writer].steps) = s
    BY <1>1, <1>2, <2>1, NextStep DEF HashStep, AtStep
  <2> QED
    BY <2>1, <2>2, CreateDoes DEF File
<1> DEFINE key == job[Writer].key
<1>4. /\ \A q \in Procs \ {Writer} : obj'[q] = obj[q]
      /\ obj'[Writer].mode = "standard" /\ obj'[Writer] \in Object
      /\ obj'[Writer].fd = obj[Writer].fd
      /\ StepDone(Writer)
      /\ IF f = "state"
         THEN /\ obj'[Writer].key = key
              /\ disk' = Saved(obj'[Writer], disk)
         ELSE /\ obj' = obj
              /\ \A g \in File \ {f} : disk'[g] = disk[g]
              /\ disk'[f].hash = key
              /\ disk'[f].there = disk[f].there /\ disk'[f].n = disk[f].n
  BY <1>1, <1>3, HashEffect DEF Creating
<1>5. /\ \A q \in Procs \ {Writer} : job'[q] = job[q] /\ caller'[q] = caller[q]
      /\ k # 9 => /\ AtPlan(job'[Writer].steps, plan, k + 1)
                  /\ ~Idle(Writer)' /\ caller'[Writer] = "busy"
                  /\ job'[Writer].key = key
      /\ k = 9 => Idle(Writer)' /\ caller'[Writer] = "open"
  <2> HIDE DEF plan
  <2> QED
    BY <1>1, <1>2, <1>4, StepTaken
<1>6. /\ key \in Keys /\ key # NoHash /\ key # ZeroKey
      /\ \A g \in File : Holds(Writer, g)
      /\ \A g \in File : disk[g].n = 0 /\ disk[g].there
      /\ disk["state"].hash = NoHash
      /\ k = 6 => \A g \in File : disk[g].hash = NoHash
      /\ k > 6 => disk["data"].hash = key
      /\ Matches("index") /\ Matches("log")
  <2>1. \A g \in File : Holds(Writer, g)
    BY <1>3 DEF Creating, OpenedBy, Holds, File
  <2> QED
    BY <1>1, <1>3, <2>1, KeysAssumption DEF Creating, Session
<1>7. WriterOnly
  BY <1>4, <1>5 DEF WriterOnly
<1>8. ASSUME f # "state"
      PROVE  WriterGood' /\ Quiet
  <2>1. /\ \A g \in File : Holds(Writer, g)' /\ disk'[g].there /\ disk'[g].n = 0
        /\ disk'["state"].hash = NoHash
        /\ disk'["data"].hash = key
    BY <1>3, <1>4, <1>6, <1>8 DEF Holds, File
  <2>2. InData' = key
    BY <1>6, <2>1 DEF InData, ReadHash
  <2>3. \A g \in {"index", "log"} : disk'[g].hash \in {NoHash, key}
    <3>1. CASE k = 6
      BY <1>3, <1>4, <1>6, <3>1 DEF File
    <3>2. CASE k > 6
      <4>1. \A g \in {"index", "log"} : disk[g].hash \in {NoHash, key}
        BY <1>6, <3>2 DEF Matches, InData, ReadHash
      <4> QED
        BY <1>3, <1>4, <1>8, <4>1 DEF File
    <3> QED
      BY <1>3, <3>1, <3>2
  <2>4. Matches("index")' /\ Matches("log")'
    BY <2>2, <2>3 DEF Matches
  <2>5. /\ k # 9 /\ AtPlan(job'[Writer].steps, plan, k + 1)
        /\ ~Idle(Writer)' /\ caller'[Writer] = "busy"
        /\ job'[Writer].key = key
    BY <1>3, <1>5, <1>8
  <2>6. Session(Writer)'
    BY <2>1, <2>5, BusySession
  <2>7. \A j : j = k + 1 => Creating(j)'
    <3>1. \A j : j = k + 1 => AtPlan(job'[Writer].steps, plan, j)
      BY <2>5
    <3>2. \A j : j = k + 1 => OpenedBy(j)' /\ obj'[Writer].fd["data"] = "rw" /\ j > 6
      BY <1>3, <1>4 DEF Creating, OpenedBy
    <3> QED
      BY <1>4, <1>6, <2>1, <2>4, <2>5, <3>1, <3>2 DEF Creating
  <2>8. WriterGood'
    BY <1>3, <1>8, <2>5, <2>6, <2>7 DEF WriterGood, Working
  <2>9. Quiet
    BY <1>6, <2>1, <2>4 DEF Quiet, DiskGood
  <2> QED
    BY <2>8, <2>9
<1>9. ASSUME f = "state"
      PROVE  WriterGood' /\ Quiet
  <2>1. PICK o \in Object : o = obj'[Writer] /\ o.key = key /\ o.fd = obj[Writer].fd
    BY <1>4, <1>9
  <2>2. /\ Quiet /\ InData' = InData
        /\ \A g \in {"index", "log"} : Matches(g)' = Matches(g)
        /\ \A g \in File : disk[g].there => disk'[g].there
    BY <1>4, <1>9, <2>1, SavedQuiet
  <2>3. k = 9 /\ InData = key
    BY <1>3, <1>6, <1>9 DEF InData, ReadHash
  <2>4. disk'["state"].hash \in {NoHash, key}
    <3>1. PICK r : r = [there |-> TRUE, hash |-> o.key, n |-> o.last_sequence]
      OBVIOUS
    <3>2. r.hash = key
      BY <2>1, <3>1
    <3>3. Saved(o, disk) = disk \/ Saved(o, disk)["state"] = r
      BY <1>1, <3>1, SavedState
    <3> QED
      BY <1>4, <1>6, <1>9, <2>1, <3>2, <3>3
  <2>5. Matches("state")' /\ Matches("index")' /\ Matches("log")'
    BY <1>6, <2>2, <2>3, <2>4 DEF Matches
  <2>6. Idle(Writer)' /\ caller'[Writer] = "open"
    BY <1>5, <2>3
  <2>7. \A g \in File : Holds(Writer, g)' /\ disk'[g].there
    BY <1>4, <1>6, <2>2 DEF Holds
  <2>8. Session(Writer)'
    BY <2>5, <2>6, <2>7 DEF Session
  <2>9. WriterGood'
    BY <2>1, <2>2, <2>3, <2>5, <2>6, <2>8 DEF WriterGood
  <2> QED
    BY <2>2, <2>9
<1>10. WriterGood' /\ Quiet
  BY <1>8, <1>9
<1> QED
  BY <1>7, <1>10, WriterStep

(* The plans that leave the data file out.                                 *)
Plans == {CreateSteps("rebuild"), RebuildSteps}

(* The two differ in their length.                                         *)
LEMMA PlansKnown ==
    ASSUME NEW plan \in Plans
    PROVE  /\ plan \in Seq(Step) /\ Len(plan) \in {8, 10}
           /\ Len(plan) = 8 <=> plan = CreateSteps("rebuild")
           /\ Len(plan) = 10 <=> plan = RebuildSteps
<1>1. PICK a, b : a = CreateSteps("rebuild") /\ b = RebuildSteps
  OBVIOUS
<1>2. a \in Seq(Step) /\ Len(a) = 8 /\ b \in Seq(Step) /\ Len(b) = 10
  BY <1>1, RecreatePlan, RebuildPlan
<1>3. plan = a \/ plan = b
  BY <1>1 DEF Plans
<1>4. a # b
  <2>1. a = b => Len(a) = Len(b)
    OBVIOUS
  <2>2. 8 # 10 /\ Len(a) = 8 /\ Len(b) = 10
    BY <1>2
  <2>3. Len(a) # Len(b)
    BY <2>2
  <2> QED
    BY <2>1, <2>3
<1>5. /\ plan \in Seq(Step) /\ Len(plan) \in {8, 10}
      /\ Len(plan) = 8 <=> plan = a
      /\ Len(plan) = 10 <=> plan = b
  <2>1. CASE plan = a
    <3>1. plan \in Seq(Step) /\ Len(plan) = 8 /\ plan # b
      BY <1>2, <1>4, <2>1
    <3> QED
      BY <2>1, <3>1
  <2>2. CASE plan = b
    <3>1. plan \in Seq(Step) /\ Len(plan) = 10 /\ plan # a
      BY <1>2, <1>4, <2>2
    <3> QED
      BY <2>2, <3>1
  <2> QED
    BY <1>3, <2>1, <2>2
<1> QED
  BY <1>1, <1>5

(* Their steps are told apart by what they do, too.                        *)
LEMMA RebuildDoes ==
    ASSUME NEW plan \in Plans, NEW k \in 1 .. Len(plan), NEW s, s = plan[k]
    PROVE  /\ s.do = "open" => \/ k = 1 /\ s.file = "data"
                               \/ k = 2 /\ s.file = "index"
                               \/ k = 3 /\ s.file = "log"
                               \/ k = 4 /\ s.file = "state"
           /\ s.do = "key" => k = 5
           /\ s.do = "hash" => \/ k = 6 /\ s.file = "log"
                               \/ k = 7 /\ s.file = "index"
                               \/ k = 8 /\ s.file = "state"
           /\ s.do = "replay" => k = 9
           /\ s.do = "finish" => k = 10
<1>1. /\ plan[1] = Do("open", "data") /\ plan[2] = Do("open", "index")
      /\ plan[3] = Do("open", "log") /\ plan[4] = Do("open", "state")
      /\ plan[5] = Do("key", "data") /\ plan[6] = Do("hash", "log")
      /\ plan[7] = Do("hash", "index") /\ plan[8] = Do("hash", "state")
  BY RecreatePlan, RebuildPlan DEF Opening, Plans
<1>2. k \in 1 .. 8 \/ (plan = RebuildSteps /\ k \in {9, 10})
  BY PlansKnown
<1>3. plan = RebuildSteps =>
         plan[9] = Do("replay", "data") /\ plan[10] = Do("finish", "state")
  BY RebuildPlan
<1>4. CASE k \in 1 .. 8
  <2>1. k \in {1, 2, 3, 4, 5, 6, 7, 8}
    BY <1>4
  <2> QED
    BY <1>1, <2>1 DEF Do
<1>5. CASE plan = RebuildSteps /\ k \in {9, 10}
  BY <1>3, <1>5 DEF Do
<1> QED
  BY <1>2, <1>4, <1>5

(* What a step of the k-th place does but for the last.                    *)
GoesOn(plan, k) ==
    /\ WriterOnly /\ Quiet /\ Session(Writer)'
    /\ ~Idle(Writer)' /\ caller'[Writer] = "busy"
    /\ job'[Writer].flags = job[Writer].flags
    /\ \A j : j = k + 1 => Rebuilding(plan, j)'
    /\ IsCreate(job[Writer].flags) /\ (k > 1 => Holds(Writer, "data")) =>
          Holds(Writer, "data")'

(* A rebuild opens the data file as its caller asks for and empties the    *)
(* others,                                                                 *)
LEMMA RebuildingOpen ==
    ASSUME Good, NEW plan \in Plans, NEW k, Rebuilding(plan, k), ~Idle(Writer),
           OpenStep(Writer)
    PROVE  GoesOn(plan, k)
<1>1. /\ Types /\ WriterGood /\ caller[Writer] = "busy" /\ Session(Writer)
      /\ disk \in Disks /\ DiskGood /\ Writer \in Procs
  BY WriterAssumption DEF Good, Types, WriterGood
<1>2. /\ plan \in Seq(Step) /\ Len(plan) \in {8, 10}
      /\ AtPlan(job[Writer].steps, plan, k) /\ k \in 1 .. Len(plan)
      /\ Head(job[Writer].steps) = plan[k]
  BY <1>1, PlansKnown, NextStep DEF Rebuilding
<1>3. PICK f \in File :
         /\ Head(job[Writer].steps).file = f
         /\ \/ k = 1 /\ f = "data"
            \/ k = 2 /\ f = "index"
            \/ k = 3 /\ f = "log"
            \/ k = 4 /\ f = "state"
  <2>1. PICK s : s = plan[k]
    OBVIOUS
  <2>2. s.do = "open" /\ Head(job[Writer].steps) = s
    BY <1>2, <2>1 DEF OpenStep, AtStep
  <2> QED
    BY <1>2, <2>1, <2>2, RebuildDoes DEF File
<1> DEFINE flags == job[Writer].flags
<1>4. /\ \A q \in Procs \ {Writer} : obj'[q] = obj[q]
      /\ obj'[Writer].mode = "rebuild"
      /\ \A g \in File \ {f} : /\ obj'[Writer].fd[g] = obj[Writer].fd[g]
                               /\ disk'[g] = disk[g]
      /\ IF f = "data"
         THEN \/ /\ ~disk[f].there /\ ~IsCreate(flags)
                 /\ obj'[Writer].fd[f] = "closed" /\ disk' = disk
              \/ /\ obj'[Writer].fd[f] = FdMode(flags)
                 /\ disk'[f].there /\ disk'[f].hash = disk[f].hash
         ELSE obj'[Writer].fd[f] = "rw" /\ disk'[f] = Empty
      /\ StepDone(Writer)
  BY <1>1, <1>3, OpenEffect DEF Rebuilding
<1>5. /\ \A q \in Procs \ {Writer} : job'[q] = job[q] /\ caller'[q] = caller[q]
      /\ AtPlan(job'[Writer].steps, plan, k + 1)
      /\ ~Idle(Writer)' /\ caller'[Writer] = "busy"
      /\ job'[Writer].flags = flags
  <2>1. k # Len(plan)
    <3>1. k \in {1, 2, 3, 4}
      BY <1>3
    <3>2. PICK n \in {8, 10} : n = Len(plan)
      BY <1>2
    <3> QED
      BY <3>1, <3>2
  <2> QED
    BY <1>1, <1>2, <1>4, <2>1, StepTaken
<1>6. WriterOnly
  BY <1>4, <1>5 DEF WriterOnly
<1>7. disk'["data"].hash = disk["data"].hash
  BY <1>3, <1>4 DEF File
<1>8. InData' = InData
  BY <1>7 DEF InData, ReadHash
<1>9. \A g \in File : /\ disk[g].there => disk'[g].there
                      /\ Holds(Writer, g)' => disk'[g].there
                      /\ disk'[g].there \/ disk'[g] = Absent
  <2>1. \A g \in File \ {f} : Holds(Writer, g)' => disk[g].there
    BY <1>1, <1>4 DEF Session, Holds
  <2>2. Empty.there
    BY DEF Empty
  <2> QED
    BY <1>1, <1>4, <2>1, <2>2 DEF DiskGood, Holds
<1>10. Session(Writer)'
  BY <1>5, <1>9, BusySession
<1>11. \A g \in {"index", "log"} : Matches(g) \/ g = f => Matches(g)'
  BY <1>3, <1>4, <1>8 DEF Matches, Empty, File
<1>12. Quiet
  BY <1>1, <1>7, <1>9, <1>11 DEF Quiet, DiskGood
<1>13. /\ k > 1 => Holds(Writer, "data")' = Holds(Writer, "data")
       /\ k = 1 => /\ Holds(Writer, "data")' \/ disk'["data"].hash = NoHash
                   /\ IsCreate(flags) => Holds(Writer, "data")'
  <2>1. k > 1 => Holds(Writer, "data")' = Holds(Writer, "data")
    BY <1>3, <1>4 DEF Holds, File
  <2>2. ASSUME k = 1
        PROVE  /\ Holds(Writer, "data")' \/ disk'["data"].hash = NoHash
               /\ IsCreate(flags) => Holds(Writer, "data")'
    <3>1. f = "data" /\ FdMode(flags) # "closed"
      BY <1>3, <2>2 DEF FdMode
    <3>2. ~disk["data"].there => disk["data"].hash = NoHash
      BY <1>1 DEF DiskGood, Absent, File
    <3> QED
      BY <1>4, <3>1, <3>2 DEF Holds
  <2> QED
    BY <2>1, <2>2
<1>14. \A j : j = k + 1 => Rebuilding(plan, j)'
  <2>1. \A j : j = k + 1 => AtPlan(job'[Writer].steps, plan, j)
    BY <1>5
  <2>2. /\ k > 2 => obj[Writer].fd["index"] = "rw" /\ Matches("index")
        /\ k > 3 => obj[Writer].fd["log"] = "rw" /\ Matches("log")
        /\ k > 1 => Holds(Writer, "data") \/ disk["data"].hash = NoHash
    BY DEF Rebuilding, OpenedBy
  <2>3. \A g \in {"index", "log", "state"} :
           /\ g # f => obj'[Writer].fd[g] = obj[Writer].fd[g]
           /\ g = f => obj'[Writer].fd[g] = "rw" /\ disk'[g].hash = NoHash
    BY <1>4 DEF File, Empty
  <2>4. /\ k > 1 => obj'[Writer].fd["index"] = "rw" /\ Matches("index")'
        /\ k > 2 => obj'[Writer].fd["log"] = "rw" /\ Matches("log")'
        /\ k > 3 => obj'[Writer].fd["state"] = "rw" /\ disk'["state"].hash = NoHash
    BY <1>3, <1>11, <2>2, <2>3
  <2>5. Holds(Writer, "data")' \/ disk'["data"].hash = NoHash
    BY <1>3, <1>7, <1>13, <2>2
  <2> QED
    BY <1>3, <1>4, <2>1, <2>4, <2>5 DEF Rebuilding, OpenedBy
<1>15. IsCreate(flags) /\ (k > 1 => Holds(Writer, "data")) => Holds(Writer, "data")'
  BY <1>3, <1>13
<1> QED
  BY <1>5, <1>6, <1>10, <1>12, <1>14, <1>15 DEF GoesOn

(* takes its key from the data file, the zero key if that has none,        *)
LEMMA RebuildingKey ==
    ASSUME Good, NEW plan \in Plans, NEW k, Rebuilding(plan, k), ~Idle(Writer),
           KeyStep(Writer)
    PROVE  GoesOn(plan, k)
<1>1. /\ Types /\ WriterGood /\ caller[Writer] = "busy" /\ Session(Writer)
      /\ disk \in Disks /\ DiskGood /\ Writer \in Procs
  BY WriterAssumption DEF Good, Types, WriterGood
<1>2. /\ plan \in Seq(Step) /\ Len(plan) \in {8, 10}
      /\ AtPlan(job[Writer].steps, plan, k) /\ k \in 1 .. Len(plan)
      /\ Head(job[Writer].steps) = plan[k]
  BY <1>1, PlansKnown, NextStep DEF Rebuilding
<1>3. k = 5
  <2>1. PICK s : s = plan[k]
    OBVIOUS
  <2>2. s.do = "key"
    BY <1>2, <2>1 DEF KeyStep, AtStep
  <2> QED
    BY <1>2, <2>1, <2>2, RebuildDoes
<1>4. obj[Writer].mode = "rebuild" /\ Matches("index") /\ Matches("log")
  BY <1>3 DEF Rebuilding
<1>5. /\ WriterOnly /\ disk' = disk /\ obj' = obj /\ caller' = caller
      /\ AtPlan(job'[Writer].steps, plan, k + 1) /\ ~Idle(Writer)'
      /\ job'[Writer].flags = job[Writer].flags
      /\ job'[Writer].key = IF Holds(Writer, "data") THEN InData ELSE ZeroKey
  <2>1. k # Len(plan)
    <3>1. Len(plan) = 8 \/ Len(plan) = 10
      BY <1>2
    <3> QED
      BY <1>3, <3>1
  <2> QED
    BY <1>1, <1>2, <1>4, <2>1, KeyEffect
<1>6. /\ Quiet /\ InData' = InData
      /\ \A f \in {"index", "log"} : Matches(f)' = Matches(f)
      /\ \A f \in File : Holds(Writer, f)' = Holds(Writer, f)
  BY <1>1, <1>5, CalmDisk DEF Holds
<1>7. Session(Writer)' /\ caller'[Writer] = "busy"
  BY <1>1, <1>5, <1>6, BusySession DEF Session
<1>8. job'[Writer].key = InData
  BY <1>3, <1>5 DEF Rebuilding, InData, ReadHash
<1>9. \A j : j = k + 1 => Rebuilding(plan, j)'
  <2>1. \A j : j = k + 1 => AtPlan(job'[Writer].steps, plan, j)
    BY <1>5
  <2> QED
    BY <1>3, <1>4, <1>5, <1>6, <1>8, <2>1 DEF Rebuilding, OpenedBy, Holds, File
<1>10. k > 1 /\ Holds(Writer, "data")' = Holds(Writer, "data")
  BY <1>3, <1>6 DEF File
<1> QED
  BY <1>5, <1>6, <1>7, <1>9, <1>10 DEF GoesOn

(* The hash step of a rebuild for index or log gives it the hash of the    *)
(* data file; that for the state writes nothing.                           *)
LEMMA RebuildingHash ==
    ASSUME Good, NEW plan \in Plans, NEW k, Rebuilding(plan, k), ~Idle(Writer),
           HashStep(Writer)
    PROVE  /\ k \in {6, 7, 8} /\ obj'[Writer].mode = "rebuild"
           /\ k = 8 => obj'[Writer].key = InData'
           /\ \A q \in Procs \ {Writer} :
                 obj'[q] = obj[q] /\ job'[q] = job[q] /\ caller'[q] = caller[q]
           /\ Quiet /\ InData' = InData
           /\ \A g \in File : /\ Holds(Writer, g)' = Holds(Writer, g)
                              /\ disk[g].there => disk'[g].there
                              /\ disk'[g].n = disk[g].n
           /\ Matches("index")' /\ Matches("log")'
           /\ disk'["data"] = disk["data"]
           /\ disk'["state"].hash = NoHash
           /\ OpenedBy(5)'
           /\ obj'[Writer].rdwr = obj[Writer].rdwr
           /\ obj'[Writer].last_sequence = obj[Writer].last_sequence
           /\ StepDone(Writer)
<1>1. /\ Types /\ WriterGood /\ caller[Writer] = "busy" /\ Session(Writer)
      /\ disk \in Disks /\ DiskGood /\ Writer \in Procs
  BY WriterAssumption DEF Good, Types, WriterGood
<1>2. /\ plan \in Seq(Step) /\ Len(plan) \in {8, 10}
      /\ AtPlan(job[Writer].steps, plan, k) /\ k \in 1 .. Len(plan)
      /\ Head(job[Writer].steps) = plan[k]
  BY <1>1, PlansKnown, NextStep DEF Rebuilding
<1>3. PICK f \in File :
         /\ Head(job[Writer].steps).file = f
         /\ \/ k = 6 /\ f = "log"
            \/ k = 7 /\ f = "index"
            \/ k = 8 /\ f = "state"
  <2>1. PICK s : s = plan[k]
    OBVIOUS
  <2>2. s.do = "hash" /\ Head(job[Writer].steps) = s
    BY <1>2, <2>1 DEF HashStep, AtStep
  <2> QED
    BY <1>2, <2>1, <2>2, RebuildDoes DEF File
<1>4. /\ job[Writer].key = InData /\ obj[Writer].mode = "rebuild"
      /\ Matches("index") /\ Matches("log") /\ disk["state"].hash = NoHash
      /\ OpenedBy(5)
  BY <1>3 DEF Rebuilding, OpenedBy
<1>5. /\ StepDone(Writer)
      /\ \A q \in Procs \ {Writer} : obj'[q] = obj[q]
      /\ obj'[Writer] \in Object /\ obj'[Writer].fd = obj[Writer].fd
      /\ obj'[Writer].mode = "rebuild"
      /\ obj'[Writer].rdwr = obj[Writer].rdwr
      /\ obj'[Writer].last_sequence = obj[Writer].last_sequence
      /\ IF f = "state"
         THEN /\ obj'[Writer].key = InData
              /\ disk' = Saved(obj'[Writer], disk)
         ELSE /\ obj' = obj
              /\ \A g \in File \ {f} : disk'[g] = disk[g]
              /\ disk'[f].hash = InData
              /\ disk'[f].there = disk[f].there /\ disk'[f].n = disk[f].n
  BY <1>1, <1>3, <1>4, HashEffect
<1>6. \A q \in Procs \ {Writer} : job'[q] = job[q] /\ caller'[q] = caller[q]
  BY <1>1, <1>2, <1>5, StepTaken
<1>7. /\ disk'["data"] = disk["data"] /\ disk'["state"].hash = NoHash
      /\ \A g \in File : disk'[g].there = disk[g].there /\ disk'[g].n = disk[g].n
      /\ \A g \in {"index", "log"} : disk'[g].hash \in {disk[g].hash, InData}
      /\ \A g \in File : disk'[g] = disk[g] \/ (g = f /\ g \in {"index", "log"})
  <2>1. CASE f = "state"
    <3>1. PICK o \in Object : o = obj'[Writer] /\ o.mode = "rebuild"
      BY <1>5
    <3>2. "rebuild" # "standard"
      OBVIOUS
    <3>3. disk' = disk
      BY <1>5, <2>1, <3>1, <3>2 DEF Saved
    <3> QED
      BY <1>4, <3>3
  <2>2. CASE f # "state"
    BY <1>3, <1>4, <1>5, <2>2 DEF File
  <2> QED
    BY <2>1, <2>2
<1>8. InData' = InData
  BY <1>7 DEF InData, ReadHash
<1>9. Matches("index")' /\ Matches("log")'
  BY <1>4, <1>7, <1>8 DEF Matches
<1>10. Quiet
  <2>1. \A g \in {"index", "log"} : Holds(Writer, g)
    BY <1>4 DEF OpenedBy, Holds
  <2>2. \A g \in File : disk'[g].there \/ disk'[g] = Absent
    BY <1>1, <1>7, <2>1 DEF DiskGood, Session, File
  <2> QED
    BY <1>1, <1>7, <1>9, <2>2 DEF Quiet, DiskGood
<1>11. \A g \in File : Holds(Writer, g)' = Holds(Writer, g)
  BY <1>5 DEF Holds
<1>12. OpenedBy(5)'
  BY <1>4, <1>5 DEF OpenedBy
<1>13. k = 8 => obj'[Writer].key = InData'
  BY <1>3, <1>5, <1>8
<1> QED
  BY <1>3, <1>5, <1>6, <1>7, <1>8, <1>9, <1>10, <1>11, <1>12, <1>13

(* Unless it is the last one, it goes on.                                  *)
LEMMA RebuildingHashOn ==
    ASSUME Good, NEW plan \in Plans, NEW k, Rebuilding(plan, k), ~Idle(Writer),
           k # Len(plan), HashStep(Writer)
    PROVE  GoesOn(plan, k)
<1>1. /\ Types /\ WriterGood /\ caller[Writer] = "busy" /\ Session(Writer)
  BY DEF Good, WriterGood
<1>2. plan \in Seq(Step) /\ AtPlan(job[Writer].steps, plan, k)
  BY PlansKnown DEF Rebuilding
<1>3. /\ k \in {6, 7, 8} /\ obj'[Writer].mode = "rebuild"
      /\ k = 8 => obj'[Writer].key = InData'
      /\ \A q \in Procs \ {Writer} :
            obj'[q] = obj[q] /\ job'[q] = job[q] /\ caller'[q] = caller[q]
      /\ Quiet /\ InData' = InData
      /\ \A g \in File : /\ Holds(Writer, g)' = Holds(Writer, g)
                         /\ disk[g].there => disk'[g].there
      /\ Matches("index")' /\ Matches("log")'
      /\ disk'["data"] = disk["data"]
      /\ disk'["state"].hash = NoHash
      /\ OpenedBy(5)'
      /\ StepDone(Writer)
  BY RebuildingHash
<1>4. /\ AtPlan(job'[Writer].steps, plan, k + 1)
      /\ ~Idle(Writer)' /\ caller'[Writer] = "busy"
      /\ job'[Writer].flags = job[Writer].flags
      /\ job'[Writer].key = job[Writer].key
  BY <1>1, <1>2, <1>3, StepTaken
<1>5. Session(Writer)'
  BY <1>1, <1>3, <1>4, BusySession DEF Session
<1>6. \A j : j = k + 1 => Rebuilding(plan, j)'
  <2>1. \A j : j = k + 1 => AtPlan(job'[Writer].steps, plan, j)
    BY <1>4
  <2>2. \A j : j = k + 1 => OpenedBy(j)' /\ ~(j > 9) /\ (j > 8 => k = 8)
    BY <1>3 DEF OpenedBy
  <2>3. /\ job[Writer].key = InData
        /\ Holds(Writer, "data") \/ disk["data"].hash = NoHash
    BY <1>3 DEF Rebuilding
  <2>4. Holds(Writer, "data")' \/ disk'["data"].hash = NoHash
    BY <1>3, <2>3 DEF File
  <2> QED
    BY <1>3, <1>4, <2>1, <2>2, <2>3, <2>4 DEF Rebuilding
<1>7. WriterOnly
  BY <1>3 DEF WriterOnly
<1>8. k > 1 /\ Holds(Writer, "data")' = Holds(Writer, "data")
  BY <1>3 DEF File
<1> QED
  BY <1>3, <1>4, <1>5, <1>6, <1>7, <1>8 DEF GoesOn

(* So the invariant goes on.                                               *)
LEMMA RebuildingOn ==
    ASSUME Good, Types', NEW k, GoesOn(RebuildSteps, k)
    PROVE  Good'
<1>1. PICK j : j = k + 1
  OBVIOUS
<1>2. Rebuilding(RebuildSteps, j)'
  BY <1>1 DEF GoesOn
<1>3. j \in 1 .. 10
  BY <1>2, RebuildPlan DEF Rebuilding, AtPlan
<1>4. Working'
  BY <1>2, <1>3 DEF Working
<1> QED
  BY <1>4, WriterStep DEF GoesOn, WriterGood

(* A create in rebuild mode has the data file open from its first step on. *)
LEMMA RecreatingOn ==
    ASSUME Good, Types', NEW k, Recreating(k), GoesOn(CreateSteps("rebuild"), k)
    PROVE  Good'
<1>1. PICK j : j = k + 1
  OBVIOUS
<1>2. Rebuilding(CreateSteps("rebuild"), j)'
  BY <1>1 DEF GoesOn
<1>3. j \in 1 .. 8
  BY <1>2, RecreatePlan DEF Rebuilding, AtPlan
<1>4. IsCreate(job'[Writer].flags) /\ Holds(Writer, "data")'
  BY DEF Recreating, GoesOn
<1>5. Recreating(j)'
  BY <1>2, <1>4 DEF Recreating
<1>6. Working'
  BY <1>3, <1>5 DEF Working
<1> QED
  BY <1>6, WriterStep DEF GoesOn, WriterGood

(* The end of a create in rebuild mode: the state file is empty.           *)
LEMMA RecreatingEnd ==
    ASSUME Good, Types', NEW k, Recreating(k), ~Idle(Writer), k = 8,
           HashStep(Writer)
    PROVE  Good'
<1>1. PICK plan \in Plans : plan = CreateSteps("rebuild")
  BY DEF Plans
<1>2. /\ Types /\ WriterGood /\ caller[Writer] = "busy" /\ Session(Writer)
      /\ Rebuilding(plan, k) /\ Holds(Writer, "data")
      /\ plan \in Seq(Step) /\ k = Len(plan)
  BY <1>1, RecreatePlan DEF Good, WriterGood, Recreating
<1>3. /\ obj'[Writer].key = InData'
      /\ \A q \in Procs \ {Writer} :
            obj'[q] = obj[q] /\ job'[q] = job[q] /\ caller'[q] = caller[q]
      /\ Quiet
      /\ \A g \in File : /\ Holds(Writer, g)' = Holds(Writer, g)
                         /\ disk[g].there => disk'[g].there
      /\ Matches("index")' /\ Matches("log")'
      /\ disk'["state"].hash = NoHash
      /\ OpenedBy(5)'
      /\ StepDone(Writer)
  BY <1>2, RebuildingHash
<1>4. Idle(Writer)' /\ caller'[Writer] = "open"
  <2>1. AtPlan(job[Writer].steps, plan, k)
    BY <1>2 DEF Rebuilding
  <2> QED
    BY <1>2, <1>3, <2>1, StepTaken
<1>5. \A g \in File : Holds(Writer, g)' /\ disk'[g].there
  <2>1. \A g \in File : Holds(Writer, g)'
    BY <1>2, <1>3 DEF OpenedBy, Holds, File
  <2> QED
    BY <1>2, <1>3, <2>1 DEF Session
<1>6. Session(Writer)'
  BY <1>3, <1>4, <1>5 DEF Session
<1>7. WriterGood'
  BY <1>3, <1>4, <1>6 DEF WriterGood, Matches
<1>8. WriterOnly
  BY <1>3 DEF WriterOnly
<1> QED
  BY <1>3, <1>7, <1>8, WriterStep

(* What the replay of the data file does.                                  *)
LEMMA ReplayEffect ==
    ASSUME Types, ReplayStep(Writer)
    PROVE  /\ \A f \in File \ {"index", "log"} : disk'[f] = disk[f]
           /\ \A f \in {"index", "log"} :
                 disk'[f].hash = disk[f].hash /\ disk'[f].there = disk[f].there
           /\ \A q \in Procs \ {Writer} : obj'[q] = obj[q]
           /\ obj'[Writer].fd = obj[Writer].fd /\ obj'[Writer].mode = obj[Writer].mode
           /\ obj'[Writer].key = obj[Writer].key
           /\ obj'[Writer].rdwr = obj[Writer].rdwr
           /\ tip' = tip
           /\ disk["data"].n # 0 =>
                 /\ tip.record <= obj'[Writer].last_sequence
                 /\ \A f \in {"index", "log"} : tip.record <= disk'[f].n
<1>1. /\ disk \in Disks /\ Writer \in Procs /\ obj \in [Procs -> Object]
      /\ obj[Writer] \in Object /\ tip.record \in Nat
  BY WriterAssumption DEF Types, Tips
<1>2. tip' = tip
  BY DEF ReplayStep
<1>3. CASE disk["data"].n = 0
  <2>1. disk' = disk /\ obj' = obj
    BY <1>3 DEF ReplayStep
  <2> QED
    BY <1>2, <1>3, <2>1
<1>4. CASE disk["data"].n # 0
  <2>1. PICK i, l : /\ i = tip.record /\ l \in Nat /\ tip.record <= l
                    /\ disk' = [disk EXCEPT !["index"].n = i, !["log"].n = l]
                    /\ obj' = [obj EXCEPT ![Writer].last_sequence = l]
    <3>1. PICK status \in {0, 1} :
             /\ disk' = [disk EXCEPT !["index"].n = tip.record,
                                     !["log"].n = tip.record + status]
             /\ obj' = [obj EXCEPT ![Writer].last_sequence = tip.record + status]
      BY <1>4 DEF ReplayStep
    <3>2. PICK l : l = tip.record + status
      OBVIOUS
    <3>3. l \in Nat /\ tip.record <= l
      BY <1>1, <3>2
    <3> QED
      BY <3>1, <3>2, <3>3
  <2>2. /\ \A f \in File \ {"index", "log"} : disk'[f] = disk[f]
        /\ \A f \in {"index", "log"} :
              disk'[f].hash = disk[f].hash /\ disk'[f].there = disk[f].there
        /\ disk'["index"].n = i /\ disk'["log"].n = l
    BY <1>1, <2>1 DEF Disks, Content, File
  <2>3. obj' = [obj EXCEPT ![Writer] = [obj[Writer] EXCEPT !.last_sequence = l]]
    BY <1>1, <2>1
  <2>4. /\ \A q \in Procs \ {Writer} : obj'[q] = obj[q]
        /\ obj'[Writer].fd = obj[Writer].fd /\ obj'[Writer].mode = obj[Writer].mode
        /\ obj'[Writer].key = obj[Writer].key
        /\ obj'[Writer].rdwr = obj[Writer].rdwr
        /\ obj'[Writer].last_sequence = l
    BY <1>1, <2>3 DEF Object
  <2>5. \A f \in {"index", "log"} : tip.record <= disk'[f].n
    <3>1. tip.record <= i /\ tip.record <= l
      BY <1>1, <2>1
    <3>2. disk'["index"].n = i /\ disk'["log"].n = l
      BY <2>2
    <3> QED
      BY <3>1, <3>2
  <2> QED
    BY <1>2, <2>1, <2>2, <2>4, <2>5
<1> QED
  BY <1>3, <1>4

(* The records of the data file fill the log and the index,                *)
LEMMA RebuildingReplay ==
    ASSUME Good, NEW plan \in Plans, NEW k, Rebuilding(plan, k), ~Idle(Writer),
           ReplayStep(Writer)
    PROVE  GoesOn(plan, k)
<1>1. /\ Types /\ WriterGood /\ caller[Writer] = "busy" /\ Session(Writer)
      /\ disk \in Disks /\ DiskGood /\ Writer \in Procs
      /\ obj \in [Procs -> Object] /\ obj[Writer] \in Object
  BY WriterAssumption DEF Good, Types, WriterGood
<1>2. /\ plan \in Seq(Step) /\ Len(plan) \in {8, 10}
      /\ AtPlan(job[Writer].steps, plan, k) /\ k \in 1 .. Len(plan)
      /\ Head(job[Writer].steps) = plan[k]
  BY <1>1, PlansKnown, NextStep DEF Rebuilding
<1>3. k = 9 /\ k # Len(plan)
  <2>1. PICK s : s = plan[k]
    OBVIOUS
  <2>2. s.do = "replay"
    BY <1>2, <2>1 DEF ReplayStep, AtStep
  <2>3. k = 9
    BY <1>2, <2>1, <2>2, RebuildDoes
  <2>4. Len(plan) = 8 \/ Len(plan) = 10
    BY <1>2
  <2> QED
    BY <2>3, <2>4
<1>6. /\ \A q \in Procs \ {Writer} : obj'[q] = obj[q]
      /\ obj'[Writer].fd = obj[Writer].fd /\ obj'[Writer].mode = obj[Writer].mode
      /\ obj'[Writer].key = obj[Writer].key
  BY <1>1, ReplayEffect
<1>7. /\ StepDone(Writer) /\ Holds(Writer, "data")
      /\ OpenedBy(9) /\ Matches("index") /\ Matches("log")
      /\ disk["state"].hash = NoHash /\ job[Writer].key = InData
      /\ obj[Writer].key = InData /\ obj[Writer].mode = "rebuild"
  BY <1>3 DEF ReplayStep, Rebuilding
<1>8. /\ \A q \in Procs \ {Writer} : job'[q] = job[q] /\ caller'[q] = caller[q]
      /\ AtPlan(job'[Writer].steps, plan, k + 1)
      /\ ~Idle(Writer)' /\ caller'[Writer] = "busy"
      /\ job'[Writer].flags = job[Writer].flags
      /\ job'[Writer].key = job[Writer].key
  BY <1>1, <1>2, <1>3, <1>7, StepTaken
<1>9. /\ \A f \in File \ {"state"} :
            /\ disk'[f].hash = disk[f].hash /\ disk'[f].there = disk[f].there
            /\ disk'[f] = disk[f] \/ disk[f].there
      /\ disk'["state"] = disk["state"]
  <2>1. disk["index"].there /\ disk["log"].there
    BY <1>1, <1>7 DEF OpenedBy, Session, Holds, File
  <2>2. /\ \A f \in File \ {"index", "log"} : disk'[f] = disk[f]
        /\ \A f \in {"index", "log"} :
              disk'[f].hash = disk[f].hash /\ disk'[f].there = disk[f].there
    BY <1>1, ReplayEffect
  <2> QED
    BY <2>1, <2>2 DEF File
<1>10. /\ Quiet /\ InData' = InData
       /\ \A f \in {"index", "log"} : Matches(f)' = Matches(f)
       /\ \A f \in File : Holds(Writer, f)' = Holds(Writer, f)
  BY <1>1, <1>6, <1>9, CalmDisk DEF Holds
<1>11. Session(Writer)'
  BY <1>1, <1>8, <1>10, BusySession DEF Session, Quiet
<1>12. \A j : j = k + 1 => Rebuilding(plan, j)'
  <2>1. \A j : j = k + 1 => AtPlan(job'[Writer].steps, plan, j) /\ j = 10
    BY <1>3, <1>8
  <2>2. \A j : j = 10 => OpenedBy(j)'
    BY <1>6, <1>7 DEF OpenedBy
  <2>3. /\ Holds(Writer, "data")' /\ Matches("index")' /\ Matches("log")'
        /\ disk'["state"].hash = NoHash /\ job'[Writer].key = InData'
        /\ obj'[Writer].key = InData' /\ obj'[Writer].mode = "rebuild"
    BY <1>6, <1>7, <1>8, <1>9, <1>10 DEF File
  <2> QED
    BY <2>1, <2>2, <2>3 DEF Rebuilding
<1>13. WriterOnly
  BY <1>6, <1>8 DEF WriterOnly
<1> QED
  BY <1>7, <1>8, <1>10, <1>11, <1>12, <1>13 DEF GoesOn, File

(* or the rebuild ends there, in rebuild mode,                             *)
LEMMA RebuildingFails ==
    ASSUME Good, Types', NEW plan \in Plans, NEW k, Rebuilding(plan, k),
           ReplayFails(Writer)
    PROVE  Good'
<1>1. /\ Types /\ WriterGood /\ Session(Writer) /\ DiskGood /\ Writer \in Procs
      /\ obj[Writer].mode = "rebuild"
  BY WriterAssumption DEF Good, WriterGood, Rebuilding
<1>2. /\ disk' = disk /\ obj' = obj
      /\ Idle(Writer)' /\ caller'[Writer] = "failed"
      /\ WriterOnly
  BY <1>1 DEF ReplayFails, Types, Idle, NoJob, WriterOnly
<1>3. Session(Writer)'
  BY <1>1, <1>2 DEF Session, Holds
<1>4. WriterGood'
  BY <1>2, <1>3 DEF WriterGood
<1>5. Quiet
  BY <1>1, <1>2, CalmDisk
<1> QED
  BY <1>2, <1>4, <1>5, WriterStep

(* or it goes back to standard mode and saves the state.                   *)
LEMMA RebuildingFinish ==
    ASSUME Good, Types', NEW plan \in Plans, NEW k, Rebuilding(plan, k),
           ~Idle(Writer), FinishStep(Writer)
    PROVE  Good'
<1>1. /\ Types /\ WriterGood /\ caller[Writer] = "busy" /\ Session(Writer)
      /\ disk \in Disks /\ DiskGood /\ Writer \in Procs
      /\ obj \in [Procs -> Object] /\ obj[Writer] \in Object
  BY WriterAssumption DEF Good, Types, WriterGood
<1>2. /\ plan \in Seq(Step) /\ Len(plan) \in {8, 10}
      /\ AtPlan(job[Writer].steps, plan, k) /\ k \in 1 .. Len(plan)
      /\ Head(job[Writer].steps) = plan[k]
  BY <1>1, PlansKnown, NextStep DEF Rebuilding
<1>3. k = 10 /\ k = Len(plan)
  <2>1. PICK s : s = plan[k]
    OBVIOUS
  <2>2. s.do = "finish"
    BY <1>2, <2>1 DEF FinishStep, AtStep
  <2>3. k = 10
    BY <1>2, <2>1, <2>2, RebuildDoes
  <2>4. PICK n \in {8, 10} : n = Len(plan)
    BY <1>2
  <2> QED
    BY <1>2, <2>3, <2>4
<1>4. /\ Holds(Writer, "data") /\ OpenedBy(10)
      /\ Matches("index") /\ Matches("log") /\ disk["state"].hash = NoHash
      /\ obj[Writer].key = InData
  BY <1>3 DEF Rebuilding
<1>5. PICK o : o = [obj[Writer] EXCEPT !.mode = "standard"]
  OBVIOUS
<1>6. o \in Object /\ o.fd = obj[Writer].fd /\ o.key = InData
  BY <1>1, <1>4, <1>5 DEF Object
<1>7. /\ obj' = [obj EXCEPT ![Writer] = o] /\ disk' = Saved(o, disk)
      /\ StepDone(Writer)
  BY <1>5 DEF FinishStep
<1>8. /\ obj'[Writer] = o /\ Idle(Writer)' /\ caller'[Writer] = "open"
      /\ WriterOnly
  BY <1>1, <1>2, <1>3, <1>7, StepTaken DEF WriterOnly
<1>9. /\ Quiet /\ InData' = InData
      /\ \A g \in {"index", "log"} : Matches(g)' = Matches(g)
      /\ \A g \in File : disk[g].there => disk'[g].there
  BY <1>6, <1>7, SavedQuiet
<1>10. disk'["state"].hash \in {NoHash, InData}
  <2>1. PICK r : r = [there |-> TRUE, hash |-> o.key, n |-> o.last_sequence]
    OBVIOUS
  <2>2. r.hash = InData
    BY <1>6, <2>1
  <2>3. Saved(o, disk) = disk \/ Saved(o, disk)["state"] = r
    BY <1>1, <1>6, <2>1, SavedState
  <2> QED
    BY <1>4, <1>7, <2>2, <2>3
<1>11. Matches("state")' /\ Matches("index")' /\ Matches("log")'
  BY <1>4, <1>9, <1>10 DEF Matches
<1>12. \A g \in File : Holds(Writer, g)' /\ disk'[g].there
  <2>1. \A g \in File : Holds(Writer, g)
    BY <1>4 DEF OpenedBy, Holds, File
  <2> QED
    BY <1>1, <1>6, <1>8, <1>9, <2>1 DEF Session, Holds
<1>13. Session(Writer)'
  BY <1>8, <1>11, <1>12 DEF Session
<1>14. WriterGood'
  BY <1>6, <1>8, <1>9, <1>11, <1>13 DEF WriterGood
<1> QED
  BY <1>8, <1>9, <1>14, WriterStep

(* A step of a create or rebuild keeps the invariant.                      *)
LEMMA WorkGood ==
    ASSUME Good, Types', Work(Writer)
    PROVE  Good'
<1>1. ~Idle(Writer) /\ Types
  BY Zenon DEF Work, OpenStep, KeyStep, HashStep, ReplayStep, ReplayFails, FinishStep,
         AtStep, Good
<1>2. Working
  BY <1>1 DEF Good, WriterGood
<1>3. ASSUME NEW k \in 1 .. 9, Creating(k)
      PROVE  Good'
  <2>1. Head(job[Writer].steps).do \notin {"replay", "finish"}
    <3>1. PICK s : s = CreateSteps("standard")[k]
      OBVIOUS
    <3>2. PICK plan \in Seq(Step) : plan = CreateSteps("standard")
      BY CreatePlan
    <3>3. Head(job[Writer].steps) = plan[k]
      BY <1>1, <1>3, <3>2, NextStep DEF Creating
    <3> QED
      BY <3>1, <3>2, <3>3, CreateDoes
  <2>2. OpenStep(Writer) \/ KeyStep(Writer) \/ HashStep(Writer)
    BY <2>1 DEF Work, ReplayStep, ReplayFails, FinishStep, AtStep
  <2> QED
    BY <1>1, <1>3, <2>2, CreatingOpen, CreatingKey, CreatingHash
<1>4. ASSUME NEW k \in 1 .. 8, Recreating(k)
      PROVE  Good'
  <2>1. PICK plan \in Plans : plan = CreateSteps("rebuild")
    BY DEF Plans
  <2>2. Rebuilding(plan, k) /\ Len(plan) = 8
    BY <1>4, <2>1, RecreatePlan DEF Recreating
  <2>3. CASE HashStep(Writer) /\ k = 8
    BY <1>1, <1>4, <2>3, RecreatingEnd
  <2>4. ASSUME GoesOn(plan, k)
        PROVE  Good'
    BY <1>4, <2>1, <2>4, RecreatingOn
  <2>5. CASE HashStep(Writer) /\ k # 8
    BY <1>1, <2>2, <2>4, <2>5, RebuildingHashOn
  <2>6. CASE OpenStep(Writer) \/ KeyStep(Writer) \/ ReplayStep(Writer)
    BY <1>1, <2>2, <2>4, <2>6, RebuildingOpen, RebuildingKey, RebuildingReplay
  <2>7. CASE ReplayFails(Writer) \/ FinishStep(Writer)
    BY <1>1, <2>2, <2>7, RebuildingFails, RebuildingFinish
  <2> QED
    BY <2>3, <2>5, <2>6, <2>7 DEF Work
<1>5. ASSUME NEW k \in 1 .. 10, Rebuilding(RebuildSteps, k)
      PROVE  Good'
  <2>1. PICK plan \in Plans : plan = RebuildSteps
    BY DEF Plans
  <2>2. Rebuilding(plan, k) /\ Len(plan) = 10
    BY <1>5, <2>1, RebuildPlan
  <2>4. ASSUME GoesOn(plan, k)
        PROVE  Good'
    BY <1>5, <2>1, <2>4, RebuildingOn
  <2>5. CASE HashStep(Writer)
    <3>1. k # Len(plan)
      <4>1. k \in {6, 7, 8}
        BY <1>1, <2>2, <2>5, RebuildingHash
      <4> QED
        BY <2>2, <4>1
    <3> QED
      BY <1>1, <2>2, <2>4, <2>5, <3>1, RebuildingHashOn
  <2>6. CASE OpenStep(Writer) \/ KeyStep(Writer) \/ ReplayStep(Writer)
    BY <1>1, <2>2, <2>4, <2>6, RebuildingOpen, RebuildingKey, RebuildingReplay
  <2>7. CASE ReplayFails(Writer) \/ FinishStep(Writer)
    BY <1>1, <2>2, <2>7, RebuildingFails, RebuildingFinish
  <2> QED
    BY <2>5, <2>6, <2>7 DEF Work
<1> QED
  BY <1>2, <1>3, <1>4, <1>5 DEF Working

(***************************************************************************)
(* Those who remove, lose and exchange files, and all steps together.      *)
(***************************************************************************)

(* They wait until nobody has the storage open.                            *)
LEMMA OthersGood ==
    ASSUME Good, Types', NobodyHolds, ByOthers, DiskGood'
    PROVE  Good'
<1>1. /\ obj' = obj /\ job' = job /\ caller' = caller
      /\ \A p \in Procs : Idle(p) /\ \A f \in File : ~Holds(p, f)
      /\ Writer \in Procs
  BY WriterAssumption DEF ByOthers, NobodyHolds
<1>2. /\ \A p \in Procs \ {Writer} : Reader(p)
      /\ WriterGood
  BY DEF Good
<1>3. \A p \in Procs : Session(p)
  BY <1>2 DEF Reader, WriterGood
<1>4. \A p \in Procs : caller[p] # "open"
  BY <1>1, <1>3 DEF Session, File
<1>5. \A p \in Procs : Idle(p)' /\ \A f \in File : ~Holds(p, f)'
  BY <1>1 DEF Idle, Holds
<1>6. \A p \in Procs : Session(p)'
  BY <1>1, <1>3, <1>4, <1>5 DEF Session
<1>7. \A p \in Procs \ {Writer} : Reader(p)'
  BY <1>1, <1>2, <1>5, <1>6 DEF Reader
<1>8. WriterGood'
  BY <1>1, <1>2, <1>4, <1>5, <1>6 DEF WriterGood
<1> QED
  BY <1>7, <1>8 DEF Good

(* Each action keeps the invariant.                                        *)
LEMMA NextGood == Good /\ [Next]_vars => Good'
<1> SUFFICES ASSUME Good, [Next]_vars
             PROVE  Good'
  OBVIOUS
<1>1. Types /\ Types' /\ DiskGood /\ disk \in Disks
  BY NextTypes DEF Good, Types
<1>2. ASSUME NEW p \in Procs \ {Writer},
             Call(p) \/ Work(p) \/ Crash(p) \/ DiesWriting(p)
      PROVE  Good'
  <2>1. ~Work(p)
    BY Zenon DEF Good, Reader, Work, OpenStep, KeyStep, HashStep, ReplayStep,
           ReplayFails, FinishStep, AtStep
  <2> QED
    BY <1>1, <1>2, <2>1, ReaderGood
<1>3. ASSUME Call(Writer)
      PROVE  Good'
  BY <1>1, <1>3, WriterRefused, WriterExisting, WriterMismatch, WriterRebuild,
     WriterCreate, WriterRecords, WriterRead, WriterEnds DEF Call, Records
<1>4. CASE Work(Writer)
  BY <1>1, <1>4, WorkGood
<1>5. CASE Crash(Writer) \/ DiesWriting(Writer)
  BY <1>1, <1>5, WriterEnds, WriterRecords
<1>6. ASSUME RemoveFiles \/ (\E f \in File : Lose(f))
      PROVE  Good'
  <2>1. NobodyHolds /\ ByOthers
    BY <1>6 DEF RemoveFiles, Lose, ByOthers
  <2>2. \A f \in File : disk'[f] \in {disk[f], Absent}
    BY <1>1, <1>6 DEF RemoveFiles, Lose, Disks
  <2>3. Absent.hash = NoHash /\ NoHash # ZeroKey /\ "data" \in File
    BY KeysAssumption DEF Absent, File
  <2>4. disk'["data"].hash # ZeroKey
    BY <1>1, <2>2, <2>3 DEF DiskGood
  <2>5. \A f \in File : disk'[f].there \/ disk'[f] = Absent
    BY <1>1, <2>2 DEF DiskGood
  <2> QED
    BY <1>1, <2>1, <2>4, <2>5, OthersGood DEF DiskGood
<1>7. ASSUME NEW f \in File, NEW key \in Keys, Foreign(f, key)
      PROVE  Good'
  <2>1. NobodyHolds /\ ByOthers
    BY <1>7 DEF Foreign, ByOthers
  <2>2. \A g \in File : disk'[g] = disk[g] \/ (disk'[g].there /\ disk'[g].hash = key)
    BY <1>1, <1>7 DEF Foreign, Disks
  <2>3. DiskGood'
    BY <1>1, <2>2, KeysAssumption DEF DiskGood, File
  <2> QED
    BY <1>1, <2>1, <2>3, OthersGood
<1>8. CASE UNCHANGED vars
  <2>1. disk' = disk /\ obj' = obj /\ job' = job /\ caller' = caller
    BY <1>8 DEF vars
  <2>2. Quiet /\ WriterOnly
    BY <1>1, <2>1, CalmDisk DEF WriterOnly
  <2>3. WriterGood'
    BY <2>1, WriterStays DEF Good
  <2> QED
    BY <1>1, <2>2, <2>3, WriterStep
<1> QED
  BY <1>2, <1>3, <1>4, <1>5, <1>6, <1>7, <1>8 DEF Next

(* Whoever was told that his open succeeded has an index and a log of the  *)
(* storage of the data file, or without hash record, as long as he has it  *)
(* open: checkHashKey let him in, or his own create or rebuild wrote them. *)
THEOREM ForeignFilesRefused == Spec => []ForeignRefused
<1>1. Good => ForeignRefused
  <2> SUFFICES ASSUME Good, NEW p \in Procs, caller[p] = "open"
               PROVE  Matches("index") /\ Matches("log")
    BY DEF ForeignRefused, Matches, InData
  <2>1. Session(p)
    BY DEF Good, Reader, WriterGood
  <2> QED
    BY <2>1 DEF Session
<1> QED
  BY <1>1, InitGood, NextGood, PTL DEF Spec

(* An object that may save has its key in a state file that has one.       *)
LEMMA SavesItsKey ==
    ASSUME Good, Idle(Writer), obj[Writer].mode = "standard",
           obj[Writer].fd["state"] = "rw"
    PROVE  /\ caller[Writer] = "open"
           /\ disk["state"].hash # NoHash => obj[Writer].key = disk["state"].hash
<1>1. /\ WriterGood /\ Session(Writer) /\ caller[Writer] \in Callers
      /\ Holds(Writer, "state") /\ "state" \in File
  BY WriterAssumption DEF Good, WriterGood, Types, Holds, File
<1>2. caller[Writer] = "open"
  BY <1>1 DEF WriterGood, Session, Callers
<1> QED
  BY <1>1, <1>2 DEF WriterGood, Matches

(* A call, or a death, leaves hash records as they are, and records only   *)
(* come to the data file.                                                  *)
LEMMA CallDisk ==
    ASSUME Good, NEW p \in Procs, Call(p) \/ Crash(p) \/ DiesWriting(p)
    PROVE  /\ \A f \in File \ {"state"} : disk'[f].hash = disk[f].hash
           /\ disk["state"].hash # NoHash =>
                 disk'["state"].hash = disk["state"].hash
           /\ disk["data"].n <= disk'["data"].n
<1> DEFINE Kept ==
      /\ \A f \in File \ {"state"} : disk'[f].hash = disk[f].hash
      /\ disk["state"].hash # NoHash => disk'["state"].hash = disk["state"].hash
      /\ disk["data"].n <= disk'["data"].n
<1>1. /\ Types /\ obj[Writer] \in Object /\ Writer \in Procs /\ WriterGood
      /\ disk \in Disks /\ disk["data"].n \in Nat
  BY WriterAssumption DEF Good, Types, Disks, Content, File
<1>2. CASE disk' = disk
  BY <1>1, <1>2
<1>3. CASE p # Writer
  BY <1>2, <1>3, ReaderStep
<1>4. ASSUME NEW o \in Object, disk' = Saved(o, disk),
             o.mode = "standard" /\ o.rdwr /\ o.fd["state"] = "rw" =>
                (disk["state"].hash # NoHash => o.key = disk["state"].hash)
      PROVE  Kept
  <2>1. \A f \in File \ {"state"} : disk'[f] = disk[f]
    BY <1>1, <1>4, SavedState
  <2>2. PICK r : r = [there |-> TRUE, hash |-> o.key, n |-> o.last_sequence]
    OBVIOUS
  <2>3. disk["state"].hash # NoHash => disk'["state"].hash = disk["state"].hash
    <3>1. r.hash = o.key
      BY <2>2
    <3>2. \/ disk' = disk
          \/ /\ o.mode = "standard" /\ o.rdwr /\ o.fd["state"] = "rw"
             /\ disk'["state"] = r
      BY <1>1, <1>4, <2>2, SavedState
    <3> QED
      BY <1>4, <3>1, <3>2
  <2> QED
    BY <1>1, <2>1, <2>3 DEF File
<1>5. ASSUME NEW fl \in Flags, OpenMismatch(Writer, fl)
      PROVE  Kept
  <2>1. PICK o1 : o1 = OpenFiles(obj[Writer], fl)
    OBVIOUS
  <2>2. PICK o : o = Loaded(o1, disk)
    OBVIOUS
  <2>3. disk' = Saved(o, disk)
    BY <1>5, <2>1, <2>2 DEF OpenMismatch
  <2>4. o1 \in Object /\ o1.fd["state"] # "closed"
    BY <1>1, <2>1, Objects DEF FdMode, File
  <2>5. o \in Object /\ (disk["state"].hash # NoHash => o.key = disk["state"].hash)
    BY <1>1, <2>2, <2>4, LoadedObject
  <2> QED
    BY <1>4, <2>3, <2>5
<1>6. ASSUME Close(Writer) \/ Delete(Writer)
      PROVE  Kept
  <2>1. disk' = Saved(obj[Writer], disk) /\ Idle(Writer)
    BY <1>6 DEF Close, Delete
  <2> QED
    BY <1>1, <1>4, <2>1, SavesItsKey
<1>7. ASSUME Records(Writer) \/ DiesWriting(Writer)
      PROVE  Kept
  <2>1. PICK s : Recorded(Writer, s)
    BY <1>1, <1>7, Recording
  <2>2. /\ Moves([o |-> obj[Writer], d |-> disk, t |-> tip], s)
        /\ disk' = s.d /\ Idle(Writer)
    BY <1>1, <2>1, RecordedTypes DEF Recorded
  <2>3. /\ \A f \in File \ {"state"} : disk'[f].hash = disk[f].hash
        /\ disk["data"].n <= disk'["data"].n
    BY <2>2 DEF Moves, File
  <2>4. \/ disk'["state"] = disk["state"]
        \/ /\ obj[Writer].mode = "standard" /\ obj[Writer].fd["state"] = "rw"
           /\ disk'["state"].hash = obj[Writer].key
    BY <2>2 DEF Moves
  <2>5. disk["state"].hash # NoHash => disk'["state"].hash = disk["state"].hash
    BY <2>2, <2>4, SavesItsKey
  <2> QED
    BY <2>3, <2>5
<1>8. ASSUME p = Writer
      PROVE  Kept
  <2>1. \/ disk' = disk
        \/ \E fl \in Flags : OpenMismatch(Writer, fl)
        \/ Close(Writer) \/ Delete(Writer)
        \/ Records(Writer) \/ DiesWriting(Writer)
    BY <1>8 DEF Records, Call, Crash, OpenRefused, OpenExisting, Rebuild, OpenCreate, Read
  <2> QED
    BY <1>2, <1>5, <1>6, <1>7, <2>1
<1> QED
  BY <1>3, <1>8

(* So does a create or rebuild, of a data file; the hash records change in *)
(* a rebuild, and in a create that has yet to write that of the state.     *)
LEMMA WorkDisk ==
    ASSUME Good, Work(Writer)
    PROVE  /\ disk'["data"].n = disk["data"].n
           /\ obj[Writer].mode = "rebuild" \/ disk["state"].hash = NoHash
<1>1. /\ ~Idle(Writer) /\ Types /\ obj[Writer] \in Object /\ Writer \in Procs
      /\ disk \in Disks /\ job[Writer].steps \in Seq(Step)
      /\ job[Writer].steps # << >>
  BY WriterAssumption, Zenon DEF Work, OpenStep, KeyStep, HashStep, ReplayStep,
     ReplayFails, FinishStep, AtStep, Good, Types, Idle, Jobs
<1>2. Working
  BY <1>1 DEF Good, WriterGood
<1>3. /\ obj[Writer].mode = "rebuild" \/ disk["state"].hash = NoHash
      /\ obj[Writer].mode = "rebuild" \/ disk["data"].n = 0
  BY <1>2 DEF Working, Creating, Recreating, Rebuilding, File
<1>4. PICK f \in File : Head(job[Writer].steps).file = f
  <2>1. Head(job[Writer].steps) \in Step
    BY <1>1
  <2> QED
    BY <2>1 DEF Step
<1>5. ASSUME NEW o \in Object, disk' = Saved(o, disk)
      PROVE  disk'["data"].n = disk["data"].n
  BY <1>1, <1>5, SavedState, ZenonT(60) DEF File
<1>6. ASSUME OpenStep(Writer)
      PROVE  disk'["data"].n = disk["data"].n
  <2>1. /\ f # "data" => disk'["data"] = disk["data"]
        /\ f = "data" /\ obj[Writer].mode = "rebuild" =>
              disk'["data"].n = disk["data"].n
        /\ f = "data" /\ obj[Writer].mode # "rebuild" => disk'["data"] = Empty
    BY <1>1, <1>4, <1>6, OpenEffect DEF File
  <2>2. Empty.n = 0
    BY DEF Empty
  <2> QED
    BY <1>3, <2>1, <2>2
<1>7. ASSUME HashStep(Writer)
      PROVE  disk'["data"].n = disk["data"].n
  <2>1. /\ f # "state" => disk'["data"].n = disk["data"].n
        /\ f = "state" => obj'[Writer] \in Object /\ disk' = Saved(obj'[Writer], disk)
    BY <1>1, <1>4, <1>7, HashEffect DEF File
  <2>2. CASE f = "state"
    <3>1. PICK o \in Object : o = obj'[Writer] /\ disk' = Saved(o, disk)
      BY <2>1, <2>2
    <3> QED
      BY <1>5, <3>1
  <2> QED
    BY <2>1, <2>2
<1>8. ASSUME KeyStep(Writer) \/ ReplayFails(Writer)
      PROVE  disk'["data"].n = disk["data"].n
  BY <1>8 DEF KeyStep, ReplayFails
<1>9. ASSUME ReplayStep(Writer)
      PROVE  disk'["data"].n = disk["data"].n
  BY <1>1, <1>9, ReplayEffect DEF File
<1>10. ASSUME FinishStep(Writer)
       PROVE  disk'["data"].n = disk["data"].n
  <2>1. PICK o : o = [obj[Writer] EXCEPT !.mode = "standard"]
    OBVIOUS
  <2>2. o \in Object /\ disk' = Saved(o, disk)
    BY <1>1, <1>10, <2>1 DEF FinishStep, Object
  <2> QED
    BY <1>5, <2>2
<1> QED
  BY <1>3, <1>6, <1>7, <1>8, <1>9, <1>10 DEF Work

(* No call takes a record from the data file, nor does a rebuild that dies *)
(* or fails.                                                               *)
THEOREM DataStays == Spec => DataKept
<1>1. Good /\ [Next]_vars => (disk'["data"].n < disk["data"].n => ByOthers)
  <2> SUFFICES ASSUME Good, Next, ~ByOthers
               PROVE  ~(disk'["data"].n < disk["data"].n)
    BY DEF vars, ByOthers
  <2>1. disk["data"].n \in Nat
    BY DEF Good, Types, Disks, Content, File
  <2>2. PICK p \in Procs : Call(p) \/ Work(p) \/ Crash(p) \/ DiesWriting(p)
    BY DEF Next, RemoveFiles, Lose, Foreign, ByOthers
  <2>3. disk["data"].n <= disk'["data"].n /\ disk'["data"].n \in Nat
    <3>3. disk'["data"].n \in Nat
      BY NextTypes DEF Good, Types, Disks, Content, File
    <3>1. CASE Call(p) \/ Crash(p) \/ DiesWriting(p)
      BY <3>1, <3>3, CallDisk
    <3>2. CASE Work(p)
      <4>1. p = Writer
        BY <3>2, Zenon DEF Good, Reader, Work, OpenStep, KeyStep, HashStep, ReplayStep,
           ReplayFails, FinishStep, AtStep
      <4> QED
        BY <2>1, <3>2, <3>3, <4>1, WorkDisk
    <3> QED
      BY <2>2, <3>1, <3>2
  <2> QED
    BY <2>1, <2>3
<1> QED
  BY <1>1, InitGood, NextGood, PTL DEF Spec, DataKept

(* Files that are linked by their hash records stay so, through every call *)
(* but a rebuild: who saves a state has in it the key of the state file.   *)
THEOREM LinkStays == Spec => StaysLinked
<1>1. Good /\ [Next]_vars =>
         (Linked /\ ~Linked' =>
             ByOthers \/ \E p \in Procs : ~Idle(p) /\ obj[p].mode = "rebuild")
  <2> SUFFICES ASSUME Good, [Next]_vars, Linked, ~Linked', ~ByOthers,
                      \A p \in Procs : Idle(p) \/ obj[p].mode # "rebuild"
               PROVE  FALSE
    OBVIOUS
  <2>1. PICK key \in Keys : \A f \in File : disk[f].hash = key
    BY DEF Linked
  <2>2. key # NoHash
    BY KeysAssumption
  <2>3. ASSUME \A f \in File : disk'[f].hash = disk[f].hash
        PROVE  FALSE
    BY <2>1, <2>3 DEF Linked
  <2>4. PICK p \in Procs : Call(p) \/ Work(p) \/ Crash(p) \/ DiesWriting(p)
    BY <2>3 DEF Next, RemoveFiles, Lose, Foreign, ByOthers, vars
  <2>5. CASE Call(p) \/ Crash(p) \/ DiesWriting(p)
    <3>1. "state" \in File
      BY DEF File
    <3> QED
      BY <2>1, <2>2, <2>3, <2>5, <3>1, CallDisk
  <2>6. CASE Work(p)
    <3>1. p = Writer /\ ~Idle(p) /\ "state" \in File
      BY <2>6, Zenon DEF Good, Reader, Work, OpenStep, KeyStep, HashStep, ReplayStep,
         ReplayFails, FinishStep, AtStep, File
    <3> QED
      BY <2>1, <2>2, <2>6, <3>1, WorkDisk
  <2> QED
    BY <2>4, <2>5, <2>6
<1> QED
  BY <1>1, InitGood, NextGood, PTL DEF Spec, StaysLinked

(***************************************************************************)
(* Counters and entries, when each open is that of a new object.           *)
(***************************************************************************)

(* Nobody opens with CREATE but without WR.                                *)
Strict == "create_only" \notin Flags

(* The state file lets in who opens this data file.                        *)
Vouched ==
    disk["data"].hash # NoHash /\ disk["state"].hash = disk["data"].hash

(* Then index, log and state know every WRITE that returned.               *)
Counts ==
    Vouched =>
        /\ \A f \in {"index", "log"} :
              disk[f].hash = disk["data"].hash => tip.write <= disk[f].n
        /\ tip.write <= disk["state"].n

(* Such a WRITE is in the data file, whose last record is not before it.   *)
TipSound ==
    /\ disk["data"].n = 0 => tip.write = 0
    /\ disk["data"].hash # NoHash => tip.write <= tip.record

(* At the k-th step of a rebuild by a new object: once it has read the     *)
(* records, the object, the index and the log have caught up.              *)
Refilling(k) ==
    /\ Rebuilding(RebuildSteps, k)
    /\ ~obj[Writer].rdwr
    /\ k = 10 => /\ tip.write <= obj[Writer].last_sequence
                 /\ \A f \in {"index", "log"} : tip.write <= disk[f].n

BusySound ==
    ~Idle(Writer) /\ obj[Writer].mode # "standard" =>
        \E k \in 1 .. 10 : Refilling(k)

(* Who can make entries in the log is not behind, and either saves his     *)
(* state or has a state file that lets nobody in.                          *)
OpenSound ==
    caller[Writer] = "open" =>
        /\ obj[Writer].mode = "standard"
        /\ obj[Writer].fd["data"] = "rw" \/ obj[Writer].rdwr =>
              \A f \in File : obj[Writer].fd[f] = "rw"
        /\ obj[Writer].fd["index"] = obj[Writer].fd["log"]
        /\ obj[Writer].rdwr /\ disk["data"].hash # NoHash => Vouched
        /\ obj[Writer].fd["log"] = "rw" /\ disk["data"].hash # NoHash =>
              /\ tip.write <= obj[Writer].last_sequence
              /\ obj[Writer].rdwr \/ disk["state"].hash = NoHash

Sound == Counts /\ TipSound /\ BusySound /\ OpenSound

(* Without a data file nothing can be counted wrong.                       *)
LEMMA InitSound == Init => Sound
<1> SUFFICES ASSUME Init PROVE Sound
  OBVIOUS
<1>1. /\ disk["data"].hash = NoHash /\ tip.write = 0
      /\ Idle(Writer) /\ caller[Writer] = "new"
  BY WriterAssumption DEF Init, Absent, Idle, NoJob, NoTip, File
<1> QED
  BY <1>1 DEF Sound, Counts, TipSound, Vouched, BusySound, OpenSound

(* Steps of readers.                                                       *)
LEMMA SoundStays ==
    ASSUME Sound, disk' = disk, tip' = tip, obj'[Writer] = obj[Writer],
           job'[Writer] = job[Writer], caller'[Writer] = caller[Writer]
    PROVE  Sound'
<1>1. /\ InData' = InData /\ Idle(Writer)' = Idle(Writer)
      /\ \A f \in File : Holds(Writer, f)' = Holds(Writer, f)
      /\ \A f \in File : Matches(f)' = Matches(f)
  BY DEF InData, ReadHash, Idle, Holds, Matches
<1>2. \A k : Refilling(k) => Refilling(k)'
  BY <1>1 DEF Refilling, Rebuilding, OpenedBy, Matches, File
<1>3. BusySound'
  BY <1>1, <1>2 DEF Sound, BusySound
<1>4. Counts' /\ TipSound' /\ OpenSound'
  BY DEF Sound, Counts, TipSound, OpenSound, Vouched
<1> QED
  BY <1>3, <1>4 DEF Sound

(* Files that count are as they were.                                      *)
LEMMA SameCounts ==
    ASSUME Sound, disk' = disk, tip' = tip
    PROVE  Counts' /\ TipSound'
BY DEF Sound, Counts, TipSound, Vouched

(* Who loses or exchanges a file leaves none that vouches, or the files    *)
(* that count as they were.                                                *)
LEMMA SoundOthers ==
    ASSUME Good, Sound,
           \/ RemoveFiles \/ \E f \in File : Lose(f)
           \/ \E f \in File, key \in Keys : Foreign(f, key)
    PROVE  Sound'
<1>1. /\ NobodyHolds /\ obj' = obj /\ job' = job /\ caller' = caller
      /\ disk \in Disks /\ Writer \in Procs
  BY WriterAssumption DEF RemoveFiles, Lose, Foreign, Good, Types
<1>2. Idle(Writer)' /\ caller'[Writer] # "open"
  BY <1>1 DEF NobodyHolds, Idle, Good, WriterGood, Session, File
<1>3. BusySound' /\ OpenSound'
  BY <1>2 DEF BusySound, OpenSound
<1>4. /\ Absent.hash = NoHash /\ Absent.n = 0
      /\ NoTip.write = 0 /\ NoTip.record = 0
  BY DEF Absent, NoTip
<1>5. ASSUME NEW h, NEW f \in File,
             h = NoHash \/ \A g \in File : disk[g].hash # h,
             disk'[f].hash = h, \A g \in File \ {f} : disk'[g] = disk[g],
             f # "data" => tip' = tip
      PROVE  Counts'
  <2>1. CASE f \in {"data", "state"}
    BY <1>5, <2>1 DEF Counts, Vouched, File
  <2>2. CASE f \in {"index", "log"}
    BY <1>5, <2>2 DEF Sound, Counts, Vouched, File
  <2> QED
    BY <2>1, <2>2 DEF File
<1>6. CASE RemoveFiles
  <2>1. disk'["data"].hash = NoHash /\ tip' = NoTip
    BY <1>4, <1>6 DEF RemoveFiles, File
  <2> QED
    BY <1>3, <1>4, <2>1 DEF Sound, Counts, TipSound, Vouched
<1>7. ASSUME NEW f \in File, Lose(f)
      PROVE  Counts' /\ TipSound'
  <2>1. /\ disk'[f].hash = NoHash /\ \A g \in File \ {f} : disk'[g] = disk[g]
        /\ tip' = IF f = "data" THEN NoTip ELSE tip
    BY <1>1, <1>4, <1>7 DEF Lose, Disks
  <2>2. Counts'
    BY <1>5, <2>1
  <2>3. TipSound'
    BY <1>4, <2>1 DEF Sound, TipSound, File
  <2> QED
    BY <2>2, <2>3
<1>8. ASSUME NEW f \in File, NEW key \in Keys, Foreign(f, key)
      PROVE  Counts' /\ TipSound'
  <2>1. /\ disk'[f].hash = key /\ disk'[f].n = MaxRecords
        /\ \A g \in File \ {f} : disk'[g] = disk[g]
        /\ \A g \in File : disk[g].hash # key
        /\ tip' = IF f = "data"
                  THEN [record |-> MaxRecords, write |-> MaxRecords] ELSE tip
    BY <1>1, <1>8 DEF Foreign, Disks
  <2>2. Counts'
    BY <1>5, <2>1
  <2>3. TipSound'
    BY <2>1, MaxRecordsAssumption DEF Sound, TipSound, File
  <2> QED
    BY <2>2, <2>3
<1> QED
  BY <1>3, <1>6, <1>7, <1>8 DEF Sound

(* What an idle writer saves is not behind.                                *)
LEMMA SavedCounts ==
    ASSUME Good, Sound, Idle(Writer), disk' = Saved(obj[Writer], disk), tip' = tip
    PROVE  Counts' /\ TipSound'
<1>1. /\ obj[Writer] \in Object /\ disk \in Disks /\ Writer \in Procs
  BY WriterAssumption DEF Good, Types
<1>2. CASE disk' = disk
  BY <1>2, SameCounts
<1>3. CASE /\ obj[Writer].mode = "standard" /\ obj[Writer].rdwr
           /\ obj[Writer].fd["state"] = "rw"
  <2>1. caller[Writer] = "open"
    BY <1>3, SavesItsKey
  <2>2. /\ obj[Writer].fd["log"] = "rw"
        /\ disk["data"].hash # NoHash => Vouched
        /\ disk["data"].hash # NoHash => tip.write <= obj[Writer].last_sequence
    BY <1>3, <2>1 DEF Sound, OpenSound, File
  <2>3. PICK r : r = [there |-> TRUE, hash |-> obj[Writer].key,
                      n |-> obj[Writer].last_sequence]
    OBVIOUS
  <2>4. r.n = obj[Writer].last_sequence
    BY <2>3
  <2>5. disk'["state"] = r /\ \A f \in {"data", "index", "log"} : disk'[f] = disk[f]
    BY <1>1, <1>3, <2>3, SavedState DEF File
  <2> QED
    BY <2>2, <2>4, <2>5 DEF Sound, Counts, TipSound, Vouched
<1> QED
  BY <1>1, <1>2, <1>3, SavedState

(* A close saves that, a death nothing.                                    *)
LEMMA SoundEnds ==
    ASSUME Good, Sound, Close(Writer) \/ Delete(Writer) \/ Crash(Writer)
    PROVE  Sound'
<1>1. /\ Types /\ Writer \in Procs
  BY WriterAssumption DEF Good
<1>2. Idle(Writer)' /\ caller'[Writer] # "open" /\ tip' = tip
  BY <1>1 DEF Close, Delete, Crash, Types, Idle, NoJob
<1>3. CASE Crash(Writer)
  <2>1. disk' = disk
    BY <1>3 DEF Crash
  <2>2. Counts' /\ TipSound'
    BY <1>2, <2>1, SameCounts
  <2> QED
    BY <1>2, <2>2 DEF Sound, BusySound, OpenSound
<1>4. CASE Close(Writer) \/ Delete(Writer)
  <2>1. Idle(Writer) /\ disk' = Saved(obj[Writer], disk)
    BY <1>4 DEF Close, Delete
  <2>2. Counts' /\ TipSound'
    BY <1>2, <2>1, SavedCounts
  <2> QED
    BY <1>2, <2>2 DEF Sound, BusySound, OpenSound
<1> QED
  BY <1>3, <1>4

(* Opens that fail, and the begin of a create or rebuild.                  *)
LEMMA SoundRefused ==
    ASSUME Good, Sound, NEW fl \in Flags, OpenRefused(Writer, fl)
    PROVE  Sound'
<1>1. Types /\ Writer \in Procs
  BY WriterAssumption DEF Good
<1>2. disk' = disk /\ tip' = tip /\ Idle(Writer)' /\ caller'[Writer] = "failed"
  BY <1>1 DEF OpenRefused, MayOpen, Idle, Types
<1>3. Counts' /\ TipSound'
  BY <1>2, SameCounts
<1> QED
  BY <1>2, <1>3 DEF Sound, BusySound, OpenSound

(* A mismatch saves what it loaded, or a key no data file has.             *)
LEMMA SoundMismatch ==
    ASSUME NoReuse, Good, Sound, NEW fl \in Flags, OpenMismatch(Writer, fl)
    PROVE  Sound'
<1>1. /\ Types /\ Writer \in Procs /\ disk \in Disks /\ obj[Writer] = NewObject
      /\ disk["data"].hash # ZeroKey
  BY WriterAssumption
     DEF Good, Types, OpenMismatch, MayOpen, NoReuse, WriterGood, Session, DiskGood
<1>2. PICK o1 : o1 = OpenFiles(obj[Writer], fl)
  OBVIOUS
<1>3. PICK o : o = Loaded(o1, disk)
  OBVIOUS
<1>4. /\ Idle(Writer)' /\ caller'[Writer] = "failed"
      /\ disk' = Saved(o, disk) /\ Missing = {} /\ tip' = tip
  BY <1>1, <1>2, <1>3 DEF OpenMismatch, MayOpen, Types, Idle
<1>5. /\ o1 \in Object /\ o1.fd["state"] # "closed" /\ o1.key = ZeroKey
  BY <1>1, <1>2, Objects DEF FdMode, File
<1>6. /\ o \in Object
      /\ IF disk["state"].hash # NoHash
         THEN o.key = disk["state"].hash /\ o.last_sequence = disk["state"].n
         ELSE o.key = ZeroKey
  BY <1>1, <1>3, <1>5, LoadedObject
<1>7. PICK r : r = [there |-> TRUE, hash |-> o.key, n |-> o.last_sequence]
  OBVIOUS
<1>8. r.hash = o.key /\ r.n = o.last_sequence
  BY <1>7
<1>9. /\ \A f \in {"data", "index", "log"} : disk'[f] = disk[f]
      /\ disk' = disk \/ disk'["state"] = r
  BY <1>1, <1>4, <1>6, <1>7, SavedState DEF File
<1>10. Counts'
  <2>1. CASE disk' = disk
    BY <1>4, <2>1, SameCounts
  <2>2. CASE disk'["state"] = r /\ disk["state"].hash # NoHash
    BY <1>4, <1>6, <1>8, <1>9, <2>2 DEF Sound, Counts, Vouched
  <2>3. CASE disk'["state"] = r /\ disk["state"].hash = NoHash
    BY <1>1, <1>6, <1>8, <1>9, <2>3 DEF Counts, Vouched
  <2> QED
    BY <1>9, <2>1, <2>2, <2>3
<1>11. TipSound'
  BY <1>4, <1>9 DEF Sound, TipSound
<1> QED
  BY <1>4, <1>10, <1>11 DEF Sound, BusySound, OpenSound

(* A new object begins a create in standard mode,                          *)
LEMMA SoundCreate ==
    ASSUME NoReuse, Good, Sound, NEW fl \in Flags, NEW key \in Keys,
           OpenCreate(Writer, fl, key)
    PROVE  Sound'
<1>1. /\ Types /\ Writer \in Procs /\ obj[Writer] = NewObject
      /\ obj[Writer] \in Object
  BY WriterAssumption
     DEF Good, Types, OpenCreate, MayOpen, NoReuse, WriterGood, Session
<1>2. PICK w \in BOOLEAN : w = IsWr(fl)
  <2>1. IsWr(fl) \in BOOLEAN
    BY DEF IsWr
  <2> QED
    BY <2>1, Zenon
<1>3. /\ obj' = [obj EXCEPT ![Writer].rdwr = w] /\ disk' = disk /\ tip' = tip
      /\ caller'[Writer] = "busy"
  BY <1>1, <1>2 DEF OpenCreate, Types
<1>4. obj'[Writer].mode = "standard"
  BY <1>1, <1>3, Objects DEF Types, Object
<1>5. Counts' /\ TipSound'
  BY <1>3, SameCounts
<1> QED
  BY <1>3, <1>4, <1>5 DEF Sound, BusySound, OpenSound

(* and a rebuild without WR.                                               *)
LEMMA SoundRebuild ==
    ASSUME NoReuse, Good, Types', Sound, NEW fl \in Flags, Rebuild(Writer, fl)
    PROVE  Sound'
<1>1. /\ Types /\ Writer \in Procs /\ obj[Writer] = NewObject
      /\ obj[Writer] \in Object
  BY WriterAssumption
     DEF Good, Types, Rebuild, MayOpen, NoReuse, WriterGood, Session
<1>2. /\ obj' = [obj EXCEPT ![Writer].mode = "rebuild"] /\ disk' = disk
      /\ tip' = tip /\ caller'[Writer] = "busy"
  BY <1>1 DEF Rebuild, Types
<1>3. obj'[Writer].mode = "rebuild" /\ ~obj'[Writer].rdwr
  BY <1>1, <1>2, Objects DEF Types, Object
<1>4. \A k : k = 1 => Rebuilding(RebuildSteps, k)'
  BY WriterRebuild
<1>5. \A k : k = 1 => Refilling(k)'
  BY <1>3, <1>4 DEF Refilling
<1>6. BusySound'
  BY <1>5 DEF BusySound
<1>7. Counts' /\ TipSound'
  BY <1>2, SameCounts
<1> QED
  BY <1>2, <1>6, <1>7 DEF Sound, OpenSound

(* A new object that opens the storage has found a state file that         *)
(* vouches, unless the data file has no hash record.                       *)
LEMMA NewObjectAgrees ==
    ASSUME Good, NEW p \in Procs, obj[p] = NewObject, NEW fl \in Flags,
           NEW o, o = Loaded(OpenFiles(obj[p], fl), disk), HashesAgree(o)
    PROVE  /\ o \in Object /\ o.mode = "standard" /\ o.rdwr = IsWr(fl)
           /\ \A f \in File : o.fd[f] = FdMode(fl)
           /\ disk["data"].hash # NoHash => Vouched
           /\ Vouched => o.last_sequence = disk["state"].n
<1>1. disk \in Disks /\ disk["data"].hash # ZeroKey
  BY DEF Good, Types, DiskGood
<1>2. PICK o1 : o1 = OpenFiles(obj[p], fl)
  OBVIOUS
<1>3. /\ o1 \in Object /\ o1.mode = "standard" /\ o1.rdwr = IsWr(fl)
      /\ o1.key = ZeroKey /\ o1.fd["state"] # "closed"
      /\ \A f \in File : o1.fd[f] = FdMode(fl)
  BY <1>2, Objects DEF FdMode, File
<1>4. /\ o \in Object /\ o.fd = o1.fd /\ o.rdwr = o1.rdwr /\ o.mode = o1.mode
      /\ IF disk["state"].hash # NoHash
         THEN o.key = disk["state"].hash /\ o.last_sequence = disk["state"].n
         ELSE o.key = ZeroKey
  BY <1>1, <1>2, <1>3, LoadedObject
<1>5. Loaded(o, disk).key = InData
  BY AgreedMatch
<1>6. Loaded(o, disk).key = o.key
  BY <1>1, <1>3, <1>4, LoadedObject
<1>7. disk["data"].hash # NoHash => Vouched
  BY <1>1, <1>4, <1>5, <1>6 DEF InData, ReadHash, Vouched
<1>8. Vouched => o.last_sequence = disk["state"].n
  BY <1>4 DEF Vouched
<1> QED
  BY <1>3, <1>4, <1>7, <1>8

(* An open takes its counters from the state file.                         *)
LEMMA SoundExisting ==
    ASSUME NoReuse, Strict, Good, Sound, NEW fl \in Flags,
           OpenExisting(Writer, fl)
    PROVE  Sound'
<1>1. /\ Types /\ Writer \in Procs /\ obj[Writer] = NewObject
  BY WriterAssumption
     DEF Good, Types, OpenExisting, MayOpen, NoReuse, WriterGood, Session
<1>2. PICK o : o = Loaded(OpenFiles(obj[Writer], fl), disk)
  OBVIOUS
<1>3. /\ obj'[Writer] = o /\ disk' = disk /\ Idle(Writer)' /\ HashesAgree(o)
      /\ tip' = tip
  BY <1>1, <1>2 DEF OpenExisting, MayOpen, Types, Idle
<1>4. /\ o.mode = "standard" /\ o.rdwr = IsWr(fl)
      /\ \A f \in File : o.fd[f] = FdMode(fl)
      /\ disk["data"].hash # NoHash => Vouched
      /\ Vouched => o.last_sequence = disk["state"].n
  BY <1>1, <1>2, <1>3, NewObjectAgrees
<1>5. /\ o.rdwr \/ o.fd["data"] = "rw" => \A f \in File : o.fd[f] = "rw"
      /\ o.fd["log"] = "rw" => o.rdwr
      /\ o.fd["index"] = o.fd["log"]
  BY <1>4 DEF FdMode, File, Strict, IsWr, IsCreate
<1>6. disk["data"].hash # NoHash => tip.write <= o.last_sequence
  BY <1>4 DEF Sound, Counts
<1>7. OpenSound'
  <2>1. Vouched' = Vouched
    BY <1>3 DEF Vouched
  <2> QED
    BY <1>3, <1>4, <1>5, <1>6, <2>1 DEF OpenSound
<1>8. Counts' /\ TipSound'
  BY <1>3, SameCounts
<1> QED
  BY <1>3, <1>7, <1>8 DEF Sound, BusySound

(* So does a read by an object that is not for writing.                    *)
LEMMA SoundRead ==
    ASSUME Good, Sound, Read(Writer)
    PROVE  Sound'
<1>1. /\ Types /\ Writer \in Procs /\ obj[Writer] \in Object /\ disk \in Disks
  BY WriterAssumption DEF Good, Types
<1>2. PICK o : o = Loaded(obj[Writer], disk)
  OBVIOUS
<1>3. /\ caller[Writer] = "open" /\ ~obj[Writer].rdwr /\ Idle(Writer)'
      /\ obj'[Writer] = o /\ disk' = disk /\ caller' = caller /\ tip' = tip
  BY <1>1, <1>2 DEF Read, Types, Idle
<1>4. /\ o.fd = obj[Writer].fd /\ o.rdwr = obj[Writer].rdwr
      /\ o.mode = obj[Writer].mode
      /\ disk["state"].hash = NoHash => o = obj[Writer]
  BY <1>1, <1>2, LoadedObject
<1>5. OpenSound'
  <2>1. OpenSound /\ Vouched' = Vouched
    BY <1>3 DEF Sound, Vouched
  <2> QED
    BY <1>3, <1>4, <2>1 DEF OpenSound
<1>6. Counts' /\ TipSound'
  BY <1>3, SameCounts
<1> QED
  BY <1>3, <1>5, <1>6 DEF Sound, BusySound

(* Records bring up whoever keeps up: the object, the index, the log, and  *)
(* the state file if the object saves it; a WRITE that returns brings up   *)
(* all of them.                                                            *)
LEMMA SoundRecords ==
    ASSUME NoReuse, Good, Sound, Records(Writer) \/ DiesWriting(Writer)
    PROVE  Sound'
<1>1. /\ Types /\ Writer \in Procs /\ obj[Writer] \in Object /\ disk \in Disks
      /\ tip.write \in Nat /\ WriterGood
  BY WriterAssumption DEF Good, Types, Tips
<1>2. PICK s : Recorded(Writer, s)
  BY <1>1, Recording
<1>3. PICK s0 : s0 = [o |-> obj[Writer], d |-> disk, t |-> tip]
  OBVIOUS
<1>4. /\ s0.o = obj[Writer] /\ s0.d = disk /\ s0.t = tip
      /\ Moves(s0, s) /\ Rises(s0, s)
  BY <1>1, <1>2, <1>3, RecordedTypes
<1>5. /\ Idle(Writer) /\ Idle(Writer)' /\ disk' = s.d /\ tip' = s.t
      /\ caller[Writer] = "open"
      /\ \/ obj'[Writer] = s.o /\ caller'[Writer] = "open"
         \/ caller'[Writer] = "new"
  BY <1>1, <1>2 DEF Recorded, NoReuse, Types, Idle
<1>6. /\ obj[Writer].mode = "standard"
      /\ obj[Writer].fd["data"] = "rw" \/ obj[Writer].rdwr =>
            \A f \in File : obj[Writer].fd[f] = "rw"
      /\ obj[Writer].fd["index"] = obj[Writer].fd["log"]
      /\ obj[Writer].rdwr /\ disk["data"].hash # NoHash => Vouched
      /\ obj[Writer].fd["log"] = "rw" /\ disk["data"].hash # NoHash =>
            /\ tip.write <= obj[Writer].last_sequence
            /\ obj[Writer].rdwr \/ disk["state"].hash = NoHash
  BY <1>5 DEF Sound, OpenSound
<1>13. ASSUME NEW f \in {"data", "index", "log"}
       PROVE  /\ disk'[f].hash = disk[f].hash
              /\ disk'[f] = disk[f] \/ obj[Writer].fd[f] = "rw"
  <2>1. /\ s.d[f].hash = s0.d[f].hash
        /\ s.d[f] = s0.d[f] \/ s0.o.fd[f] = "rw"
    BY <1>4 DEF Moves
  <2> QED
    BY <1>4, <1>5, <2>1
<1>14. \/ disk'["state"] = disk["state"]
       \/ /\ obj[Writer].rdwr /\ obj[Writer].fd["state"] = "rw"
          /\ disk'["state"].hash = obj[Writer].key
  <2>1. \/ s.d["state"] = s0.d["state"]
        \/ /\ s0.o.rdwr /\ s0.o.fd["state"] = "rw"
           /\ s.d["state"].hash = s0.o.key
    BY <1>4 DEF Moves
  <2> QED
    BY <1>4, <1>5, <2>1
<1>15. /\ tip' = tip \/ (obj[Writer].fd["data"] = "rw" /\ disk'["data"].n > 0)
       /\ disk["data"].n <= disk'["data"].n
       /\ s.o.fd = obj[Writer].fd /\ s.o.rdwr = obj[Writer].rdwr
       /\ s.o.mode = obj[Writer].mode
       /\ obj[Writer].last_sequence <= s.o.last_sequence
  <2>1. /\ s.t = s0.t \/ (s0.o.fd["data"] = "rw" /\ s.d["data"].n > 0)
        /\ s0.d["data"].n <= s.d["data"].n
        /\ s.o.fd = s0.o.fd /\ s.o.rdwr = s0.o.rdwr /\ s.o.mode = s0.o.mode
        /\ s0.o.last_sequence <= s.o.last_sequence
    BY <1>4 DEF Moves
  <2> QED
    BY <1>4, <1>5, <2>1
<1>7. /\ \A f \in {"data", "index", "log"} :
            /\ disk'[f].hash = disk[f].hash
            /\ disk'[f] = disk[f] \/ obj[Writer].fd[f] = "rw"
      /\ \/ disk'["state"] = disk["state"]
         \/ /\ obj[Writer].rdwr /\ obj[Writer].fd["state"] = "rw"
            /\ disk'["state"].hash = obj[Writer].key
      /\ tip' = tip \/ (obj[Writer].fd["data"] = "rw" /\ disk'["data"].n > 0)
      /\ disk["data"].n <= disk'["data"].n
      /\ s.o.fd = obj[Writer].fd /\ s.o.rdwr = obj[Writer].rdwr
      /\ s.o.mode = obj[Writer].mode
      /\ obj[Writer].last_sequence <= s.o.last_sequence
  BY <1>13, <1>14, <1>15
<1>8. disk["data"].n \in Nat /\ disk'["data"].n \in Nat
  <2>1. Types'
    BY <1>1, <1>2, RecordedTypes
  <2>2. disk["data"] \in Content /\ disk'["data"] \in Content
    BY <1>1, <2>1 DEF Types, Disks, File
  <2> QED
    BY <2>2 DEF Content
<1>9. disk'["data"].n = 0 => tip'.write = 0
  BY <1>7, <1>8 DEF Sound, TipSound
<1>10. CASE disk["data"].hash = NoHash
  <2>1. disk'["data"].hash = NoHash
    BY <1>7, <1>10
  <2>2. Counts' /\ TipSound'
    BY <1>9, <2>1 DEF Counts, TipSound, Vouched
  <2>3. OpenSound'
    BY <1>5, <1>6, <1>7, <2>1 DEF OpenSound
  <2> QED
    BY <1>5, <2>2, <2>3 DEF Sound, BusySound
<1>11. CASE disk["data"].hash # NoHash /\ obj[Writer].fd["log"] # "rw"
  <2>1. /\ obj[Writer].fd["data"] # "rw" /\ obj[Writer].fd["index"] # "rw"
        /\ ~obj[Writer].rdwr
    BY <1>6, <1>11 DEF File
  <2>2. \A f \in File : disk'[f] = disk[f]
    BY <1>7, <1>11, <2>1 DEF File
  <2>3. tip' = tip
    BY <1>7, <2>1
  <2>4. Counts' /\ TipSound'
    BY <2>2, <2>3 DEF Sound, Counts, TipSound, Vouched, File
  <2>5. OpenSound'
    BY <1>5, <1>6, <1>7, <1>11, <2>1 DEF OpenSound
  <2> QED
    BY <1>5, <2>4, <2>5 DEF Sound, BusySound
<1>12. CASE disk["data"].hash # NoHash /\ obj[Writer].fd["log"] = "rw"
  <2>1. Ahead(s0)
    BY <1>4, <1>6, <1>12 DEF Ahead, Sound, TipSound
  <2>2. /\ tip'.write <= s.o.last_sequence /\ tip'.write <= tip'.record
    BY <1>4, <1>5, <2>1 DEF Rises, Ahead
  <2>3. disk'["data"].hash = disk["data"].hash /\ disk'["data"].hash # NoHash
    BY <1>7, <1>12
  <2>4. ~obj[Writer].rdwr => disk'["state"].hash = NoHash
    BY <1>6, <1>7, <1>12
  <2>5. ASSUME obj[Writer].rdwr, NEW f \in {"index", "log", "state"},
               tip.write <= disk[f].n
        PROVE  tip'.write <= disk'[f].n
    <3>1. Fit(s0.o, f)
      BY <1>4, <1>6, <2>5 DEF Fit, File
    <3>2. KeepsUp(s0, f)
      BY <1>4, <2>5 DEF KeepsUp
    <3>3. KeepsUp(s, f)
      BY <1>4, <2>1, <3>1, <3>2 DEF Rises
    <3> QED
      BY <1>5, <3>3 DEF KeepsUp
  <2>6. Counts'
    <3> SUFFICES ASSUME Vouched'
                 PROVE  /\ \A f \in {"index", "log"} :
                              disk'[f].hash = disk'["data"].hash =>
                                 tip'.write <= disk'[f].n
                        /\ tip'.write <= disk'["state"].n
      BY DEF Counts
    <3>1. obj[Writer].rdwr
      BY <2>3, <2>4 DEF Vouched
    <3>2. /\ \A f \in {"index", "log"} :
                disk[f].hash = disk["data"].hash => tip.write <= disk[f].n
          /\ tip.write <= disk["state"].n
      BY <1>6, <1>12, <3>1 DEF Sound, Counts
    <3>3. tip'.write <= disk'["state"].n
      BY <2>5, <3>1, <3>2
    <3>4. ASSUME NEW f \in {"index", "log"}, disk'[f].hash = disk'["data"].hash
          PROVE  tip'.write <= disk'[f].n
      <4>1. disk[f].hash = disk["data"].hash
        BY <1>7, <2>3, <3>4
      <4> QED
        BY <2>5, <3>1, <3>2, <4>1
    <3> QED
      BY <3>3, <3>4
  <2>7. TipSound'
    BY <1>9, <2>2 DEF TipSound
  <2>8. obj[Writer].key = disk["data"].hash
    BY <1>1, <1>5, <1>12 DEF WriterGood, InData, ReadHash
  <2>9. obj[Writer].rdwr => Vouched'
    BY <1>6, <1>7, <1>12, <2>3, <2>8 DEF Vouched
  <2>10. OpenSound'
    BY <1>5, <1>6, <1>7, <2>2, <2>4, <2>9 DEF OpenSound
  <2> QED
    BY <1>5, <2>6, <2>7, <2>10 DEF Sound, BusySound
<1> QED
  BY <1>10, <1>11, <1>12

(* The tip of the data file in a create or rebuild.                        *)
LEMMA WorkTip ==
    ASSUME Types, Work(Writer)
    PROVE  /\ tip' = tip \/ tip' = NoTip
           /\ obj[Writer].mode = "rebuild" => tip' = tip
<1>1. CASE OpenStep(Writer)
  BY <1>1 DEF OpenStep, KeepsData
<1>2. CASE ReplayStep(Writer)
  BY <1>2 DEF ReplayStep
<1>3. CASE KeyStep(Writer) \/ HashStep(Writer) \/ ReplayFails(Writer)
           \/ FinishStep(Writer)
  BY <1>3 DEF KeyStep, HashStep, ReplayFails, FinishStep
<1> QED
  BY <1>1, <1>2, <1>3 DEF Work

(* In a create no file has a record.                                       *)
LEMMA SoundCreating ==
    ASSUME Good, Good', Sound, NEW k \in 1 .. 9, Creating(k), Work(Writer)
    PROVE  Sound'
<1>1. /\ ~Idle(Writer) /\ Types /\ obj[Writer] \in Object /\ Writer \in Procs
      /\ disk \in Disks /\ job[Writer].steps \in Seq(Step)
      /\ job[Writer].steps # << >> /\ caller[Writer] = "busy"
  BY WriterAssumption, Zenon DEF Work, OpenStep, KeyStep, HashStep, ReplayStep,
     ReplayFails, FinishStep, AtStep, Good, Types, Idle, Jobs, WriterGood
<1>2. PICK plan \in Seq(Step) : plan = CreateSteps("standard") /\ Len(plan) = 9
  BY CreatePlan
<1>3. /\ AtPlan(job[Writer].steps, plan, k) /\ obj[Writer].mode = "standard"
      /\ Head(job[Writer].steps) = plan[k]
  BY <1>1, <1>2, NextStep DEF Creating
<1>4. PICK f \in File : Head(job[Writer].steps).file = f
  <2>1. Head(job[Writer].steps) \in Step
    BY <1>1
  <2> QED
    BY <2>1 DEF Step
<1>5. PICK w \in BOOLEAN : w = obj[Writer].rdwr
  BY <1>1 DEF Object
<1>6. tip'.write = 0
  <2>1. disk["data"].n = 0
    BY DEF Creating, File
  <2>2. NoTip.write = 0
    BY DEF NoTip
  <2> QED
    BY <1>1, <2>1, <2>2, WorkTip DEF Sound, TipSound
<1>7. OpenStep(Writer) \/ KeyStep(Writer) \/ HashStep(Writer)
  <2>1. PICK s : s = plan[k]
    OBVIOUS
  <2>2. s.do \notin {"replay", "finish"}
    BY <1>2, <2>1, CreateDoes
  <2> QED
    BY <1>3, <2>1, <2>2 DEF Work, ReplayStep, ReplayFails, FinishStep, AtStep
<1>8. /\ obj'[Writer].last_sequence = obj[Writer].last_sequence
      /\ obj'[Writer].rdwr = w /\ obj'[Writer].mode = "standard"
  <2>1. CASE OpenStep(Writer)
    BY <1>1, <1>3, <1>4, <1>5, <2>1, OpenEffect
  <2>2. CASE KeyStep(Writer)
    BY <1>3, <1>5, <2>2 DEF KeyStep
  <2>3. CASE HashStep(Writer)
    BY <1>1, <1>3, <1>4, <1>5, <2>3, HashEffect
  <2> QED
    BY <1>7, <2>1, <2>2, <2>3
<1>9. OpenStep(Writer) \/ HashStep(Writer) => StepDone(Writer)
  BY Zenon DEF OpenStep, HashStep
<1>12. /\ tip'.write <= obj'[Writer].last_sequence
       /\ \A f1 \in File : tip'.write <= disk'[f1].n
       /\ TipSound' /\ Counts'
  <2>1. /\ disk' \in Disks /\ obj'[Writer] \in Object /\ tip' \in Tips
    BY <1>1 DEF Good, Types
  <2>2. /\ obj'[Writer].last_sequence \in Nat /\ tip'.record \in Nat
        /\ \A f1 \in File : disk'[f1].n \in Nat
    BY <2>1 DEF Disks, Content, Object, Tips
  <2>3. /\ 0 <= obj'[Writer].last_sequence /\ 0 <= tip'.record
        /\ \A f1 \in File : 0 <= disk'[f1].n
    BY <2>2
  <2> QED
    BY <1>6, <2>3 DEF TipSound, Counts, File
<1>10. ASSUME k # 9
       PROVE  Sound'
  <2>1. ~Idle(Writer)'
    <3>1. CASE KeyStep(Writer)
      BY <1>1, <1>2, <1>3, <1>10, <3>1, KeyEffect
    <3>2. CASE OpenStep(Writer) \/ HashStep(Writer)
      BY <1>1, <1>2, <1>3, <1>9, <1>10, <3>2, StepTaken
    <3> QED
      BY <1>7, <3>1, <3>2
  <2>2. caller'[Writer] = "busy"
    BY <2>1 DEF Good, WriterGood
  <2> QED
    BY <1>8, <1>12, <2>2 DEF Sound, BusySound, OpenSound
<1>11. ASSUME k = 9
       PROVE  Sound'
  <2>1. HashStep(Writer) /\ f = "state"
    <3>1. PICK s : s = plan[k]
      OBVIOUS
    <3>2. s.do \notin {"open", "key"} /\ (s.do = "hash" => s.file = "state")
      BY <1>2, <1>11, <3>1, CreateDoes
    <3> QED
      BY <1>3, <1>4, <1>7, <3>1, <3>2, Zenon DEF OpenStep, KeyStep, HashStep, AtStep
  <2>2. PICK o \in Object :
           /\ o = obj'[Writer] /\ o.key = job[Writer].key /\ o.fd = obj[Writer].fd
           /\ disk' = Saved(o, disk)
    BY <1>1, <1>4, <2>1, HashEffect
  <2>3. PICK r : r = [there |-> TRUE, hash |-> o.key, n |-> o.last_sequence]
    OBVIOUS
  <2>4. r.hash = job[Writer].key
    BY <2>2, <2>3
  <2>5. /\ \A g \in File : obj[Writer].fd[g] = "rw"
        /\ disk["data"].hash = job[Writer].key /\ disk["state"].hash = NoHash
        /\ job[Writer].key # NoHash
    BY <1>11, KeysAssumption DEF Creating, OpenedBy, File
  <2>6. /\ \A g \in File \ {"state"} : disk'[g] = disk[g]
        /\ w => disk'["state"] = r
        /\ ~w => disk' = disk
    <3>1. o.mode = "standard" /\ o.rdwr = w /\ o.fd["state"] = "rw"
      BY <1>8, <2>2, <2>5 DEF File
    <3> QED
      BY <1>1, <2>2, <2>3, <3>1, SavedState
  <2>9. w => Vouched'
    BY <2>4, <2>5, <2>6 DEF Vouched, File
  <2>10. ~w => disk'["state"].hash = NoHash
    BY <2>5, <2>6
  <2>11. OpenSound'
    BY <1>8, <1>12, <2>2, <2>5, <2>9, <2>10 DEF OpenSound, File
  <2>12. Idle(Writer)'
    <3>1. k = Len(plan) /\ StepDone(Writer)
      BY <1>2, <1>9, <1>11, <2>1
    <3> QED
      BY <1>1, <1>3, <3>1, StepTaken
  <2> QED
    BY <1>12, <2>11, <2>12 DEF Sound, BusySound
<1> QED
  BY <1>10, <1>11

(* Where a rebuild is when it does what.                                   *)
LEMMA RebuildAt ==
    ASSUME Types, NEW k, Rebuilding(RebuildSteps, k)
    PROVE  /\ AtStep(Writer, "open") => k \in {1, 2, 3, 4}
           /\ AtStep(Writer, "key") => k = 5
           /\ AtStep(Writer, "hash") => k \in {6, 7, 8}
           /\ AtStep(Writer, "replay") => k = 9
           /\ AtStep(Writer, "finish") => k = 10
<1>1. PICK plan \in Plans : plan = RebuildSteps
  BY DEF Plans
<1>2. plan \in Seq(Step) /\ AtPlan(job[Writer].steps, plan, k)
  BY <1>1, PlansKnown DEF Rebuilding
<1>3. k \in 1 .. Len(plan) /\ Head(job[Writer].steps) = plan[k]
  BY <1>2, NextStep
<1>4. PICK s : s = plan[k]
  OBVIOUS
<1> QED
  BY <1>3, <1>4, RebuildDoes DEF AtStep

(* A rebuild that goes on has not saved anything.                          *)
LEMMA RefillsOn ==
    ASSUME Counts', TipSound', NEW k, GoesOn(RebuildSteps, k), ~obj'[Writer].rdwr,
           k + 1 = 10 =>
              /\ tip'.write <= obj'[Writer].last_sequence
              /\ \A f \in {"index", "log"} : tip'.write <= disk'[f].n
    PROVE  Sound'
<1>1. PICK j : j = k + 1
  OBVIOUS
<1>2. Rebuilding(RebuildSteps, j)'
  BY <1>1 DEF GoesOn
<1>3. j \in 1 .. 10 /\ obj'[Writer].mode = "rebuild"
  BY <1>2, RebuildPlan DEF Rebuilding, AtPlan
<1>4. Refilling(j)'
  BY <1>1, <1>2 DEF Refilling
<1>5. BusySound'
  BY <1>3, <1>4 DEF BusySound
<1>6. OpenSound'
  BY DEF GoesOn, OpenSound
<1> QED
  BY <1>5, <1>6 DEF Sound

(* A rebuild takes the file that vouches away before it ends, and fills    *)
(* log and index from the data file.                                       *)
LEMMA SoundRefilling ==
    ASSUME Good, Good', Sound, NEW k \in 1 .. 10, Refilling(k), Work(Writer)
    PROVE  Sound'
<1>1. /\ ~Idle(Writer) /\ Types /\ obj[Writer] \in Object /\ Writer \in Procs
      /\ disk \in Disks /\ job[Writer].steps \in Seq(Step)
      /\ job[Writer].steps # << >> /\ caller[Writer] = "busy"
      /\ obj \in [Procs -> Object]
  BY WriterAssumption, Zenon DEF Work, OpenStep, KeyStep, HashStep, ReplayStep,
     ReplayFails, FinishStep, AtStep, Good, Types, Idle, Jobs, WriterGood
<1>2. PICK plan \in Plans : plan = RebuildSteps
  BY DEF Plans
<1>3. /\ Rebuilding(plan, k) /\ ~obj[Writer].rdwr /\ obj[Writer].mode = "rebuild"
  BY <1>2 DEF Refilling, Rebuilding
<1>4. PICK f \in File : Head(job[Writer].steps).file = f
  <2>1. Head(job[Writer].steps) \in Step
    BY <1>1
  <2> QED
    BY <2>1 DEF Step
<1>12. tip' = tip
  BY <1>1, <1>3, WorkTip
<1>5. ASSUME OpenStep(Writer)
      PROVE  Sound'
  <2>1. k \in {1, 2, 3, 4}
    BY <1>1, <1>2, <1>3, <1>5, RebuildAt DEF OpenStep
  <2>2. GoesOn(RebuildSteps, k)
    BY <1>1, <1>2, <1>3, <1>5, RebuildingOpen
  <2>3. /\ obj'[Writer].rdwr = obj[Writer].rdwr
        /\ \A g \in File \ {f} : disk'[g] = disk[g]
        /\ f = "data" => disk'[f].hash = disk[f].hash /\ disk'[f].n = disk[f].n
        /\ f # "data" => disk'[f].hash = NoHash
    BY <1>1, <1>3, <1>4, <1>5, OpenEffect DEF Empty
  <2>4. Counts'
    <3>1. Counts
      BY DEF Sound
    <3>2. CASE f = "data"
      BY <1>12, <2>3, <3>1, <3>2 DEF Counts, Vouched, File
    <3>3. CASE f = "state"
      BY <2>3, <3>3 DEF Counts, Vouched, File
    <3>4. CASE f \in {"index", "log"}
      BY <1>12, <2>3, <3>1, <3>4 DEF Counts, Vouched, File
    <3> QED
      BY <3>2, <3>3, <3>4 DEF File
  <2>5. ~obj'[Writer].rdwr /\ k + 1 # 10
    BY <1>3, <2>1, <2>3
  <2>6. TipSound'
    BY <1>12, <2>3 DEF Sound, TipSound, File
  <2> QED
    BY <2>2, <2>4, <2>5, <2>6, RefillsOn
<1>6. ASSUME KeyStep(Writer)
      PROVE  Sound'
  <2>1. k = 5
    BY <1>1, <1>2, <1>3, <1>6, RebuildAt DEF KeyStep
  <2>2. GoesOn(RebuildSteps, k)
    BY <1>1, <1>2, <1>3, <1>6, RebuildingKey
  <2>3. disk' = disk /\ obj' = obj
    BY <1>6 DEF KeyStep
  <2>4. Counts' /\ TipSound'
    BY <1>12, <2>3, SameCounts
  <2>5. ~obj'[Writer].rdwr /\ k + 1 # 10
    BY <1>3, <2>1, <2>3
  <2> QED
    BY <2>2, <2>4, <2>5, RefillsOn
<1>7. ASSUME HashStep(Writer)
      PROVE  Sound'
  <2>1. /\ k \in {6, 7, 8} /\ disk'["state"].hash = NoHash
        /\ obj'[Writer].rdwr = obj[Writer].rdwr
    BY <1>1, <1>3, <1>7, RebuildingHash
  <2>2. GoesOn(RebuildSteps, k)
    <3>1. Len(plan) = 10
      BY <1>2, RebuildPlan
    <3>2. k # Len(plan)
      BY <2>1, <3>1
    <3> QED
      BY <1>1, <1>2, <1>3, <1>7, <3>2, RebuildingHashOn
  <2>3. Counts'
    BY <2>1 DEF Counts, Vouched
  <2>4. ~obj'[Writer].rdwr /\ k + 1 # 10
    BY <1>3, <2>1
  <2>5. TipSound'
    <3>1. InData' = InData /\ disk'["data"].n = disk["data"].n
      BY <1>1, <1>2, <1>3, <1>7, RebuildingHash, WorkDisk
    <3>2. disk["data"].hash # ZeroKey /\ disk'["data"].hash # ZeroKey
      BY DEF Good, DiskGood
    <3>3. disk'["data"].hash = disk["data"].hash
      BY <3>1, <3>2, KeysAssumption DEF InData, ReadHash
    <3> QED
      BY <1>12, <3>1, <3>3 DEF Sound, TipSound
  <2> QED
    BY <2>2, <2>3, <2>4, <2>5, RefillsOn
<1>8. ASSUME ReplayStep(Writer)
      PROVE  Sound'
  <2>1. k = 9
    BY <1>1, <1>2, <1>3, <1>8, RebuildAt DEF ReplayStep
  <2>2. GoesOn(RebuildSteps, k)
    BY <1>1, <1>2, <1>3, <1>8, RebuildingReplay
  <2>3. /\ disk'["data"] = disk["data"] /\ disk'["state"] = disk["state"]
        /\ obj'[Writer].rdwr = obj[Writer].rdwr
        /\ disk["data"].n # 0 =>
              /\ tip.record <= obj'[Writer].last_sequence
              /\ \A g \in {"index", "log"} : tip.record <= disk'[g].n
    BY <1>1, <1>8, ReplayEffect DEF File
  <2>4. disk["state"].hash = NoHash /\ disk["data"].hash # NoHash
    BY <1>3, <1>8, <2>1 DEF Rebuilding, ReplayStep
  <2>5. /\ tip'.write <= obj'[Writer].last_sequence
        /\ \A g \in {"index", "log"} : tip'.write <= disk'[g].n
    <3>1. /\ obj'[Writer].last_sequence \in Nat /\ tip.record \in Nat
          /\ tip.write \in Nat /\ disk'["index"].n \in Nat /\ disk'["log"].n \in Nat
      BY <1>1 DEF Good, Types, Disks, Content, Object, Tips, File
    <3>2. /\ tip.write <= tip.record /\ (disk["data"].n = 0 => tip.write = 0)
      BY <2>4 DEF Sound, TipSound
    <3> QED
      BY <1>12, <2>3, <3>1, <3>2
  <2>6. Counts'
    BY <2>3, <2>4 DEF Counts, Vouched
  <2>7. TipSound'
    BY <1>12, <2>3 DEF Sound, TipSound
  <2> QED
    BY <1>3, <2>2, <2>3, <2>5, <2>6, <2>7, RefillsOn
<1>9. ASSUME ReplayFails(Writer)
      PROVE  Sound'
  <2>1. disk' = disk /\ Idle(Writer)' /\ caller'[Writer] = "failed"
    BY <1>1, <1>9 DEF ReplayFails, Types, Idle, NoJob
  <2>2. Counts' /\ TipSound'
    BY <1>12, <2>1, SameCounts
  <2> QED
    BY <2>1, <2>2 DEF Sound, BusySound, OpenSound
<1>10. ASSUME FinishStep(Writer)
       PROVE  Sound'
  <2>1. k = 10
    BY <1>1, <1>2, <1>3, <1>10, RebuildAt DEF FinishStep
  <2>2. /\ tip.write <= obj[Writer].last_sequence
        /\ OpenedBy(10) /\ disk["state"].hash = NoHash
    BY <2>1 DEF Refilling, Rebuilding
  <2>3. PICK o : o = [obj[Writer] EXCEPT !.mode = "standard"]
    OBVIOUS
  <2>4. /\ obj'[Writer] = o /\ disk' = Saved(o, disk) /\ StepDone(Writer)
    BY <1>1, <1>10, <2>3 DEF FinishStep
  <2>5. /\ o.mode = "standard" /\ ~o.rdwr /\ o.fd = obj[Writer].fd
        /\ o.last_sequence = obj[Writer].last_sequence
    BY <1>1, <1>3, <2>3 DEF Object
  <2>6. disk' = disk
    BY <2>4, <2>5 DEF Saved
  <2>7. Idle(Writer)'
    <3>1. Len(plan) = 10 /\ plan \in Seq(Step) /\ AtPlan(job[Writer].steps, plan, k)
      BY <1>2, <1>3, RebuildPlan DEF Rebuilding
    <3> QED
      BY <1>1, <2>1, <2>4, <3>1, StepTaken
  <2>8. Counts' /\ TipSound'
    BY <1>12, <2>6, SameCounts
  <2>9. OpenSound'
    BY <1>12, <2>2, <2>4, <2>5, <2>6 DEF OpenSound, OpenedBy, File
  <2> QED
    BY <2>7, <2>8, <2>9 DEF Sound, BusySound
<1> QED
  BY <1>5, <1>6, <1>7, <1>8, <1>9, <1>10 DEF Work

(* Each action keeps them up.                                              *)
LEMMA NextSound ==
    ASSUME NoReuse, Strict
    PROVE  Good /\ Sound /\ [Next]_vars => Sound'
<1> SUFFICES ASSUME Good, Sound, [Next]_vars
             PROVE  Sound'
  BY NoReuse, Strict
<1>1. Good' /\ Types' /\ Types
  BY NextGood DEF Good
<1>2. ASSUME NEW p \in Procs \ {Writer},
             Call(p) \/ Work(p) \/ Crash(p) \/ DiesWriting(p)
      PROVE  Sound'
  <2>1. ~Work(p)
    BY Zenon DEF Good, Reader, Work, OpenStep, KeyStep, HashStep, ReplayStep,
           ReplayFails, FinishStep, AtStep
  <2>2. /\ disk' = disk /\ tip' = tip
        /\ \A q \in Procs \ {p} : /\ obj'[q] = obj[q] /\ job'[q] = job[q]
                                   /\ caller'[q] = caller[q]
    BY <1>2, <2>1, ReaderStep
  <2> QED
    BY <2>2, WriterAssumption, SoundStays
<1>3. ASSUME Call(Writer)
      PROVE  Sound'
  BY <1>1, <1>3, SoundRefused, SoundExisting, SoundMismatch, SoundRebuild,
     SoundCreate, SoundRecords, SoundRead, SoundEnds DEF Call, Records
<1>4. ASSUME Work(Writer)
      PROVE  Sound'
  <2>1. ~Idle(Writer)
    BY <1>4, Zenon DEF Work, OpenStep, KeyStep, HashStep, ReplayStep, ReplayFails,
       FinishStep, AtStep
  <2>2. Working /\ BusySound
    BY <2>1 DEF Good, WriterGood, Sound
  <2>3. CASE obj[Writer].mode = "standard"
    <3>1. \E k \in 1 .. 9 : Creating(k)
      BY <2>2, <2>3 DEF Working, Recreating, Rebuilding
    <3> QED
      BY <1>1, <1>4, <3>1, SoundCreating
  <2>4. CASE obj[Writer].mode # "standard"
    BY <1>1, <1>4, <2>1, <2>2, <2>4, SoundRefilling DEF BusySound
  <2> QED
    BY <2>3, <2>4
<1>5. CASE Crash(Writer) \/ DiesWriting(Writer)
  BY <1>5, SoundEnds, SoundRecords
<1>6. CASE \/ RemoveFiles \/ \E f \in File : Lose(f)
           \/ \E f \in File, key \in Keys : Foreign(f, key)
  BY <1>6, SoundOthers
<1>7. CASE UNCHANGED vars
  BY <1>7, SoundStays DEF vars
<1> QED
  BY <1>2, <1>3, <1>4, <1>5, <1>6, <1>7 DEF Next

(* The next sequence of a writer is past that of every WRITE that          *)
(* returned, whatever died before, in the middle of a write too, and       *)
(* whether he opened the storage or created or rebuilt it.  It takes       *)
(* callers that open with a new object each time, and never with CREATE    *)
(* alone: an object that is opened again keeps the counters of its last    *)
(* storage when the new state file is empty, and one without WR writes     *)
(* records and saves no state.                                             *)
THEOREM WrittenSequencesStay ==
    ASSUME "reuse" \notin Allowed, "create_only" \notin Flags
    PROVE  Spec => []WrittenSequenceKept
<1>1. Good /\ Sound => WrittenSequenceKept
  <2> SUFFICES ASSUME Good, Sound, NEW p \in Procs, caller[p] = "open",
                      obj[p].fd["data"] = "rw", disk["data"].hash # NoHash
               PROVE  obj[p].last_sequence >= tip.write
    BY DEF WrittenSequenceKept
  <2>1. p = Writer
    BY DEF Good, Reader, File
  <2>2. tip.write <= obj[p].last_sequence
    BY <2>1 DEF Sound, OpenSound, File
  <2>3. tip.write \in Nat /\ obj[p].last_sequence \in Nat
    BY DEF Good, Types, Tips, Object
  <2> QED
    BY <2>2, <2>3
<1>2. NoReuse /\ Strict
  BY DEF NoReuse, Strict
<1>3. Good /\ Sound /\ [Next]_vars => Sound'
  BY <1>2, NextSound
<1> QED
  BY <1>1, <1>3, InitGood, InitSound, NextGood, PTL DEF Spec

(* Whoever opens a storage, be it by create or rebuild, finds an index and *)
(* a log that are not behind the last WRITE that returned, if they and the *)
(* data file have their hash record; for callers that open with a new      *)
(* object each time, and never with CREATE alone, wherever creates,        *)
(* rebuilds and writes died before.                                        *)
THEOREM WholeOpens ==
    ASSUME "reuse" \notin Allowed, "create_only" \notin Flags
    PROVE  Spec => OpensWhole
<1>1. NoReuse /\ Strict
  BY DEF NoReuse, Strict
<1>2. Good /\ Sound /\ [Next]_vars => Sound'
  BY <1>1, NextSound
<1> DEFINE Whole(f) == tip'.write <= disk'[f].n
<1>3. ASSUME Good, Sound, [Next]_vars, NEW p \in Procs, NEW f \in {"index", "log"},
             Opens(p), disk'["data"].hash # NoHash, disk'[f].hash # NoHash
      PROVE  Whole(f)
  <2>1. Good' /\ Types /\ disk \in Disks /\ Writer \in Procs
    BY <1>3, NextGood, WriterAssumption DEF Good, Types
  <2>6. Sound'
    BY <1>2, <1>3
  <2>2. PICK q \in Procs : Call(q) \/ Work(q) \/ Crash(q) \/ DiesWriting(q)
    BY <1>3 DEF Opens, Next, RemoveFiles, Lose, Foreign, vars
  <2>3. ASSUME NEW fl \in Flags, OpenExisting(q, fl)
        PROVE  Whole(f)
    <3>1. PICK o : o = Loaded(OpenFiles(obj[q], fl), disk)
      OBVIOUS
    <3>2. disk' = disk /\ tip' = tip /\ HashesAgree(o) /\ caller[q] = "new"
      BY <1>1, <2>3, <3>1 DEF OpenExisting, MayOpen, NoReuse
    <3>3. obj[q] = NewObject
      BY <1>1, <1>3, <2>1, <3>2 DEF Good, Reader, WriterGood, Session
    <3>4. Vouched
      BY <1>3, <3>1, <3>2, <3>3, NewObjectAgrees
    <3>5. disk[f].hash = disk["data"].hash
      BY <1>3, <3>2, AgreedMatch DEF Matches, InData, ReadHash
    <3> QED
      BY <1>3, <3>2, <3>4, <3>5 DEF Sound, Counts
  <2>4. ASSUME Work(q)
        PROVE  Whole(f)
    <3>1. q = Writer /\ ~Idle(Writer)
      BY <1>3, <2>4, Zenon DEF Good, Reader, Work, OpenStep, KeyStep, HashStep, ReplayStep,
         ReplayFails, FinishStep, AtStep
    <3>2. /\ Working /\ BusySound /\ caller[Writer] = "busy"
          /\ obj[Writer] \in Object
      BY <1>3, <2>1, <3>1 DEF Good, WriterGood, Sound, Types
    <3>3. PICK plan \in Seq(Step), k \in Nat :
             /\ AtPlan(job[Writer].steps, plan, k)
             /\ \/ k \in 1 .. 9 /\ plan = CreateSteps("standard") /\ Creating(k)
                \/ k \in 1 .. 10 /\ plan = RebuildSteps /\ Refilling(k)
      <4>1. CASE obj[Writer].mode = "standard"
        <5>1. \E k \in 1 .. 9 : Creating(k)
          BY <3>2, <4>1 DEF Working, Recreating, Rebuilding
        <5> QED
          BY <5>1, CreatePlan DEF Creating
      <4>2. CASE obj[Writer].mode # "standard"
        <5>1. \E k \in 1 .. 10 : Refilling(k)
          BY <3>1, <3>2, <4>2 DEF BusySound
        <5> QED
          BY <5>1, RebuildPlan DEF Refilling, Rebuilding
      <4> QED
        BY <4>1, <4>2
    <3>4. StepDone(Writer)
      BY <1>3, <2>1, <2>4, <3>1, Zenon
         DEF Work, OpenStep, KeyStep, HashStep, ReplayStep, ReplayFails, FinishStep,
             Opens, Types
    <3>5. p = Writer /\ k = Len(plan)
      BY <1>3, <2>1, <3>2, <3>3, <3>4, StepTaken DEF Opens
    <3>6. Head(job[Writer].steps) = plan[k]
      BY <2>1, <3>3, NextStep
    <3>7. CASE plan = CreateSteps("standard") /\ Creating(k)
      <4>1. k = 9
        BY <3>5, <3>7, CreatePlan
      <4>2. HashStep(Writer) /\ Head(job[Writer].steps).file = "state"
        <5>1. plan[9] = Do("hash", "state")
          BY <3>7, CreatePlan
        <5>2. PICK s : s = Head(job[Writer].steps)
          OBVIOUS
        <5>3. s.do = "hash" /\ s.file = "state"
          BY <3>6, <4>1, <5>1, <5>2 DEF Do
        <5>4. /\ ~AtStep(Writer, "open") /\ ~AtStep(Writer, "key")
              /\ ~AtStep(Writer, "replay") /\ ~AtStep(Writer, "finish")
          BY <5>2, <5>3 DEF AtStep
        <5>5. /\ ~OpenStep(Writer) /\ ~KeyStep(Writer) /\ ~ReplayStep(Writer)
              /\ ~ReplayFails(Writer) /\ ~FinishStep(Writer)
          BY <5>4 DEF OpenStep, KeyStep, ReplayStep, ReplayFails, FinishStep
        <5>6. HashStep(Writer)
          BY <2>4, <3>1, <5>5 DEF Work
        <5> QED
          BY <5>2, <5>3, <5>6
      <4>3. tip'.write = 0
        <5>1. disk["data"].n = 0
          BY <3>7 DEF Creating, File
        <5> QED
          BY <1>3, <4>2, <5>1 DEF HashStep, Sound, TipSound
      <4>4. disk'[f].n \in Nat
        BY <1>3, <2>1 DEF Good, Types, Disks, Content, File
      <4> QED
        BY <4>3, <4>4
    <3>8. CASE plan = RebuildSteps /\ Refilling(k)
      <4>1. k = 10
        BY <3>5, <3>8, RebuildPlan
      <4>2. FinishStep(Writer)
        <5>1. plan[10] = Do("finish", "state")
          BY <3>8, RebuildPlan
        <5>2. PICK s : s = Head(job[Writer].steps)
          OBVIOUS
        <5>3. s.do = "finish"
          BY <3>6, <4>1, <5>1, <5>2 DEF Do
        <5>4. /\ ~AtStep(Writer, "open") /\ ~AtStep(Writer, "key")
              /\ ~AtStep(Writer, "replay") /\ ~AtStep(Writer, "hash")
          BY <5>2, <5>3 DEF AtStep
        <5>5. /\ ~OpenStep(Writer) /\ ~KeyStep(Writer) /\ ~ReplayStep(Writer)
              /\ ~ReplayFails(Writer) /\ ~HashStep(Writer)
          BY <5>4, Zenon DEF OpenStep, KeyStep, ReplayStep, ReplayFails, HashStep
        <5> QED
          BY <2>4, <3>1, <5>5 DEF Work
      <4>3. PICK o : o = [obj[Writer] EXCEPT !.mode = "standard"]
        OBVIOUS
      <4>4. o \in Object /\ disk' = Saved(o, disk)
        BY <3>2, <4>2, <4>3 DEF FinishStep, Object
      <4>5. disk'[f] = disk[f] /\ tip' = tip
        <5>1. f \in File \ {"state"}
          BY <1>3 DEF File
        <5>2. Saved(o, disk)[f] = disk[f]
          BY <2>1, <4>4, <5>1, SavedState
        <5> QED
          BY <4>2, <4>4, <5>2 DEF FinishStep
      <4>6. tip.write <= disk[f].n
        BY <1>3, <3>8, <4>1 DEF Refilling
      <4> QED
        BY <4>5, <4>6
    <3> QED
      BY <3>3, <3>7, <3>8
  <2>5. ASSUME Call(q) \/ Crash(q) \/ DiesWriting(q),
               \A fl \in Flags : ~OpenExisting(q, fl)
        PROVE  FALSE
    <3>1. CASE Records(q) \/ DiesWriting(q)
      <4>1. PICK s : Recorded(q, s)
        BY <2>1, <3>1, Recording
      <4>2. \A r \in Procs : caller'[r] = caller[r] \/ caller'[r] = "new"
        BY <2>1, <4>1 DEF Recorded, Types
      <4> QED
        BY <1>3, <4>2 DEF Opens
    <3>2. CASE ~(Records(q) \/ DiesWriting(q))
      BY <1>3, <2>1, <2>5, <3>2
         DEF Call, Crash, Records, OpenRefused, OpenMismatch, Rebuild, OpenCreate,
             Read, Close, Delete, Opens, Types
    <3> QED
      BY <3>1, <3>2
  <2> QED
    BY <2>2, <2>3, <2>4, <2>5
<1>4. ASSUME Good, Sound, [Next]_vars
      PROVE  \A p \in Procs, f \in {"index", "log"} :
                Opens(p) /\ disk'["data"].hash # NoHash /\ disk'[f].hash # NoHash =>
                   disk'[f].n >= tip'.write
  <2> SUFFICES ASSUME NEW p \in Procs, NEW f \in {"index", "log"}, Opens(p),
                      disk'["data"].hash # NoHash, disk'[f].hash # NoHash
               PROVE  disk'[f].n >= tip'.write
    OBVIOUS
  <2>1. tip'.write <= disk'[f].n
    BY <1>3, <1>4
  <2>2. tip'.write \in Nat /\ disk'[f].n \in Nat
    BY <1>4, NextGood DEF Good, Types, Tips, Disks, Content, File
  <2> QED
    BY <2>1, <2>2
<1> QED
  BY <1>2, <1>4, InitGood, InitSound, NextGood, PTL DEF Spec, OpensWhole
=============================================================================
